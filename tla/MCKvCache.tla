---------------------------- MODULE MCKvCache ----------------------------
(* A small cache for TLC; the zero row is a row no token can have.         *)
EXTENDS KvCache

ZeroRow == <<0, 99>>
==========================================================================
