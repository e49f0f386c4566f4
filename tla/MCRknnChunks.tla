---------------------------- MODULE MCRknnChunks ----------------------------
(* Three layers.  Single layers and pairs, static and dynamic, tagged and  *)
(* not, overlapping, without buckets of their own but open to the default  *)
(* ones, or closed, and prefill chunks with and without layer_add inputs.  *)
EXTENDS RknnChunks

File(stage, first, last, class, bucket, name, add) ==
  [stage |-> stage, first |-> first, last |-> last, class |-> class, bucket |-> bucket,
   name |-> name, add |-> add, open |-> FALSE,
   buckets |-> IF stage = "prefill" THEN {}
               ELSE IF class = 0 THEN {bucket} ELSE IF class = 1 THEN {1, 3} ELSE {2}]

Shapeless(file, open) == [file EXCEPT !.buckets = {}, !.open = open]

MCFiles == {
  File("decode", 0, 0, 0, 1, 1, FALSE),
  File("decode", 0, 0, 0, 2, 2, FALSE),
  File("decode", 0, 1, 1, 0, 3, FALSE),
  Shapeless(File("decode", 1, 1, 2, 0, 4, FALSE), FALSE),
  Shapeless(File("decode", 1, 2, 1, 0, 5, FALSE), TRUE),
  File("decode", 2, 2, 0, 2, 6, FALSE),
  File("untagged", 0, 2, 2, 0, 7, FALSE),
  File("prefill", 0, 2, 0, 4, 8, TRUE),
  File("prefill", 0, 2, 1, 0, 9, FALSE),
  File("prefill", 0, 1, 0, 4, 10, TRUE),
  File("prefill", 2, 2, 0, 4, 11, TRUE)}
=============================================================================
