------------------------------ MODULE KvCache ------------------------------
(***************************************************************************)
(* The state one connection (or the master) keeps for a full-attention     *)
(* layer and for a linear-attention layer between two forward passes.      *)
(* Keys and values are one row per token; a row is the request and the     *)
(* position it was computed from.  The Llama blocks append a row per       *)
(* decoded token; the Qwen blocks write it into storage allocated once for *)
(* max_seq_len rows, of which attention sees a prefix.  Gated DeltaNet     *)
(* layers fold every token into a recurrent state, modelled as the         *)
(* sequence of the tokens folded in.                                       *)
(***************************************************************************)
EXTENDS Integers, Sequences

CONSTANTS
  MaxSeqLen,    \* config.max_seq_len, rows of the rotary table
  MaxRequests,  \* bound: requests served by this cache
  Zero          \* a row of Tensor::zeros

ASSUME SizeAssumption ==
  /\ MaxSeqLen \in Nat \ {0}
  /\ MaxRequests \in Nat

VARIABLES
  family,  \* decode path of the model: "append" (Llama) or "in_place" (Qwen)
  kvs,     \* entry of the full-attention layer; <<>> is None
  linear,  \* entry of the linear-attention layer; <<>> is None
  req,     \* number of the current request
  seen,    \* index_pos of the caller: tokens of the request seen so far
  live,    \* no forward pass of the request failed
  view,    \* rows the last attention saw
  delta    \* row the last NPU validation compared, <<>> before

vars == <<family, kvs, linear, req, seen, live, view, delta>>

Row == Nat \X Nat

Tokens(pos, n) == [i \in 1 .. n |-> <<req, pos + i - 1>>]

(* What a layer must have seen after n tokens of this request.             *)
Context(n) == [i \in 1 .. n |-> <<req, i - 1>>]

KeepLast(s, n) == IF Len(s) > n THEN SubSeq(s, Len(s) - n + 1, Len(s)) ELSE s

\* Variant: no special case for position 0.
process_kv_Appends(pos, rows) == KeepLast(kvs \o rows, MaxSeqLen)

process_kv(pos, rows) ==
  IF pos = 0 \/ kvs = <<>> THEN rows ELSE KeepLast(kvs \o rows, MaxSeqLen)

NeedsAlloc == Len(kvs) # MaxSeqLen

\* Variant: room for the row the next token will need.
Allocated_OneMore(pos) ==
  [i \in 1 .. MaxSeqLen + 1 |-> IF i <= Len(kvs) /\ i <= pos THEN kvs[i] ELSE Zero]

\* Variant: the old rows are not migrated.
Allocated_Fresh(pos) == [i \in 1 .. MaxSeqLen |-> Zero]

(* Fresh storage with the rows before position pos copied over.            *)
Allocated(pos) ==
  [i \in 1 .. MaxSeqLen |-> IF i <= Len(kvs) /\ i <= pos THEN kvs[i] ELSE Zero]

Storage(pos) == IF NeedsAlloc THEN Allocated(pos) ELSE kvs

(* slice_set of one row at dst_pos = index_pos (positions count from 0).   *)
Written(pos, row) == [Storage(pos) EXCEPT ![pos + 1] = row]

InPlace(pos, n) == family = "in_place" /\ n = 1 /\ pos > 0

Entry(pos, n) ==
  IF InPlace(pos, n) THEN Written(pos, <<req, pos>>) ELSE process_kv(pos, Tokens(pos, n))

(* Attention gets a narrowed view of the storage.                          *)
Narrowed(entry, pos, n) == IF InPlace(pos, n) THEN SubSeq(entry, 1, pos + 1) ELSE entry

(* recurrent_scan: the tokens are folded into the state in their order.    *)
Folded(recurrent, tokens) == recurrent \o tokens

\* Variant: the state of the last request is taken up again.
Recurrent_Keeps(pos, n) == Folded(linear, Tokens(pos, n))

(* The recurrent state at position 0 starts from zeros, the empty fold.    *)
Recurrent(pos, n) == Folded(IF pos = 0 THEN <<>> ELSE linear, Tokens(pos, n))

RopeOk(pos, n) == pos + n <= MaxSeqLen

(* Prefill (n tokens at position 0) or decode (one token): the mask is n   *)
(* by n, so more than one token goes through at position 0 only.           *)
Forward(n) ==
  /\ live /\ RopeOk(seen, n) /\ (seen = 0 \/ n = 1)
  /\ kvs' = Entry(seen, n)
  /\ view' = Narrowed(Entry(seen, n), seen, n)
  /\ linear' = Recurrent(seen, n)
  /\ seen' = seen + n
  /\ delta' = <<>>
  /\ UNCHANGED <<family, req, live>>

(* What an interrupted update may leave: nothing done, the entry taken     *)
(* out, the storage allocated, or the update done and a later step failed. *)
AfterFailure(n) ==
  {kvs} \cup (IF ~RopeOk(seen, n) THEN {}
              ELSE {Entry(seen, n)} \cup
                   (IF InPlace(seen, n) /\ NeedsAlloc THEN {<<>>, Allocated(seen)} ELSE {}))

ForwardFails(n) ==
  /\ live /\ (seen = 0 \/ n = 1)
  /\ kvs' \in AfterFailure(n)
  /\ linear' \in {linear, Recurrent(seen, n)}
  /\ live' = FALSE
  /\ delta' = <<>>
  /\ UNCHANGED <<family, req, seen, view>>

(* A master clears its cache (Cache::clear); the cache of a connection     *)
(* just meets position 0 again.                                            *)
NewRequest ==
  /\ req < MaxRequests
  /\ req' = req + 1
  /\ seen' = 0
  /\ live' = TRUE
  /\ \/ kvs' = <<>> /\ linear' = <<>>
     \/ UNCHANGED <<kvs, linear>>
  /\ delta' = <<>>
  /\ UNCHANGED <<family, view>>

(* validate_text_rknn_prefix_once decodes the next token on a clone of the *)
(* cache, which shares preallocated storage, and takes the last row of the *)
(* cloned entry for the row of that token.                                 *)
ReferenceDecode ==
  /\ live /\ family = "in_place" /\ seen > 0 /\ RopeOk(seen, 1)
  /\ LET entry == Written(seen, <<req, seen>>)
     IN  /\ delta' = entry[MaxSeqLen]
         /\ kvs' = IF NeedsAlloc THEN kvs ELSE entry
  /\ UNCHANGED <<family, linear, req, seen, live, view>>

Init ==
  /\ family \in {"append", "in_place"}
  /\ kvs = <<>> /\ linear = <<>> /\ view = <<>> /\ delta = <<>>
  /\ req = 0 /\ seen = 0 /\ live = FALSE

Next ==
  \/ \E n \in 1 .. MaxSeqLen + 1 : Forward(n) \/ ForwardFails(n)
  \/ NewRequest
  \/ ReferenceDecode

Spec == Init /\ [][Next]_vars

----------------------------------------------------------------------------
(* Types; no entry ever holds more than max_seq_len rows.                  *)
TypeOK ==
  /\ family \in {"append", "in_place"}
  /\ kvs \in Seq(Row \cup {Zero}) /\ Len(kvs) <= MaxSeqLen
  /\ linear \in Seq(Row)
  /\ req \in Nat
  /\ seen \in 0 .. MaxSeqLen
  /\ live \in BOOLEAN
  /\ view \in Seq(Row \cup {Zero})
  /\ delta \in Row \cup {Zero, <<>>}

(* Both decode paths let attention see exactly the tokens of the current   *)
(* request, in order, however the last requests ended: no zero padding, no *)
(* row of an earlier request, none missing after the migration to fixed    *)
(* storage (process_kv, process_kv_decode_in_place, FullAttention).        *)
ViewIsContext == live /\ seen > 0 => view = Context(seen)

(* The recurrent state of a linear layer has folded in the same tokens as  *)
(* the full-attention layers of the model see (GatedDeltaNet::forward).    *)
LayersAgree == live /\ seen > 0 => linear = view

(* The entry is exact, or it is full storage with an exact prefix; the     *)
(* validation on a clone never damages that prefix.                        *)
EntryOK ==
  live /\ seen > 0 =>
    /\ linear = Context(seen)
    /\ \/ kvs = Context(seen)
       \/ /\ family = "in_place" /\ Len(kvs) = MaxSeqLen
          /\ \A i \in 1 .. seen : kvs[i] = <<req, i - 1>>

(* What qwen3_vl.rs means by its last-token slice: the row compared with   *)
(* the row the NPU produced is the row of the token just decoded.          *)
DeltaIsLastToken == delta # <<>> => delta = <<req, seen>>
=============================================================================
