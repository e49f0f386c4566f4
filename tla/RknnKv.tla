------------------------------ MODULE RknnKv -------------------------------
(***************************************************************************)
(* The keys (values take the same code) a TextRknnRunner keeps for the     *)
(* layers of one decode chunk.  Every layer has its rows in cache layout   *)
(* (head, position, dim) and, once it ran, a copy padded to the bucket     *)
(* length in the layout of the NPU tensor, which is patched in place after *)
(* every token and only rebuilt when the bucket changes.  A buffer is the  *)
(* flat sequence of its cells; a cell is the head, the position and the    *)
(* dimension it was computed for.                                          *)
(***************************************************************************)
EXTENDS Integers, Sequences, FiniteSetsExt

CONSTANTS
  Heads, Dim,    \* num_key_value_heads, head_dim
  Layers,        \* layers of the chunk, 1 .. n; the first names past_len
  Buckets,       \* supported_buckets of the chunk
  Formats,       \* tensor formats of the chunk's inputs and outputs
  LongPresents,  \* the chunk may return more rows than past_len + 1
  MaxLen         \* bound: rows of a layer

ASSUME ShapeAssumption ==
  /\ Heads \in Nat \ {0} /\ Dim \in Nat \ {0} /\ Heads # Dim /\ Layers \in Nat \ {0}
  /\ Buckets \subseteq Nat /\ MaxLen \in Nat
  /\ Formats \subseteq {"NHWC", "NCHW"} /\ LongPresents \in BOOLEAN

VARIABLES
  format,  \* format of past_k in the loaded chunk
  kv,      \* layer -> [past, k, bucket, native]; k = <<>> is no entry
  ok,      \* no update stopped half way since the entries were filled
  fed      \* layer -> [past, bucket, buf] the last run was given

vars == <<format, kv, ok, fed>>

Zero == <<>>
Cell(h, s, d) == <<h, s, d>>

HeadOf(i, seq) == ((i - 1) \div Dim) \div seq
PosOf(i, seq) == ((i - 1) \div Dim) % seq
DimOf(i) == (i - 1) % Dim
CacheIdx(h, s, d, seq) == (h * seq + s) * Dim + d + 1
NhwcIdx(h, s, d) == (s * Dim + d) * Heads + h + 1

(* Rows first .. first + n - 1 in cache layout, as they ought to be.       *)
Rows(first, n) ==
  [i \in 1 .. Heads * n * Dim |-> Cell(HeadOf(i, n), first + PosOf(i, n), DimOf(i))]

Pad(k, past, bucket) ==
  IF bucket <= past THEN k
  ELSE [i \in 1 .. Heads * bucket * Dim |->
          IF PosOf(i, bucket) < past
          THEN k[CacheIdx(HeadOf(i, bucket), PosOf(i, bucket), DimOf(i), past)]
          ELSE Zero]

\* Variant: the position and the dimension change places.
ToNative_Swapped(data, seq, fmt) ==
  IF fmt # "NHWC" THEN data
  ELSE [i \in 1 .. Len(data) |->
          LET h == (i - 1) % Heads  d == ((i - 1) \div Heads) \div seq
              s == ((i - 1) \div Heads) % seq
          IN  data[CacheIdx(h, s, d, seq)]]

ToNative(data, seq, fmt) ==
  IF fmt # "NHWC" THEN data
  ELSE [i \in 1 .. Len(data) |->
          LET h == (i - 1) % Heads  d == ((i - 1) \div Heads) % Dim
              s == ((i - 1) \div Heads) \div Dim
          IN  data[CacheIdx(h, s, d, seq)]]

FromNative(data, seq, fmt) ==
  IF fmt # "NHWC" THEN data
  ELSE [i \in 1 .. Len(data) |-> data[NhwcIdx(HeadOf(i, seq), PosOf(i, seq), DimOf(i))]]

(* infer_output_kv_layout: the shape of an output tells its layout, and    *)
(* its format only where the shape is neither.                             *)
Shape(seq, fmt) == IF fmt = "NHWC" THEN <<seq, Dim, Heads>> ELSE <<Heads, seq, Dim>>
OutputLayout(dims, fmt) ==
  IF dims[2] = Dim /\ dims[3] = Heads THEN "NHWC"
  ELSE IF dims[1] = Heads /\ dims[3] = Dim THEN "NCHW" ELSE fmt
TakenOver(data, seq, fmt) == FromNative(data, seq, OutputLayout(Shape(seq, fmt), fmt))

(* The first n of seq rows of every head.                                  *)
Truncated(data, seq, n) ==
  [i \in 1 .. Heads * n * Dim |-> data[CacheIdx(HeadOf(i, n), PosOf(i, n), DimOf(i), seq)]]

WriteRow(buf, row, pos, bucket, fmt) ==
  [i \in 1 .. Len(buf) |->
     IF fmt = "NHWC"
     THEN IF ((i - 1) \div Heads) \div Dim = pos
          THEN row[((i - 1) % Heads) * Dim + (((i - 1) \div Heads) % Dim) + 1] ELSE buf[i]
     ELSE IF PosOf(i, bucket) = pos THEN row[HeadOf(i, bucket) * Dim + DimOf(i) + 1] ELSE buf[i]]

AppendRow(k, past, row) ==
  [i \in 1 .. Heads * (past + 1) * Dim |->
     LET h == HeadOf(i, past + 1)  s == PosOf(i, past + 1)
     IN  IF s < past THEN k[CacheIdx(h, s, DimOf(i), past)] ELSE row[h * Dim + DimOf(i) + 1]]

None == [past |-> 0, k |-> <<>>, bucket |-> 0, native |-> <<>>]
NotRun == [l \in 1 .. Layers |-> [past |-> 0, bucket |-> 0, buf |-> <<>>]]
Filled(n, k) == [past |-> n, k |-> k, bucket |-> 0, native |-> <<>>]

EnsureNative(e, bucket) ==
  IF e.native # <<>> /\ e.bucket = bucket THEN e
  ELSE [e EXCEPT !.bucket = bucket, !.native = ToNative(Pad(e.k, e.past, bucket), bucket, format)]

\* Variant: past_len does not move.
Appended_NoCount(e, row) == [e EXCEPT !.k = AppendRow(e.k, e.past, row)]

\* Variant: the native copy is left as it was.
Appended_NoPatch(e, row) == [e EXCEPT !.past = @ + 1, !.k = AppendRow(e.k, e.past, row)]

(* append_cache_layout_delta: one row into both copies.                    *)
Appended(e, row) ==
  LET grown == [e EXCEPT !.past = @ + 1, !.k = AppendRow(e.k, e.past, row)]
  IN  IF e.native = <<>> THEN grown
      ELSE IF e.past < e.bucket
      THEN [grown EXCEPT !.native = WriteRow(e.native, row, e.past, e.bucket, format)]
      ELSE [grown EXCEPT !.bucket = 0, !.native = <<>>]

(* replace_cache_layout_full: a prefix of the flat buffer, per-head stride *)
(* or not, and a rebuilt native copy; a bucket that no longer holds the    *)
(* rows leaves a native copy nobody reads (the next bucket is another).    *)
Replaced(e, present, n) ==
  LET k == SubSeq(present, 1, Heads * n * Dim)
  IN  IF e.native = <<>> \/ n > e.bucket THEN Filled(n, k)
      ELSE [e EXCEPT !.past = n, !.k = k,
                     !.native = ToNative(Pad(k, n, e.bucket), e.bucket, format)]

(* select_decode_bucket: the first bucket that holds the rows, or the      *)
(* largest there is.                                                       *)
SelectBucket(past) ==
  LET required == IF past > 1 THEN past ELSE 1
      fit == {b \in Buckets : b >= required}
  IN  IF Buckets = {} THEN required ELSE IF fit # {} THEN Min(fit) ELSE Max(Buckets)

RunPast == kv[1].past

(* The present keys of one layer, as the NPU returns them: the row of the  *)
(* new token alone, or the rows of e, that row and padding up to seq rows. *)
PresentRow(fmt) == ToNative(Rows(RunPast, 1), 1, fmt)
PresentFull(e, seq, fmt) == ToNative(Pad(AppendRow(e.k, e.past, Rows(RunPast, 1)), e.past + 1, seq), seq, fmt)

Updated(e, kind, seq, fmt) ==
  IF kind = "delta" THEN Appended(e, TakenOver(PresentRow(fmt), 1, fmt))
  ELSE Replaced(e, TakenOver(PresentFull(e, seq, fmt), seq, fmt), e.past + 1)

Ready == \A l \in 1 .. Layers : kv[l].k # <<>>
Prepared(bucket) == [l \in 1 .. Layers |-> EnsureNative(kv[l], bucket)]

(* run_chunk: past_len of the first layer picks the bucket for all; the    *)
(* present rows of the layers are taken over one by one, and a layer whose *)
(* output does not fit ends the run between two layers.                    *)
RunChunk(kind, seq, fmt, done) ==
  LET bucket == SelectBucket(RunPast)  given == Prepared(bucket)
  IN  /\ Ready /\ RunPast < MaxLen /\ bucket >= RunPast
      /\ kind = "delta" => seq = 1
      /\ kind = "full" => seq >= RunPast + 1 /\ (seq = RunPast + 1 \/ LongPresents)
      /\ kv' = [l \in 1 .. Layers |-> IF l <= done THEN Updated(given[l], kind, seq, fmt) ELSE given[l]]
      /\ fed' = [l \in 1 .. Layers |->
                   [past |-> RunPast, bucket |-> bucket, buf |-> given[l].native]]
      /\ ok' = (ok /\ done = Layers)
      /\ UNCHANGED format

(* set_inputs, run or get_outputs fail: only the native copies moved.      *)
RunFails ==
  /\ Ready
  /\ LET bucket == SelectBucket(RunPast)
     IN  kv' = IF bucket < RunPast THEN kv ELSE Prepared(bucket)
  /\ UNCHANGED <<format, ok, fed>>

\* Variant: an entry is filled only where none was.
FillFrom_Once(n, k) == [l \in 1 .. Layers |-> IF kv[l].k = <<>> THEN Filled(n, k) ELSE kv[l]]

FillFrom(n, k) == [l \in 1 .. Layers |-> Filled(n, k)]

(* sync_from_cache: the rows of the software cache.                        *)
SyncFromCache(n) ==
  /\ kv' = FillFrom(n, Rows(0, n)) /\ ok' = TRUE
  /\ fed' = NotRun /\ UNCHANGED format

(* forward_prefill: seq rows per head come back, the first n are kept.     *)
Prefill(n, seq, fmt) ==
  /\ seq >= n
  /\ kv' = FillFrom(n, Truncated(TakenOver(ToNative(Pad(Rows(0, n), n, seq), seq, fmt), seq, fmt), seq, n))
  /\ ok' = TRUE
  /\ fed' = NotRun /\ UNCHANGED format

(* TextRknnRunner::clear, and the layers shrink_last_chunk cuts off.       *)
Clear ==
  /\ kv' = [l \in 1 .. Layers |-> None] /\ ok' = TRUE
  /\ fed' = NotRun /\ UNCHANGED format

Init ==
  /\ format \in Formats
  /\ kv = [l \in 1 .. Layers |-> None]
  /\ ok = TRUE
  /\ fed = NotRun

Next ==
  \/ \E kind \in {"delta", "full"}, seq \in 1 .. MaxLen + 1, fmt \in Formats, done \in 0 .. Layers :
       RunChunk(kind, seq, fmt, done)
  \/ RunFails
  \/ \E n \in 1 .. MaxLen : SyncFromCache(n) \/ \E seq \in n .. MaxLen, fmt \in Formats : Prefill(n, seq, fmt)
  \/ Clear

Spec == Init /\ [][Next]_vars

----------------------------------------------------------------------------
(* Every layer has as many cells as it says it has rows.                   *)
TypeOK ==
  /\ format \in Formats /\ ok \in BOOLEAN
  /\ \A l \in 1 .. Layers :
       /\ kv[l].past \in 0 .. MaxLen
       /\ Len(kv[l].k) = Heads * kv[l].past * Dim
       /\ kv[l].native # <<>> => Len(kv[l].native) = Heads * kv[l].bucket * Dim

(* The tensor the NPU reads as past keys is the context in its own layout, *)
(* each position of each head at its place and zeros behind the context,   *)
(* whether it was built for this bucket, patched row by row, replaced or   *)
(* rebuilt for the next bucket (ensure_native_buffers,                     *)
(* append_cache_layout_delta, replace_cache_layout_full).                  *)
FedExact ==
  ok => \A l \in 1 .. Layers, h \in 0 .. Heads - 1, d \in 0 .. Dim - 1 :
    \A s \in 0 .. fed[l].bucket - 1 :
      fed[l].buf[IF format = "NHWC" THEN NhwcIdx(h, s, d) ELSE CacheIdx(h, s, d, fed[l].bucket)]
        = IF s < fed[l].past THEN Cell(h, s, d) ELSE Zero

(* What sync_to_cache hands back to the software blocks, and what the next *)
(* native copy is built from, are the rows of the context.                 *)
RowsExact == ok => \A l \in 1 .. Layers : kv[l].k = Rows(0, kv[l].past)

(* run_chunk takes past_len of the chunk's first layer for all its layers: *)
(* they differ only after an update that stopped between two layers, and   *)
(* clear, sync_from_cache and forward_prefill all end that state.          *)
LayersInStep == ok => \A l \in 1 .. Layers : kv[l].past = RunPast
============================================================================
