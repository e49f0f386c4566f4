----------------------------- MODULE RknnChunks -----------------------------
(***************************************************************************)
(* How a TextRknnRunner finds its chunk models.  A directory holds .rknn   *)
(* files, each for a range of layers, for decoding or for prefill, static  *)
(* (one bucket) or dynamic; a file may fail to load.  The runner takes     *)
(* chunks greedily from layer 0 on; what it cannot cover is left to the    *)
(* software path.  A failed validation drops the last chunk again.         *)
(***************************************************************************)
EXTENDS Integers, Sequences, SequencesExt, FiniteSetsExt

CONSTANTS
  NL,        \* num_hidden_layers
  Files,     \* [stage, first, last, class, bucket, name, buckets, open, add]
  Defaults,  \* DIAL_TEXT_DECODE_PAST_BUCKETS, or DEFAULT_DECODE_BUCKETS
  MaxUsize,  \* the largest bucket there can be
  MaxFiles   \* bound: files in a directory

ASSUME ChunkAssumption ==
  /\ NL \in Nat \ {0} /\ MaxUsize \in Nat /\ MaxFiles \in Nat
  /\ Defaults \subseteq 1 .. MaxUsize /\ Defaults # {}
  /\ \A f \in Files : /\ f.stage \in {"decode", "prefill", "untagged"}
                      /\ f.first \in 0 .. f.last /\ f.last \in 0 .. NL - 1
                      /\ f.class \in 0 .. 2 /\ f.bucket \in 0 .. MaxUsize /\ f.name \in Nat
                      /\ f.buckets \subseteq 1 .. MaxUsize /\ f.open \in BOOLEAN

VARIABLES
  dir, bad,   \* the files there are, those of them that do not load
  pc,         \* "pick", "try", "prefill", "prefilltry", "ready", "failed"
  expected,   \* next layer to cover
  left,       \* decode files of ranges that were not picked yet
  cands,      \* candidates left for the range being loaded
  chunks,     \* decode chunks, in order
  prefill,    \* prefill chunks, in order
  maxBucket   \* max_supported_bucket

vars == <<dir, bad, pc, expected, left, cands, chunks, prefill, maxBucket>>

(* chunk_candidate_sort_key: static before dynamic before unmarked, a      *)
(* larger static bucket first, then the name.                              *)
Better(f, g) ==
  \/ f.class < g.class
  \/ f.class = g.class /\ f.class = 0 /\ f.bucket > g.bucket
  \/ /\ f.class = g.class /\ (f.class = 0 => f.bucket = g.bucket)
     /\ f.name < g.name

\* Variant: candidates in the order of their names.
Foremost_ByName(f, S) == f \in S /\ \A g \in S : f = g \/ f.name < g.name

(* The paths of a range are tried in the order of their keys.              *)
Foremost(f, S) == f \in S /\ \A g \in S : f = g \/ Better(f, g)
SameRange(S, f) == {g \in S : g.first = f.first /\ g.last = f.last}

(* The key by which a range is picked has its length before the name.      *)
RangeBetter(f, g) ==
  \/ f.class < g.class
  \/ f.class = g.class /\ f.class = 0 /\ f.bucket > g.bucket
  \/ /\ f.class = g.class /\ (f.class = 0 => f.bucket = g.bucket)
     /\ \/ f.last < g.last
        \/ f.last = g.last /\ f.name < g.name

Candidates(stage) == {f \in dir : f.stage = stage}
DecodeFiles == IF Candidates("decode") # {} THEN Candidates("decode") ELSE Candidates("untagged")

(* The buckets a chunk can run with.  A file whose cache inputs name none  *)
(* takes the defaults if it is open to any shape, otherwise nothing fits.  *)
Serves(c) ==
  CASE c.buckets # {} -> c.buckets
    [] c.buckets = {} /\ c.open -> Defaults
    [] OTHER -> {}

MaxBucketOf(cs) == Max({0} \cup UNION {Serves(cs[i]) : i \in DOMAIN cs})

(* select_decode_bucket, then the check of run_chunk.                      *)
Bucket(c, past) ==
  IF Serves(c) = {} THEN 0
  ELSE IF \E b \in Serves(c) : b >= past THEN Min({b \in Serves(c) : b >= past})
       ELSE Max(Serves(c))
Runs(c, past) == Bucket(c, past) >= past

(* What validate_chunk_coverage accepts for the ranges of a set of files.  *)
Starts(S) == {f.first : f \in S}
CoversAll(S) ==
  /\ \A f, g \in S : f.first = g.first => f.last = g.last
  /\ 0 \in Starts(S)
  /\ \A f \in S : (f.last + 1 = NL) \/ (f.last + 1 \in Starts(S))
  /\ \A f, g \in S : f.first < g.first => f.last < g.first

---------------------------------------------------------------------------
Init ==
  /\ dir \in {D \in SUBSET Files : Cardinality(D) <= MaxFiles}
  /\ bad \in SUBSET dir
  /\ pc = (IF DecodeFiles = {} THEN "failed" ELSE "pick")
  /\ expected = 0 /\ left = DecodeFiles /\ cands = {}
  /\ chunks = <<>> /\ prefill = <<>> /\ maxBucket = 0

(* The best range that starts at the next layer.                           *)
PickRange ==
  /\ pc = "pick" /\ expected < NL
  /\ \E f \in left :
       /\ f.first = expected
       /\ \A g \in left : g.first = expected => f = g \/ RangeBetter(f, g)
       /\ cands' = SameRange(left, f)
       /\ left' = left \ SameRange(left, f)
  /\ pc' = "try"
  /\ UNCHANGED <<dir, bad, expected, chunks, prefill, maxBucket>>

(* A chunk whose cache inputs have a data type that is not supported fails *)
(* the whole load.                                                         *)
DecodeDone ==
  /\ maxBucket' = MaxBucketOf(chunks)
  /\ pc' \in IF chunks = <<>> THEN {"failed"} ELSE {"prefill", "failed"}
  /\ UNCHANGED <<dir, bad, expected, left, cands, chunks, prefill>>

StopAtGap ==
  /\ pc = "pick"
  /\ expected >= NL \/ \A f \in left : f.first # expected
  /\ DecodeDone

\* Variant: the end of the range is taken for its length.
Loaded_Adds(f) == chunks' = Append(chunks, f) /\ expected' = expected + f.last + 1

Loaded(f) == chunks' = Append(chunks, f) /\ expected' = f.last + 1

LoadCandidate ==
  /\ pc = "try"
  /\ \E f \in cands \ bad : Foremost(f, cands) /\ Loaded(f)
  /\ cands' = {} /\ pc' = "pick"
  /\ UNCHANGED <<dir, bad, left, prefill, maxBucket>>

CandidateFails ==
  /\ pc = "try"
  /\ \E f \in cands \cap bad : Foremost(f, cands) /\ cands' = cands \ {f}
  /\ UNCHANGED <<dir, bad, pc, expected, left, chunks, prefill, maxBucket>>

AllCandidatesFail ==
  /\ pc = "try" /\ cands = {}
  /\ DecodeDone

(* load_prefill_chunks: every layer exactly once, or no prefill at all.    *)
\* Variant: the coverage of the prefill chunks is not validated.
StartPrefill_AnyCoverage ==
  LET P == Candidates("prefill") IN
  /\ pc = "prefill"
  /\ left' = P
  /\ pc' = IF P = {} THEN "ready" ELSE "prefilltry"
  /\ cands' = {}
  /\ UNCHANGED <<dir, bad, expected, chunks, prefill, maxBucket>>

StartPrefill ==
  LET P == Candidates("prefill")  ok == CoversAll(P) IN
  /\ pc = "prefill"
  /\ left' = IF ok THEN P ELSE {}
  /\ pc' = IF P = {} \/ ~ok THEN "ready" ELSE "prefilltry"
  /\ cands' = {}
  /\ UNCHANGED <<dir, bad, expected, chunks, prefill, maxBucket>>

(* Ranges are loaded in order; the first candidate of a range that loads   *)
(* is taken, and a range without one gives up prefill.                     *)
LoadPrefill ==
  /\ pc = "prefilltry"
  /\ \E f \in left :
       LET here == SameRange(left, f)  good == here \ bad IN
       /\ \A g \in left \ here :
            f.first < g.first \/ (f.first = g.first /\ f.last < g.last)
       /\ \/ good = {} /\ prefill' = <<>> /\ left' = {}
          \/ \E g \in good : /\ Foremost(g, good)
                             /\ prefill' = Append(prefill, g) /\ left' = left \ here
  /\ pc' = IF left' = {} THEN "ready" ELSE pc
  /\ UNCHANGED <<dir, bad, expected, cands, chunks, maxBucket>>

(* shrink_last_chunk, called while can_shrink_decode_coverage.             *)
\* Variant: the bound on the position is not computed again.
ShrinkLastChunk_StaleBound ==
  /\ pc = "ready" /\ Len(chunks) > 1
  /\ chunks' = Front(chunks)
  /\ UNCHANGED <<dir, bad, pc, expected, left, cands, prefill, maxBucket>>

ShrinkLastChunk ==
  /\ pc = "ready" /\ Len(chunks) > 1
  /\ chunks' = Front(chunks)
  /\ maxBucket' = MaxBucketOf(Front(chunks))
  /\ UNCHANGED <<dir, bad, pc, expected, left, cands, prefill>>

Next ==
  \/ PickRange \/ StopAtGap \/ LoadCandidate \/ CandidateFails \/ AllCandidatesFail
  \/ StartPrefill \/ LoadPrefill \/ ShrinkLastChunk

Spec == Init /\ [][Next]_vars

---------------------------------------------------------------------------
(* Properties                                                              *)

TypeOK ==
  /\ bad \subseteq dir /\ dir \subseteq Files
  /\ pc \in {"pick", "try", "prefill", "prefilltry", "ready", "failed"}
  /\ expected \in 0 .. NL /\ left \subseteq dir
  /\ chunks \in Seq(Files) /\ prefill \in Seq(Files) /\ maxBucket \in Nat

Contiguous(cs) ==
  \A i \in DOMAIN cs :
    cs[i].first = (IF i = 1 THEN 0 ELSE cs[i - 1].last + 1) /\ cs[i] \notin bad

(* Whatever files there are and whichever fail to load, the decode chunks  *)
(* cover a prefix of the layers once and in order, all prefill chunks      *)
(* together cover every layer once, and a runner has at least one chunk,   *)
(* so that the software path can go on from decode_last_layer + 1.         *)
Coverage ==
  /\ Contiguous(chunks) /\ Contiguous(prefill)
  /\ pc = "ready" => /\ chunks # <<>>
                     /\ prefill # <<>> => prefill[Len(prefill)].last = NL - 1

(* A file that ranks before a loaded chunk and starts at the same layer    *)
(* was passed over only because it, or the file its range had to yield to, *)
(* did not load.                                                           *)
NoBetterFile ==
  \A i \in DOMAIN chunks : \A f \in dir :
    (f.stage = chunks[i].stage /\ f.first = chunks[i].first /\ RangeBetter(f, chunks[i]))
      => IF f.last = chunks[i].last THEN f \in bad
         ELSE \E g \in bad : /\ g.first = f.first /\ g.last = chunks[i].last
                             /\ RangeBetter(g, f)

(* max_supported_bucket is the limit of the chunks that are left, also     *)
(* after a failed validation dropped some: no position that some chunk     *)
(* could serve is refused, and beyond it no chunk can serve a position.    *)
BoundIsOfTheseChunks ==
  pc = "ready" =>
    \A past \in 1 .. maxBucket + 1 :
      past <= maxBucket <=> \E i \in DOMAIN chunks : Runs(chunks[i], past)
=============================================================================
