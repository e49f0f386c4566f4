----------------------------- MODULE TextDecode -----------------------------
(***************************************************************************)
(* Where Qwen3Vl computes a token.  A layer may run in software on the     *)
(* master, on a worker, on a shadow worker that prefills in its place, or  *)
(* in a chunk of the NPU runner; each of these keeps its own rows.  The    *)
(* model follows forward_embeds as it chooses between them, validates the  *)
(* NPU once per dialog, falls back, and hands rows over.                   *)
(*                                                                         *)
(* The rows of a layer are [len, good]: how many there are and how many of *)
(* the first are the right ones for the current dialog.  A hidden state is *)
(* right (clean) or not, and has passed `depth' layers.                    *)
(***************************************************************************)
EXTENDS Integers, Sequences, FiniteSets, FiniteSetsExt

CONSTANTS
  NL,           \* num_hidden_layers
  MaxSeq,       \* max_seq_len
  MaxBucket,    \* largest bucket of every decode chunk
  MinHeadroom,  \* TEXT_RKNN_MIN_HEADROOM
  Deployments,  \* see DeploymentOK
  Faults,       \* what may fail: "load", "validate", "npu", "layer"
  MaxRequests, SampleLen   \* bounds

DeploymentOK(d) ==
  /\ d.mode \in {"auto", "full-npu", "npu-cpu", "cpu-only"}   \* text_decode_mode
  /\ d.prefillArg \in BOOLEAN                        \* --text-rknn-prefill
  /\ d.ends \in Seq(0 .. NL - 1)                     \* last layers of the decode chunks,
  /\ \A a, b \in DOMAIN d.ends : a < b => d.ends[a] < d.ends[b]   \* which follow each other
  /\ d.broken \subseteq DOMAIN d.ends                \* chunks with wrong results
  /\ d.prefill \in {"none", "plain", "deepstack"}    \* kind of prefill chunks
  /\ d.adds \in 0 .. NL                              \* layers with deepstack additions
  /\ d.local \subseteq 0 .. NL - 1                   \* layers without a worker
  /\ d.shadow \in BOOLEAN /\ d.promote \in BOOLEAN   \* QWEN3VL_SHADOW_PREFILL..
  /\ d.output \in {"hidden", "logits", "token"}      \* what the last worker returns

ASSUME DecodeAssumption ==
  /\ NL \in Nat \ {0} /\ MaxSeq \in Nat \ {0} /\ MaxBucket \in Nat /\ MinHeadroom \in Nat
  /\ MaxRequests \in Nat /\ SampleLen \in Nat \ {0} /\ SampleLen + 2 <= MaxSeq + 1
  /\ \A d \in Deployments : DeploymentOK(d)

VARIABLES
  dep,
  pc,         \* "idle", "next", "route", "validate", "decode", "prefill", "blocks", "sample"
  req, generated, index, n,    \* index_pos, tokens in this pass
  x,          \* [clean, depth, kind]
  headless,   \* the pass ends with ln_f only
  soft, far,  \* rows of the master's cache, of the worker that serves the layer
  npu,        \* the runner: [on, kept, synced, kv]
  disabledForDialog, disabledForRuntime, validated, validatedKept,
  forceShadow, head,
  answer,     \* what the tokens were sampled from: "hidden" stays for the dialog
  refused,    \* the last request ended with an error
  faulty      \* something failed in this process

vars == <<dep, pc, req, generated, index, n, x, headless, soft, far, npu, disabledForDialog,
          disabledForRuntime, validated, validatedKept, forceShadow, head, answer, refused,
          faulty>>
flags == <<disabledForDialog, disabledForRuntime, validated, validatedKept>>
request == <<dep, req, generated, index, n>>

Layers == 0 .. NL - 1
None == [len |-> 0, good |-> 0]
Empty == [l \in Layers |-> None]
Runner(kept) == [on |-> TRUE, kept |-> kept, synced |-> FALSE, kv |-> Empty]
Off == [on |-> FALSE, kept |-> 0, synced |-> FALSE, kv |-> Empty]

MinOf(a, b) == IF a < b THEN a ELSE b

(* A pass writes rows p .. p + m - 1.  At 0 it replaces the entry; one     *)
(* token later on is written into storage of MaxSeq rows.                  *)
Fed(e, p, m, clean) ==
  IF p = 0 THEN [len |-> m, good |-> IF clean THEN m ELSE 0]
  ELSE [len |-> MaxSeq,
        good |-> IF clean /\ e.good >= p THEN (IF e.good > p THEN e.good ELSE p + 1)
                 ELSE MinOf(e.good, p)]
Sees(e, p, clean) == clean /\ (p = 0 \/ e.good >= p)

FirstOf(c) == IF c = 1 THEN 0 ELSE dep.ends[c - 1] + 1
LayersOf(c) == FirstOf(c) .. dep.ends[c]
LastLayer(kept) == dep.ends[kept]
CoversAll(kept) == LastLayer(kept) = NL - 1

AllowsDecode == dep.mode # "cpu-only"
NeedsRuntime == dep.prefillArg \/ AllowsDecode
AllowsPartial == dep.mode \in {"auto", "npu-cpu"}
SupportsDeepstack == dep.prefill = "deepstack"

(* A runner is kept with partial coverage unless decoding needs all of it. *)
Usable(kept) ==
  CoversAll(kept) \/ (~AllowsDecode /\ dep.prefillArg) \/ AllowsPartial

(* sync_to_cache: the layers the runner has rows for.                      *)
\* Variant: the rows are not handed over.
SyncedSoft_Skipped(r) == soft

SyncedSoft(r) == [l \in Layers |-> IF r.on /\ r.kv[l].len > 0 THEN r.kv[l] ELSE soft[l]]

Init ==
  /\ dep \in Deployments
  /\ pc = "idle" /\ req = 0 /\ generated = 0 /\ index = 0 /\ n = 0
  /\ x = [clean |-> TRUE, depth |-> 0, kind |-> "hidden"] /\ headless = FALSE
  /\ soft = Empty /\ far = Empty
  /\ npu = (IF NeedsRuntime /\ dep.ends # <<>> /\ Usable(Len(dep.ends))
            THEN Runner(Len(dep.ends)) ELSE Off)
  /\ disabledForRuntime = (NeedsRuntime /\ dep.ends # <<>> /\ ~Usable(Len(dep.ends)))
  /\ disabledForDialog = FALSE /\ validated = FALSE /\ validatedKept = 0
  /\ forceShadow = FALSE /\ head = TRUE /\ answer = "none" /\ refused = FALSE
  /\ faulty = FALSE

---------------------------------------------------------------------------
(* Requests *)

(* TextRknnRunner::clear.                                                  *)
\* Variant: the rows of the last dialog stay in the runner.
Cleared_KeepsRows(r) == [r EXCEPT !.kv = [l \in Layers |-> [@[l] EXCEPT !.good = 0]]]

Cleared(r) == IF r.on THEN Runner(r.kept) ELSE r

(* Rows of workers stay, but they are no rows of the new dialog.           *)
Reset ==
  /\ pc = "idle" /\ req < MaxRequests
  /\ req' = req + 1 /\ pc' = "next" /\ generated' = 0 /\ index' = 0 /\ n' = 0
  /\ soft' = Empty
  /\ npu' = Cleared(npu)
  /\ disabledForDialog' = FALSE /\ validated' = FALSE /\ validatedKept' = 0
  /\ forceShadow' = FALSE /\ answer' = "none" /\ refused' = FALSE
  /\ far' = [l \in Layers |-> [far[l] EXCEPT !.good = 0]]
  /\ UNCHANGED <<dep, x, headless, head, disabledForRuntime, faulty>>

Embedded == [clean |-> TRUE, depth |-> 0, kind |-> "hidden"]

(* The first token: start_dialog_prompt, then a pass over the prompt.      *)
StartPrompt ==
  /\ pc = "next" /\ generated = 0
  /\ soft' = Empty /\ disabledForDialog' = FALSE /\ validated' = FALSE
  /\ validatedKept' = 0 /\ forceShadow' = FALSE /\ index' = 0
  /\ n' \in 1 .. (MaxSeq + 1 - SampleLen)
  /\ x' = Embedded /\ headless' = FALSE /\ pc' = "route"
  /\ UNCHANGED <<dep, req, generated, far, npu, disabledForRuntime, head, answer, refused, faulty>>

NextToken ==
  /\ pc = "next" /\ generated \in 1 .. SampleLen - 1
  /\ n' = 1 /\ x' = Embedded /\ headless' = FALSE /\ pc' = "route"
  /\ UNCHANGED <<dep, req, generated, index, soft, far, npu, flags, forceShadow, head, answer,
                 refused, faulty>>

(* The end of stream token or the last one asked for.                      *)
Stop ==
  /\ pc = "next" /\ generated > 0 /\ pc' = "idle"
  /\ UNCHANGED <<request, x, headless, soft, far, npu, flags, forceShadow, head, answer,
                 refused, faulty>>

Refuse == pc' = "idle" /\ refused' = TRUE

---------------------------------------------------------------------------
(* forward_embeds: which path                                              *)

DecodeEligible == AllowsDecode /\ n = 1 /\ index > 0

(* ensure_text_rknn_loaded has something to do.                            *)
\* Variant: only the flag of the dialog is looked at.
MustLoad_NextDialog ==
  /\ DecodeEligible \/ (index = 0 /\ dep.prefillArg)
  /\ NeedsRuntime /\ ~disabledForDialog /\ ~npu.on
  /\ dep.ends # <<>>

MustLoad ==
  /\ DecodeEligible \/ (index = 0 /\ dep.prefillArg)
  /\ NeedsRuntime /\ ~disabledForRuntime /\ ~disabledForDialog /\ ~npu.on
  /\ dep.ends # <<>>

Kept == IF validatedKept > 0 THEN validatedKept ELSE Len(dep.ends)

(* The runner is loaded and limited to the chunks that were validated.     *)
\* Variant: the limit is forgotten.
Reload_Full(kept) ==
  IF Usable(Len(dep.ends))
  THEN npu' = Runner(Len(dep.ends)) /\ UNCHANGED <<disabledForDialog, disabledForRuntime>>
  ELSE npu' = Off /\ disabledForDialog' = TRUE /\ disabledForRuntime' = TRUE

Reload(kept) ==
  IF Usable(kept)
  THEN npu' = Runner(kept) /\ UNCHANGED <<disabledForDialog, disabledForRuntime>>
  ELSE npu' = Off /\ disabledForDialog' = TRUE /\ disabledForRuntime' = TRUE

LoadRunner ==
  /\ pc = "route" /\ MustLoad
  /\ Reload(Kept)
  /\ UNCHANGED <<request, pc, x, headless, soft, far, validated, validatedKept, forceShadow,
                 head, answer, refused, faulty>>

LoadFails ==
  /\ pc = "route" /\ MustLoad /\ "load" \in Faults
  /\ Refuse /\ faulty' = TRUE
  /\ UNCHANGED <<request, x, headless, soft, far, npu, flags, forceShadow, head, answer>>

OutOfBucket ==
  /\ MaxBucket > 0
  /\ IF AllowsPartial THEN index > MaxBucket ELSE MaxBucket - index < MinHeadroom

(* The guard on the context length hands the rows over.                    *)
BucketFallback ==
  /\ pc = "route" /\ DecodeEligible /\ npu.on /\ OutOfBucket
  /\ disabledForDialog' = TRUE
  /\ soft' = SyncedSoft(npu) /\ npu' = Off /\ pc' = "blocks"
  /\ UNCHANGED <<request, x, headless, far, disabledForRuntime, validated, validatedKept,
                 forceShadow, head, answer, refused, faulty>>

ChooseNpuDecode ==
  /\ pc = "route" /\ DecodeEligible /\ npu.on /\ ~OutOfBucket
  /\ pc' = IF validated \/ disabledForDialog THEN "decode" ELSE "validate"
  /\ UNCHANGED <<request, x, headless, soft, far, npu, flags, forceShadow, head, answer,
                 refused, faulty>>

UsesPrefillRunner == dep.prefillArg /\ SupportsDeepstack
UsesPrefill == UsesPrefillRunner /\ npu.on /\ index = 0

ChooseOther ==
  /\ pc = "route" /\ ~MustLoad /\ ~(DecodeEligible /\ npu.on)
  /\ pc' = IF UsesPrefill THEN "prefill" ELSE "blocks"
  /\ UNCHANGED <<request, x, headless, soft, far, npu, flags, forceShadow, head, answer,
                 refused, faulty>>

---------------------------------------------------------------------------
(* The runner                                                              *)

PrefixOf(kept) == 0 .. LastLayer(kept)
CanSync == \A l \in PrefixOf(npu.kept) : soft[l].len > 0

(* The rows forward_decode starts from.                                    *)
Start == IF npu.synced THEN npu.kv
         ELSE [l \in Layers |-> IF l \in PrefixOf(npu.kept) THEN soft[l] ELSE npu.kv[l]]

Fits(kv, c) == kv[FirstOf(c)].len \in 1 .. MaxBucket
(* The first c chunks compute the right thing for row `index'.             *)
Right(kv, c) ==
  \A b \in 1 .. c : /\ b \notin dep.broken
                    /\ \A l \in LayersOf(b) : kv[l] = [len |-> index, good |-> index]

(* After the first c chunks ran: each appended a row to its layers.        *)
Ran(kv, c) ==
  [l \in Layers |->
     IF c > 0 /\ l <= LastLayer(c)
     THEN [len |-> kv[l].len + 1,
           good |-> IF \E b \in 1 .. c : l \in LayersOf(b) /\ Right(kv, b)
                    THEN index + 1 ELSE MinOf(kv[l].good, kv[l].len)]
     ELSE kv[l]]

AllFit(kv) == \A c \in 1 .. npu.kept : Fits(kv, c)

Decoded == [npu EXCEPT !.synced = TRUE, !.kv = Ran(Start, npu.kept)]

(* forward_decode gets through c chunks and no further.  It must start     *)
(* from its own rows or from the software cache's.                         *)
CanStart == npu.synced \/ CanSync
StopsAfter(c) == CanStart /\ \A b \in 1 .. c : Fits(Start, b)
FailsAfter(c) == IF CanStart THEN StopsAfter(c) /\ ~Fits(Start, c + 1) ELSE c = 0
FailedDecode(c) == IF CanStart THEN [npu EXCEPT !.synced = TRUE, !.kv = Ran(Start, c)] ELSE npu

(* The reference pass of the validation runs on a clone of the cache, but  *)
(* storage of MaxSeq rows is shared and workers have no clone.             *)
Reference(c) ==
  LET P == PrefixOf(c)
      row(l) == IF l \in dep.local THEN soft[l] ELSE far[l]
      upTo(l) == \A k \in 0 .. l : Sees(row(k), index, TRUE) IN
  [right |-> \A l \in P : Sees(row(l), index, TRUE),
   soft  |-> [l \in Layers |->
                IF l \in P \cap dep.local /\ soft[l].len = MaxSeq
                THEN Fed(soft[l], index, 1, l = 0 \/ upTo(l - 1)) ELSE soft[l]],
   far   |-> [l \in Layers |->
                IF l \in P \ dep.local THEN Fed(far[l], index, 1, l = 0 \/ upTo(l - 1))
                ELSE far[l]]]

ValidationStep(passes) ==
  /\ pc = "validate" /\ CanStart /\ AllFit(Start)
  /\ LET r == Right(Start, npu.kept)  ref == Reference(npu.kept) IN
     /\ IF passes THEN r = ref.right ELSE ~(r /\ ref.right)
     /\ soft' = ref.soft /\ far' = ref.far

(* The coverage is good: the runner is loaded again with it, its rows are  *)
(* to be fetched from the cache, and the token is decoded once more.       *)
ValidationPasses ==
  /\ ValidationStep(TRUE)
  /\ validated' = TRUE /\ validatedKept' = npu.kept
  /\ Reload(npu.kept)
  /\ pc' = "decode"
  /\ UNCHANGED <<request, x, headless, forceShadow, head, answer, refused, faulty>>

(* The coverage is good, but the runner cannot be loaded again: the dialog *)
(* counts as validated, and the token is computed like after any error.    *)
ValidationReloadFails ==
  /\ ValidationStep(TRUE) /\ "load" \in Faults /\ faulty' = TRUE
  /\ validated' = TRUE /\ validatedKept' = npu.kept
  /\ npu' = Off
  /\ headless' = TRUE /\ pc' = "blocks"
  /\ UNCHANGED <<request, x, disabledForDialog, disabledForRuntime, forceShadow, head, answer,
                 refused>>

(* shrink_last_chunk after an attempt that left the rows kv.               *)
\* Variant: the chunk is not dropped.
Shrunk_Same(kv) == [npu EXCEPT !.synced = FALSE, !.kv = kv]

Shrunk(kv) ==
  [npu EXCEPT !.kept = @ - 1, !.synced = FALSE,
              !.kv = [l \in Layers |-> IF l <= LastLayer(npu.kept - 1) THEN kv[l] ELSE None]]

ValidationShrinks ==
  /\ ValidationStep(FALSE) /\ npu.kept > 1
  /\ npu' = Shrunk(Ran(Start, npu.kept))
  /\ faulty' = (faulty \/ dep.broken # {})
  /\ UNCHANGED <<request, pc, x, headless, flags, forceShadow, head, answer, refused>>

(* Nothing left to shrink: the pass goes on without the NPU, to ln_f only. *)
ValidationRejects ==
  /\ ValidationStep(FALSE) /\ npu.kept = 1
  /\ disabledForDialog' = TRUE /\ disabledForRuntime' = TRUE /\ npu' = Off
  /\ faulty' = (faulty \/ dep.broken # {})
  /\ headless' = TRUE /\ pc' = "blocks"
  /\ UNCHANGED <<request, x, validated, validatedKept, forceShadow, head, answer, refused>>

(* An error inside the validation disables nothing.                        *)
AfterValidationError ==
  /\ headless' = TRUE /\ pc' = "blocks"
  /\ UNCHANGED <<request, x, soft, far, flags, forceShadow, head, answer, refused>>

ValidationFails ==
  /\ pc = "validate"
  /\ \E c \in 0 .. npu.kept - 1 : FailsAfter(c) /\ npu' = FailedDecode(c)
  /\ AfterValidationError /\ UNCHANGED faulty

ValidationBreaks ==
  /\ pc = "validate" /\ "validate" \in Faults /\ faulty' = TRUE
  /\ \/ \E c \in 0 .. npu.kept - 1 : StopsAfter(c) /\ npu' = FailedDecode(c)
     \/ CanStart /\ AllFit(Start) /\ npu' = Decoded
  /\ AfterValidationError

NpuDecode ==
  /\ pc = "decode" /\ npu.on /\ CanStart /\ AllFit(Start)
  /\ x' = [x EXCEPT !.clean = Right(Start, npu.kept), !.depth = LastLayer(npu.kept) + 1]
  /\ npu' = Decoded /\ pc' = "blocks"
  /\ UNCHANGED <<request, headless, soft, far, flags, forceShadow, head, answer, refused,
                 faulty>>

NoRunner ==
  /\ pc = "decode" /\ ~npu.on /\ Refuse
  /\ UNCHANGED <<request, x, headless, soft, far, npu, flags, forceShadow, head, answer,
                 faulty>>

(* A failed decode hands over what the chunks have, then starts again.     *)
GiveUpNpu(r) ==
  /\ soft' = SyncedSoft(r)
  /\ disabledForDialog' = TRUE /\ disabledForRuntime' = TRUE
  /\ npu' = Off /\ pc' = "blocks"
  /\ UNCHANGED <<request, x, headless, far, validated, validatedKept, forceShadow, head,
                 answer, refused>>

NpuDecodeFails ==
  /\ pc = "decode" /\ npu.on
  /\ \E c \in 0 .. npu.kept - 1 : FailsAfter(c) /\ GiveUpNpu(FailedDecode(c))
  /\ UNCHANGED faulty

NpuDecodeBreaks ==
  /\ pc = "decode" /\ npu.on /\ "npu" \in Faults /\ faulty' = TRUE
  /\ \E c \in 0 .. npu.kept - 1 : StopsAfter(c) /\ GiveUpNpu(FailedDecode(c))

(* forward_prefill: a chunk takes an addition for every one of its layers. *)
PrefillRuns == dep.adds = NL

(* The software layers will need the rows of the prompt.                   *)
NeedsCpuTail == ~AllowsDecode \/ ~CoversAll(npu.kept)

NpuPrefill ==
  /\ pc = "prefill" /\ PrefillRuns
  /\ npu' = [npu EXCEPT !.kv = [l \in Layers |-> [len |-> n, good |-> n]], !.synced = TRUE]
  /\ soft' = IF NeedsCpuTail THEN SyncedSoft(npu') ELSE soft
  /\ x' = [x EXCEPT !.depth = NL] /\ pc' = "blocks"
  /\ UNCHANGED <<request, headless, far, flags, forceShadow, head, answer, refused, faulty>>

PrefillGivenUp ==
  /\ pc = "prefill"
  /\ disabledForDialog' = TRUE /\ disabledForRuntime' = TRUE
  /\ npu' = Off /\ pc' = "blocks"
  /\ UNCHANGED <<request, x, headless, soft, far, validated, validatedKept, forceShadow, head,
                 answer, refused>>
NpuPrefillFails == ~PrefillRuns /\ PrefillGivenUp /\ UNCHANGED faulty
NpuPrefillBreaks == PrefillRuns /\ "npu" \in Faults /\ faulty' = TRUE /\ PrefillGivenUp

---------------------------------------------------------------------------
(* forward_blocks_from, a layer at a time                                  *)

UsesShadow == forceShadow \/ (index = 0 /\ n > 1 /\ dep.shadow)

Promoted == forceShadow \/ (index = 0 /\ n > 1 /\ dep.promote)

LocalLayer ==
  /\ pc = "blocks" /\ x.depth < NL /\ x.depth \in dep.local
  /\ IF UsesShadow
     THEN /\ far' = [far EXCEPT ![x.depth] = Fed(@, index, n, x.clean)]
          /\ x' = [x EXCEPT !.clean = Sees(far[x.depth], index, @), !.depth = @ + 1]
          /\ forceShadow' = Promoted
          /\ soft' = soft
     ELSE /\ soft' = [soft EXCEPT ![x.depth] = Fed(@, index, n, x.clean)]
          /\ x' = [x EXCEPT !.clean = Sees(soft[x.depth], index, @), !.depth = @ + 1]
          /\ UNCHANGED <<far, forceShadow>>
  /\ UNCHANGED <<request, pc, headless, npu, flags, head, answer, refused, faulty>>

(* The last worker may answer with logits, or with a token it sampled.     *)
RemoteOutput(depth) == IF depth = NL - 1 THEN dep.output ELSE "hidden"

RemoteLayer ==
  /\ pc = "blocks" /\ x.depth < NL /\ x.depth \notin dep.local
  /\ far' = [far EXCEPT ![x.depth] = Fed(@, index, n, x.clean)]
  /\ x' = [clean |-> Sees(far[x.depth], index, x.clean), depth |-> x.depth + 1,
           kind |-> RemoteOutput(x.depth)]
  /\ UNCHANGED <<request, pc, headless, soft, npu, flags, forceShadow, head, answer, refused,
                 faulty>>

(* A layer fails before or after it stored its rows.                       *)
LayerFails ==
  /\ pc = "blocks" /\ x.depth < NL /\ "layer" \in Faults
  /\ \/ UNCHANGED <<soft, far>>
     \/ /\ x.depth \in dep.local /\ ~UsesShadow
        /\ soft' = [soft EXCEPT ![x.depth] = Fed(@, index, n, x.clean)] /\ far' = far
     \/ /\ x.depth \notin dep.local \/ UsesShadow
        /\ far' = [far EXCEPT ![x.depth] = Fed(@, index, n, x.clean)] /\ soft' = soft
  /\ Refuse /\ faulty' = TRUE
  /\ UNCHANGED <<request, x, headless, npu, flags, forceShadow, head, answer>>

(* What is sampled from: the worker's output, the local head's logits, or, *)
(* after the validation failed, the normalised hidden state.               *)
\* Variant: the head is dropped with the first output of any kind.
HeadAfter_Never == FALSE

HeadAfter == head /\ (headless \/ x.kind = "hidden")

Finish ==
  /\ pc = "blocks" /\ x.depth = NL
  /\ IF headless THEN x.kind = "hidden" ELSE x.kind # "hidden" \/ head
  /\ head' = HeadAfter
  /\ x' = IF headless \/ x.kind # "hidden" THEN x ELSE [x EXCEPT !.kind = "logits"]
  /\ pc' = "sample"
  /\ UNCHANGED <<request, headless, soft, far, npu, flags, forceShadow, answer, refused, faulty>>

(* ln_f on logits or on a token, or no head for a hidden state.            *)
FinishFails ==
  /\ pc = "blocks" /\ x.depth = NL
  /\ IF headless THEN x.kind # "hidden" ELSE x.kind = "hidden" /\ ~head
  /\ Refuse
  /\ UNCHANGED <<request, x, headless, soft, far, npu, flags, forceShadow, head, answer, faulty>>

\* Variant: all tokens so far are counted again.
NextIndex_AllTokens == index + n + generated

NextIndex == index + n

Sample ==
  /\ pc = "sample"
  /\ answer' = IF "hidden" \in {answer, x.kind} THEN "hidden" ELSE IF x.clean THEN "exact" ELSE "wrong"
  /\ index' = NextIndex /\ generated' = generated + 1 /\ pc' = "next"
  /\ UNCHANGED <<dep, req, n, x, headless, soft, far, npu, flags, forceShadow, head, refused,
                 faulty>>

Work ==
  \/ StartPrompt \/ NextToken \/ Stop
  \/ LoadRunner \/ BucketFallback \/ ChooseNpuDecode \/ ChooseOther
  \/ ValidationPasses \/ ValidationShrinks \/ ValidationRejects \/ ValidationFails
  \/ NpuDecode \/ NoRunner \/ NpuDecodeFails \/ NpuPrefill \/ NpuPrefillFails
  \/ LocalLayer \/ RemoteLayer \/ Finish \/ FinishFails \/ Sample
Break ==
  \/ LoadFails \/ ValidationReloadFails \/ ValidationBreaks
  \/ NpuDecodeBreaks \/ NpuPrefillBreaks \/ LayerFails

Next == Reset \/ Work \/ Break
Spec == Init /\ [][Next]_vars
(* A request is one future, polled until it ends; nothing need fail.       *)
FairSpec == Spec /\ WF_vars(Work)

---------------------------------------------------------------------------
(* Properties                                                              *)

(* (A runner with buckets beyond MaxSeq may have more rows than MaxSeq.)   *)
RowsOK(e) == e.len \in Nat /\ e.good \in 0 .. MaxSeq /\ e.good <= e.len

TypeOK ==
  /\ dep \in Deployments /\ req \in 0 .. MaxRequests
  /\ pc \in {"idle", "next", "route", "validate", "decode", "prefill", "blocks", "sample"}
  /\ generated \in 0 .. SampleLen /\ index \in 0 .. MaxSeq /\ n \in 0 .. MaxSeq
  /\ x.depth \in 0 .. NL
  /\ \A l \in Layers : /\ RowsOK(soft[l]) /\ RowsOK(npu.kv[l])
                     /\ RowsOK(far[l]) /\ far[l].len <= MaxSeq
  /\ npu.kept \in 0 .. Len(dep.ends) /\ validatedKept \in 0 .. Len(dep.ends)
  /\ answer \in {"none", "exact", "wrong", "hidden"}

(* However prefill, NPU, software, workers and shadow workers take turns,  *)
(* what is sampled was computed by layers that each saw exactly the tokens *)
(* of the dialog: forward_embeds hands over the rows at every switch.      *)
(* Once a token was sampled from a hidden state the dialog is lost.        *)
ExactOutput == answer # "wrong"

(* The deployments in which every switch does hand them over: what shadow  *)
(* workers prefilled is promoted, and a prompt that ran on the NPU leaves  *)
(* its rows in the master's cache, for layers that all are the master's.   *)
HandsOver(d) ==
  /\ d.shadow /\ d.local # {} => d.promote
  /\ d.prefillArg /\ d.prefill = "deepstack" /\ d.adds = NL =>
       /\ d.local = Layers
       /\ d.mode # "cpu-only" /\ d.ends # <<>> => d.ends[Len(d.ends)] # NL - 1

(* next_token samples from logits, or takes a worker's token, never from a *)
(* hidden state.                                                           *)
LogitsOnly == answer # "hidden"

(* The NPU is given up for the whole runtime only after it failed or       *)
(* computed something wrong, or when it cannot serve the mode at all.      *)
(* (A prefill that has not an addition for every layer is such a failure.) *)
SoundNpuIsKept ==
  disabledForRuntime =>
    \/ faulty \/ dep.broken # {} \/ ~Usable(Len(dep.ends))
    \/ UsesPrefillRunner /\ ~PrefillRuns

(* A request is refused only after something failed: no choice of paths    *)
(* leads into a missing runner, missing rows or a missing output head.     *)
NoSelfInflictedFailure == refused => faulty

(* A worker that answers with logits or a token makes the master drop its  *)
(* output head; it must not be needed again.  So the NPU must never serve  *)
(* that worker's layer, and its validation must have the rows it needs.    *)
KeepsHead(d) ==
  /\ d.output # "hidden" /\ NL - 1 \notin d.local
  /\ d.mode # "cpu-only" /\ d.ends # <<>>
  => MaxBucket > 0 /\ ~d.shadow /\ 0 .. d.ends[Len(d.ends)] \subseteq d.local

(* After the validation only chunks that passed it compute: a reload does  *)
(* not bring back what the validation cut off.                             *)
ValidatedOnly == validated /\ npu.on => npu.kept <= validatedKept

(* A runtime that gave up the NPU never comes back to it, also not in      *)
(* later dialogs, which clear the flags of the dialog.                     *)
FailedNpuStaysOff ==
  [][disabledForRuntime => disabledForRuntime' /\ ~npu'.on]_vars

(* Whatever fails, a request ends; in particular validating and shrinking  *)
(* come to an end.                                                         *)
RequestEnds == (pc = "next" /\ generated = 0) ~> (pc = "idle")
=============================================================================
