-------------------------- MODULE TextDecode_proofs --------------------------
(***************************************************************************)
(* For any model, chunks, workers and shadows: the NPU serves only what    *)
(* was validated, a runtime that gave it up stays without it, and in the   *)
(* deployments whose switches hand the rows over every sampled token was   *)
(* computed from exactly its dialog.                                       *)
(***************************************************************************)
EXTENDS TextDecode, NaturalsInduction, WellFoundedInduction, TLAPS

Row == {e \in [len : Nat, good : 0 .. MaxSeq] : e.good <= e.len}
FarRow == {e \in Row : e.len <= MaxSeq}
Machine == [on : BOOLEAN, kept : Nat, synced : BOOLEAN, kv : [Layers -> Row]]
Hidden == [clean : BOOLEAN, depth : 0 .. NL, kind : {"hidden", "logits", "token"}]
Passing == {"route", "validate", "decode", "prefill", "blocks", "sample"}

Types ==
  /\ dep \in Deployments /\ req \in 0 .. MaxRequests
  /\ pc \in {"idle", "next"} \cup Passing
  /\ generated \in 0 .. SampleLen /\ index \in 0 .. MaxSeq /\ n \in 0 .. MaxSeq
  /\ x \in Hidden /\ headless \in BOOLEAN
  /\ soft \in [Layers -> Row] /\ far \in [Layers -> FarRow] /\ npu \in Machine
  /\ disabledForDialog \in BOOLEAN /\ disabledForRuntime \in BOOLEAN /\ validated \in BOOLEAN
  /\ forceShadow \in BOOLEAN /\ head \in BOOLEAN /\ refused \in BOOLEAN /\ faulty \in BOOLEAN
  /\ answer \in {"none", "exact", "wrong", "hidden"}

(* Which request, which pass of it, and where the pass is.                 *)
Counters ==
  /\ pc # "idle" /\ generated = 0 => index = 0
  /\ pc # "idle" /\ generated > 0 => index - generated \in 0 .. MaxSeq - SampleLen
  /\ pc \in Passing =>
       /\ generated < SampleLen
       /\ n \in IF generated = 0 THEN 1 .. MaxSeq + 1 - SampleLen ELSE {1}
  /\ pc \in {"route", "validate", "decode", "prefill"} => x = Embedded /\ ~headless
  /\ pc \in {"validate", "decode"} => generated > 0 /\ AllowsDecode
  /\ pc = "validate" => npu.on /\ ~validated
  /\ pc = "decode" => validated
  /\ pc = "prefill" => generated = 0 /\ UsesPrefillRunner /\ npu.on
  /\ pc = "sample" => x.depth = NL /\ (headless <=> x.kind = "hidden")

(* A runner has a chunk, and none that the validation cut off; once it is  *)
(* given up, for the dialog or for good, there is none.                    *)
Runners ==
  /\ npu.on => /\ npu.kept \in 1 .. Len(dep.ends) /\ NeedsRuntime
               /\ ~disabledForDialog /\ ~disabledForRuntime
  /\ ~npu.on => npu = Off
  /\ validatedKept \in 0 .. Len(dep.ends) /\ (validated <=> validatedKept > 0)
  /\ validated /\ npu.on => npu.kept <= validatedKept

Base == Types /\ Counters /\ Runners

-----------------------------------------------------------------------------
(* Rows.                                                                   *)

LEMMA Sizes ==
  /\ NL \in Nat \ {0} /\ MaxSeq \in Nat \ {0} /\ MaxBucket \in Nat /\ MinHeadroom \in Nat
  /\ MaxRequests \in Nat /\ SampleLen \in Nat \ {0} /\ SampleLen <= MaxSeq - 1
BY DecodeAssumption

LEMMA Nonempty ==
  ASSUME NEW S, NEW s \in Seq(S)
  PROVE  /\ Len(s) \in Nat /\ DOMAIN s = 1 .. Len(s)
         /\ s # <<>> <=> Len(s) > 0
         /\ \A c \in 1 .. Len(s) : s[c] \in S
OBVIOUS

LEMMA Ends ==
  ASSUME dep \in Deployments
  PROVE  /\ dep.ends \in Seq(0 .. NL - 1) /\ Len(dep.ends) \in Nat
         /\ \A c \in 1 .. Len(dep.ends) : dep.ends[c] \in 0 .. NL - 1
         /\ \A a, b \in 1 .. Len(dep.ends) : a < b => dep.ends[a] < dep.ends[b]
         /\ dep.ends # <<>> <=> Len(dep.ends) > 0
         /\ dep.broken \subseteq 1 .. Len(dep.ends)
         /\ dep.local \subseteq Layers
         /\ dep.prefillArg \in BOOLEAN /\ dep.shadow \in BOOLEAN /\ dep.promote \in BOOLEAN
         /\ dep.output \in {"hidden", "logits", "token"} /\ dep.adds \in Nat
<1>1. DeploymentOK(dep)
  BY DecodeAssumption
<1>2. dep.ends \in Seq(0 .. NL - 1)
  BY <1>1 DEF DeploymentOK
<1>3. /\ Len(dep.ends) \in Nat /\ DOMAIN dep.ends = 1 .. Len(dep.ends)
      /\ dep.ends # <<>> <=> Len(dep.ends) > 0
  BY <1>2, Nonempty
<1>4. \A c \in 1 .. Len(dep.ends) : dep.ends[c] \in 0 .. NL - 1
  BY <1>2, Nonempty
<1>5. \A a, b \in DOMAIN dep.ends : a < b => dep.ends[a] < dep.ends[b]
  BY <1>1 DEF DeploymentOK
<1>6. /\ dep.broken \subseteq DOMAIN dep.ends /\ dep.local \subseteq Layers
      /\ dep.prefillArg \in BOOLEAN /\ dep.shadow \in BOOLEAN /\ dep.promote \in BOOLEAN
      /\ dep.output \in {"hidden", "logits", "token"} /\ dep.adds \in Nat
  BY <1>1, Sizes DEF DeploymentOK, Layers
<1> QED BY <1>2, <1>3, <1>4, <1>5, <1>6

LEMMA FedRow ==
  ASSUME NEW e \in Row, NEW p \in 0 .. MaxSeq - 1, NEW m \in 0 .. MaxSeq, NEW clean \in BOOLEAN
  PROVE  Fed(e, p, m, clean) \in FarRow
BY Sizes DEF Fed, MinOf, Row, FarRow

(* A pass leaves room for its row.                                         *)
LEMMA Room ==
  ASSUME Base, pc \in Passing
  PROVE  index \in 0 .. MaxSeq - 1 /\ (index > 0 <=> generated > 0)
BY Sizes DEF Base, Types, Counters, Passing

LEMMA StartRows ==
  ASSUME Types
  PROVE  Start \in [Layers -> Row]
BY DEF Types, Machine, Start

LEMMA RanRows ==
  ASSUME Base, pc \in Passing, NEW kv \in [Layers -> Row], NEW c \in 0 .. Len(dep.ends)
  PROVE  Ran(kv, c) \in [Layers -> Row]
<1>1. ASSUME NEW l \in Layers
      PROVE  [len |-> kv[l].len + 1,
              good |-> IF \E b \in 1 .. c : l \in LayersOf(b) /\ Right(kv, b)
                       THEN index + 1 ELSE MinOf(kv[l].good, kv[l].len)] \in Row
  <2>1. CASE \E b \in 1 .. c : l \in LayersOf(b) /\ Right(kv, b)
    <3>1. kv[l] = [len |-> index, good |-> index]
      <4>1. PICK b \in 1 .. c : l \in LayersOf(b) /\ Right(kv, b)
        BY <2>1
      <4>2. c \in Nat /\ b \in 1 .. b
        BY Ends DEF Base, Types
      <4> QED BY <4>1, <4>2, Zenon DEF Right
    <3>2. index + 1 \in 0 .. MaxSeq /\ kv[l].len = index
      BY <3>1, Room, Sizes
    <3> QED BY <2>1, <3>2 DEF Row
  <2>2. CASE ~\E b \in 1 .. c : l \in LayersOf(b) /\ Right(kv, b)
    <3>1. /\ kv[l].len \in Nat /\ kv[l].good \in 0 .. MaxSeq /\ kv[l].good <= kv[l].len
      BY DEF Row
    <3> QED BY <2>2, <3>1, Sizes DEF Row, MinOf
  <2> QED BY <2>1, <2>2
<1> QED BY <1>1 DEF Ran

LEMMA SyncedRows ==
  ASSUME Types, NEW r \in Machine
  PROVE  SyncedSoft(r) \in [Layers -> Row]
BY DEF Types, Machine, SyncedSoft

LEMMA ReferenceRows ==
  ASSUME Base, pc \in Passing, NEW c
  PROVE  Reference(c).soft \in [Layers -> Row] /\ Reference(c).far \in [Layers -> FarRow]
<1>1. \A e \in Row, clean \in BOOLEAN : Fed(e, index, 1, clean) \in FarRow
  BY FedRow, Room, Sizes
<1>2. FarRow \subseteq Row
  BY DEF FarRow
<1> QED BY <1>1, <1>2 DEF Reference, Base, Types

LEMMA Machines ==
  /\ Off \in Machine /\ Empty \in [Layers -> Row] /\ Empty \in [Layers -> FarRow]
  /\ \A kept \in Nat : Runner(kept) \in Machine
BY Sizes DEF Off, Machine, Empty, None, Row, FarRow, Runner

-----------------------------------------------------------------------------
(* Types, counters and the runner.                                         *)

LEMMA BaseInit == Init => Base
<1> SUFFICES ASSUME Init PROVE Base
  OBVIOUS
<1>1. dep \in Deployments /\ npu \in Machine /\ soft \in [Layers -> Row] /\ far \in [Layers -> FarRow]
  BY Machines, Ends DEF Init
<1>2. Types
  <2>1. x \in Hidden /\ headless \in BOOLEAN
    <3>1. x = Embedded /\ headless = FALSE
      BY DEF Init, Embedded
    <3>2. Embedded \in Hidden
      BY Sizes DEF Hidden, Embedded
    <3> QED BY <3>1, <3>2
  <2>3. disabledForRuntime \in BOOLEAN
    BY DEF Init
  <2>2. /\ req \in 0 .. MaxRequests /\ generated \in 0 .. SampleLen
        /\ index \in 0 .. MaxSeq /\ n \in 0 .. MaxSeq
    BY Sizes DEF Init
  <2> QED BY <1>1, <2>1, <2>2, <2>3 DEF Init, Types
<1>3. Counters
  BY DEF Init, Counters, Passing
<1>4. Runners
  <2>1. Len(dep.ends) \in Nat /\ (dep.ends # <<>> <=> Len(dep.ends) > 0)
    BY <1>1, Ends
  <2>2. CASE NeedsRuntime /\ dep.ends # <<>> /\ Usable(Len(dep.ends))
    <3>1. npu = Runner(Len(dep.ends)) /\ ~disabledForRuntime /\ ~disabledForDialog
      BY <2>2 DEF Init
    <3>2. validated = FALSE /\ validatedKept = 0
      BY DEF Init
    <3> QED BY <2>1, <2>2, <3>1, <3>2 DEF Runners, Runner
  <2>3. CASE ~(NeedsRuntime /\ dep.ends # <<>> /\ Usable(Len(dep.ends)))
    <3>1. npu = Off /\ validated = FALSE /\ validatedKept = 0
      BY <2>3 DEF Init
    <3> QED BY <2>1, <3>1 DEF Runners, Off
  <2> QED BY <2>2, <2>3
<1> QED BY <1>2, <1>3, <1>4 DEF Base

LEMMA ResetBase ==
  ASSUME Base, Reset
  PROVE  Base'
<1>1. Types'
  <2>1. npu' \in Machine
    BY Machines DEF Base, Types, Reset, Cleared, Machine
  <2>2. \A l \in Layers : [far[l] EXCEPT !.good = 0] \in FarRow
    BY Sizes DEF Base, Types, FarRow, Row
  <2>3. far' \in [Layers -> FarRow] /\ soft' \in [Layers -> Row]
    BY <2>2, Machines DEF Reset
  <2>4. /\ req' \in 0 .. MaxRequests /\ generated' \in 0 .. SampleLen
        /\ index' \in 0 .. MaxSeq /\ n' \in 0 .. MaxSeq
    BY Sizes DEF Base, Types, Reset
  <2> QED BY <2>1, <2>3, <2>4 DEF Base, Types, Reset
<1>2. Counters'
  BY DEF Base, Counters, Reset, Passing
<1>3. Runners'
  BY Ends DEF Base, Types, Runners, Reset, Cleared, Runner, Off, NeedsRuntime, AllowsDecode
<1> QED BY <1>1, <1>2, <1>3 DEF Base

LEMMA StartPromptBase ==
  ASSUME Base, StartPrompt
  PROVE  Base'
<1>1. Types'
  <2>1. x' \in Hidden /\ soft' \in [Layers -> Row] /\ pc' \in {"idle", "next"} \cup Passing
    BY Machines, Sizes DEF StartPrompt, Embedded, Hidden, Passing
  <2>2. /\ index' \in 0 .. MaxSeq /\ n' \in 0 .. MaxSeq
    BY Sizes DEF Base, Types, StartPrompt
  <2> QED BY <2>1, <2>2 DEF Base, Types, StartPrompt
<1>2. Counters'
  BY Sizes DEF Base, Types, Counters, StartPrompt, Passing, Embedded
<1>3. Runners'
  BY Ends DEF Base, Types, Runners, StartPrompt, NeedsRuntime, AllowsDecode
<1> QED BY <1>1, <1>2, <1>3 DEF Base

LEMMA NextTokenBase ==
  ASSUME Base, NextToken
  PROVE  Base'
<1>1. Types'
  <2>1. x' \in Hidden /\ n' \in 0 .. MaxSeq /\ pc' \in {"idle", "next"} \cup Passing
    BY Sizes DEF NextToken, Embedded, Hidden, Passing
  <2> QED BY <2>1 DEF Base, Types, NextToken, flags
<1>2. Counters'
  BY Sizes DEF Base, Types, Counters, NextToken, Passing, Embedded, flags
<1>3. Runners'
  BY DEF Base, Runners, NextToken, NeedsRuntime, AllowsDecode, flags
<1> QED BY <1>1, <1>2, <1>3 DEF Base

(* Steps that only move the program counter, or end a request.             *)
LEMMA Turns ==
  ASSUME Base,
         UNCHANGED <<request, headless, soft, far, npu, flags, forceShadow, answer>>,
         x' \in Hidden, head' \in BOOLEAN, refused' \in BOOLEAN, faulty' \in BOOLEAN,
         pc' \in {"idle", "next"} \cup Passing, Counters'
  PROVE  Base'
<1>1. Types'
  BY DEF Base, Types, flags, request
<1>2. Runners'
  BY DEF Base, Runners, NeedsRuntime, AllowsDecode, flags, request
<1> QED BY <1>1, <1>2 DEF Base

LEMMA StopBase ==
  ASSUME Base, Stop
  PROVE  Base'
BY Turns DEF Base, Types, Counters, Stop, Passing, request, flags

LEMMA LoadFailsBase ==
  ASSUME Base, LoadFails
  PROVE  Base'
BY Turns DEF Base, Types, Counters, LoadFails, Refuse, Passing, request, flags

LEMMA FinishFailsBase ==
  ASSUME Base, FinishFails
  PROVE  Base'
BY Turns DEF Base, Types, Counters, FinishFails, Refuse, Passing, request, flags

LEMMA NoRunnerBase ==
  ASSUME Base, NoRunner
  PROVE  Base'
BY Turns DEF Base, Types, Counters, NoRunner, Refuse, Passing, request, flags

LEMMA ChooseNpuDecodeBase ==
  ASSUME Base, ChooseNpuDecode
  PROVE  Base'
<1>1. Counters'
  BY Room DEF Base, Types, Counters, Runners, ChooseNpuDecode, Passing, request, flags,
              DecodeEligible, AllowsDecode, Embedded
<1> QED BY <1>1, Turns DEF Base, Types, ChooseNpuDecode, Passing

LEMMA ChooseOtherBase ==
  ASSUME Base, ChooseOther
  PROVE  Base'
<1>1. Counters'
  BY Room DEF Base, Types, Counters, ChooseOther, Passing, request, flags, UsesPrefill,
              UsesPrefillRunner, SupportsDeepstack, Embedded
<1> QED BY <1>1, Turns DEF Base, Types, ChooseOther, Passing

LEMMA FinishBase ==
  ASSUME Base, Finish
  PROVE  Base'
<1>1. Counters'
  BY DEF Base, Types, Counters, Finish, Passing, request, Hidden, AllowsDecode
<1>2. x' \in Hidden /\ head' \in BOOLEAN
  BY DEF Base, Types, Finish, Hidden, HeadAfter
<1> QED BY <1>1, <1>2, Turns DEF Base, Types, Finish, Passing

(* Steps that leave the counters but may write rows and change the runner. *)
LEMMA Works ==
  ASSUME Base, pc \in Passing, UNCHANGED <<request, forceShadow, head, answer, refused>>,
         soft' \in [Layers -> Row], far' \in [Layers -> FarRow], npu' \in Machine,
         x' \in Hidden, headless' \in BOOLEAN, faulty' \in BOOLEAN, Runners',
         disabledForDialog' \in BOOLEAN, disabledForRuntime' \in BOOLEAN, validated' \in BOOLEAN,
         \/ pc' = "blocks"
         \/ pc' = pc /\ UNCHANGED <<x, headless, validated>> /\ pc # "sample" /\ (npu.on => npu'.on)
         \/ pc' = "decode" /\ pc = "validate" /\ UNCHANGED <<x, headless>> /\ validated'
  PROVE  Base'
<1>1. Types'
  BY DEF Base, Types, request, Passing
<1>2. Counters'
  BY DEF Base, Counters, request, Passing, AllowsDecode, UsesPrefillRunner, SupportsDeepstack
<1> QED BY <1>1, <1>2 DEF Base

(* A runner that starts or is limited anew; none that is given up.         *)
LEMMA ReloadRunner ==
  ASSUME Base, NEW kept \in 1 .. Len(dep.ends), Reload(kept), NeedsRuntime, dep' = dep,
         ~disabledForDialog, ~disabledForRuntime,
         validatedKept' \in 0 .. Len(dep.ends), validated' <=> validatedKept' > 0,
         validated' => kept <= validatedKept'
  PROVE  /\ npu' \in Machine /\ Runners'
         /\ disabledForDialog' \in BOOLEAN /\ disabledForRuntime' \in BOOLEAN
<1>1. CASE Usable(kept)
  <2>1. npu' = Runner(kept) /\ UNCHANGED <<disabledForDialog, disabledForRuntime>>
    BY <1>1 DEF Reload
  <2>2. npu' \in Machine
    BY <2>1, Machines, Ends DEF Base, Types
  <2>3. Runners'
    BY <2>1 DEF Runners, Runner, NeedsRuntime, AllowsDecode
  <2> QED BY <2>1, <2>2, <2>3 DEF Base, Types
<1>2. CASE ~Usable(kept)
  <2>1. npu' = Off /\ disabledForDialog' = TRUE /\ disabledForRuntime' = TRUE
    BY <1>2 DEF Reload
  <2>2. Runners'
    BY <2>1 DEF Runners, Off
  <2> QED BY <2>1, <2>2, Machines
<1> QED BY <1>1, <1>2

LEMMA GivenUp ==
  ASSUME Base, npu' = Off, disabledForDialog', UNCHANGED <<dep, validated, validatedKept>>
  PROVE  Runners' /\ npu' \in Machine
BY Machines DEF Base, Runners, Off

LEMMA LoadRunnerBase ==
  ASSUME Base, LoadRunner
  PROVE  Base'
<1>1. /\ NeedsRuntime /\ ~disabledForDialog /\ ~disabledForRuntime /\ ~npu.on
      /\ dep.ends # <<>> /\ pc = "route" /\ Reload(Kept)
  BY DEF LoadRunner, MustLoad
<1>2. Kept \in 1 .. Len(dep.ends) /\ (validated => Kept <= validatedKept)
  BY <1>1, Ends DEF Base, Types, Runners, Kept
<1>3. /\ npu' \in Machine /\ Runners'
      /\ disabledForDialog' \in BOOLEAN /\ disabledForRuntime' \in BOOLEAN
  BY <1>1, <1>2, ReloadRunner DEF LoadRunner, request, Base, Runners
<1> QED BY <1>1, <1>3, Works DEF LoadRunner, Base, Types, Passing, request

LEMMA BucketFallbackBase ==
  ASSUME Base, BucketFallback
  PROVE  Base'
<1>1. Runners' /\ npu' \in Machine
  BY GivenUp DEF BucketFallback, request
<1>2. soft' \in [Layers -> Row]
  BY SyncedRows DEF BucketFallback, Base, Types
<1> QED BY <1>1, <1>2, Works DEF BucketFallback, Base, Types, Passing, request

LEMMA ValidationPassesBase ==
  ASSUME Base, ValidationPasses
  PROVE  Base'
<1>1. /\ pc = "validate" /\ npu.on /\ npu.kept \in 1 .. Len(dep.ends) /\ NeedsRuntime
      /\ ~disabledForDialog /\ ~disabledForRuntime
  BY DEF ValidationPasses, ValidationStep, Base, Counters, Runners
<1>2. /\ npu' \in Machine /\ Runners'
      /\ disabledForDialog' \in BOOLEAN /\ disabledForRuntime' \in BOOLEAN
  BY <1>1, Ends, ReloadRunner DEF ValidationPasses, request, Base, Types
<1>3. soft' \in [Layers -> Row] /\ far' \in [Layers -> FarRow]
  BY <1>1, ReferenceRows DEF ValidationPasses, ValidationStep, Passing
<1> QED BY <1>1, <1>2, <1>3, Works DEF ValidationPasses, Base, Types, Passing, request

LEMMA ValidationReloadFailsBase ==
  ASSUME Base, ValidationReloadFails
  PROVE  Base'
<1>1. pc = "validate" /\ npu.on /\ npu.kept \in 1 .. Len(dep.ends)
  BY DEF ValidationReloadFails, ValidationStep, Base, Counters, Runners
<1>2. npu' \in Machine /\ Runners'
  BY <1>1, Ends, Machines DEF ValidationReloadFails, request, Base, Types, Runners, Off
<1>3. soft' \in [Layers -> Row] /\ far' \in [Layers -> FarRow]
  BY <1>1, ReferenceRows DEF ValidationReloadFails, ValidationStep, Passing
<1> QED BY <1>1, <1>2, <1>3, Works DEF ValidationReloadFails, Base, Types, Passing, request

LEMMA ValidationShrinksBase ==
  ASSUME Base, ValidationShrinks
  PROVE  Base'
<1>1. pc = "validate" /\ npu.on /\ npu.kept \in 2 .. Len(dep.ends) /\ ~validated
  BY Ends DEF ValidationShrinks, ValidationStep, Base, Counters, Runners, Types
<1>2. Ran(Start, npu.kept) \in [Layers -> Row]
  <2>1. npu.kept \in 0 .. Len(dep.ends) /\ Start \in [Layers -> Row] /\ pc \in Passing
    BY <1>1, StartRows DEF Base, Passing
  <2> QED BY <2>1, RanRows
<1>3. None \in Row
  BY Sizes DEF None, Row
<1>4. npu' \in Machine /\ npu'.on /\ npu'.kept = npu.kept - 1
  <2> DEFINE rows == Ran(Start, npu.kept)
  <2>1. rows \in [Layers -> Row]
    BY <1>2
  <2> HIDE DEF rows
  <2>2. npu' = Shrunk(rows)
    BY DEF ValidationShrinks, rows
  <2>3. [l \in Layers |-> IF l <= LastLayer(npu.kept - 1) THEN rows[l] ELSE None] \in [Layers -> Row]
    BY <2>1, <1>3
  <2>4. npu.kept - 1 \in Nat /\ npu \in Machine
    BY <1>1 DEF Base, Types
  <2> QED BY <1>1, <2>2, <2>3, <2>4 DEF Shrunk, Machine
<1>5. Runners'
  BY <1>1, <1>4, Ends DEF ValidationShrinks, Base, Types, Runners, flags, request, NeedsRuntime, AllowsDecode
<1>6. soft' \in [Layers -> Row] /\ far' \in [Layers -> FarRow]
  BY <1>1, ReferenceRows DEF ValidationShrinks, ValidationStep, Passing
<1>7. faulty' \in BOOLEAN
  BY DEF ValidationShrinks
<1> QED BY <1>1, <1>4, <1>5, <1>6, <1>7, Works
        DEF ValidationShrinks, Base, Types, Passing, request, flags

LEMMA ValidationRejectsBase ==
  ASSUME Base, ValidationRejects
  PROVE  Base'
<1>1. pc = "validate"
  BY DEF ValidationRejects, ValidationStep
<1>2. Runners' /\ npu' \in Machine
  BY GivenUp DEF ValidationRejects, request
<1>3. soft' \in [Layers -> Row] /\ far' \in [Layers -> FarRow]
  BY <1>1, ReferenceRows DEF ValidationRejects, ValidationStep, Passing
<1>4. faulty' \in BOOLEAN
  BY DEF ValidationRejects
<1> QED BY <1>1, <1>2, <1>3, <1>4, Works DEF ValidationRejects, Base, Types, Passing, request

(* forward_decode leaves a runner of the same chunks, however far it gets. *)
LEMMA FailedRunner ==
  ASSUME Base, pc \in Passing, npu.on, NEW c \in 0 .. Len(dep.ends)
  PROVE  /\ FailedDecode(c) \in Machine
         /\ FailedDecode(c).on /\ FailedDecode(c).kept = npu.kept
<1>1. Ran(Start, c) \in [Layers -> Row]
  BY StartRows, RanRows DEF Base
<1> QED BY <1>1 DEF Base, Types, FailedDecode, Machine

LEMMA DecodedRunner ==
  ASSUME Base, pc \in Passing, npu.on
  PROVE  /\ Decoded \in Machine /\ Decoded.on /\ Decoded.kept = npu.kept
<1>1. Ran(Start, npu.kept) \in [Layers -> Row]
  <2>1. npu.kept \in 0 .. Len(dep.ends) /\ Start \in [Layers -> Row]
    BY StartRows DEF Base, Runners
  <2> QED BY <2>1, RanRows
<1> QED BY <1>1 DEF Base, Types, Decoded, Machine

LEMMA SameChunks ==
  ASSUME Base, npu' \in Machine, npu'.on = npu.on, npu'.kept = npu.kept, npu.on,
         UNCHANGED <<dep, flags>>
  PROVE  Runners'
BY DEF Base, Runners, flags, NeedsRuntime, AllowsDecode

LEMMA AfterErrorBase ==
  ASSUME Base, pc = "validate", AfterValidationError, npu' \in Machine, npu'.on,
         npu'.kept = npu.kept, faulty' \in BOOLEAN
  PROVE  Base'
<1>1. npu.on
  BY DEF Base, Counters
<1>2. Runners'
  BY <1>1, SameChunks DEF AfterValidationError, request, Base, Types, Machine
<1> QED BY <1>2, Works DEF AfterValidationError, Base, Types, Passing, request, flags

LEMMA ValidationFailsBase ==
  ASSUME Base, ValidationFails
  PROVE  Base'
<1>1. pc = "validate" /\ npu.on /\ npu.kept \in 1 .. Len(dep.ends) /\ Len(dep.ends) \in Nat
  BY Ends DEF ValidationFails, Base, Counters, Runners, Types
<1>2. PICK c \in 0 .. npu.kept - 1 : npu' = FailedDecode(c)
  BY DEF ValidationFails
<1>3. c \in 0 .. Len(dep.ends)
  BY <1>1
<1> QED BY <1>1, <1>2, <1>3, FailedRunner, AfterErrorBase
        DEF ValidationFails, Passing, Base, Types

LEMMA ValidationBreaksBase ==
  ASSUME Base, ValidationBreaks
  PROVE  Base'
<1>1. pc = "validate" /\ npu.on /\ npu.kept \in 1 .. Len(dep.ends) /\ Len(dep.ends) \in Nat
  BY Ends DEF ValidationBreaks, Base, Counters, Runners, Types
<1>2. npu' \in Machine /\ npu'.on /\ npu'.kept = npu.kept
  <2>1. CASE \E c \in 0 .. npu.kept - 1 : npu' = FailedDecode(c)
    <3>1. PICK c \in 0 .. npu.kept - 1 : npu' = FailedDecode(c)
      BY <2>1
    <3>2. c \in 0 .. Len(dep.ends)
      BY <1>1
    <3> QED BY <1>1, <3>1, <3>2, FailedRunner DEF Passing
  <2>2. CASE npu' = Decoded
    BY <1>1, <2>2, DecodedRunner DEF Passing
  <2> QED BY <2>1, <2>2 DEF ValidationBreaks
<1> QED BY <1>1, <1>2, AfterErrorBase DEF ValidationBreaks

LEMMA NpuDecodeBase ==
  ASSUME Base, NpuDecode
  PROVE  Base'
<1>1. pc = "decode" /\ npu.on /\ npu.kept \in 1 .. Len(dep.ends)
  BY DEF NpuDecode, Base, Runners
<1>2. npu' \in Machine /\ npu'.on /\ npu'.kept = npu.kept
  BY <1>1, DecodedRunner DEF NpuDecode, Passing
<1>3. Runners'
  BY <1>1, <1>2, SameChunks DEF NpuDecode, request
<1>4. LastLayer(npu.kept) + 1 \in 0 .. NL
  BY <1>1, Ends, Sizes DEF LastLayer, Base, Types
<1>5. Right(Start, npu.kept) \in BOOLEAN
  BY DEF Right
<1>6. x' \in Hidden
  BY <1>4, <1>5 DEF NpuDecode, Base, Types, Hidden
<1> QED BY <1>1, <1>2, <1>3, <1>6, Works DEF NpuDecode, Base, Types, Passing, request, flags

LEMMA GiveUpBase ==
  ASSUME Base, pc = "decode", NEW r \in Machine, GiveUpNpu(r), faulty' \in BOOLEAN
  PROVE  Base'
<1>1. Runners' /\ npu' \in Machine
  BY GivenUp DEF GiveUpNpu, request
<1>2. soft' \in [Layers -> Row]
  BY SyncedRows DEF GiveUpNpu, Base
<1> QED BY <1>1, <1>2, Works DEF GiveUpNpu, Base, Types, Passing, request

LEMMA NpuDecodeFailsBase ==
  ASSUME Base, NpuDecodeFails \/ NpuDecodeBreaks
  PROVE  Base'
<1>1. pc = "decode" /\ npu.on /\ npu.kept \in 1 .. Len(dep.ends) /\ Len(dep.ends) \in Nat
  BY Ends DEF NpuDecodeFails, NpuDecodeBreaks, Base, Runners, Types
<1>2. PICK c \in 0 .. npu.kept - 1 : GiveUpNpu(FailedDecode(c))
  BY DEF NpuDecodeFails, NpuDecodeBreaks
<1>3. c \in 0 .. Len(dep.ends)
  BY <1>1
<1>4. faulty' \in BOOLEAN
  BY DEF NpuDecodeFails, NpuDecodeBreaks, Base, Types
<1> QED BY <1>1, <1>2, <1>3, <1>4, FailedRunner, GiveUpBase DEF Passing

LEMMA NpuPrefillBase ==
  ASSUME Base, NpuPrefill
  PROVE  Base'
<1>1. pc = "prefill" /\ npu.on /\ n \in Nat /\ n <= MaxSeq
  BY DEF NpuPrefill, Base, Counters, Types
<1>2. [len |-> n, good |-> n] \in Row
  BY <1>1 DEF Row
<1>3. npu' \in Machine /\ npu'.on /\ npu'.kept = npu.kept
  BY <1>1, <1>2 DEF NpuPrefill, Base, Types, Machine
<1>4. Runners'
  BY <1>1, <1>3, SameChunks DEF NpuPrefill, request
<1>5. soft' \in [Layers -> Row]
  BY <1>3, SyncedRows DEF NpuPrefill, Base, Types
<1>6. x' \in Hidden
  BY Sizes DEF NpuPrefill, Base, Types, Hidden
<1> QED BY <1>1, <1>3, <1>4, <1>5, <1>6, Works DEF NpuPrefill, Base, Types, Passing, request, flags

LEMMA NpuPrefillFailsBase ==
  ASSUME Base, NpuPrefillFails \/ NpuPrefillBreaks
  PROVE  Base'
<1>1. PrefillGivenUp /\ faulty' \in BOOLEAN
  BY DEF NpuPrefillFails, NpuPrefillBreaks, Base, Types
<1>2. Runners' /\ npu' \in Machine
  BY <1>1, GivenUp DEF PrefillGivenUp, request
<1> QED BY <1>1, <1>2, Works DEF PrefillGivenUp, Base, Types, Passing, request

LEMMA LayerRow ==
  ASSUME Base, pc = "blocks", x.depth < NL
  PROVE  /\ x.depth \in Layers
         /\ \A e \in Row : Fed(e, index, n, x.clean) \in FarRow /\ Sees(e, index, x.clean) \in BOOLEAN
<1>1. x.depth \in Layers
  BY Sizes DEF Base, Types, Hidden, Layers
<1>2. index \in 0 .. MaxSeq - 1 /\ n \in 0 .. MaxSeq /\ x.clean \in BOOLEAN
  BY Room DEF Base, Types, Hidden, Passing
<1>3. \A e \in Row : Sees(e, index, x.clean) \in BOOLEAN
  BY <1>2 DEF Sees
<1> QED BY <1>1, <1>2, <1>3, FedRow

LEMMA FarIsRow == FarRow \subseteq Row
BY DEF FarRow

LEMMA LocalLayerBase ==
  ASSUME Base, LocalLayer
  PROVE  Base'
<1>1. pc = "blocks" /\ pc' = "blocks" /\ x.depth < NL /\ x.depth \in Layers
  BY LayerRow DEF LocalLayer
<1>2. soft' \in [Layers -> Row] /\ far' \in [Layers -> FarRow] /\ forceShadow' \in BOOLEAN
  <2>1. CASE UsesShadow
    BY <1>1, <2>1, LayerRow, FarIsRow, Ends DEF LocalLayer, Base, Types, Promoted
  <2>2. CASE ~UsesShadow
    BY <1>1, <2>2, LayerRow, FarIsRow DEF LocalLayer, Base, Types
  <2> QED BY <2>1, <2>2
<1>3. x' \in Hidden
  <2>1. PICK b \in BOOLEAN : x' = [x EXCEPT !.clean = b, !.depth = @ + 1]
    <3>1. \A e \in Row : Sees(e, index, x.clean) \in BOOLEAN
      BY <1>1, LayerRow
    <3>2. soft[x.depth] \in Row /\ far[x.depth] \in Row
      BY <1>1, FarIsRow DEF Base, Types
    <3> QED BY <3>1, <3>2 DEF LocalLayer
  <2>2. x \in Hidden /\ x.depth + 1 \in 0 .. NL
    BY <1>1, Sizes DEF Base, Types, Layers
  <2> QED BY <2>1, <2>2 DEF Hidden
<1>4. Types'
  BY <1>1, <1>2, <1>3 DEF LocalLayer, Base, Types, request, flags, Passing
<1>5. Counters'
  BY <1>1 DEF LocalLayer, Base, Counters, request, Passing
<1>6. Runners'
  BY DEF LocalLayer, Base, Runners, request, flags, NeedsRuntime, AllowsDecode
<1> QED BY <1>4, <1>5, <1>6 DEF Base

LEMMA RemoteLayerBase ==
  ASSUME Base, RemoteLayer
  PROVE  Base'
<1>1. pc = "blocks" /\ pc' = "blocks" /\ x.depth < NL /\ x.depth \in Layers
  BY LayerRow DEF RemoteLayer
<1>2. far' \in [Layers -> FarRow]
  BY <1>1, LayerRow, FarIsRow DEF RemoteLayer, Base, Types
<1>3. x' \in Hidden
  <2>1. Sees(far[x.depth], index, x.clean) \in BOOLEAN
    BY <1>1, LayerRow, FarIsRow DEF Base, Types
  <2>2. RemoteOutput(x.depth) \in {"hidden", "logits", "token"} /\ x.depth + 1 \in 0 .. NL
    BY <1>1, Ends, Sizes DEF RemoteOutput, Base, Types, Layers
  <2> QED BY <2>1, <2>2 DEF RemoteLayer, Hidden
<1>4. Types'
  BY <1>1, <1>2, <1>3 DEF RemoteLayer, Base, Types, request, flags, Passing
<1>5. Counters'
  BY <1>1 DEF RemoteLayer, Base, Counters, request, Passing
<1>6. Runners'
  BY DEF RemoteLayer, Base, Runners, request, flags, NeedsRuntime, AllowsDecode
<1> QED BY <1>4, <1>5, <1>6 DEF Base

LEMMA LayerFailsBase ==
  ASSUME Base, LayerFails
  PROVE  Base'
<1>1. pc = "blocks" /\ pc' = "idle" /\ x.depth < NL /\ x.depth \in Layers
  BY LayerRow DEF LayerFails, Refuse
<1>2. soft' \in [Layers -> Row] /\ far' \in [Layers -> FarRow]
  BY <1>1, LayerRow, FarIsRow DEF LayerFails, Base, Types
<1>3. Types'
  BY <1>1, <1>2 DEF LayerFails, Refuse, Base, Types, request, flags
<1>4. Counters'
  BY <1>1 DEF Counters, Passing
<1>5. Runners'
  BY DEF LayerFails, Base, Runners, request, flags, NeedsRuntime, AllowsDecode
<1> QED BY <1>3, <1>4, <1>5 DEF Base

LEMMA SampleBase ==
  ASSUME Base, Sample
  PROVE  Base'
<1>1. pc = "sample" /\ pc' = "next" /\ generated' = generated + 1 /\ index' = index + n
  BY DEF Sample, NextIndex
<1>2. generated \in 0 .. SampleLen - 1 /\ index \in 0 .. MaxSeq
  BY <1>1, Sizes DEF Base, Types, Counters, Passing
<1>3. index' \in 0 .. MaxSeq /\ index' - generated' \in 0 .. MaxSeq - SampleLen
  <2>1. CASE generated = 0
    BY <1>1, <1>2, <2>1, Sizes DEF Base, Counters, Passing
  <2>2. CASE generated > 0
    BY <1>1, <1>2, <2>2, Sizes DEF Base, Counters, Passing
  <2> QED BY <1>2, <2>1, <2>2
<1>4. Types'
  <2>1. answer' \in {"none", "exact", "wrong", "hidden"}
    BY DEF Sample
  <2>2. generated' \in 0 .. SampleLen
    BY <1>1, <1>2, Sizes
  <2> QED BY <1>1, <1>3, <2>1, <2>2 DEF Sample, Base, Types, flags
<1>5. Counters'
  BY <1>1, <1>2, <1>3 DEF Counters, Passing
<1>6. Runners'
  BY DEF Sample, Base, Runners, flags, NeedsRuntime, AllowsDecode
<1> QED BY <1>4, <1>5, <1>6 DEF Base

LEMMA StutterBase ==
  ASSUME Base, UNCHANGED vars
  PROVE  Base'
BY DEF vars, Base, Types, Counters, Runners, AllowsDecode, UsesPrefillRunner, SupportsDeepstack,
       NeedsRuntime

LEMMA BaseStep == Base /\ [Next]_vars => Base'
BY ResetBase, StartPromptBase, NextTokenBase, StopBase, LoadFailsBase, FinishFailsBase,
   NoRunnerBase, ChooseNpuDecodeBase, ChooseOtherBase, FinishBase, LoadRunnerBase,
   BucketFallbackBase, ValidationPassesBase, ValidationReloadFailsBase, ValidationShrinksBase,
   ValidationRejectsBase,
   ValidationFailsBase, ValidationBreaksBase, NpuDecodeBase, NpuDecodeFailsBase, NpuPrefillBase,
   NpuPrefillFailsBase, LocalLayerBase, RemoteLayerBase, LayerFailsBase, SampleBase, StutterBase
   DEF Next, Work, Break

LEMMA BaseHolds == Spec => []Base
BY BaseInit, BaseStep, PTL DEF Spec

(* Every reachable state of every deployment is well formed: positions,    *)
(* rows and kept chunks stay within the bounds of the cache and the model. *)
THEOREM DecodeTypes == Spec => []TypeOK
<1>1. Base => TypeOK
  <2> SUFFICES ASSUME Base PROVE TypeOK
    OBVIOUS
  <2>1. npu.kept \in 0 .. Len(dep.ends)
    BY Ends DEF Base, Types, Runners, Off
  <2>2. ASSUME NEW l \in Layers
        PROVE  /\ RowsOK(soft[l]) /\ RowsOK(npu.kv[l])
               /\ RowsOK(far[l]) /\ far[l].len <= MaxSeq
    <3>1. soft[l] \in Row /\ far[l] \in FarRow /\ npu.kv[l] \in Row
      BY DEF Base, Types, Machine
    <3> QED BY <3>1 DEF RowsOK, Row, FarRow
  <2> QED BY <2>1, <2>2 DEF Base, Types, Runners, Passing, Hidden, TypeOK
<1> QED BY <1>1, BaseHolds, PTL

(* After the validation of a dialog no reload brings back a chunk that the *)
(* validation cut off (set_kept_chunks after ensure_text_rknn_loaded).     *)
THEOREM OnlyValidatedChunks == Spec => []ValidatedOnly
<1>1. Base => ValidatedOnly
  BY DEF Base, Runners, ValidatedOnly
<1> QED BY <1>1, BaseHolds, PTL

(* A runtime that gave up the NPU never loads it again, whichever dialogs  *)
(* follow: text_rknn_disabled is looked at by every path that could.       *)
THEOREM GivenUpForGood == Spec => FailedNpuStaysOff
<1>1. Base /\ [Next]_vars /\ disabledForRuntime => disabledForRuntime'
  BY DEF Next, Work, Break, Reset, StartPrompt, NextToken, Stop, LoadRunner, Reload, LoadFails,
         BucketFallback, ChooseNpuDecode, ChooseOther, ValidationPasses, ValidationShrinks,
         ValidationRejects, ValidationReloadFails, ValidationFails, ValidationBreaks,
         AfterValidationError, NpuDecode,
         NoRunner, NpuDecodeFails, NpuDecodeBreaks, GiveUpNpu, NpuPrefill, NpuPrefillFails,
         NpuPrefillBreaks, PrefillGivenUp, LocalLayer, RemoteLayer, LayerFails, Finish,
         FinishFails, Sample, flags, vars
<1>2. Base' /\ disabledForRuntime' => ~npu'.on
  BY DEF Base, Runners
<1>3. Base /\ [Next]_vars => [disabledForRuntime => disabledForRuntime' /\ ~npu'.on]_vars
  BY <1>1, <1>2, BaseStep
<1> QED BY <1>3, BaseHolds, PTL DEF Spec, FailedNpuStaysOff

-----------------------------------------------------------------------------
(* Where the rows are.                                                     *)

Last == LastLayer(npu.kept)
Exactly(k) == [len |-> k, good |-> k]
Due(l) == IF pc = "sample" \/ (pc = "blocks" /\ l < x.depth) THEN index + n ELSE index
Home(l) == IF l \in dep.local /\ ~forceShadow THEN soft[l] ELSE far[l]
NpuDecodes == npu.on /\ npu.synced /\ AllowsDecode /\ validated
MayDecode ==
  AllowsDecode /\ (npu.on \/ (dep.ends # <<>> /\ ~disabledForDialog /\ ~disabledForRuntime))
(* Nothing sound comes out of a dialog whose validation was refused.       *)
Lost == answer = "hidden" \/ (headless /\ pc \in {"blocks", "sample"})

(* Until the prompt is through, nothing has touched the runner.            *)
FreshPrompt ==
  generated = 0 =>
    /\ pc # "idle" => ~validated
    /\ npu.on /\ (pc \in {"next", "route", "prefill"} \/ (pc = "blocks" /\ x.depth < NL)) =>
         npu = Runner(npu.kept)
    /\ pc \in {"route", "prefill"} => soft = Empty /\ ~forceShadow
    /\ pc = "blocks" /\ x.depth < NL /\ ~forceShadow /\ dep.shadow /\ n > 1 => soft = Empty

(* The master and the runner have rows only for layers of the master.      *)
Homes ==
  /\ \A l \in Layers : l \notin dep.local \/ forceShadow => soft[l].len = 0 /\ npu.kv[l].len = 0
  /\ npu.on /\ npu.synced => ~forceShadow /\ PrefixOf(npu.kept) \subseteq dep.local

(* The place that computes a layer has the rows of the whole dialog.       *)
RowsKept ==
  \A l \in Layers : IF NpuDecodes /\ l <= Last THEN npu.kv[l] = Exactly(Due(l))
                    ELSE Home(l).good >= Due(l)

Computed ==
  /\ pc \in {"blocks", "sample"} => x.clean
  /\ pc = "blocks" /\ NpuDecodes => x.depth > Last
  /\ answer \in {"none", "exact"}

(* A runner that may yet start finds all rows of a layer or none, and once *)
(* validated it has rows of its own chunks only.                           *)
Offered ==
  /\ MayDecode /\ ~NpuDecodes => \A l \in Layers : soft[l].len > 0 => soft[l] = Exactly(Due(l))
  /\ AllowsDecode /\ npu.on /\ ~validated /\ pc # "validate" =>
       \A l \in Layers : npu.kv[l].len > 0 => npu.kv[l] = Exactly(Due(l))
  /\ AllowsDecode /\ npu.on /\ validated =>
       /\ \A l \in Layers : l > Last => npu.kv[l].len = 0
       /\ ~npu.synced => pc = "decode" /\ npu.kv = Empty
       /\ \A b \in 1 .. validatedKept : b \notin dep.broken

(* A token goes through the layers in software only if the NPU decoded     *)
(* its prefix or will not decode in this dialog.                           *)
Committed == pc = "blocks" /\ generated > 0 /\ MayDecode => NpuDecodes

Exact == pc # "idle" /\ ~Lost => RowsKept /\ Computed /\ Offered /\ Committed

(* A validated dialog has its runner or does without, unless the runner    *)
(* could not be loaded again.                                              *)
Reloaded == validated /\ pc # "idle" => npu.on \/ disabledForDialog \/ Lost

Inv == Base /\ FreshPrompt /\ Reloaded /\ Homes /\ Exact

-----------------------------------------------------------------------------
(* The prompt, and which places have rows at all.                          *)

LEMMA FreshStep ==
  ASSUME Base, Base', FreshPrompt, [Next]_vars
  PROVE  FreshPrompt'
<1> SUFFICES ASSUME generated' = 0 PROVE FreshPrompt'
  BY DEF FreshPrompt
<1>1. CASE Reset
  <2>1. npu'.on => npu' = Runner(npu'.kept)
    BY <1>1 DEF Reset, Cleared, Base, Runners, Runner
  <2>2. pc' = "next" /\ ~validated'
    BY <1>1 DEF Reset
  <2> QED BY <2>1, <2>2 DEF FreshPrompt
<1>2. CASE StartPrompt
  BY <1>2 DEF StartPrompt, FreshPrompt
<1>3. CASE NextToken \/ Sample
  BY <1>3, Sizes DEF NextToken, Sample, Base, Types
<1>4. CASE Stop \/ LoadFails \/ NoRunner \/ FinishFails
  BY <1>4, Sizes DEF Stop, LoadFails, NoRunner, FinishFails, Refuse, FreshPrompt, flags, request
<1>5. CASE LoadRunner
  BY <1>5, Machines DEF LoadRunner, Reload, FreshPrompt, request, Runner, Off
<1>6. CASE BucketFallback \/ ChooseNpuDecode \/ pc \in {"validate", "decode"}
  <2>1. generated' = generated
    <3>1. BucketFallback \/ ChooseNpuDecode => generated' = generated
      BY DEF BucketFallback, ChooseNpuDecode, request
    <3>2. pc \in {"validate", "decode"} => generated' = generated
      BY DEF Next, Work, Break, vars, Reset, StartPrompt, NextToken, Stop, LoadRunner, LoadFails,
             BucketFallback, ChooseNpuDecode, ChooseOther, ValidationPasses, ValidationShrinks,
             ValidationRejects, ValidationReloadFails, ValidationFails, ValidationBreaks,
         AfterValidationError, NpuDecode,
             NoRunner, NpuDecodeFails, NpuDecodeBreaks, GiveUpNpu, NpuPrefill, NpuPrefillFails,
             NpuPrefillBreaks, PrefillGivenUp, LocalLayer, RemoteLayer, LayerFails, Finish,
             FinishFails, Sample, request
    <3> QED BY <1>6, <3>1, <3>2
  <2>2. BucketFallback \/ ChooseNpuDecode => generated > 0
    BY Room DEF BucketFallback, ChooseNpuDecode, DecodeEligible, Passing
  <2>3. pc \in {"validate", "decode"} => generated > 0
    BY DEF Base, Counters
  <2> QED BY <1>6, <2>1, <2>2, <2>3
<1>7. CASE ChooseOther
  <2>1. /\ pc = "route" /\ pc' \in {"prefill", "blocks"}
        /\ UNCHANGED <<generated, validated, npu, soft, forceShadow>>
    BY <1>7 DEF ChooseOther, request, flags
  <2>2. generated = 0 /\ ~validated /\ (npu.on => npu = Runner(npu.kept)) /\ soft = Empty /\ ~forceShadow
    BY <2>1 DEF FreshPrompt
  <2> QED BY <2>1, <2>2 DEF FreshPrompt
<1>8. CASE NpuPrefill \/ NpuPrefillFails \/ NpuPrefillBreaks
  <2>1. ~validated' /\ pc' = "blocks"
    BY <1>8 DEF NpuPrefill, NpuPrefillFails, NpuPrefillBreaks, PrefillGivenUp, FreshPrompt, request, flags
  <2>2. CASE NpuPrefill
    <3>1. x' = [x EXCEPT !.depth = NL] /\ x \in Hidden
      BY <2>2 DEF NpuPrefill, Base, Types
    <3>2. ~(x'.depth < NL)
      BY <3>1, Sizes DEF Hidden
    <3> QED BY <2>1, <3>2 DEF FreshPrompt
  <2>3. CASE NpuPrefillFails \/ NpuPrefillBreaks
    <3>1. pc = "prefill" /\ UNCHANGED <<soft, generated>> /\ npu' = Off
      BY <2>3 DEF NpuPrefillFails, NpuPrefillBreaks, PrefillGivenUp, request
    <3>2. soft' = Empty /\ ~npu'.on
      BY <3>1 DEF FreshPrompt, Off
    <3> QED BY <2>1, <3>2 DEF FreshPrompt
  <2> QED BY <1>8, <2>2, <2>3
<1>9. CASE LocalLayer
  <2>1. /\ pc = "blocks" /\ pc' = "blocks" /\ x.depth < NL /\ index = 0 /\ ~validated
        /\ UNCHANGED <<generated, dep, n, validated, npu>>
    BY <1>9 DEF LocalLayer, FreshPrompt, request, flags, Base, Counters
  <2>2. npu.on => npu = Runner(npu.kept)
    BY <2>1 DEF FreshPrompt
  <2>3. ASSUME ~forceShadow', dep.shadow, n > 1
        PROVE  soft' = Empty
    BY <1>9, <2>1, <2>3 DEF LocalLayer, UsesShadow, Promoted, FreshPrompt
  <2> QED BY <2>1, <2>2, <2>3 DEF FreshPrompt
<1>10. CASE RemoteLayer
  BY <1>10 DEF RemoteLayer, FreshPrompt, request, flags
<1>11. CASE LayerFails
  BY <1>11 DEF LayerFails, Refuse, FreshPrompt, request, flags
<1>12. CASE Finish
  <2>1. pc = "blocks" /\ pc' = "sample" /\ UNCHANGED <<generated, validated, npu>>
    BY <1>12 DEF Finish, request, flags
  <2> QED BY <2>1 DEF FreshPrompt
<1>13. CASE UNCHANGED vars
  BY <1>13 DEF vars, FreshPrompt
<1> QED
  BY <1>1, <1>2, <1>3, <1>4, <1>5, <1>6, <1>7, <1>8, <1>9, <1>10, <1>11, <1>12, <1>13
  DEF Next, Work, Break, ValidationPasses, ValidationReloadFails, ValidationShrinks,
      ValidationRejects, ValidationFails, ValidationBreaks, ValidationStep, NpuDecode, NpuDecodeFails, NpuDecodeBreaks, NoRunner

LEMMA ReloadedStep ==
  ASSUME Base, Reloaded, [Next]_vars
  PROVE  Reloaded'
<1>1. CASE Reset \/ StartPrompt
  BY <1>1 DEF Reset, StartPrompt, Reloaded
<1>2. CASE Stop \/ LoadFails \/ NoRunner \/ FinishFails \/ LayerFails
  BY <1>2 DEF Stop, LoadFails, NoRunner, FinishFails, LayerFails, Refuse, Reloaded
<1>3. CASE LoadRunner \/ ValidationPasses
  <2>1. \E kept : Reload(kept)
    BY <1>3 DEF LoadRunner, ValidationPasses
  <2> QED BY <2>1 DEF Reload, Runner, Reloaded
<1>4. CASE \/ BucketFallback \/ ValidationRejects \/ NpuDecodeFails \/ NpuDecodeBreaks
           \/ NpuPrefillFails \/ NpuPrefillBreaks
  BY <1>4 DEF BucketFallback, ValidationRejects, NpuDecodeFails, NpuDecodeBreaks, GiveUpNpu,
              NpuPrefillFails, NpuPrefillBreaks, PrefillGivenUp, Reloaded
<1>5. CASE ValidationReloadFails
  BY <1>5 DEF ValidationReloadFails, Reloaded, Lost
<1>6. CASE \/ ValidationShrinks \/ ValidationFails \/ ValidationBreaks \/ NpuDecode \/ NpuPrefill
  <2>1. npu.on
    BY <1>6 DEF ValidationShrinks, ValidationStep, ValidationFails, ValidationBreaks, NpuDecode,
                NpuPrefill, Base, Counters
  <2>2. npu'.on
    BY <1>6, <2>1 DEF ValidationShrinks, Shrunk, ValidationFails, ValidationBreaks, FailedDecode,
                      NpuDecode, Decoded, NpuPrefill, Base, Types, Machine
  <2> QED BY <2>2 DEF Reloaded
<1>7. CASE \/ NextToken \/ ChooseNpuDecode \/ ChooseOther \/ LocalLayer \/ RemoteLayer \/ Finish
           \/ Sample \/ UNCHANGED vars
  <2>1. UNCHANGED <<npu, flags>> /\ (pc' # "idle" => pc # "idle")
    BY <1>7 DEF NextToken, ChooseNpuDecode, ChooseOther, LocalLayer, RemoteLayer, Finish, Sample,
                vars, flags
  <2>2. Lost => Lost'
    BY <1>7 DEF NextToken, ChooseNpuDecode, ChooseOther, LocalLayer, RemoteLayer, Finish, Sample,
                vars, Lost, Base, Counters
  <2> QED BY <2>1, <2>2 DEF flags, Reloaded
<1> QED BY <1>1, <1>2, <1>3, <1>4, <1>5, <1>6, <1>7 DEF Next, Work, Break

LEMMA FreshInit == Init => FreshPrompt /\ Reloaded
BY DEF Init, FreshPrompt, Reloaded

(* The prefix a runner serves, and that of its first chunks.               *)
LEMMA Prefixes ==
  ASSUME Base, npu.on
  PROVE  /\ Last \in 0 .. NL - 1 /\ PrefixOf(npu.kept) = 0 .. Last
         /\ \A c \in 1 .. npu.kept : LastLayer(c) \in 0 .. Last
         /\ Last <= LastLayer(Len(dep.ends)) /\ LastLayer(Len(dep.ends)) \in 0 .. NL - 1
<1>1. npu.kept \in 1 .. Len(dep.ends)
  BY DEF Base, Runners
<1>2. /\ Len(dep.ends) \in Nat
      /\ \A c \in 1 .. Len(dep.ends) : dep.ends[c] \in 0 .. NL - 1
      /\ \A a, b \in 1 .. Len(dep.ends) : a < b => dep.ends[a] < dep.ends[b]
  BY Ends DEF Base, Types
<1>3. \A c \in 1 .. npu.kept : dep.ends[c] <= dep.ends[npu.kept]
  <2> SUFFICES ASSUME NEW c \in 1 .. npu.kept PROVE dep.ends[c] <= dep.ends[npu.kept]
    OBVIOUS
  <2>1. c \in 1 .. Len(dep.ends) /\ (c = npu.kept \/ c < npu.kept)
    BY <1>1, <1>2
  <2>2. dep.ends[c] \in Int /\ dep.ends[npu.kept] \in Int
    BY <1>1, <1>2, <2>1
  <2> QED BY <1>1, <1>2, <2>1, <2>2
<1>4. dep.ends[npu.kept] <= dep.ends[Len(dep.ends)]
  <2>1. Len(dep.ends) \in 1 .. Len(dep.ends) /\ (npu.kept = Len(dep.ends) \/ npu.kept < Len(dep.ends))
    BY <1>1, <1>2
  <2>2. dep.ends[Len(dep.ends)] \in Int /\ dep.ends[npu.kept] \in Int
    BY <1>1, <1>2, <2>1
  <2> QED BY <1>1, <1>2, <2>1, <2>2
<1>5. \A c \in 1 .. npu.kept : dep.ends[c] \in 0 .. NL - 1
  BY <1>1, <1>2
<1>6. dep.ends[Len(dep.ends)] \in 0 .. NL - 1
  BY <1>1, <1>2
<1> QED BY <1>1, <1>3, <1>4, <1>5, <1>6 DEF Last, LastLayer, PrefixOf

(* Decoding starts only where the prefix is the master's.                  *)
LEMMA StartsAtHome ==
  ASSUME Base, Homes, npu.on, CanStart
  PROVE  ~forceShadow /\ PrefixOf(npu.kept) \subseteq dep.local
<1>1. 0 \in PrefixOf(npu.kept) /\ PrefixOf(npu.kept) \subseteq Layers
  BY Prefixes, Sizes DEF Layers
<1>2. CASE npu.synced
  BY <1>2 DEF Homes
<1>3. CASE CanSync
  BY <1>1, <1>3, Sizes DEF Homes, CanSync
<1> QED BY <1>2, <1>3 DEF CanStart

LEMMA StartRow ==
  ASSUME Base, NEW l \in Layers
  PROVE  /\ npu.synced \/ l \notin PrefixOf(npu.kept) => Start[l] = npu.kv[l]
         /\ ~npu.synced /\ l \in PrefixOf(npu.kept) => Start[l] = soft[l]
BY DEF Start

LEMMA BeyondRan ==
  ASSUME NEW kv, NEW c, NEW l \in Layers, ~(c > 0 /\ l <= LastLayer(c))
  PROVE  Ran(kv, c)[l] = kv[l]
BY DEF Ran

LEMMA RanHomes ==
  ASSUME Base, Homes, npu.on, CanStart, NEW c \in 0 .. npu.kept,
         NEW l \in Layers, l \notin dep.local \/ forceShadow
  PROVE  Ran(Start, c)[l] = npu.kv[l] /\ npu.kv[l].len = 0
<1>1. l \notin PrefixOf(npu.kept)
  BY StartsAtHome
<1>2. ~(c > 0 /\ l <= LastLayer(c))
  <2>1. l \in Nat /\ l > Last /\ Last \in Nat
    BY <1>1, Prefixes, Sizes DEF Layers
  <2>2. npu.kept \in Nat /\ (c > 0 => c \in 1 .. npu.kept)
    BY DEF Base, Types, Machine
  <2> QED BY <2>1, <2>2, Prefixes
<1> QED BY <1>1, <1>2, StartRow, BeyondRan DEF Homes

LEMMA Prefilled ==
  ASSUME Base, HandsOver(dep), pc = "prefill", PrefillRuns
  PROVE  dep.local = Layers /\ NeedsCpuTail
<1>1. npu.on /\ dep.prefillArg /\ dep.prefill = "deepstack" /\ dep.adds = NL
  BY DEF Base, Counters, UsesPrefillRunner, SupportsDeepstack, PrefillRuns
<1>2. dep.ends # <<>>
  BY <1>1, Ends DEF Base, Types, Runners
<1>3. AllowsDecode => Last < NL - 1
  BY <1>1, <1>2, Prefixes, Sizes DEF HandsOver, AllowsDecode, LastLayer
<1> QED BY <1>1, <1>3, Prefixes, Sizes DEF HandsOver, NeedsCpuTail, CoversAll, Last

(* What the validation's reference pass leaves.                            *)
LEMMA ReferenceHomes ==
  ASSUME Base, Homes, NEW c, NEW l \in Layers, l \notin dep.local \/ forceShadow
  PROVE  Reference(c).soft[l].len = 0
<1>1. soft[l].len # MaxSeq
  BY Sizes DEF Homes
<1>2. Reference(c).soft[l] = soft[l]
  BY <1>1 DEF Reference
<1> QED BY <1>2 DEF Homes

(* A runner that starts anew or is given up, and what it hands over.       *)
LEMMA HomesKept ==
  ASSUME Homes, dep' = dep, forceShadow' = forceShadow,
         \A l \in Layers : l \notin dep.local \/ forceShadow => soft'[l].len = 0,
         npu' = npu \/ npu' = Off \/ npu' = Runner(npu'.kept)
  PROVE  Homes'
BY DEF Homes, Off, Runner, Empty, None, PrefixOf, LastLayer

LEMMA HandedHomes ==
  ASSUME Homes, NEW r,
         \A l \in Layers : l \notin dep.local \/ forceShadow => r.kv[l].len = 0
  PROVE  \A l \in Layers : l \notin dep.local \/ forceShadow => SyncedSoft(r)[l].len = 0
BY DEF Homes, SyncedSoft

LEMMA FailedHomes ==
  ASSUME Base, Homes, npu.on, pc \in Passing, NEW c \in 0 .. npu.kept
  PROVE  /\ \A l \in Layers : l \notin dep.local \/ forceShadow => FailedDecode(c).kv[l].len = 0
         /\ FailedDecode(c).synced => ~forceShadow /\ PrefixOf(npu.kept) \subseteq dep.local
<1>1. CASE CanStart
  <2>1. FailedDecode(c).kv = Ran(Start, c)
    BY <1>1 DEF FailedDecode, Base, Types, Machine
  <2> QED BY <1>1, <2>1, RanHomes, StartsAtHome
<1>2. CASE ~CanStart
  BY <1>2 DEF FailedDecode, CanStart, Homes
<1> QED BY <1>1, <1>2

LEMMA DecodedHomes ==
  ASSUME Base, Homes, npu.on, CanStart
  PROVE  /\ \A l \in Layers : l \notin dep.local \/ forceShadow => Decoded.kv[l].len = 0
         /\ ~forceShadow /\ PrefixOf(npu.kept) \subseteq dep.local
<1>1. Decoded.kv = Ran(Start, npu.kept) /\ npu.kept \in 0 .. npu.kept
  BY DEF Decoded, Base, Types, Machine
<1> QED BY <1>1, RanHomes, StartsAtHome

(* A runner with the same chunks after its attempt.                        *)
LEMMA AttemptHomes ==
  ASSUME Homes, UNCHANGED <<dep, forceShadow, soft>>, npu'.kept = npu.kept,
         \A l \in Layers : l \notin dep.local \/ forceShadow => npu'.kv[l].len = 0,
         npu'.synced => ~forceShadow /\ PrefixOf(npu.kept) \subseteq dep.local
  PROVE  Homes'
BY DEF Homes, PrefixOf, LastLayer

LEMMA HomesStep ==
  ASSUME Base, FreshPrompt, Homes, HandsOver(dep), [Next]_vars
  PROVE  Homes'
<1>1. CASE Reset \/ StartPrompt
  <2>1. soft' = Empty
    BY <1>1 DEF Reset, StartPrompt
  <2>2. npu' = Off \/ npu' = Runner(npu'.kept)
    BY <1>1 DEF Reset, StartPrompt, Cleared, FreshPrompt, Base, Runners, Runner
  <2>3. npu'.kv = Empty /\ npu'.synced = FALSE
    BY <2>2 DEF Off, Runner
  <2> QED BY <2>1, <2>3 DEF Homes, Empty, None
<1>2. CASE \/ NextToken \/ Stop \/ LoadFails \/ NoRunner \/ FinishFails \/ ChooseNpuDecode
           \/ ChooseOther \/ RemoteLayer \/ Finish \/ Sample \/ UNCHANGED vars
  <2>1. UNCHANGED <<dep, forceShadow, soft, npu>>
    BY <1>2 DEF NextToken, Stop, LoadFails, NoRunner, FinishFails, ChooseNpuDecode, ChooseOther,
                RemoteLayer, Finish, Sample, vars, request, flags
  <2> QED BY <2>1 DEF Homes, PrefixOf, LastLayer
<1>3. CASE LoadRunner
  <2>1. npu' = Off \/ npu' = Runner(npu'.kept)
    BY <1>3 DEF LoadRunner, Reload, Runner
  <2> QED BY <1>3, <2>1, HomesKept DEF LoadRunner, request, Homes
<1>4. CASE BucketFallback
  <2>1. \A l \in Layers : l \notin dep.local \/ forceShadow => soft'[l].len = 0
    BY <1>4, HandedHomes DEF BucketFallback, Homes
  <2> QED BY <1>4, <2>1, HomesKept DEF BucketFallback, request
<1>5. CASE ValidationPasses \/ ValidationReloadFails \/ ValidationRejects
  <2>1. soft' = Reference(npu.kept).soft
    BY <1>5 DEF ValidationPasses, ValidationReloadFails, ValidationRejects, ValidationStep
  <2>2. \A l \in Layers : l \notin dep.local \/ forceShadow => soft'[l].len = 0
    BY <2>1, ReferenceHomes
  <2>3. npu' = Off \/ npu' = Runner(npu'.kept)
    <3>1. ValidationPasses => Reload(npu.kept)
      BY DEF ValidationPasses
    <3>2. ValidationReloadFails \/ ValidationRejects => npu' = Off
      BY DEF ValidationReloadFails, ValidationRejects
    <3> QED BY <1>5, <3>1, <3>2 DEF Reload, Runner
  <2> QED BY <1>5, <2>2, <2>3, HomesKept
          DEF ValidationPasses, ValidationReloadFails, ValidationRejects, request
<1>6. CASE ValidationShrinks
  <2>1. soft' = Reference(npu.kept).soft /\ pc = "validate" /\ CanStart /\ npu.on
    BY <1>6 DEF ValidationShrinks, ValidationStep, Base, Counters
  <2>2. npu' = Shrunk(Ran(Start, npu.kept)) /\ UNCHANGED <<dep, forceShadow>>
    BY <1>6 DEF ValidationShrinks, request
  <2>3. npu.kept \in 0 .. npu.kept /\ npu \in Machine
    BY DEF Base, Types, Machine
  <2>4. ~npu'.synced
    BY <2>2, <2>3 DEF Shrunk, Machine
  <2>5. ASSUME NEW l \in Layers, l \notin dep.local \/ forceShadow
        PROVE  soft'[l].len = 0 /\ npu'.kv[l].len = 0
    <3>1. Ran(Start, npu.kept)[l].len = 0
      BY <2>1, <2>3, <2>5, RanHomes
    <3>2. npu'.kv[l] = IF l <= LastLayer(npu.kept - 1) THEN Ran(Start, npu.kept)[l] ELSE None
      BY <2>2, <2>3 DEF Shrunk, Machine
    <3> QED BY <2>1, <2>5, <3>1, <3>2, ReferenceHomes DEF None
  <2> QED BY <2>2, <2>4, <2>5 DEF Homes
<1>7. CASE ValidationFails \/ ValidationBreaks
  <2>1. /\ pc = "validate" /\ npu.on /\ npu.kept \in Nat /\ UNCHANGED <<dep, forceShadow, soft>>
    BY <1>7 DEF ValidationFails, ValidationBreaks, AfterValidationError, request, Base, Counters,
                Types, Machine
  <2>2. CASE \E c \in 0 .. npu.kept - 1 : npu' = FailedDecode(c)
    <3>1. PICK c \in 0 .. npu.kept : npu' = FailedDecode(c)
      BY <2>1, <2>2
    <3>2. npu'.kept = npu.kept
      BY <3>1 DEF FailedDecode, Base, Types, Machine
    <3> QED BY <2>1, <3>1, <3>2, FailedHomes, AttemptHomes DEF Passing
  <2>3. CASE CanStart /\ npu' = Decoded
    <3>1. npu'.kept = npu.kept
      BY <2>3 DEF Decoded, Base, Types, Machine
    <3> QED BY <2>1, <2>3, <3>1, DecodedHomes, AttemptHomes
  <2> QED BY <1>7, <2>2, <2>3 DEF ValidationFails, ValidationBreaks
<1>8. CASE NpuDecode
  <2>1. npu.on /\ CanStart /\ npu' = Decoded /\ UNCHANGED <<dep, forceShadow, soft>>
    BY <1>8 DEF NpuDecode, request
  <2>2. npu'.kept = npu.kept
    BY <2>1 DEF Decoded, Base, Types, Machine
  <2> QED BY <2>1, <2>2, DecodedHomes, AttemptHomes
<1>9. CASE NpuDecodeFails \/ NpuDecodeBreaks
  <2>1. pc = "decode" /\ npu.on /\ npu.kept \in Nat
    BY <1>9 DEF NpuDecodeFails, NpuDecodeBreaks, Base, Types, Machine
  <2>2. PICK c \in 0 .. npu.kept : GiveUpNpu(FailedDecode(c))
    BY <1>9, <2>1 DEF NpuDecodeFails, NpuDecodeBreaks
  <2>3. \A l \in Layers : l \notin dep.local \/ forceShadow => soft'[l].len = 0
    BY <2>1, <2>2, FailedHomes, HandedHomes DEF GiveUpNpu, Passing
  <2> QED BY <2>2, <2>3, HomesKept DEF GiveUpNpu, request
<1>10. CASE NpuPrefill
  <2>1. dep.local = Layers
    BY <1>10, Prefilled DEF NpuPrefill
  <2>2. ~forceShadow' /\ dep' = dep /\ npu'.kept = npu.kept /\ npu.on
    BY <1>10 DEF NpuPrefill, request, FreshPrompt, Base, Counters, Types, Machine
  <2>3. PrefixOf(npu.kept) \subseteq Layers
    BY <2>2, Prefixes, Sizes DEF Layers
  <2> QED BY <2>1, <2>2, <2>3 DEF Homes, PrefixOf, LastLayer
<1>11. CASE NpuPrefillFails \/ NpuPrefillBreaks
  BY <1>11, HomesKept DEF NpuPrefillFails, NpuPrefillBreaks, PrefillGivenUp, request, Homes
<1>12. CASE LocalLayer
  <2>1. /\ pc = "blocks" /\ x.depth < NL /\ x.depth \in dep.local /\ UNCHANGED <<dep, npu, index, n>>
    BY <1>12 DEF LocalLayer, request
  <2>2. CASE forceShadow
    BY <1>12, <2>1, <2>2 DEF LocalLayer, UsesShadow, Promoted, Homes, PrefixOf, LastLayer
  <2>3. CASE ~forceShadow /\ UsesShadow
    <3>1. dep.shadow /\ index = 0 /\ n > 1 /\ generated = 0
      BY <2>1, <2>3, Room DEF UsesShadow, Base, Types, Passing
    <3>2. soft' = soft /\ soft = Empty
      BY <1>12, <2>1, <2>3, <3>1 DEF LocalLayer, FreshPrompt
    <3>3. npu.kv = Empty /\ ~npu.synced
      BY <2>1, <3>1 DEF FreshPrompt, Runner, Base, Runners, Off
    <3> QED BY <2>1, <3>2, <3>3 DEF Homes, Empty, None
  <2>4. CASE ~UsesShadow
    <3>1. soft' = [soft EXCEPT ![x.depth] = Fed(@, index, n, x.clean)] /\ forceShadow' = forceShadow
      BY <1>12, <2>4 DEF LocalLayer
    <3>2. \A l \in Layers : l \notin dep.local \/ forceShadow => soft'[l] = soft[l]
      BY <2>1, <2>4, <3>1 DEF UsesShadow, Base, Types
    <3> QED BY <2>1, <3>1, <3>2 DEF Homes, PrefixOf, LastLayer
  <2> QED BY <2>2, <2>3, <2>4
<1>13. CASE LayerFails
  <2>1. \A l \in Layers : l \notin dep.local \/ forceShadow => soft'[l] = soft[l]
    BY <1>13 DEF LayerFails, UsesShadow, Base, Types
  <2> QED BY <1>13, <2>1 DEF LayerFails, request, Homes, PrefixOf, LastLayer
<1> QED
  BY <1>1, <1>2, <1>3, <1>4, <1>5, <1>6, <1>7, <1>8, <1>9, <1>10, <1>11, <1>12, <1>13
  DEF Next, Work, Break

LEMMA HomesInit == Init => Homes
<1> SUFFICES ASSUME Init PROVE Homes
  OBVIOUS
<1>1. soft = Empty /\ (npu = Off \/ npu = Runner(Len(dep.ends)))
  BY DEF Init
<1> QED BY <1>1 DEF Homes, Off, Runner, Empty, None

-----------------------------------------------------------------------------
(* The rows of the dialog.                                                 *)

LEMMA FedGood ==
  ASSUME NEW e \in Row, NEW p \in 0 .. MaxSeq - 1, NEW m \in 1 .. MaxSeq, p > 0 => m = 1
  PROVE  /\ p = 0 => Fed(e, p, m, TRUE) = Exactly(m)
         /\ e.good >= p => Fed(e, p, m, TRUE).good >= p + m /\ Sees(e, p, TRUE)
         /\ \A clean \in BOOLEAN : e.good >= p => Fed(e, p, m, clean).good >= p \/ p = 0
BY Sizes DEF Fed, MinOf, Row, Exactly, Sees

LEMMA PromptRow == \A e, m : Fed(e, 0, m, TRUE) = Exactly(m)
BY DEF Fed, Exactly

(* Steps that leave every row where it is.                                 *)
LEMMA SameRows ==
  ASSUME RowsKept, Offered, UNCHANGED <<dep, soft, far, npu, forceShadow, flags>>,
         \A l \in Layers : Due(l)' = Due(l),
         pc' # "validate" => pc # "validate", pc = "decode" => pc' = "decode"
  PROVE  RowsKept' /\ Offered'
<1>1. /\ NpuDecodes' = NpuDecodes /\ AllowsDecode' = AllowsDecode /\ MayDecode' = MayDecode
      /\ Last' = Last /\ \A l \in Layers : Home(l)' = Home(l)
  BY DEF NpuDecodes, AllowsDecode, MayDecode, Last, LastLayer, Home, flags
<1>2. RowsKept'
  BY <1>1 DEF RowsKept, Exactly
<1>3. Offered'
  BY <1>1 DEF Offered, Exactly, flags, Empty
<1> QED BY <1>2, <1>3

LEMMA ResetExact ==
  ASSUME Inv, Reset
  PROVE  Exact'
<1>1. /\ pc' = "next" /\ index' = 0 /\ n' = 0 /\ soft' = Empty /\ validated' = FALSE
      /\ answer' = "none" /\ dep' = dep
  BY DEF Reset
<1>2. Base'
  BY ResetBase DEF Inv
<1>3. npu'.kv = Empty
  <2>1. npu' = Off \/ npu' = Runner(npu'.kept)
    BY DEF Reset, Cleared, Inv, Base, Runners, Runner
  <2> QED BY <2>1 DEF Off, Runner
<1>4. \A l \in Layers : Due(l)' = 0
  BY <1>1 DEF Due
<1>5. RowsKept'
  <2>1. \A l \in Layers : soft'[l].good >= 0 /\ far'[l].good >= 0
    BY <1>2 DEF Base, Types, Row, FarRow
  <2>2. ~NpuDecodes'
    BY <1>1 DEF NpuDecodes
  <2> QED BY <1>4, <2>1, <2>2 DEF RowsKept, Home
<1>6. Offered'
  BY <1>1, <1>3 DEF Offered, Empty, None
<1>7. Computed' /\ Committed'
  BY <1>1 DEF Computed, Committed
<1> QED BY <1>5, <1>6, <1>7 DEF Exact

LEMMA StartPromptExact ==
  ASSUME Inv, StartPrompt
  PROVE  Exact'
<1> SUFFICES ASSUME ~Lost' PROVE Exact'
  BY DEF Exact
<1>1. /\ pc = "next" /\ pc' = "route" /\ index' = 0 /\ soft' = Empty /\ validated' = FALSE
      /\ x' = Embedded /\ generated = 0 /\ UNCHANGED <<dep, npu, answer>>
  BY DEF StartPrompt
<1>2. Base'
  BY StartPromptBase DEF Inv
<1>3. npu.kv = Empty
  <2>1. npu = Off \/ npu = Runner(npu.kept)
    BY <1>1 DEF Inv, Base, Runners, FreshPrompt
  <2> QED BY <2>1 DEF Off, Runner
<1>4. \A l \in Layers : Due(l)' = 0
  BY <1>1 DEF Due
<1>5. RowsKept'
  <2>1. \A l \in Layers : soft'[l].good >= 0 /\ far'[l].good >= 0
    BY <1>2 DEF Base, Types, Row, FarRow
  <2>2. ~NpuDecodes'
    BY <1>1 DEF NpuDecodes
  <2> QED BY <1>4, <2>1, <2>2 DEF RowsKept, Home
<1>6. Offered'
  BY <1>1, <1>3 DEF Offered, Empty, None
<1>7. Computed' /\ Committed'
  BY <1>1 DEF Computed, Committed, Inv, Exact, Lost
<1> QED BY <1>5, <1>6, <1>7 DEF Exact

LEMMA NextTokenExact ==
  ASSUME Inv, NextToken
  PROVE  Exact'
<1> SUFFICES ASSUME ~Lost' PROVE Exact'
  BY DEF Exact
<1>1. /\ pc = "next" /\ pc' = "route" /\ x' = Embedded /\ index' = index
      /\ UNCHANGED <<dep, soft, far, npu, forceShadow, flags, answer>>
  BY DEF NextToken
<1>2. RowsKept /\ Computed /\ Offered
  BY <1>1 DEF Inv, Exact, Lost
<1>3. \A l \in Layers : Due(l)' = Due(l)
  BY <1>1 DEF Due
<1> QED BY <1>1, <1>2, <1>3, SameRows DEF Exact, Computed, Committed

LEMMA ChooseNpuDecodeExact ==
  ASSUME Inv, ChooseNpuDecode
  PROVE  Exact'
<1> SUFFICES ASSUME ~Lost' PROVE Exact'
  BY DEF Exact
<1>1. /\ pc = "route" /\ pc' \in {"validate", "decode"} /\ index' = index /\ npu.on
      /\ UNCHANGED <<dep, soft, far, npu, forceShadow, flags, answer>>
      /\ AllowsDecode /\ npu.on /\ (pc' = "validate" <=> ~(validated \/ disabledForDialog))
  BY DEF ChooseNpuDecode, request, DecodeEligible
<1>2. RowsKept /\ Computed /\ Offered
  BY <1>1 DEF Inv, Exact, Lost
<1>3. \A l \in Layers : Due(l)' = Due(l)
  BY <1>1 DEF Due
<1> QED BY <1>1, <1>2, <1>3, SameRows DEF Exact, Computed, Committed

LEMMA ChooseOtherExact ==
  ASSUME Inv, ChooseOther
  PROVE  Exact'
<1> SUFFICES ASSUME ~Lost' PROVE Exact'
  BY DEF Exact
<1>1. /\ pc = "route" /\ pc' \in {"prefill", "blocks"}
      /\ UNCHANGED <<dep, index, n, x, generated, soft, far, npu, forceShadow, flags, answer>>
      /\ ~MustLoad /\ ~(DecodeEligible /\ npu.on) /\ x = Embedded
  BY DEF ChooseOther, request, Inv, Base, Counters
<1>2. RowsKept /\ Computed /\ Offered
  BY <1>1 DEF Inv, Exact, Lost
<1>3. \A l \in Layers : Due(l)' = Due(l)
  BY <1>1 DEF Due, Layers, Embedded
<1>4. generated > 0 /\ MayDecode => FALSE
  <2> SUFFICES ASSUME generated > 0, MayDecode PROVE FALSE
    OBVIOUS
  <2>1. DecodeEligible
    BY <1>1, Room, Sizes DEF DecodeEligible, MayDecode, Inv, Base, Types, Counters, Passing
  <2> QED BY <1>1, <2>1 DEF MustLoad, MayDecode, NeedsRuntime
<1>5. ~NpuDecodes
  <2>1. generated = 0 => ~validated
    BY <1>1 DEF Inv, FreshPrompt
  <2>2. generated \in Nat
    BY DEF Inv, Base, Types
  <2> QED BY <1>4, <2>1, <2>2 DEF NpuDecodes, MayDecode
<1>6. Computed'
  BY <1>1, <1>2, <1>5 DEF Computed, NpuDecodes, flags, AllowsDecode, Embedded
<1>7. Committed'
  BY <1>1, <1>4 DEF Committed, MayDecode, flags, AllowsDecode
<1> QED BY <1>1, <1>2, <1>3, <1>6, <1>7, SameRows DEF Exact

LEMMA FinishExact ==
  ASSUME Inv, Finish
  PROVE  Exact'
<1> SUFFICES ASSUME ~Lost' PROVE Exact'
  BY DEF Exact
<1>1. /\ pc = "blocks" /\ pc' = "sample" /\ x.depth = NL /\ x'.clean = x.clean
      /\ UNCHANGED <<dep, index, n, soft, far, npu, forceShadow, flags, answer, headless>>
  BY DEF Finish, request, Inv, Base, Types, Hidden
<1>2. RowsKept /\ Computed /\ Offered
  BY <1>1 DEF Inv, Exact, Lost
<1>3. \A l \in Layers : Due(l)' = Due(l)
  BY <1>1, Sizes DEF Due, Layers
<1> QED BY <1>1, <1>2, <1>3, SameRows DEF Exact, Computed, Committed

LEMMA SampleExact ==
  ASSUME Inv, Sample
  PROVE  Exact'
<1> SUFFICES ASSUME ~Lost' PROVE Exact'
  BY DEF Exact
<1>1. /\ pc = "sample" /\ pc' = "next" /\ index' = index + n
      /\ UNCHANGED <<dep, soft, far, npu, forceShadow, flags>>
  BY DEF Sample, NextIndex
<1>2. ~Lost /\ x.kind # "hidden"
  BY <1>1 DEF Sample, Lost, Inv, Base, Counters
<1>3. RowsKept /\ Computed /\ Offered
  BY <1>1, <1>2 DEF Inv, Exact
<1>4. \A l \in Layers : Due(l)' = Due(l)
  BY <1>1 DEF Due
<1>5. answer' = "exact"
  BY <1>1, <1>2, <1>3 DEF Sample, Computed, Lost
<1> QED BY <1>1, <1>3, <1>4, <1>5, SameRows DEF Exact, Computed, Committed

-----------------------------------------------------------------------------
(* The chunks.                                                             *)

LEMMA FirstExists ==
  ASSUME NEW S \in SUBSET Nat, S # {}
  PROVE  \E b \in S : \A c \in S : b <= c
<1> DEFINE R == {p \in Nat \X Nat : p[1] < p[2]}
<1>1. IsWellFoundedOn(R, Nat)
  <2>1. R = OpToRel(<, Nat)
    BY Zenon DEF OpToRel
  <2> QED BY <2>1, NatLessThanWellFounded, Zenon
<1>2. PICK b \in S : \A c \in S : ~ (<<c, b>> \in R)
  <2> HIDE DEF R
  <2> QED BY <1>1, WFMin
<1>3. ASSUME NEW c \in S
      PROVE  b <= c
  <2>1. <<c, b>> \in Nat \X Nat /\ <<c, b>>[1] = c /\ <<c, b>>[2] = b /\ b \in Nat /\ c \in Nat
    OBVIOUS
  <2>2. ~ (c < b)
    BY <1>2, <2>1, Zenon
  <2> QED BY <2>1, <2>2
<1> QED BY <1>3

(* The chunks follow each other: every layer of a prefix lies in one.      *)
LEMMA ChunksCoverPrefix ==
  ASSUME dep \in Deployments, NEW c \in 1 .. Len(dep.ends), NEW l \in 0 .. LastLayer(c)
  PROVE  \E b \in 1 .. c : l \in LayersOf(b)
<1> DEFINE S == {b \in 1 .. c : l <= LastLayer(b)}
<1>1. /\ Len(dep.ends) \in Nat /\ c \in Nat /\ c >= 1
      /\ \A b \in 1 .. c : LastLayer(b) \in 0 .. NL - 1
  BY Ends DEF LastLayer
<1>2. c \in S /\ S \in SUBSET Nat
  BY <1>1, Sizes
<1>3. PICK b \in S : \A a \in S : b <= a
  <2> HIDE DEF S
  <2> QED BY <1>2, FirstExists
<1>4. b \in 1 .. c /\ l <= LastLayer(b)
  OBVIOUS
<1>5. l \in LayersOf(b)
  <2>1. CASE b = 1
    BY <1>1, <1>4, <2>1, Sizes DEF LayersOf, FirstOf, LastLayer
  <2>2. CASE b > 1
    <3>1. b - 1 \in 1 .. c /\ b - 1 < b
      BY <1>1, <1>4, <2>2
    <3>2. b - 1 \notin S
      BY <1>3, <3>1
    <3>3. ~(l <= LastLayer(b - 1)) /\ LastLayer(b - 1) \in 0 .. NL - 1 /\ LastLayer(b) \in 0 .. NL - 1
      BY <1>1, <1>4, <3>1, <3>2
    <3> QED BY <1>1, <1>4, <2>2, <3>3, Sizes DEF LayersOf, FirstOf, LastLayer
  <2> QED BY <1>1, <1>4, <2>1, <2>2
<1> QED BY <1>4, <1>5

(* In the part of a dialog that is not lost, a decode starts from exactly  *)
(* the rows of the dialog, so every chunk computes the right thing.        *)
LEMMA DecodeStart ==
  ASSUME Inv, pc = "decode", npu.on, CanStart, ~Lost
  PROVE  /\ \A l \in 0 .. Last : l \in Layers /\ Start[l] = Exactly(index)
         /\ \A l \in Layers : l > Last => Start[l] = npu.kv[l] /\ npu.kv[l].len = 0
         /\ \A c \in 0 .. npu.kept : Right(Start, c)
<1>1. RowsKept /\ Offered /\ AllowsDecode /\ validated
  BY DEF Inv, Exact, Base, Counters
<1>2. Last \in 0 .. NL - 1 /\ PrefixOf(npu.kept) = 0 .. Last /\ 0 .. Last \subseteq Layers
  BY Prefixes, Sizes DEF Inv, Layers
<1>3. ASSUME NEW l \in 0 .. Last
      PROVE  Start[l] = Exactly(index)
  <2>1. l \in Layers /\ l \in PrefixOf(npu.kept) /\ l <= Last
    BY <1>2
  <2>2. Due(l) = index
    BY DEF Due
  <2>3. CASE npu.synced
    BY <1>1, <2>1, <2>2, <2>3, StartRow DEF RowsKept, NpuDecodes, Inv
  <2>4. CASE ~npu.synced
    <3>1. soft[l].len > 0
      BY <2>1, <2>4 DEF CanStart, CanSync
    <3>2. MayDecode /\ ~NpuDecodes
      BY <1>1, <2>4 DEF MayDecode, NpuDecodes
    <3> QED BY <1>1, <2>1, <2>2, <2>4, <3>1, <3>2, StartRow DEF Offered, Inv
  <2> QED BY <2>3, <2>4
<1>4. ASSUME NEW l \in Layers, l > Last
      PROVE  Start[l] = npu.kv[l] /\ npu.kv[l].len = 0
  <2>1. l \notin PrefixOf(npu.kept)
    BY <1>2, <1>4, Sizes DEF Layers
  <2> QED BY <1>1, <1>4, <2>1, StartRow DEF Offered, Inv
<1>5. ASSUME NEW c \in 0 .. npu.kept, NEW b \in 1 .. c
      PROVE  b \notin dep.broken /\ \A l \in LayersOf(b) : Start[l] = [len |-> index, good |-> index]
  <2>1. npu.kept \in 1 .. Len(dep.ends) /\ npu.kept <= validatedKept /\ validatedKept \in Nat
    BY <1>1, Ends DEF Inv, Base, Types, Runners
  <2>2. b \in 1 .. npu.kept /\ b \in 1 .. validatedKept /\ b \in 1 .. Len(dep.ends)
    BY <2>1, Ends DEF Inv, Base, Types
  <2>3. b \notin dep.broken
    BY <1>1, <2>2 DEF Offered
  <2>4. LastLayer(b) \in 0 .. Last /\ FirstOf(b) \in Nat
    <3>1. b > 1 => b - 1 \in 1 .. Len(dep.ends)
      BY <2>2, Ends DEF Inv, Base, Types
    <3>2. FirstOf(b) \in Nat
      BY <2>2, <3>1, Ends, Sizes DEF FirstOf, Inv, Base, Types
    <3> QED BY <2>2, <3>2, Prefixes DEF Inv
  <2>5. LayersOf(b) \subseteq 0 .. Last
    BY <1>2, <2>4 DEF LayersOf, LastLayer
  <2> QED BY <1>3, <2>3, <2>5 DEF Exactly
<1>6. \A c \in 0 .. npu.kept : Right(Start, c)
  BY <1>5 DEF Right
<1> QED BY <1>2, <1>3, <1>4, <1>6

(* What the first c chunks leave then: rows for the token, or all as it was *)
LEMMA DecodeRan ==
  ASSUME Inv, pc = "decode", npu.on, CanStart, ~Lost, NEW c \in 0 .. npu.kept, NEW l \in Layers
  PROVE  Ran(Start, c)[l] = IF c > 0 /\ l <= LastLayer(c) THEN Exactly(index + 1) ELSE Start[l]
<1>1. CASE c > 0 /\ l <= LastLayer(c)
  <2>1. c \in 1 .. npu.kept /\ c \in 1 .. Len(dep.ends) /\ l \in 0 .. LastLayer(c)
    BY <1>1, Ends, Prefixes, Sizes DEF Inv, Base, Types, Runners, Layers
  <2>2. PICK b \in 1 .. c : l \in LayersOf(b)
    BY <2>1, ChunksCoverPrefix DEF Inv, Base, Types
  <2>3. b \in 0 .. npu.kept /\ l \in 0 .. Last
    BY <2>1, <2>2, Prefixes, Sizes, Ends, SMTT(30) DEF Inv, Base, Types, Runners
  <2>4. Right(Start, b) /\ Start[l] = Exactly(index)
    BY <2>3, DecodeStart
  <2> QED BY <1>1, <2>2, <2>4 DEF Ran, Exactly
<1>2. CASE ~(c > 0 /\ l <= LastLayer(c))
  BY <1>2, BeyondRan
<1> QED BY <1>1, <1>2

-----------------------------------------------------------------------------
(* The runner comes, is given up, computes.                                *)

LEMMA LoadRunnerExact ==
  ASSUME Inv, LoadRunner
  PROVE  Exact'
<1> SUFFICES ASSUME ~Lost' PROVE Exact'
  BY DEF Exact
<1>1. /\ pc = "route" /\ pc' = "route" /\ ~npu.on /\ ~disabledForDialog /\ ~disabledForRuntime
      /\ dep.ends # <<>> /\ Reload(Kept)
      /\ UNCHANGED <<dep, index, n, x, soft, far, validated, validatedKept, forceShadow, answer, headless>>
  BY DEF LoadRunner, MustLoad, request
<1>2. RowsKept /\ Computed /\ Offered /\ ~validated
  <2>1. ~Lost
    BY <1>1 DEF Lost
  <2> QED BY <1>1, <2>1 DEF Inv, Exact, Reloaded
<1>3. \A l \in Layers : Due(l)' = Due(l) /\ Home(l)' = Home(l)
  BY <1>1 DEF Due, Home
<1>4. ~NpuDecodes /\ ~NpuDecodes' /\ AllowsDecode' = AllowsDecode
  BY <1>1, <1>2 DEF NpuDecodes, AllowsDecode
<1>5. RowsKept'
  BY <1>2, <1>3, <1>4 DEF RowsKept
<1>6. npu'.kv = Empty
  <2>1. npu' = Off \/ npu' = Runner(Kept)
    BY <1>1 DEF Reload
  <2> QED BY <2>1 DEF Off, Runner
<1>7. Offered'
  <2>1. AllowsDecode => MayDecode
    BY <1>1 DEF MayDecode
  <2>2. MayDecode' => MayDecode
    BY <1>4, <2>1 DEF MayDecode
  <2>3. \A l \in Layers : npu'.kv[l].len = 0
    BY <1>6 DEF Empty, None
  <2> QED BY <1>1, <1>2, <1>3, <1>4, <2>2, <2>3 DEF Offered, Exactly
<1> QED BY <1>1, <1>2, <1>5, <1>7 DEF Exact, Computed, Committed

LEMMA BucketFallbackExact ==
  ASSUME Inv, BucketFallback
  PROVE  Exact'
<1> SUFFICES ASSUME ~Lost' PROVE Exact'
  BY DEF Exact
<1>1. /\ pc = "route" /\ pc' = "blocks" /\ npu.on /\ AllowsDecode /\ index > 0 /\ x = Embedded
      /\ soft' = SyncedSoft(npu) /\ npu' = Off /\ disabledForDialog'
      /\ UNCHANGED <<dep, index, n, x, far, forceShadow, answer>>
  BY DEF BucketFallback, DecodeEligible, request, Inv, Base, Counters
<1>2. RowsKept /\ Computed /\ Offered
  BY <1>1 DEF Inv, Exact, Lost
<1>3. ~NpuDecodes' /\ ~MayDecode' /\ ~npu'.on
  BY <1>1 DEF NpuDecodes, MayDecode, Off
<1>4. ASSUME NEW l \in Layers
      PROVE  Home(l)'.good >= Due(l)'
  <2>1. Due(l) = index /\ Due(l)' = index /\ index \in Nat
    BY <1>1 DEF Due, Layers, Embedded, Inv, Base, Types
  <2>2. CASE l \in dep.local /\ ~forceShadow
    <3>1. Home(l)' = SyncedSoft(npu)[l] /\ Home(l) = soft[l]
      BY <1>1, <2>2 DEF Home
    <3>2. CASE npu.kv[l].len > 0
      <4>1. SyncedSoft(npu)[l] = npu.kv[l]
        BY <1>1, <3>2 DEF SyncedSoft
      <4>2. npu.kv[l] = Exactly(index)
        <5>1. CASE ~validated
          BY <1>1, <1>2, <2>1, <3>2, <5>1 DEF Offered
        <5>2. CASE validated
          <6>1. npu.synced /\ NpuDecodes
            BY <1>1, <1>2, <5>2 DEF Offered, NpuDecodes
          <6>2. l \in Nat /\ Last \in Nat /\ ~(l > Last)
            BY <1>1, <1>2, <3>2, <5>2, Prefixes, Sizes DEF Offered, Inv, Layers
          <6> QED BY <1>2, <2>1, <6>1, <6>2 DEF RowsKept
        <5> QED BY <5>1, <5>2
      <4> QED BY <2>1, <3>1, <4>1, <4>2 DEF Exactly
    <3>3. CASE ~(npu.kv[l].len > 0)
      <4>1. SyncedSoft(npu)[l] = soft[l]
        BY <3>3 DEF SyncedSoft
      <4>2. ~(NpuDecodes /\ l <= Last)
        <5>1. NpuDecodes /\ l <= Last => npu.kv[l] = Exactly(index)
          BY <1>2, <2>1 DEF RowsKept
        <5> QED BY <1>1, <2>1, <3>3, <5>1 DEF Exactly
      <4> QED BY <1>2, <2>1, <3>1, <4>1, <4>2 DEF RowsKept
    <3> QED BY <3>2, <3>3
  <2>3. CASE ~(l \in dep.local /\ ~forceShadow)
    <3>1. Home(l)' = Home(l)
      BY <1>1, <2>3 DEF Home
    <3>2. ~(NpuDecodes /\ l <= Last)
      <4>1. NpuDecodes /\ l <= Last => l \in PrefixOf(npu.kept)
        BY <1>1, Prefixes, Sizes DEF Inv, Layers
      <4> QED BY <2>3, <4>1 DEF Inv, Homes, NpuDecodes
    <3> QED BY <1>2, <2>1, <3>1, <3>2 DEF RowsKept
  <2> QED BY <2>2, <2>3
<1>5. RowsKept'
  BY <1>3, <1>4 DEF RowsKept
<1>6. Offered' /\ Committed'
  BY <1>3 DEF Offered, Committed
<1>7. Computed'
  BY <1>1, <1>2, <1>3 DEF Computed, Embedded
<1> QED BY <1>5, <1>6, <1>7 DEF Exact

(* The reference pass finds what it needs and leaves it as it was.         *)
LEMMA ReferenceExact ==
  ASSUME Inv, pc = "validate", CanStart, ~Lost
  PROVE  LET ref == Reference(npu.kept) IN
         ref.right /\ ref.soft = soft /\ ref.far = far
<1>1. /\ npu.on /\ ~validated /\ AllowsDecode /\ generated > 0
  BY DEF Inv, Base, Counters
<1>2. RowsKept /\ Offered
  BY DEF Inv, Exact
<1>3. index \in 1 .. MaxSeq - 1
  BY <1>1, Room DEF Inv, Passing, Base, Types
<1>4. /\ PrefixOf(npu.kept) \subseteq Layers /\ ~forceShadow
      /\ PrefixOf(npu.kept) \subseteq dep.local
  BY <1>1, StartsAtHome, Prefixes, Sizes DEF Inv, Layers
<1>5. \A l \in Layers : Due(l) = index /\ Home(l).good >= index
  BY <1>1, <1>2 DEF Due, RowsKept, NpuDecodes
<1>6. \A l \in PrefixOf(npu.kept) : soft[l].good >= index
  BY <1>4, <1>5 DEF Home
<1>7. Reference(npu.kept).right
  BY <1>4, <1>6 DEF Reference, Sees
<1>8. \A l \in Layers : soft[l].len # MaxSeq
  <2>1. MayDecode /\ ~NpuDecodes
    BY <1>1 DEF MayDecode, NpuDecodes
  <2>2. \A l \in Layers : soft[l].len > 0 => soft[l].len = index
    <3>1. \A l \in Layers : soft[l].len > 0 => soft[l] = Exactly(index)
      BY <1>2, <1>5, <2>1 DEF Offered
    <3> QED BY <3>1 DEF Exactly
  <2> QED BY <1>3, <2>2, Sizes
<1>9. Reference(npu.kept).soft = soft
  BY <1>8 DEF Reference, Inv, Base, Types
<1>10. Reference(npu.kept).far = far
  BY <1>4 DEF Reference, Inv, Base, Types
<1> QED BY <1>7, <1>9, <1>10

LEMMA ValidationPassesExact ==
  ASSUME Inv, ValidationPasses
  PROVE  Exact'
<1> SUFFICES ASSUME ~Lost' PROVE Exact'
  BY DEF Exact
<1>1. /\ pc = "validate" /\ pc' = "decode" /\ CanStart /\ npu.on /\ AllowsDecode /\ ~validated
      /\ validated' = TRUE /\ validatedKept' = npu.kept /\ Reload(npu.kept)
      /\ UNCHANGED <<dep, index, n, x, headless, forceShadow, answer>>
  BY DEF ValidationPasses, ValidationStep, request, Inv, Base, Counters
<1>2. ~Lost /\ RowsKept /\ Computed /\ Offered
  BY <1>1 DEF Inv, Exact, Lost
<1>3. soft' = soft /\ far' = far /\ Right(Start, npu.kept)
  BY <1>1, <1>2, ReferenceExact DEF ValidationPasses, ValidationStep
<1>4. \A l \in Layers : Due(l)' = index /\ Due(l) = index /\ Home(l)' = Home(l)
  BY <1>1, <1>3 DEF Due, Home
<1>5. (npu' = Off /\ disabledForDialog') \/ npu' = Runner(npu.kept)
  BY <1>1 DEF Reload
<1>6. npu'.kv = Empty /\ npu'.synced = FALSE /\ (npu'.on \/ disabledForDialog')
  BY <1>5 DEF Off, Runner
<1>7. ~NpuDecodes /\ ~NpuDecodes'
  BY <1>1, <1>6 DEF NpuDecodes
<1>8. RowsKept'
  BY <1>2, <1>4, <1>7 DEF RowsKept
<1>9. \A l \in Layers : soft[l].len > 0 => soft[l] = Exactly(index)
  BY <1>1, <1>2, <1>4, <1>7 DEF Offered, MayDecode
<1>10. Offered'
  <2>1. \A l \in Layers : soft'[l].len > 0 => soft'[l] = Exactly(Due(l)')
    BY <1>3, <1>4, <1>9
  <2>2. \A b \in 1 .. validatedKept' : b \notin dep'.broken
    BY <1>1, <1>3 DEF Right
  <2>3. \A l \in Layers : npu'.kv[l].len = 0
    BY <1>6 DEF Empty, None
  <2> QED BY <1>1, <1>6, <2>1, <2>2, <2>3 DEF Offered, Exactly
<1> QED BY <1>1, <1>2, <1>8, <1>10 DEF Exact, Computed, Committed

LEMMA ValidationShrinksExact ==
  ASSUME Inv, ValidationShrinks
  PROVE  Exact'
<1> SUFFICES ASSUME ~Lost' PROVE Exact'
  BY DEF Exact
<1>1. /\ pc = "validate" /\ pc' = "validate" /\ CanStart /\ npu.on /\ AllowsDecode /\ ~validated
      /\ UNCHANGED <<dep, index, n, x, headless, forceShadow, answer, flags>>
  BY DEF ValidationShrinks, ValidationStep, request, Inv, Base, Counters
<1>2. ~Lost /\ RowsKept /\ Computed /\ Offered
  BY <1>1 DEF Inv, Exact, Lost
<1>3. soft' = soft /\ far' = far
  BY <1>1, <1>2, ReferenceExact DEF ValidationShrinks, ValidationStep
<1>4. \A l \in Layers : Due(l)' = index /\ Due(l) = index /\ Home(l)' = Home(l)
  BY <1>1, <1>3 DEF Due, Home
<1>5. ~NpuDecodes /\ ~NpuDecodes' /\ ~validated'
  BY <1>1 DEF NpuDecodes, flags
<1>6. RowsKept'
  BY <1>2, <1>4, <1>5 DEF RowsKept
<1>7. \A l \in Layers : soft[l].len > 0 => soft[l] = Exactly(index)
  BY <1>1, <1>2, <1>4, <1>5 DEF Offered, MayDecode
<1>8. Offered'
  BY <1>1, <1>3, <1>4, <1>5, <1>7 DEF Offered, Exactly
<1> QED BY <1>1, <1>2, <1>6, <1>8 DEF Exact, Computed, Committed

(* After a refused validation, and after the end of a request.             *)
LEMMA LostExact ==
  ASSUME \/ ValidationReloadFails \/ ValidationRejects \/ ValidationFails \/ ValidationBreaks
         \/ Stop \/ LoadFails \/ NoRunner \/ FinishFails \/ LayerFails
  PROVE  Exact'
BY DEF Exact, Lost, ValidationReloadFails, ValidationRejects, ValidationFails, ValidationBreaks,
       AfterValidationError, Stop, LoadFails, NoRunner, FinishFails, LayerFails, Refuse

LEMMA NpuDecodeExact ==
  ASSUME Inv, NpuDecode
  PROVE  Exact'
<1> SUFFICES ASSUME ~Lost' PROVE Exact'
  BY DEF Exact
<1>1. /\ pc = "decode" /\ pc' = "blocks" /\ npu.on /\ CanStart /\ npu' = Decoded /\ n = 1
      /\ x' = [x EXCEPT !.clean = Right(Start, npu.kept), !.depth = Last + 1]
      /\ AllowsDecode /\ validated
      /\ UNCHANGED <<dep, index, n, headless, forceShadow, answer, soft, far, flags>>
  BY DEF NpuDecode, request, Inv, Base, Counters, Passing, Last
<1>2. ~Lost /\ RowsKept /\ Computed /\ Offered
  BY <1>1 DEF Inv, Exact, Lost
<1>3. /\ Last \in 0 .. NL - 1 /\ npu.kept \in 1 .. npu.kept /\ npu.kept \in 0 .. npu.kept
      /\ npu.kept > 0
  BY <1>1, Prefixes DEF Inv, Base, Types, Runners, Machine
<1>4. x'.clean /\ x'.depth = Last + 1
  BY <1>1, <1>2, <1>3, DecodeStart DEF Inv, Base, Types, Hidden
<1>5. npu'.on /\ npu'.kept = npu.kept /\ npu'.synced = TRUE /\ npu'.kv = Ran(Start, npu.kept)
  BY <1>1 DEF Decoded, Inv, Base, Types, Machine
<1>6. Last' = Last /\ AllowsDecode' /\ validated' /\ NpuDecodes'
  BY <1>1, <1>5 DEF Last, LastLayer, AllowsDecode, flags, NpuDecodes
<1>7. \A l \in Layers : IF l <= Last THEN npu'.kv[l] = Exactly(index + 1) ELSE npu'.kv[l].len = 0
  <2> SUFFICES ASSUME NEW l \in Layers
               PROVE  IF l <= Last THEN npu'.kv[l] = Exactly(index + 1) ELSE npu'.kv[l].len = 0
    OBVIOUS
  <2>1. Ran(Start, npu.kept)[l] = IF l <= Last THEN Exactly(index + 1) ELSE Start[l]
    BY <1>1, <1>2, <1>3, DecodeRan DEF Last
  <2>2. ~(l <= Last) => Start[l].len = 0
    <3>1. l \in Int
      BY DEF Layers
    <3> QED BY <1>1, <1>2, <1>3, <3>1, DecodeStart
  <2> QED BY <1>5, <2>1, <2>2
<1>8. \A l \in Layers : Due(l) = index /\ Due(l)' = IF l <= Last THEN index + 1 ELSE index
  BY <1>1, <1>3, <1>4, Sizes DEF Due, Layers
<1>9. RowsKept'
  <2>1. \A l \in Layers : Home(l)' = Home(l)
    BY <1>1 DEF Home
  <2>2. \A l \in Layers : ~(l <= Last) => Home(l).good >= index
    BY <1>2, <1>8 DEF RowsKept
  <2> QED BY <1>6, <1>7, <1>8, <2>1, <2>2 DEF RowsKept, Exactly
<1>10. Offered'
  <2>1. \A l \in Layers : l > Last => npu'.kv[l].len = 0
    BY <1>3, <1>7, Sizes DEF Layers
  <2>2. \A b \in 1 .. validatedKept' : b \notin dep'.broken
    BY <1>1, <1>2 DEF Offered, flags
  <2> QED BY <1>5, <1>6, <2>1, <2>2 DEF Offered
<1>11. Computed'
  BY <1>1, <1>2, <1>3, <1>4, <1>6 DEF Computed
<1>12. Committed'
  BY <1>6 DEF Committed
<1> QED BY <1>9, <1>10, <1>11, <1>12 DEF Exact

LEMMA NpuDecodeFailsExact ==
  ASSUME Inv, NpuDecodeFails \/ NpuDecodeBreaks
  PROVE  Exact'
<1> SUFFICES ASSUME ~Lost' PROVE Exact'
  BY DEF Exact
<1>1. pc = "decode" /\ npu.on /\ npu.kept \in Nat /\ x = Embedded /\ ~headless /\ n = 1
  BY DEF NpuDecodeFails, NpuDecodeBreaks, Inv, Base, Counters, Types, Machine, Passing
<1>2. PICK c \in 0 .. npu.kept - 1 : GiveUpNpu(FailedDecode(c))
  BY DEF NpuDecodeFails, NpuDecodeBreaks
<1>3. /\ soft' = SyncedSoft(FailedDecode(c)) /\ npu' = Off /\ disabledForDialog' /\ pc' = "blocks"
      /\ UNCHANGED <<dep, index, n, x, headless, far, forceShadow, answer>>
  BY <1>2 DEF GiveUpNpu, request
<1>4. ~Lost /\ RowsKept /\ Computed /\ Offered
  BY <1>1, <1>3 DEF Inv, Exact, Lost
<1>5. ~NpuDecodes' /\ ~MayDecode' /\ ~npu'.on
  BY <1>3 DEF NpuDecodes, MayDecode, Off
<1>6. index \in Nat \ {0}
  BY <1>1, Room DEF Inv, Base, Counters, Types, Passing
<1>7. ASSUME NEW l \in Layers
      PROVE  Home(l)'.good >= Due(l)'
  <2>1. Due(l) = index /\ Due(l)' = index
    BY <1>1, <1>3 DEF Due, Layers, Embedded
  <2>2. l \in Int /\ Last \in Nat /\ PrefixOf(npu.kept) = 0 .. Last
    BY <1>1, Prefixes, Sizes DEF Inv, Layers
  <2>3. ~(NpuDecodes /\ l <= Last) => Home(l).good >= index
    BY <1>4, <2>1 DEF RowsKept
  <2>4. CASE l \notin dep.local \/ forceShadow
    <3>1. Home(l)' = Home(l)
      BY <1>3, <2>4 DEF Home
    <3>2. ~(NpuDecodes /\ l <= Last)
      <4>1. NpuDecodes /\ l <= Last => l \in PrefixOf(npu.kept)
        BY <2>2, Sizes DEF Layers
      <4> QED BY <2>4, <4>1 DEF Inv, Homes, NpuDecodes
    <3> QED BY <2>1, <2>3, <3>1, <3>2
  <2>5. CASE l \in dep.local /\ ~forceShadow /\ CanStart
    <3>1. Home(l)' = SyncedSoft(FailedDecode(c))[l] /\ Home(l) = soft[l]
      BY <1>3, <2>5 DEF Home
    <3>2. FailedDecode(c).on /\ FailedDecode(c).kv = Ran(Start, c)
      BY <1>1, <2>5 DEF FailedDecode, Inv, Base, Types, Machine
    <3>3. c \in 0 .. npu.kept /\ (c > 0 => LastLayer(c) <= Last)
      BY <1>1, Prefixes DEF Inv
    <3>4. CASE l <= Last
      <4>1. Start[l] = Exactly(index)
        BY <1>1, <1>4, <2>2, <2>5, <3>4, DecodeStart DEF Layers
      <4>2. Ran(Start, c)[l] = Exactly(index + 1) \/ Ran(Start, c)[l] = Exactly(index)
        BY <1>1, <1>4, <2>5, <3>3, <4>1, DecodeRan
      <4>3. SyncedSoft(FailedDecode(c))[l] = Ran(Start, c)[l]
        BY <1>6, <3>2, <4>2 DEF SyncedSoft, Exactly
      <4> QED BY <1>6, <2>1, <3>1, <4>2, <4>3 DEF Exactly
    <3>5. CASE ~(l <= Last)
      <4>1. Start[l].len = 0
        BY <1>1, <1>4, <2>2, <2>5, <3>5, DecodeStart
      <4>2. ~(c > 0 /\ l <= LastLayer(c))
        BY <2>2, <3>3, <3>5, Prefixes, <1>1 DEF Inv
      <4>3. Ran(Start, c)[l].len = 0
        BY <4>1, <4>2, BeyondRan
      <4>4. SyncedSoft(FailedDecode(c))[l] = soft[l]
        BY <3>2, <4>3 DEF SyncedSoft
      <4> QED BY <2>1, <2>3, <3>1, <3>5, <4>4
    <3> QED BY <3>4, <3>5
  <2>6. CASE l \in dep.local /\ ~forceShadow /\ ~CanStart
    <3>1. ~npu.synced /\ AllowsDecode /\ validated
      BY <1>1, <2>6 DEF CanStart, Inv, Base, Counters
    <3>2. FailedDecode(c) = npu /\ npu.kv = Empty
      BY <1>1, <1>4, <2>6, <3>1 DEF FailedDecode, Offered
    <3>3. SyncedSoft(FailedDecode(c))[l] = soft[l]
      BY <3>2 DEF SyncedSoft, Empty, None
    <3>4. Home(l)' = soft[l] /\ Home(l) = soft[l] /\ ~NpuDecodes
      BY <1>3, <2>6, <3>1, <3>3 DEF Home, NpuDecodes
    <3> QED BY <2>1, <2>3, <3>4
  <2> QED BY <2>4, <2>5, <2>6
<1>8. RowsKept'
  BY <1>5, <1>7 DEF RowsKept
<1>9. Offered' /\ Committed'
  BY <1>5 DEF Offered, Committed
<1>10. Computed'
  BY <1>1, <1>3, <1>4, <1>5 DEF Computed, Embedded
<1> QED BY <1>8, <1>9, <1>10 DEF Exact

LEMMA NpuPrefillExact ==
  ASSUME Inv, HandsOver(dep), NpuPrefill
  PROVE  Exact'
<1> SUFFICES ASSUME ~Lost' PROVE Exact'
  BY DEF Exact
<1>1. /\ pc = "prefill" /\ pc' = "blocks" /\ npu.on /\ generated = 0 /\ index = 0 /\ ~validated
      /\ n \in Nat \ {0} /\ x = Embedded /\ ~headless /\ ~forceShadow
      /\ npu' = [npu EXCEPT !.kv = [l \in Layers |-> [len |-> n, good |-> n]], !.synced = TRUE]
      /\ UNCHANGED <<dep, index, n, generated, headless, forceShadow, answer, flags>>
  BY Sizes DEF NpuPrefill, request, Inv, Base, Counters, Passing, FreshPrompt, Types
<1>2. dep.local = Layers /\ soft' = SyncedSoft(npu')
  BY Prefilled DEF NpuPrefill, Inv
<1>3. Computed
  BY <1>1 DEF Inv, Exact, Lost, NpuPrefill
<1>4. npu'.on /\ \A l \in Layers : npu'.kv[l] = Exactly(n)
  BY <1>1 DEF Inv, Base, Types, Machine, Exactly
<1>5. \A l \in Layers : soft'[l] = Exactly(n)
  <2>1. \A l \in Layers : npu'.kv[l].len > 0
    BY <1>1, <1>4 DEF Exactly
  <2> QED BY <1>2, <1>4, <2>1 DEF SyncedSoft
<1>6. x'.clean /\ x'.depth = NL
  BY <1>1 DEF NpuPrefill, Embedded
<1>7. \A l \in Layers : Due(l)' = n
  BY <1>1, <1>6, Sizes DEF Due, Layers
<1>8. ~NpuDecodes' /\ ~validated'
  BY <1>1 DEF NpuDecodes, flags
<1>9. RowsKept'
  <2>1. \A l \in Layers : Home(l)' = soft'[l]
    BY <1>1, <1>2 DEF Home
  <2> QED BY <1>1, <1>5, <1>7, <1>8, <2>1 DEF RowsKept, Exactly
<1>10. Offered'
  BY <1>4, <1>5, <1>7, <1>8 DEF Offered
<1> QED BY <1>1, <1>3, <1>6, <1>8, <1>9, <1>10 DEF Exact, Computed, Committed

LEMMA NpuPrefillFailsExact ==
  ASSUME Inv, NpuPrefillFails \/ NpuPrefillBreaks
  PROVE  Exact'
<1> SUFFICES ASSUME ~Lost' PROVE Exact'
  BY DEF Exact
<1>1. /\ pc = "prefill" /\ pc' = "blocks" /\ npu' = Off /\ disabledForDialog' /\ index = 0
      /\ x = Embedded /\ generated = 0 /\ ~headless
      /\ UNCHANGED <<dep, index, n, x, headless, soft, far, forceShadow, answer>>
  BY DEF NpuPrefillFails, NpuPrefillBreaks, PrefillGivenUp, request, Inv, Base, Counters
<1>2. Computed
  BY <1>1 DEF Inv, Exact, Lost
<1>3. ~NpuDecodes' /\ ~MayDecode' /\ ~npu'.on
  BY <1>1 DEF NpuDecodes, MayDecode, Off
<1>4. \A l \in Layers : Due(l)' = 0 /\ Home(l)'.good >= 0
  BY <1>1 DEF Due, Layers, Embedded, Home, Inv, Base, Types, Row, FarRow
<1>5. RowsKept' /\ Offered' /\ Committed'
  BY <1>3, <1>4 DEF RowsKept, Offered, Committed
<1>6. Computed'
  BY <1>1, <1>2, <1>3 DEF Computed, Embedded
<1> QED BY <1>5, <1>6 DEF Exact

(* What holds as a layer is computed outside the NPU.                      *)
LEMMA AtLayer ==
  ASSUME Inv, pc = "blocks", x.depth < NL, ~Lost
  PROVE  /\ x.depth \in Layers /\ ~(NpuDecodes /\ x.depth <= Last) /\ x.clean
         /\ index \in 0 .. MaxSeq - 1 /\ n \in 1 .. MaxSeq /\ (index > 0 => n = 1)
         /\ Home(x.depth) \in Row /\ Home(x.depth).good >= index
         /\ Fed(Home(x.depth), index, n, x.clean).good >= index + n
         /\ Sees(Home(x.depth), index, x.clean)
         /\ (MayDecode /\ ~NpuDecodes => index = 0 /\ npu.kv = Empty /\ (npu.on => ~npu.synced))
<1>1. RowsKept /\ Computed /\ Committed
  BY DEF Inv, Exact
<1>2. x.depth \in Layers /\ index \in 0 .. MaxSeq - 1 /\ (index > 0 <=> generated > 0)
  BY Room, LayerRow DEF Inv, Passing
<1>3. n \in 1 .. MaxSeq /\ (index > 0 => n = 1)
  BY <1>2, Sizes DEF Inv, Base, Types, Counters, Passing
<1>4. ~(NpuDecodes /\ x.depth <= Last)
  <2>1. NpuDecodes => x.depth > Last /\ Last \in Int /\ x.depth \in Int
    BY <1>1, <1>2, Prefixes DEF Computed, NpuDecodes, Layers, Inv
  <2> QED BY <2>1
<1>5. Home(x.depth) \in Row /\ Home(x.depth).good >= index /\ x.clean = TRUE
  <2>1. Due(x.depth) = index
    BY <1>2 DEF Due, Layers
  <2>2. Home(x.depth) \in Row
    BY <1>2, FarIsRow DEF Home, Inv, Base, Types
  <2> QED BY <1>1, <1>2, <1>4, <2>1, <2>2 DEF RowsKept, Computed, Inv, Base, Types, Hidden
<1>6. /\ Fed(Home(x.depth), index, n, TRUE).good >= index + n
      /\ Sees(Home(x.depth), index, TRUE)
  BY <1>2, <1>3, <1>5, FedGood
<1>7. MayDecode /\ ~NpuDecodes => index = 0 /\ npu.kv = Empty /\ (npu.on => ~npu.synced)
  <2> SUFFICES ASSUME MayDecode, ~NpuDecodes
               PROVE  index = 0 /\ npu.kv = Empty /\ (npu.on => ~npu.synced)
    OBVIOUS
  <2>1. generated = 0 /\ index = 0
    BY <1>1, <1>2 DEF Committed, Inv, Base, Types
  <2>2. npu = Off \/ npu = Runner(npu.kept)
    BY <2>1 DEF Inv, FreshPrompt, Base, Runners
  <2> QED BY <2>1, <2>2 DEF Off, Runner
<1> QED BY <1>2, <1>3, <1>4, <1>5, <1>6, <1>7

(* A layer that stored its rows where they belong.                         *)
LEMMA LayerExact ==
  ASSUME Inv, pc = "blocks", pc' = "blocks", x.depth < NL, ~Lost, NEW d, d = x.depth,
         UNCHANGED <<dep, index, n, generated, npu, flags, answer>>,
         x'.clean, x'.depth = d + 1, Home(d)'.good >= index + n,
         \A l \in Layers : l # d =>
           soft'[l] = soft[l] /\ (Home(l).good >= Due(l) => Home(l)'.good >= Due(l)),
         index = 0 /\ soft'[d].len > 0 => soft'[d] = Exactly(n)
  PROVE  Exact'
<1>1. RowsKept /\ Computed /\ Offered /\ Committed
  BY DEF Inv, Exact
<1>2. d \in Layers /\ ~(NpuDecodes /\ d <= Last)
  BY AtLayer
<1>3. /\ NpuDecodes' = NpuDecodes /\ AllowsDecode' = AllowsDecode /\ MayDecode' = MayDecode
      /\ Last' = Last
  BY DEF NpuDecodes, AllowsDecode, MayDecode, Last, LastLayer, flags
<1>4. \A l \in Layers : Due(l)' = IF l = d THEN index + n ELSE Due(l)
  <2> SUFFICES ASSUME NEW l \in Layers
               PROVE  Due(l)' = IF l = d THEN index + n ELSE Due(l)
    OBVIOUS
  <2>1. l < d + 1 <=> l < d \/ l = d
    BY <1>2 DEF Layers
  <2> QED BY <2>1 DEF Due
<1>5. RowsKept'
  <2> SUFFICES ASSUME NEW l \in Layers
               PROVE  IF NpuDecodes /\ l <= Last THEN npu.kv[l] = Exactly(Due(l)')
                      ELSE Home(l)'.good >= Due(l)'
    BY <1>3 DEF RowsKept, Exactly
  <2>1. CASE l = d
    BY <1>2, <1>4, <2>1
  <2>2. CASE l # d
    <3>1. Due(l)' = Due(l)
      BY <1>4, <2>2
    <3> QED BY <1>1, <2>2, <3>1 DEF RowsKept
  <2> QED BY <2>1, <2>2
<1>6. MayDecode /\ ~NpuDecodes =>
        \A l \in Layers : soft'[l].len > 0 => soft'[l] = Exactly(Due(l)')
  <2> SUFFICES ASSUME MayDecode, ~NpuDecodes, NEW l \in Layers, soft'[l].len > 0
               PROVE  soft'[l] = Exactly(Due(l)')
    OBVIOUS
  <2>1. CASE l = d
    <3>1. index = 0 /\ n \in Nat
      BY AtLayer
    <3> QED BY <1>4, <2>1, <3>1
  <2>2. CASE l # d
    <3>1. Due(l)' = Due(l) /\ soft'[l] = soft[l]
      BY <1>4, <2>2
    <3> QED BY <1>1, <3>1 DEF Offered
  <2> QED BY <2>1, <2>2
<1>7. AllowsDecode /\ npu.on /\ ~validated => \A l \in Layers : npu.kv[l].len = 0
  <2> SUFFICES ASSUME AllowsDecode, npu.on, ~validated
               PROVE  \A l \in Layers : npu.kv[l].len = 0
    OBVIOUS
  <2>1. MayDecode /\ ~NpuDecodes
    BY DEF MayDecode, NpuDecodes
  <2>2. npu.kv = Empty
    BY <2>1, AtLayer
  <2> QED BY <2>2 DEF Empty, None
<1>8. Offered'
  <2>1. validated' = validated /\ validatedKept' = validatedKept
    BY DEF flags
  <2>2. AllowsDecode /\ npu.on /\ validated =>
       /\ \A l \in Layers : l > Last => npu.kv[l].len = 0
       /\ npu.synced
       /\ \A b \in 1 .. validatedKept : b \notin dep.broken
    BY <1>1 DEF Offered
  <2> QED BY <1>3, <1>6, <1>7, <2>1, <2>2 DEF Offered
<1>9. Computed'
  <2>1. NpuDecodes => Last \in Int /\ d \in Int /\ d > Last
    BY <1>1, <1>2, Prefixes DEF Computed, NpuDecodes, Layers, Inv
  <2> QED BY <1>1, <1>3, <2>1 DEF Computed
<1>10. Committed'
  BY <1>1, <1>3 DEF Committed
<1> QED BY <1>5, <1>8, <1>9, <1>10 DEF Exact

LEMMA RemoteLayerExact ==
  ASSUME Inv, RemoteLayer
  PROVE  Exact'
<1> SUFFICES ASSUME ~Lost' PROVE Exact'
  BY DEF Exact
<1>1. /\ pc = "blocks" /\ pc' = "blocks" /\ x.depth < NL /\ x.depth \notin dep.local
      /\ far' = [far EXCEPT ![x.depth] = Fed(@, index, n, x.clean)]
      /\ x'.clean = Sees(far[x.depth], index, x.clean) /\ x'.depth = x.depth + 1
      /\ UNCHANGED <<dep, index, n, generated, npu, soft, forceShadow, flags, answer, headless>>
  BY DEF RemoteLayer, request
<1>2. ~Lost
  BY <1>1 DEF Lost
<1>3. PICK d \in Layers : d = x.depth
  BY <1>1, <1>2, AtLayer
<1>4. x'.clean /\ Home(d)'.good >= index + n
  <2>1. Home(d) = far[d] /\ Home(d)' = Fed(Home(d), index, n, x.clean)
    BY <1>1, <1>3 DEF Home, Inv, Base, Types
  <2> QED BY <1>1, <1>2, <1>3, <2>1, AtLayer
<1>5. \A l \in Layers : l # d => soft'[l] = soft[l] /\ Home(l)' = Home(l)
  BY <1>1, <1>3 DEF Home, Inv, Base, Types
<1>6. ~(soft'[d].len > 0)
  BY <1>1, <1>3 DEF Inv, Homes
<1> QED BY <1>1, <1>2, <1>3, <1>4, <1>5, <1>6, LayerExact

LEMMA LocalLayerExact ==
  ASSUME Inv, HandsOver(dep), LocalLayer
  PROVE  Exact'
<1> SUFFICES ASSUME ~Lost' PROVE Exact'
  BY DEF Exact
<1>1. /\ pc = "blocks" /\ pc' = "blocks" /\ x.depth < NL /\ x.depth \in dep.local
      /\ UNCHANGED <<dep, index, n, generated, npu, flags, answer, headless>>
  BY DEF LocalLayer, request
<1>2. ~Lost
  BY <1>1 DEF Lost
<1>0. PICK d \in Layers : d = x.depth
  BY <1>1, <1>2, AtLayer
<1>3. /\ index \in 0 .. MaxSeq - 1 /\ n \in 1 .. MaxSeq /\ (index > 0 => n = 1)
      /\ x \in Hidden /\ x.clean = TRUE
  BY <1>1, <1>2, AtLayer DEF Inv, Base, Types, Hidden
<1>4. CASE forceShadow
  <2>1. /\ far' = [far EXCEPT ![d] = Fed(@, index, n, x.clean)] /\ forceShadow' /\ soft' = soft
        /\ x' = [x EXCEPT !.clean = Sees(far[d], index, @), !.depth = @ + 1]
    BY <1>0, <1>4 DEF LocalLayer, UsesShadow, Promoted
  <2>2. \A l \in Layers : Home(l) = far[l] /\ Home(l)' = far'[l]
    BY <1>4, <2>1 DEF Home
  <2>3. x'.clean /\ x'.depth = d + 1 /\ Home(d)'.good >= index + n
    BY <1>1, <1>2, <1>3, <2>1, <2>2, <1>0, AtLayer DEF Hidden, Inv, Base, Types
  <2>4. \A l \in Layers : l # d => soft'[l] = soft[l] /\ Home(l)' = Home(l)
    BY <2>1, <2>2 DEF Inv, Base, Types
  <2>5. ~(soft'[d].len > 0)
    BY <1>3, <1>4, <2>1 DEF Inv, Homes
  <2> QED BY <1>1, <1>2, <2>3, <2>4, <2>5, <1>0, LayerExact
<1>5. CASE ~forceShadow /\ UsesShadow
  <2>1. dep.shadow /\ index = 0 /\ n > 1 /\ generated = 0 /\ dep.promote
    BY <1>1, <1>5, Room DEF UsesShadow, HandsOver, Inv, Base, Types, Passing
  <2>2. /\ far' = [far EXCEPT ![d] = Fed(@, index, n, x.clean)] /\ forceShadow' /\ soft' = soft
        /\ x' = [x EXCEPT !.clean = Sees(far[d], index, @), !.depth = @ + 1]
    BY <1>0, <1>5, <2>1 DEF LocalLayer, Promoted
  <2>3. soft = Empty
    BY <1>1, <1>5, <2>1 DEF Inv, FreshPrompt
  <2>4. \A l \in Layers : Home(l)' = far'[l]
    BY <2>2 DEF Home
  <2>5. far[d] \in Row
    BY <1>3, FarIsRow DEF Inv, Base, Types
  <2>6. x'.clean /\ x'.depth = d + 1
    BY <1>0, <1>3, <2>1, <2>2 DEF Sees, Hidden
  <2>7. Home(d)'.good >= index + n
    <3>1. far'[d] = Fed(far[d], 0, n, TRUE)
      BY <1>3, <2>1, <2>2 DEF Inv, Base, Types
    <3>2. Home(d)' = Exactly(n)
      BY <2>4, <3>1, PromptRow
    <3>3. Exactly(n).good = n /\ index + n = n
      BY <1>3, <2>1 DEF Exactly
    <3> QED BY <1>3, <3>2, <3>3
  <2>8. ASSUME NEW l \in Layers, l # d
        PROVE  soft'[l] = soft[l] /\ (Home(l).good >= Due(l) => Home(l)'.good >= Due(l))
    <3>1. Home(l)' = far[l]
      BY <2>2, <2>4, <2>8 DEF Inv, Base, Types
    <3>2. CASE l \in dep.local
      <4>1. Home(l).good = 0 /\ far[l].good >= 0 /\ far[l].good \in Nat
        BY <1>5, <2>3, <3>2 DEF Home, Empty, None, Inv, Base, Types, FarRow, Row
      <4>2. Due(l) = n \/ Due(l) = 0
        BY <1>3, <2>1 DEF Due
      <4> QED BY <1>3, <2>2, <3>1, <4>1, <4>2
    <3>3. CASE l \notin dep.local
      BY <2>2, <3>1, <3>3 DEF Home
    <3> QED BY <3>2, <3>3
  <2>9. ~(soft'[d].len > 0)
    BY <1>3, <2>2, <2>3 DEF Empty, None
  <2> QED BY <1>1, <1>2, <2>6, <2>7, <2>8, <2>9, <1>0, LayerExact
<1>6. CASE ~UsesShadow
  <2>1. /\ soft' = [soft EXCEPT ![d] = Fed(@, index, n, x.clean)]
        /\ x' = [x EXCEPT !.clean = Sees(soft[d], index, @), !.depth = @ + 1]
        /\ UNCHANGED <<far, forceShadow>> /\ ~forceShadow
    BY <1>0, <1>6 DEF LocalLayer, UsesShadow
  <2>2. Home(d) = soft[d] /\ Home(d)' = Fed(soft[d], index, n, x.clean)
        /\ soft'[d] = Fed(soft[d], index, n, x.clean)
    BY <1>0, <1>1, <1>3, <2>1 DEF Home, Inv, Base, Types
  <2>3. x'.clean /\ x'.depth = d + 1 /\ Home(d)'.good >= index + n
    BY <1>1, <1>2, <1>3, <2>1, <2>2, <1>0, AtLayer DEF Hidden
  <2>4. \A l \in Layers : l # d => soft'[l] = soft[l] /\ Home(l)' = Home(l)
    BY <1>0, <1>1, <2>1 DEF Home, Inv, Base, Types
  <2>5. index = 0 => soft'[d] = Exactly(n)
    BY <1>3, <2>2, PromptRow
  <2> QED BY <1>1, <1>2, <2>3, <2>4, <2>5, <1>0, LayerExact
<1> QED BY <1>4, <1>5, <1>6

LEMMA InitExact == Init => Exact
BY DEF Init, Exact

LEMMA StutterExact ==
  ASSUME Exact, UNCHANGED vars
  PROVE  Exact'
<1>1. Lost' = Lost /\ RowsKept' = RowsKept /\ Computed' = Computed
  BY DEF vars, Lost, RowsKept, Computed, NpuDecodes, AllowsDecode, Last, LastLayer, Home, Due, Exactly
<1>2. Offered' = Offered /\ Committed' = Committed
  BY DEF vars, Offered, Committed, MayDecode, NpuDecodes, AllowsDecode, Last, LastLayer, Due, Exactly, Empty
<1> QED BY <1>1, <1>2 DEF Exact, vars

LEMMA InvStep ==
  ASSUME \A d \in Deployments : HandsOver(d)
  PROVE  Inv /\ [Next]_vars => Inv'
<1> SUFFICES ASSUME Inv, [Next]_vars PROVE Inv'
  OBVIOUS
<1>1. HandsOver(dep)
  BY DEF Inv, Base, Types
<1>2. Base' /\ FreshPrompt' /\ Reloaded' /\ Homes'
  BY <1>1, BaseStep, FreshStep, ReloadedStep, HomesStep DEF Inv
<1>3. Exact'
  BY <1>1, ResetExact, StartPromptExact, NextTokenExact, ChooseNpuDecodeExact, ChooseOtherExact,
     FinishExact, SampleExact, LoadRunnerExact, BucketFallbackExact, ValidationPassesExact,
     ValidationShrinksExact, LostExact, NpuDecodeExact, NpuDecodeFailsExact, NpuPrefillExact,
     NpuPrefillFailsExact, RemoteLayerExact, LocalLayerExact, StutterExact
     DEF Next, Work, Break, Inv
<1> QED BY <1>2, <1>3 DEF Inv

(* In the deployments whose switches hand the rows over, and whatever      *)
(* fails in them, a token is sampled from layers that each saw exactly the *)
(* tokens of its dialog (sync_to_cache, sync_from_cache, clear, the        *)
(* promotion of shadows), unless the validation of the NPU was refused,    *)
(* after which the hidden state itself is sampled from.                    *)
THEOREM EveryTokenExact ==
  ASSUME \A d \in Deployments : HandsOver(d)
  PROVE  Spec => []ExactOutput
<1>1. Init => Inv
  BY BaseInit, FreshInit, HomesInit, InitExact DEF Inv
<1>2. Inv /\ [Next]_vars => Inv'
  BY InvStep
<1>3. Inv /\ ExactOutput /\ [Next]_vars => ExactOutput'
  <2> SUFFICES ASSUME Inv, ExactOutput, [Next]_vars PROVE ExactOutput'
    OBVIOUS
  <2>1. CASE Sample
    <3>1. CASE Lost
      BY <2>1, <3>1 DEF Sample, Lost, Inv, Base, Counters, ExactOutput
    <3>2. CASE ~Lost
      BY <2>1, <3>2 DEF Sample, Inv, Exact, Computed, ExactOutput
    <3> QED BY <3>1, <3>2
  <2>2. CASE Reset
    BY <2>2 DEF Reset, ExactOutput
  <2>3. CASE ~Sample /\ ~Reset
    <3>1. answer' = answer
      BY <2>3 DEF Next, Work, Break, vars, StartPrompt, NextToken, Stop, LoadRunner, LoadFails,
             BucketFallback, ChooseNpuDecode, ChooseOther, ValidationPasses, ValidationShrinks,
             ValidationRejects, ValidationReloadFails, ValidationFails, ValidationBreaks,
         AfterValidationError, NpuDecode,
             NoRunner, NpuDecodeFails, NpuDecodeBreaks, GiveUpNpu, NpuPrefill, NpuPrefillFails,
             NpuPrefillBreaks, PrefillGivenUp, LocalLayer, RemoteLayer, LayerFails, Finish,
             FinishFails
    <3> QED BY <3>1 DEF ExactOutput
  <2> QED BY <2>1, <2>2, <2>3
<1>4. Init => ExactOutput
  BY DEF Init, ExactOutput
<1> QED BY <1>1, <1>2, <1>3, <1>4, PTL DEF Spec

-----------------------------------------------------------------------------
(* While nothing failed.                                                   *)

(* A validation was refused only for want of rows or of buckets, and would *)
(* be refused again.                                                       *)
Unlucky ==
  /\ generated > 0 /\ AllowsDecode /\ (npu.on \/ disabledForDialog)
  /\ npu.on => /\ ~validated
               /\ \/ MaxBucket = 0
                  \/ ~npu.synced /\ (forceShadow \/ ~(PrefixOf(npu.kept) \subseteq dep.local))
  /\ headless /\ pc \in {"blocks", "sample"} => npu.on

Ready ==
  /\ validated => MaxBucket > 0
  /\ validated /\ npu.on => ~forceShadow /\ PrefixOf(npu.kept) \subseteq dep.local
  /\ pc \in {"validate", "decode"} => MaxBucket = 0 \/ index <= MaxBucket
  /\ AllowsDecode /\ npu.on /\ ~validated /\ npu.synced /\ ~Lost =>
       \A l \in Layers : npu.kv[l] = Exactly(Due(l))

Whole ==
  /\ npu.on => npu.kept = Len(dep.ends) /\ Usable(Len(dep.ends))
  /\ disabledForRuntime => ~Usable(Len(dep.ends)) \/ (UsesPrefillRunner /\ ~PrefillRuns)
  /\ pc = "decode" => npu.on

Sound == ~faulty => Whole /\ (pc # "idle" => Ready /\ (Lost => Unlucky))

(* The output head is dropped for a worker's output, and then not needed.  *)
Answers == NL - 1 \notin dep.local /\ dep.output # "hidden"
Heads ==
  /\ forceShadow => dep.shadow
  /\ ~head => Answers
  /\ pc = "blocks" => (x.kind # "hidden" <=> x.depth = NL /\ Answers)
  /\ refused => faulty

LEMMA WholeFrame ==
  ASSUME Whole, UNCHANGED <<dep, npu, disabledForRuntime>>, pc' = "decode" => npu.on
  PROVE  Whole'
BY DEF Whole, Usable, CoversAll, LastLayer, AllowsDecode, AllowsPartial, UsesPrefillRunner,
       SupportsDeepstack, PrefillRuns

LEMMA ReadyFrame ==
  ASSUME Ready, UNCHANGED <<dep, npu, flags, forceShadow>>, ~Lost' => ~Lost,
         \A l \in Layers : Due(l)' = Due(l),
         pc' \in {"validate", "decode"} => MaxBucket = 0 \/ index' <= MaxBucket
  PROVE  Ready'
BY DEF Ready, flags, PrefixOf, LastLayer, AllowsDecode, Exactly

LEMMA UnluckyFrame ==
  ASSUME Unlucky, UNCHANGED <<dep, npu, flags>>, generated' > 0, forceShadow => forceShadow',
         headless' /\ pc' \in {"blocks", "sample"} => headless /\ pc \in {"blocks", "sample"}
  PROVE  Unlucky'
BY DEF Unlucky, flags, PrefixOf, LastLayer, AllowsDecode

(* Nothing fails on the way to a chunk when there is none to spare.        *)
LEMMA NoBuckets ==
  ASSUME Base, npu.on, MaxBucket = 0
  PROVE  ~AllFit(Start)
<1>1. npu.kept \in 1 .. Len(dep.ends) /\ Len(dep.ends) \in Nat
  BY Ends DEF Base, Types, Runners
<1>2. 1 \in 1 .. npu.kept
  BY <1>1
<1>3. ~Fits(Start, 1)
  BY DEF Fits
<1> QED BY <1>2, <1>3 DEF AllFit

LEMMA NotLost ==
  ASSUME Inv, Sound, ~faulty, npu.on,
         pc = "decode" \/ (pc = "validate" /\ CanStart /\ AllFit(Start))
  PROVE  ~Lost
<1>1. pc # "idle" /\ (pc = "decode" => validated)
  BY DEF Inv, Base, Counters
<1>2. SUFFICES ASSUME Lost PROVE FALSE
  OBVIOUS
<1>3. Unlucky
  BY <1>1, <1>2 DEF Sound
<1>4. pc # "decode"
  BY <1>1, <1>3 DEF Unlucky
<1> QED BY <1>3, <1>4, NoBuckets, StartsAtHome DEF Unlucky, Inv

(* The validation starts from the rows of the dialog as well.              *)
LEMMA ValidationStart ==
  ASSUME Inv, Sound, ~faulty, pc = "validate", CanStart, ~Lost
  PROVE  /\ npu.on /\ npu.kept = Len(dep.ends)
         /\ \A l \in 0 .. Last : Start[l] = Exactly(index)
<1>1. npu.on /\ ~validated /\ AllowsDecode
  BY DEF Inv, Base, Counters
<1>2. Whole /\ Ready /\ Offered
  BY DEF Sound, Inv, Exact
<1>3. Last \in 0 .. NL - 1 /\ PrefixOf(npu.kept) = 0 .. Last /\ 0 .. Last \subseteq Layers
  BY <1>1, Prefixes, Sizes DEF Inv, Layers
<1>4. ASSUME NEW l \in 0 .. Last
      PROVE  Start[l] = Exactly(index)
  <2>1. l \in Layers /\ l \in PrefixOf(npu.kept) /\ Due(l) = index
    BY <1>3 DEF Due
  <2>2. CASE npu.synced
    BY <1>1, <1>2, <2>1, <2>2, StartRow DEF Ready, Inv
  <2>3. CASE ~npu.synced
    <3>1. soft[l].len > 0 /\ MayDecode /\ ~NpuDecodes
      BY <1>1, <2>1, <2>3 DEF CanStart, CanSync, MayDecode, NpuDecodes
    <3> QED BY <1>2, <2>1, <2>3, <3>1, StartRow DEF Offered, Inv
  <2> QED BY <2>2, <2>3
<1> QED BY <1>1, <1>2, <1>4 DEF Whole

(* The chunk c of a runner starts at a layer of its prefix.                *)
LEMMA ChunkStart ==
  ASSUME Base, npu.on, NEW c \in 1 .. npu.kept
  PROVE  FirstOf(c) \in Nat /\ FirstOf(c) <= LastLayer(c) /\ LastLayer(c) \in 0 .. Last
<1>1. npu.kept \in 1 .. Len(dep.ends) /\ Len(dep.ends) \in Nat /\ c \in 1 .. Len(dep.ends) /\ c \in Nat
  BY Ends DEF Base, Types, Runners
<1>2. \A a \in 1 .. Len(dep.ends) : dep.ends[a] \in 0 .. NL - 1
  BY Ends DEF Base, Types
<1>3. \A a, b \in 1 .. Len(dep.ends) : a < b => dep.ends[a] < dep.ends[b]
  BY Ends DEF Base, Types
<1>4. CASE c = 1
  BY <1>1, <1>2, <1>4, Prefixes, Sizes DEF FirstOf, LastLayer
<1>5. CASE c > 1
  <2>1. c - 1 \in 1 .. Len(dep.ends) /\ c - 1 < c
    BY <1>1, <1>5
  <2>2. dep.ends[c - 1] < dep.ends[c] /\ dep.ends[c - 1] \in 0 .. NL - 1 /\ dep.ends[c] \in 0 .. NL - 1
    BY <1>1, <1>2, <1>3, <2>1
  <2> QED BY <1>5, <2>2, Prefixes, Sizes, SMTT(30) DEF FirstOf, LastLayer
<1> QED BY <1>1, <1>4, <1>5

LEMMA Fitting ==
  ASSUME Base, npu.on, pc \in {"validate", "decode"},
         \A l \in 0 .. Last : Start[l] = Exactly(index), index <= MaxBucket
  PROVE  AllFit(Start)
<1>1. index \in Nat /\ index > 0
  BY Room DEF Base, Types, Counters, Passing
<1>2. ASSUME NEW c \in 1 .. npu.kept
      PROVE  Fits(Start, c)
  <2>1. FirstOf(c) \in 0 .. Last
    BY ChunkStart, Prefixes, Sizes
  <2>2. Start[FirstOf(c)].len = index
    BY <2>1 DEF Exactly
  <2> QED BY <1>1, <2>2, Sizes DEF Fits
<1> QED BY <1>2 DEF AllFit

LEMMA FailureStays ==
  ASSUME [Next]_vars, ~faulty'
  PROVE  /\ ~faulty /\ ~Break
         /\ ValidationShrinks \/ ValidationRejects => dep.broken = {}
<1>1. ValidationShrinks \/ ValidationRejects => ~faulty /\ dep.broken = {}
  BY DEF ValidationShrinks, ValidationRejects
<1>2. ~Break
  BY DEF Break, LoadFails, ValidationReloadFails, ValidationBreaks, NpuDecodeBreaks,
         NpuPrefillBreaks, LayerFails
<1>3. ~(ValidationShrinks \/ ValidationRejects) => faulty' = faulty
  BY <1>2 DEF Next, Work, vars, Reset, StartPrompt, NextToken, Stop, LoadRunner, BucketFallback,
         ChooseNpuDecode, ChooseOther, ValidationPasses, ValidationFails, NpuDecode, NoRunner,
         NpuDecodeFails, NpuPrefill, NpuPrefillFails, LocalLayer, RemoteLayer, Finish, FinishFails,
         Sample
<1> QED BY <1>1, <1>2, <1>3

LEMMA ResetSound ==
  ASSUME Inv, Sound, Reset, ~faulty
  PROVE  Sound'
<1>1. npu' = Off \/ (npu.on /\ npu' = Runner(npu.kept))
  BY DEF Reset, Cleared, Inv, Base, Runners
<1>2. Whole
  BY DEF Sound
<1>3. UNCHANGED <<dep, disabledForRuntime>> /\ pc' = "next" /\ ~validated' /\ answer' = "none"
  BY DEF Reset
<1>4. Whole'
  BY <1>1, <1>2, <1>3 DEF Whole, Off, Runner, Usable, CoversAll, LastLayer, AllowsDecode,
     AllowsPartial, UsesPrefillRunner, SupportsDeepstack, PrefillRuns
<1>5. npu'.synced = FALSE
  BY <1>1 DEF Off, Runner
<1> QED BY <1>3, <1>4, <1>5 DEF Sound, Ready, Lost

LEMMA StartPromptSound ==
  ASSUME Inv, Sound, StartPrompt, ~faulty
  PROVE  Sound'
<1>1. /\ pc = "next" /\ pc' = "route" /\ generated = 0 /\ ~validated' /\ headless' = FALSE
      /\ UNCHANGED <<dep, npu, disabledForRuntime, answer>>
  BY DEF StartPrompt
<1>2. Whole /\ ~Lost
  BY <1>1 DEF Sound, Unlucky
<1>3. Whole'
  BY <1>1, <1>2, WholeFrame
<1>4. ~Lost'
  BY <1>1, <1>2 DEF Lost
<1>5. npu.on => npu.synced = FALSE
  BY <1>1 DEF Inv, FreshPrompt, Runner
<1> QED BY <1>1, <1>3, <1>4, <1>5 DEF Sound, Ready

LEMMA TurnSound ==
  ASSUME Inv, Sound, ~faulty, NextToken \/ ChooseOther \/ Finish \/ Sample
  PROVE  Sound'
<1>1. /\ pc # "idle" /\ pc' \in {"next", "route", "prefill", "blocks", "sample"}
      /\ UNCHANGED <<dep, npu, flags, forceShadow, n>> \/ NextToken
      /\ UNCHANGED <<dep, npu, flags, forceShadow>>
  BY DEF NextToken, ChooseOther, Finish, Sample, request
<1>2. Whole /\ Ready /\ (Lost => Unlucky)
  BY <1>1 DEF Sound
<1>3. Lost' <=> Lost
  <2>1. CASE NextToken \/ ChooseOther
    BY <2>1 DEF NextToken, ChooseOther, Lost, Inv, Base, Counters
  <2>2. CASE Finish
    BY <2>2 DEF Finish, Lost
  <2>3. CASE Sample
    BY <2>3 DEF Sample, Lost, Inv, Base, Counters
  <2> QED BY <2>1, <2>2, <2>3
<1>4. \A l \in Layers : Due(l)' = Due(l)
  <2>1. CASE NextToken
    BY <2>1 DEF NextToken, Due
  <2>2. CASE ChooseOther
    BY <2>2 DEF ChooseOther, request, Due, Layers, Embedded, Inv, Base, Counters
  <2>3. CASE Finish
    BY <2>3, Sizes DEF Finish, request, Due, Layers
  <2>4. CASE Sample
    BY <2>4 DEF Sample, NextIndex, Due
  <2> QED BY <2>1, <2>2, <2>3, <2>4
<1>5. disabledForRuntime' = disabledForRuntime
  BY <1>1 DEF flags
<1>6. Lost => Unlucky'
  <2>1. generated > 0 /\ generated \in Nat => generated' > 0
    BY DEF NextToken, ChooseOther, Finish, Sample, request
  <2>2. headless' /\ pc' \in {"blocks", "sample"} => headless /\ pc \in {"blocks", "sample"}
    BY DEF NextToken, ChooseOther, Finish, Sample, Inv, Base, Counters
  <2> QED BY <1>1, <1>2, <2>1, <2>2, UnluckyFrame DEF Unlucky, Inv, Base, Types
<1> QED BY <1>1, <1>2, <1>3, <1>4, <1>5, <1>6, WholeFrame, ReadyFrame DEF Sound

LEMMA EndSound ==
  ASSUME Inv, Sound, ~faulty, Stop \/ NoRunner \/ FinishFails
  PROVE  Sound'
<1>1. pc' = "idle" /\ UNCHANGED <<dep, npu, disabledForRuntime>> /\ Whole
  BY DEF Stop, NoRunner, FinishFails, Refuse, request, flags, Sound
<1> QED BY <1>1, WholeFrame DEF Sound

LEMMA LoadRunnerSound ==
  ASSUME Inv, Sound, ~faulty, LoadRunner
  PROVE  Sound'
<1>1. /\ pc = "route" /\ pc' = "route" /\ ~npu.on /\ ~disabledForDialog /\ Reload(Kept)
      /\ UNCHANGED <<dep, validated, headless, answer>>
  BY DEF LoadRunner, MustLoad, request
<1>2. Whole /\ ~Lost /\ ~validated
  BY <1>1 DEF Sound, Unlucky, Inv, Reloaded
<1>3. Kept = Len(dep.ends)
  BY <1>1, <1>2 DEF Kept, Inv, Base, Types, Runners
<1>4. ~Lost'
  BY <1>1, <1>2 DEF Lost
<1>5. CASE Usable(Len(dep.ends))
  <2>1. npu' = Runner(Len(dep.ends)) /\ disabledForRuntime' = disabledForRuntime
    BY <1>1, <1>3, <1>5 DEF Reload
  <2> QED BY <1>1, <1>2, <1>4, <1>5, <2>1 DEF Sound, Ready, Whole, Runner, Usable, CoversAll, LastLayer,
          AllowsDecode, AllowsPartial, UsesPrefillRunner, SupportsDeepstack, PrefillRuns
<1>6. CASE ~Usable(Len(dep.ends))
  <2>1. npu' = Off
    BY <1>1, <1>3, <1>6 DEF Reload
  <2> QED BY <1>1, <1>4, <1>6, <2>1 DEF Sound, Ready, Whole, Off, Usable, CoversAll, LastLayer,
          AllowsDecode, AllowsPartial
<1> QED BY <1>5, <1>6

LEMMA BucketFallbackSound ==
  ASSUME Inv, Sound, ~faulty, BucketFallback
  PROVE  Sound'
<1>1. /\ pc = "route" /\ pc' = "blocks" /\ npu' = Off /\ disabledForDialog' /\ ~headless
      /\ UNCHANGED <<dep, validated, disabledForRuntime, headless, answer, generated>>
  BY DEF BucketFallback, request, Inv, Base, Counters
<1>2. Whole /\ Ready /\ (Lost => Unlucky)
  BY <1>1 DEF Sound
<1>3. Lost' <=> Lost
  BY <1>1 DEF Lost
<1>4. Whole'
  BY <1>1, <1>2 DEF Whole, Off, Usable, CoversAll, LastLayer, AllowsDecode, AllowsPartial,
     UsesPrefillRunner, SupportsDeepstack, PrefillRuns
<1>5. Ready' /\ (Lost' => Unlucky')
  BY <1>1, <1>2, <1>3 DEF Ready, Unlucky, Off, AllowsDecode
<1> QED BY <1>4, <1>5 DEF Sound

LEMMA ChooseNpuDecodeSound ==
  ASSUME Inv, Sound, ~faulty, ChooseNpuDecode
  PROVE  Sound'
<1>1. /\ pc = "route" /\ pc' \in {"validate", "decode"} /\ npu.on /\ ~OutOfBucket /\ ~headless
      /\ UNCHANGED <<dep, npu, flags, forceShadow, headless, answer, generated, index>>
  BY DEF ChooseNpuDecode, request, Inv, Base, Counters
<1>2. Whole /\ Ready /\ (Lost => Unlucky)
  BY <1>1 DEF Sound
<1>3. Lost' <=> Lost
  BY <1>1 DEF Lost
<1>4. MaxBucket = 0 \/ index' <= MaxBucket
  BY <1>1, Sizes DEF OutOfBucket, Inv, Base, Types
<1>5. \A l \in Layers : Due(l)' = Due(l)
  BY <1>1 DEF Due
<1>6. disabledForRuntime' = disabledForRuntime
  BY <1>1 DEF flags
<1>7. Lost => Unlucky'
  <2>1. Lost => generated' > 0
    BY <1>1, <1>2 DEF Unlucky
  <2> QED BY <1>1, <1>2, <2>1, UnluckyFrame
<1> QED BY <1>1, <1>2, <1>3, <1>4, <1>5, <1>6, <1>7, WholeFrame, ReadyFrame DEF Sound

LEMMA ValidationPassesSound ==
  ASSUME Inv, Sound, ~faulty, ValidationPasses
  PROVE  Sound'
<1>1. /\ pc = "validate" /\ pc' = "decode" /\ CanStart /\ AllFit(Start) /\ npu.on /\ ~headless
      /\ Reload(npu.kept) /\ validated' = TRUE
      /\ UNCHANGED <<dep, index, headless, forceShadow, answer>>
  BY DEF ValidationPasses, ValidationStep, request, Inv, Base, Counters
<1>2. ~Lost /\ Whole /\ Ready
  BY <1>1, NotLost DEF Sound
<1>3. npu.kept = Len(dep.ends) /\ Usable(Len(dep.ends))
  BY <1>1, <1>2 DEF Whole
<1>4. npu' = Runner(npu.kept) /\ disabledForRuntime' = disabledForRuntime
  BY <1>1, <1>3 DEF Reload
<1>5. Whole'
  BY <1>1, <1>2, <1>3, <1>4 DEF Whole, Runner, Usable, CoversAll, LastLayer, AllowsDecode,
     AllowsPartial, UsesPrefillRunner, SupportsDeepstack, PrefillRuns
<1>6. MaxBucket > 0
  BY <1>1, NoBuckets, Sizes DEF Inv
<1>7. ~forceShadow /\ PrefixOf(npu.kept) \subseteq dep.local
  BY <1>1, StartsAtHome DEF Inv
<1>8. Ready'
  BY <1>1, <1>2, <1>4, <1>6, <1>7 DEF Ready, Runner, PrefixOf, LastLayer
<1>9. ~Lost'
  BY <1>1, <1>2 DEF Lost
<1> QED BY <1>5, <1>8, <1>9 DEF Sound

(* Without a broken chunk a validation that runs to its end passes.        *)
LEMMA ValidationSucceeds ==
  ASSUME Inv, Sound, ~faulty, dep.broken = {}, ValidationStep(FALSE)
  PROVE  FALSE
<1>1. pc = "validate" /\ CanStart /\ AllFit(Start) /\ npu.on
  BY DEF ValidationStep, Inv, Base, Counters
<1>2. ~Lost
  BY <1>1, NotLost
<1>3. Reference(npu.kept).right
  BY <1>1, <1>2, ReferenceExact
<1>4. Right(Start, npu.kept)
  <2> SUFFICES ASSUME NEW b \in 1 .. npu.kept, NEW l \in LayersOf(b)
               PROVE  Start[l] = [len |-> index, good |-> index]
    BY DEF Right
  <2>1. l \in 0 .. Last
    BY <1>1, ChunkStart, Prefixes DEF Inv, LayersOf, LastLayer
  <2> QED BY <1>1, <1>2, <2>1, ValidationStart DEF Exactly
<1> QED BY <1>3, <1>4 DEF ValidationStep

LEMMA ValidationFailsSound ==
  ASSUME Inv, Sound, ~faulty, ValidationFails
  PROVE  Sound'
<1>1. /\ pc = "validate" /\ pc' = "blocks" /\ npu.on /\ ~validated /\ AllowsDecode /\ generated > 0
      /\ UNCHANGED <<dep, index, generated, forceShadow, flags, answer>> /\ headless' = TRUE
      /\ npu.kept \in Nat
  BY DEF ValidationFails, AfterValidationError, request, Inv, Base, Counters, Types, Machine
<1>2. PICK c \in 0 .. npu.kept - 1 : FailsAfter(c) /\ npu' = FailedDecode(c)
  BY DEF ValidationFails
<1>3. npu'.on /\ npu'.kept = npu.kept
  BY <1>1, <1>2 DEF FailedDecode, Inv, Base, Types, Machine
<1>4. Whole /\ Ready /\ (Lost => Unlucky)
  BY <1>1 DEF Sound
<1>5. Whole'
  BY <1>1, <1>3, <1>4 DEF Whole, Usable, CoversAll, LastLayer, AllowsDecode, AllowsPartial,
     UsesPrefillRunner, SupportsDeepstack, PrefillRuns, flags
<1>6. Ready'
  BY <1>1, <1>4 DEF Ready, flags, Lost
<1>7. \/ MaxBucket = 0
      \/ ~npu'.synced /\ (forceShadow \/ ~(PrefixOf(npu.kept) \subseteq dep.local))
  <2>1. CASE CanStart
    <3>1. CASE Lost
      BY <1>1, <1>4, <2>1, <3>1, StartsAtHome DEF Unlucky, Inv
    <3>2. CASE ~Lost
      <4>1. c + 1 \in 1 .. npu.kept /\ ~Fits(Start, c + 1)
        BY <1>1, <1>2, <2>1 DEF FailsAfter
      <4>2. ~AllFit(Start)
        BY <4>1 DEF AllFit
      <4>3. ~(index <= MaxBucket)
        BY <1>1, <2>1, <3>2, <4>2, ValidationStart, Fitting DEF Inv
      <4> QED BY <1>1, <1>4, <4>3 DEF Ready
    <3> QED BY <3>1, <3>2
  <2>2. CASE ~CanStart
    <3>1. npu' = npu /\ ~npu.synced /\ ~CanSync
      BY <1>2, <2>2 DEF FailedDecode, CanStart
    <3>2. CASE Lost
      BY <1>1, <1>4, <3>1, <3>2 DEF Unlucky
    <3>3. CASE ~Lost
      <4>1. RowsKept /\ ~NpuDecodes
        BY <1>1, <3>3 DEF Inv, Exact, NpuDecodes
      <4>2. PICK l \in PrefixOf(npu.kept) : ~(soft[l].len > 0)
        BY <3>1 DEF CanSync
      <4>3. l \in Layers
        BY <1>1, Prefixes, Sizes DEF Inv, Layers
      <4>4. l \notin dep.local \/ forceShadow
        <5>1. SUFFICES ASSUME l \in dep.local, ~forceShadow PROVE FALSE
          OBVIOUS
        <5>2. soft[l].good >= index
          BY <1>1, <4>1, <4>3, <5>1 DEF RowsKept, Home, Due
        <5>3. index > 0 /\ index \in Nat
          BY <1>1, Room DEF Inv, Base, Types, Passing
        <5>4. soft[l] \in Row
          BY <4>3 DEF Inv, Base, Types
        <5> QED BY <4>2, <5>2, <5>3, <5>4 DEF Row
      <4> QED BY <3>1, <4>4
    <3> QED BY <3>2, <3>3
  <2> QED BY <2>1, <2>2
<1>8. Unlucky'
  BY <1>1, <1>3, <1>7 DEF Unlucky, flags, PrefixOf, LastLayer, AllowsDecode
<1> QED BY <1>5, <1>6, <1>8 DEF Sound

LEMMA NpuDecodeSound ==
  ASSUME Inv, Sound, ~faulty, NpuDecode
  PROVE  Sound'
<1>1. /\ pc = "decode" /\ pc' = "blocks" /\ npu.on /\ npu' = Decoded /\ validated /\ ~headless
      /\ UNCHANGED <<dep, index, headless, forceShadow, flags, answer>>
  BY DEF NpuDecode, request, Inv, Base, Counters
<1>2. npu'.on /\ npu'.kept = npu.kept
  BY <1>1 DEF Decoded, Inv, Base, Types, Machine
<1>3. ~Lost /\ Whole /\ Ready
  BY <1>1, NotLost DEF Sound
<1>4. Whole'
  BY <1>1, <1>2, <1>3 DEF Whole, Usable, CoversAll, LastLayer, AllowsDecode, AllowsPartial,
     UsesPrefillRunner, SupportsDeepstack, PrefillRuns, flags
<1>5. Ready' /\ ~Lost'
  BY <1>1, <1>2, <1>3 DEF Ready, flags, Lost, PrefixOf, LastLayer
<1> QED BY <1>4, <1>5 DEF Sound

(* A validated runner decodes until it outgrows its buckets.               *)
LEMMA DecodeSucceeds ==
  ASSUME Inv, Sound, ~faulty, NpuDecodeFails
  PROVE  FALSE
<1>1. pc = "decode" /\ npu.on /\ validated /\ AllowsDecode /\ npu.kept \in Nat /\ generated > 0
  BY DEF NpuDecodeFails, Inv, Base, Counters, Types, Machine
<1>2. PICK c \in 0 .. npu.kept - 1 : FailsAfter(c)
  BY DEF NpuDecodeFails
<1>3. ~Lost /\ Ready
  BY <1>1, NotLost DEF Sound
<1>4. ~forceShadow /\ PrefixOf(npu.kept) \subseteq dep.local /\ MaxBucket > 0 /\ index <= MaxBucket
  BY <1>1, <1>3 DEF Ready
<1>5. CASE CanStart
  <2>1. c + 1 \in 1 .. npu.kept /\ ~Fits(Start, c + 1)
    BY <1>1, <1>2, <1>5 DEF FailsAfter
  <2>2. ~AllFit(Start)
    BY <2>1 DEF AllFit
  <2> QED BY <1>1, <1>3, <1>4, <1>5, <2>2, DecodeStart, Fitting DEF Inv
<1>6. CASE ~CanStart
  <2>1. RowsKept /\ ~NpuDecodes
    BY <1>1, <1>3, <1>6 DEF Inv, Exact, NpuDecodes, CanStart
  <2>2. PICK l \in PrefixOf(npu.kept) : ~(soft[l].len > 0)
    BY <1>6 DEF CanStart, CanSync
  <2>3. l \in Layers /\ l \in dep.local
    BY <1>1, <1>4, Prefixes, Sizes DEF Inv, Layers
  <2>4. soft[l].good >= index
    BY <1>1, <1>4, <2>1, <2>3 DEF RowsKept, Home, Due
  <2>5. index > 0 /\ index \in Nat
    BY <1>1, Room DEF Inv, Base, Types, Passing
  <2>6. soft[l] \in Row
    BY <2>3 DEF Inv, Base, Types
  <2> QED BY <2>2, <2>4, <2>5, <2>6 DEF Row
<1> QED BY <1>5, <1>6

LEMMA PrefillSound ==
  ASSUME Inv, Sound, ~faulty, NpuPrefill \/ NpuPrefillFails
  PROVE  Sound'
<1>1. /\ pc = "prefill" /\ pc' = "blocks" /\ npu.on /\ generated = 0 /\ ~validated /\ ~headless
      /\ UsesPrefillRunner /\ x = Embedded
      /\ UNCHANGED <<dep, index, n, headless, validated, forceShadow, answer>>
  BY DEF NpuPrefill, NpuPrefillFails, PrefillGivenUp, request, flags, Inv, Base, Counters, FreshPrompt
<1>2. Whole /\ Ready /\ ~Lost
  BY <1>1 DEF Sound, Unlucky
<1>3. ~Lost'
  BY <1>1, <1>2 DEF Lost
<1>4. CASE NpuPrefill
  <2>1. /\ npu'.on /\ npu'.kept = npu.kept /\ \A l \in Layers : npu'.kv[l] = Exactly(n)
        /\ disabledForRuntime' = disabledForRuntime
    BY <1>1, <1>4 DEF NpuPrefill, Inv, Base, Types, Machine, Exactly, flags
  <2>2. Whole'
    BY <1>1, <1>2, <2>1 DEF Whole, Usable, CoversAll, LastLayer, AllowsDecode, AllowsPartial,
       UsesPrefillRunner, SupportsDeepstack, PrefillRuns
  <2>3. \A l \in Layers : Due(l)' = n
    <3>1. x'.depth = NL /\ index = 0
      BY <1>1, <1>4 DEF NpuPrefill, Embedded, Inv, Base, Counters
    <3> QED BY <1>1, <3>1, Sizes DEF Due, Layers, Inv, Base, Types
  <2>4. Ready'
    BY <1>1, <2>1, <2>3 DEF Ready
  <2> QED BY <1>3, <2>2, <2>4 DEF Sound
<1>5. CASE NpuPrefillFails
  <2>1. npu' = Off /\ ~PrefillRuns
    BY <1>5 DEF NpuPrefillFails, PrefillGivenUp
  <2>2. Whole'
    BY <1>1, <2>1 DEF Whole, Off, UsesPrefillRunner, SupportsDeepstack, PrefillRuns
  <2>3. Ready'
    BY <1>1, <2>1 DEF Ready, Off
  <2> QED BY <1>3, <2>2, <2>3 DEF Sound
<1> QED BY <1>4, <1>5

LEMMA LayerSound ==
  ASSUME Inv, Sound, ~faulty, LocalLayer \/ RemoteLayer
  PROVE  Sound'
<1>1. /\ pc = "blocks" /\ pc' = "blocks" /\ x.depth < NL
      /\ UNCHANGED <<dep, index, n, generated, npu, flags, answer, headless>>
  BY DEF LocalLayer, RemoteLayer, request
<1>2. Whole /\ Ready /\ (Lost => Unlucky) /\ (Lost' <=> Lost)
  BY <1>1 DEF Sound, Lost
<1>3. Whole'
  BY <1>1, <1>2, WholeFrame DEF flags
<1>4. validated /\ npu.on => forceShadow' = forceShadow
  <2>1. CASE RemoteLayer
    BY <2>1 DEF RemoteLayer
  <2>2. CASE LocalLayer /\ (~UsesShadow \/ forceShadow)
    <3>1. LocalLayer /\ ~UsesShadow => forceShadow' = forceShadow
      BY DEF LocalLayer
    <3>2. LocalLayer /\ forceShadow => forceShadow'
      BY DEF LocalLayer, UsesShadow, Promoted
    <3>3. validated /\ npu.on => ~forceShadow
      BY <1>2 DEF Ready
    <3> QED BY <2>2, <3>1, <3>3
  <2>3. CASE ~forceShadow /\ UsesShadow
    <3>1. generated = 0
      BY <1>1, <2>3, Room DEF UsesShadow, Inv, Base, Types, Passing
    <3> QED BY <1>1, <3>1 DEF Inv, FreshPrompt
  <2> QED BY <2>1, <2>2, <2>3
<1>5. Ready'
  <2>1. AllowsDecode /\ npu.on /\ ~validated /\ npu.synced /\ ~Lost => FALSE
    BY <1>1, AtLayer DEF MayDecode, NpuDecodes
  <2> QED BY <1>1, <1>2, <1>4, <2>1 DEF Ready, flags, PrefixOf, LastLayer, AllowsDecode
<1>6. Lost => Unlucky'
  <2>1. forceShadow => forceShadow'
    BY DEF LocalLayer, RemoteLayer, UsesShadow, Promoted
  <2>2. Lost => generated' > 0
    BY <1>1, <1>2 DEF Unlucky
  <2> QED BY <1>1, <1>2, <2>1, <2>2, UnluckyFrame
<1> QED BY <1>2, <1>3, <1>5, <1>6 DEF Sound

LEMMA StutterSound ==
  ASSUME Sound, UNCHANGED vars
  PROVE  Sound'
<1>1. Lost' = Lost /\ Unlucky' = Unlucky
  BY DEF vars, Lost, Unlucky, PrefixOf, LastLayer, AllowsDecode
<1>2. Ready' = Ready
  BY <1>1 DEF vars, Ready, PrefixOf, LastLayer, AllowsDecode, Exactly, Due
<1>3. Whole' = Whole
  BY DEF vars, Whole, Usable, CoversAll, LastLayer, AllowsDecode, AllowsPartial,
     UsesPrefillRunner, SupportsDeepstack, PrefillRuns
<1> QED BY <1>1, <1>2, <1>3 DEF Sound, vars

LEMMA SoundInit == Init => Sound
<1> SUFFICES ASSUME Init PROVE Sound
  OBVIOUS
<1>1. pc = "idle" /\ (npu = Off \/ (npu = Runner(Len(dep.ends)) /\ Usable(Len(dep.ends))))
  BY DEF Init
<1>2. disabledForRuntime => ~Usable(Len(dep.ends))
  BY DEF Init
<1> QED BY <1>1, <1>2 DEF Sound, Whole, Off, Runner

LEMMA SoundStep ==
  ASSUME Inv, Sound, [Next]_vars
  PROVE  Sound'
<1> SUFFICES ASSUME ~faulty' PROVE Sound'
  BY DEF Sound
<1>1. ~faulty /\ ~Break
  BY FailureStays
<1>2. ~ValidationShrinks /\ ~ValidationRejects
  <2>1. ValidationShrinks \/ ValidationRejects => ValidationStep(FALSE) /\ dep.broken = {}
    BY FailureStays DEF ValidationShrinks, ValidationRejects
  <2> QED BY <1>1, <2>1, ValidationSucceeds
<1>3. ~NpuDecodeFails
  BY <1>1, DecodeSucceeds
<1> QED
  BY <1>1, <1>2, <1>3, ResetSound, StartPromptSound, TurnSound, EndSound, LoadRunnerSound,
     BucketFallbackSound, ChooseNpuDecodeSound, ValidationPassesSound, ValidationFailsSound,
     NpuDecodeSound, PrefillSound, LayerSound, StutterSound
  DEF Next, Work

(* While nothing failed and no chunk is broken, the NPU is given up for    *)
(* the runtime only where its coverage cannot serve the mode or the prefill *)
(* lacks additions (text_rknn_disabled).                                   *)
THEOREM SoundRunnerIsKept ==
  ASSUME \A d \in Deployments : HandsOver(d)
  PROVE  Spec => []SoundNpuIsKept
<1>1. Init => Inv /\ Sound
  BY BaseInit, FreshInit, HomesInit, InitExact, SoundInit DEF Inv
<1>2. Inv /\ Sound /\ [Next]_vars => (Inv /\ Sound)'
  BY InvStep, SoundStep
<1>3. Inv /\ Sound => SoundNpuIsKept
  BY DEF Sound, Whole, SoundNpuIsKept
<1> QED BY <1>1, <1>2, <1>3, PTL DEF Spec

-----------------------------------------------------------------------------
(* The output head.                                                        *)

(* The NPU never serves the layer of a worker whose output is taken.       *)
LEMMA NpuKeepsOff ==
  ASSUME Inv, KeepsHead(dep), npu.on, AllowsDecode, Answers
  PROVE  /\ Last < NL - 1 /\ MaxBucket > 0 /\ ~dep.shadow
         /\ PrefixOf(npu.kept) \subseteq dep.local
<1>1. dep.ends # <<>>
  BY Ends DEF Inv, Base, Types, Runners
<1>2. MaxBucket > 0 /\ ~dep.shadow /\ 0 .. dep.ends[Len(dep.ends)] \subseteq dep.local
  BY <1>1 DEF KeepsHead, AllowsDecode, Answers
<1>3. /\ Last \in 0 .. NL - 1 /\ PrefixOf(npu.kept) = 0 .. Last
      /\ Last <= dep.ends[Len(dep.ends)] /\ dep.ends[Len(dep.ends)] \in 0 .. NL - 1
  BY Prefixes DEF Inv, LastLayer
<1>4. PrefixOf(npu.kept) \subseteq dep.local
  BY <1>2, <1>3
<1>5. Last # NL - 1
  BY <1>3, <1>4, Sizes DEF Answers
<1> QED BY <1>2, <1>3, <1>4, <1>5, Sizes

LEMMA DepStays == [Next]_vars => dep' = dep
BY DEF Next, Work, Break, vars, Reset, StartPrompt, NextToken, Stop, LoadRunner, LoadFails,
       BucketFallback, ChooseNpuDecode, ChooseOther, ValidationPasses, ValidationShrinks,
       ValidationRejects, ValidationReloadFails, ValidationFails, ValidationBreaks,
         AfterValidationError, NpuDecode,
       NoRunner, NpuDecodeFails, NpuDecodeBreaks, GiveUpNpu, NpuPrefill, NpuPrefillFails,
       NpuPrefillBreaks, PrefillGivenUp, LocalLayer, RemoteLayer, LayerFails, Finish,
       FinishFails, Sample, request

LEMMA ShadowsStep ==
  ASSUME Inv, Heads, [Next]_vars
  PROVE  forceShadow' => dep'.shadow
<1>1. dep' = dep
  BY DepStays
<1>2. CASE Reset \/ StartPrompt
  BY <1>2 DEF Reset, StartPrompt
<1>3. CASE LocalLayer
  BY <1>1, <1>3 DEF LocalLayer, UsesShadow, Heads
<1>4. CASE ~(Reset \/ StartPrompt \/ LocalLayer)
  <2>1. forceShadow' = forceShadow
    BY <1>4 DEF Next, Work, Break, vars, NextToken, Stop, LoadRunner, LoadFails,
         BucketFallback, ChooseNpuDecode, ChooseOther, ValidationPasses, ValidationShrinks,
         ValidationRejects, ValidationReloadFails, ValidationFails, ValidationBreaks,
         AfterValidationError, NpuDecode,
         NoRunner, NpuDecodeFails, NpuDecodeBreaks, GiveUpNpu, NpuPrefill, NpuPrefillFails,
         NpuPrefillBreaks, PrefillGivenUp, RemoteLayer, LayerFails, Finish, FinishFails, Sample
  <2> QED BY <1>1, <2>1 DEF Heads
<1> QED BY <1>2, <1>3, <1>4

LEMMA HeadStep ==
  ASSUME Inv, Heads, [Next]_vars
  PROVE  ~head' => Answers'
<1>1. Answers' = Answers
  BY DepStays DEF Answers
<1>2. CASE Finish
  BY <1>1, <1>2 DEF Finish, HeadAfter, Heads
<1>3. CASE ~Finish
  <2>1. head' = head
    BY <1>3 DEF Next, Work, Break, vars, Reset, StartPrompt, NextToken, Stop, LoadRunner, LoadFails,
         BucketFallback, ChooseNpuDecode, ChooseOther, ValidationPasses, ValidationShrinks,
         ValidationRejects, ValidationReloadFails, ValidationFails, ValidationBreaks,
         AfterValidationError, NpuDecode,
         NoRunner, NpuDecodeFails, NpuDecodeBreaks, GiveUpNpu, NpuPrefill, NpuPrefillFails,
         NpuPrefillBreaks, PrefillGivenUp, LocalLayer, RemoteLayer, LayerFails, FinishFails, Sample
  <2> QED BY <1>1, <2>1 DEF Heads
<1> QED BY <1>2, <1>3

LEMMA KindStep ==
  ASSUME Inv, Heads, HandsOver(dep), KeepsHead(dep), [Next]_vars, pc' = "blocks"
  PROVE  x'.kind # "hidden" <=> x'.depth = NL /\ Answers'
<1>1. Answers' = Answers
  BY DepStays DEF Answers
<1>2. x \in Hidden /\ (pc \in {"route", "validate", "decode", "prefill"} => x = Embedded)
  BY DEF Inv, Base, Types, Counters
<1>3. CASE x' = Embedded
  BY <1>3, Sizes DEF Embedded
<1>4. CASE NpuDecode
  <2>1. AllowsDecode /\ npu.on /\ x.kind = "hidden"
    BY <1>2, <1>4 DEF NpuDecode, Embedded, Inv, Base, Counters
  <2>2. x'.kind = "hidden" /\ x'.depth = Last + 1
    BY <1>2, <1>4, <2>1 DEF NpuDecode, Hidden, Last
  <2>3. Answers => Last + 1 # NL
    BY <2>1, NpuKeepsOff, Prefixes, Sizes DEF Inv
  <2> QED BY <1>1, <2>2, <2>3
<1>5. CASE NpuPrefill
  <2>1. x'.kind = "hidden"
    BY <1>2, <1>5 DEF NpuPrefill, Embedded
  <2>2. dep.local = Layers
    BY <1>5, Prefilled DEF NpuPrefill, Inv
  <2>3. ~Answers
    BY <2>2, Sizes DEF Answers, Layers
  <2> QED BY <1>1, <2>1, <2>3
<1>6. CASE LocalLayer
  <2>1. pc = "blocks" /\ x.depth < NL /\ x.depth \in dep.local
    BY <1>6 DEF LocalLayer
  <2>2. x'.kind = x.kind /\ x'.depth = x.depth + 1
    BY <1>2, <1>6 DEF LocalLayer, Hidden
  <2>3. x.kind = "hidden"
    BY <1>2, <2>1, Sizes DEF Heads, Hidden
  <2>4. x'.depth = NL => x.depth = NL - 1
    BY <1>2, <2>2, Sizes DEF Hidden
  <2> QED BY <1>1, <2>1, <2>2, <2>3, <2>4 DEF Answers
<1>7. CASE RemoteLayer
  <2>1. /\ pc = "blocks" /\ x.depth < NL /\ x.depth \notin dep.local
        /\ x'.kind = RemoteOutput(x.depth) /\ x'.depth = x.depth + 1
    BY <1>7 DEF RemoteLayer
  <2>2. x'.depth = NL <=> x.depth = NL - 1
    BY <1>2, <2>1, Sizes DEF Hidden
  <2> QED BY <1>1, <2>1, <2>2 DEF RemoteOutput, Answers
<1>8. CASE UNCHANGED vars
  BY <1>1, <1>8 DEF vars, Heads
<1>9. CASE \/ BucketFallback \/ ChooseOther \/ ValidationReloadFails \/ ValidationRejects
           \/ ValidationFails
           \/ ValidationBreaks \/ NpuDecodeFails \/ NpuDecodeBreaks \/ NpuPrefillFails
           \/ NpuPrefillBreaks
  <2>1. x' = x /\ pc \in {"route", "validate", "decode", "prefill"}
    BY <1>9 DEF BucketFallback, ChooseOther, ValidationReloadFails, ValidationRejects,
       ValidationStep, ValidationFails,      ValidationBreaks, AfterValidationError, NpuDecodeFails, NpuDecodeBreaks, GiveUpNpu,
       NpuPrefillFails, NpuPrefillBreaks, PrefillGivenUp
  <2> QED BY <1>2, <1>3, <2>1
<1> QED
  BY <1>4, <1>5, <1>6, <1>7, <1>8, <1>9
  DEF Next, Work, Break, Reset, StartPrompt, NextToken, Stop, LoadRunner, LoadFails,
      ChooseNpuDecode, ValidationPasses, ValidationShrinks, ValidationStep, NoRunner, LayerFails,
      Finish, FinishFails, Sample, Refuse

(* Without a failure the runner, the rows and the head are there.          *)
LEMMA RefusedStep ==
  ASSUME Inv, Sound, Heads, KeepsHead(dep), [Next]_vars
  PROVE  refused' => faulty'
<1>1. faulty => faulty'
  BY FailureStays
<1>2. CASE Reset
  BY <1>2 DEF Reset
<1>3. CASE StartPrompt
  BY <1>1, <1>3 DEF StartPrompt, Heads
<1>4. CASE LoadFails \/ LayerFails
  BY <1>4 DEF LoadFails, LayerFails
<1>5. CASE NoRunner
  BY <1>1, <1>5 DEF NoRunner, Sound, Whole
<1>6. CASE FinishFails
  <2>1. SUFFICES ASSUME ~faulty PROVE FALSE
    BY <1>1
  <2>2. pc = "blocks" /\ x.depth = NL
    BY <1>6 DEF FinishFails
  <2>3. CASE headless
    <3>1. x.kind # "hidden" /\ Answers
      BY <1>6, <2>2, <2>3 DEF FinishFails, Heads
    <3>2. Unlucky /\ npu.on
      BY <2>1, <2>2, <2>3 DEF Sound, Lost, Unlucky
    <3>3. Inv /\ KeepsHead(dep) /\ npu.on /\ AllowsDecode /\ Answers
      BY <3>1, <3>2 DEF Unlucky
    <3>4. MaxBucket > 0 /\ ~dep.shadow /\ PrefixOf(npu.kept) \subseteq dep.local
      BY <3>3, NpuKeepsOff
    <3> QED BY <3>2, <3>4, Sizes DEF Unlucky, Heads
  <2>4. CASE ~headless
    BY <1>6, <2>2, <2>4 DEF FinishFails, Heads
  <2> QED BY <2>3, <2>4
<1>7. CASE ~(Reset \/ StartPrompt \/ LoadFails \/ LayerFails \/ NoRunner \/ FinishFails)
  <2>1. refused' = refused
    BY <1>7 DEF Next, Work, Break, vars, NextToken, Stop, LoadRunner, BucketFallback,
         ChooseNpuDecode, ChooseOther, ValidationPasses, ValidationShrinks,
         ValidationRejects, ValidationReloadFails, ValidationFails, ValidationBreaks,
         AfterValidationError, NpuDecode,
         NpuDecodeFails, NpuDecodeBreaks, GiveUpNpu, NpuPrefill, NpuPrefillFails,
         NpuPrefillBreaks, PrefillGivenUp, LocalLayer, RemoteLayer, Finish, Sample
  <2> QED BY <1>1, <2>1 DEF Heads
<1> QED BY <1>2, <1>3, <1>4, <1>5, <1>6, <1>7

(* In the deployments that keep the output head where it is needed, a      *)
(* request is refused only after something failed: forward_embeds and      *)
(* next_token never lead themselves into a missing runner, missing rows or *)
(* a head that was dropped.                                                *)
THEOREM NoChoiceFails ==
  ASSUME \A d \in Deployments : HandsOver(d) /\ KeepsHead(d)
  PROVE  Spec => []NoSelfInflictedFailure
<1>1. Init => Inv /\ Sound /\ Heads
  BY BaseInit, FreshInit, HomesInit, InitExact, SoundInit DEF Inv, Init, Heads
<1>2. Inv /\ Sound /\ Heads /\ [Next]_vars => (Inv /\ Sound /\ Heads)'
  <2> SUFFICES ASSUME Inv, Sound, Heads, [Next]_vars PROVE (Inv /\ Sound /\ Heads)'
    OBVIOUS
  <2>1. HandsOver(dep) /\ KeepsHead(dep)
    BY DEF Inv, Base, Types
  <2>2. Inv' /\ Sound'
    BY InvStep, SoundStep
  <2>3. Heads'
    BY <2>1, ShadowsStep, HeadStep, KindStep, RefusedStep DEF Heads
  <2> QED BY <2>2, <2>3
<1>3. Heads => NoSelfInflictedFailure
  BY DEF Heads, NoSelfInflictedFailure
<1> QED BY <1>1, <1>2, <1>3, PTL DEF Spec
==============================================================================
