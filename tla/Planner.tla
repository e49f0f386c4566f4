------------------------------ MODULE Planner ------------------------------
(***************************************************************************)
(* AutoPlanner: the search for a placement of the layers on devices.  The  *)
(* process of every device runs it for itself, from the same profile.      *)
(*                                                                         *)
(* dp[end][mask][last] of the code is the function dp on States; a label   *)
(* is [score, ttft, segs].  Times, energies and memory are naturals        *)
(* (finite and non-negative floats in the code), measured per layer.       *)
(***************************************************************************)
EXTENDS Integers, Sequences, FiniteSets, FiniteSetsExt, SequencesExt

CONSTANTS
  NL,           \* num_hidden_layers
  Device,       \* indices of enabled devices, in the order of the profile
  Jobs,         \* profiles with their objective and algorithm
  RiskUnit      \* risk_weight is a multiple of 1 / RiskUnit

Layers == 0 .. NL - 1
Roles == {"master", "worker"}
Algorithms == {"dial", "latency", "throughput"}
Metric == [Device -> [Layers -> Nat]]    \* LayerMetric of each device

(* A job: the profile, --auto-plan-algorithm, and what each process adds   *)
(* to a layer's memory for its KV cache (max_seq_len may be capped).       *)
JobOK(j) ==
  /\ j.role \in [Device -> Roles] /\ j.algorithm \in Algorithms
  /\ j.usable \in [Device -> Nat] /\ j.fixed \in [Device -> Nat]
  /\ j.memory \in Metric /\ j.kv \in [Device -> Nat]
  /\ {j.prefill, j.decode, j.tailPrefill, j.tailDecode, j.energy} \subseteq Metric
  /\ {j.netPrefill, j.netDecode, j.tailNetPrefill, j.tailNetDecode}
       \subseteq [Device -> Nat]
  /\ {j.ttftWeight, j.tpotWeight, j.energyWeight, j.penalty, j.output} \subseteq Nat
  /\ j.risk \in 0 .. RiskUnit
  /\ j.minDevices \in Nat \ {0} /\ j.maxDevices \in Nat \ {0}

ASSUME PlannerAssumption ==
  /\ NL \in Nat \ {0}
  /\ \E n \in 1 .. 12 : Device = 1 .. n
  /\ RiskUnit \in Nat \ {0}
  /\ \A j \in Jobs : JobOK(j)

VARIABLES
  job,
  planner,     \* the process whose search is running, or Nobody
  dp, todo,    \* labels, and those that were not extended yet
  plan         \* what each process found: [done, segs], no segments if it failed

planVars == <<job, planner, dp, todo, plan>>

Nobody == 0
Planned(segs) == [done |-> TRUE, segs |-> segs]

States == {s \in (1 .. NL) \X (SUBSET Device) \X Device : s[3] \in s[2]}
End(s) == s[1]
Mask(s) == s[2]
LastDevice(s) == s[3]

NoLabel == [score |-> 0, ttft |-> 0, segs |-> <<>>]
Exists(label) == label.segs # <<>>
Segment(d, first, last) == [device |-> d, first |-> first, last |-> last]

---------------------------------------------------------------------------
(* Costs *)

SumOver(metric, d, first, last) == MapThenSumSet(LAMBDA l : metric[d][l], first .. last)
Max2(a, b) == IF a > b THEN a ELSE b
IsWorker(d) == job.role[d] = "worker"
Remote(value, d) == IF IsWorker(d) THEN value[d] ELSE 0

(* More than usable_memory_mb is not a segment.                            *)
FitsMemory(q, d, first, last) ==
  job.fixed[d] + SumOver(job.memory, d, first, last)
    + job.kv[q] * (last - first + 1) <= job.usable[d]

Latency(prefill, decode, netPrefill, netDecode) ==
  job.ttftWeight * (prefill + decode + netPrefill + netDecode)
    + job.tpotWeight * (decode + netDecode)

Ttft(d, first, last) ==
  SumOver(job.prefill, d, first, last) + SumOver(job.decode, d, first, last)
    + Remote(job.netPrefill, d) + Remote(job.netDecode, d)

DialScore(d, first, last) ==
  LET sum(metric) == SumOver(metric, d, first, last) IN
  (RiskUnit - job.risk) * Latency(sum(job.prefill), sum(job.decode),
                                  Remote(job.netPrefill, d), Remote(job.netDecode, d))
  + job.risk * Latency(sum(job.tailPrefill), sum(job.tailDecode),
                       Remote(job.tailNetPrefill, d), Remote(job.tailNetDecode, d))
  + RiskUnit * (job.energyWeight * sum(job.energy) + (IF IsWorker(d) THEN job.penalty ELSE 0))

RequestCompute(d, first, last) ==
  SumOver(job.prefill, d, first, last) + job.output * SumOver(job.decode, d, first, last)
RequestNetwork(d) == Remote(job.netPrefill, d) + job.output * Remote(job.netDecode, d)

SegmentScore(d, first, last) ==
  IF job.algorithm = "dial" THEN DialScore(d, first, last)
  ELSE IF job.algorithm = "latency" THEN RequestCompute(d, first, last) + RequestNetwork(d)
  ELSE Max2(RequestCompute(d, first, last), RequestNetwork(d))

(* The bottleneck of a pipeline, the sum of everything else.               *)
Joined(score, segmentScore) ==
  IF job.algorithm = "throughput" THEN Max2(score, segmentScore) ELSE score + segmentScore

---------------------------------------------------------------------------
(* The search *)

EffectiveMax == IF job.maxDevices < Cardinality(Device) THEN job.maxDevices
                ELSE Cardinality(Device)

(* validate: one master, enough devices, tails not below means.            *)
NotBelow(tail, mean) == \A d \in Device, l \in Layers : tail[d][l] >= mean[d][l]
ValidJob ==
  /\ Cardinality({d \in Device : ~IsWorker(d)}) = 1
  /\ job.minDevices <= EffectiveMax
  /\ job.ttftWeight > 0 \/ job.tpotWeight > 0 \/ job.energyWeight > 0
  /\ \A d \in Device : job.fixed[d] <= job.usable[d] /\ job.usable[d] > 0
  /\ NotBelow(job.tailPrefill, job.prefill) /\ NotBelow(job.tailDecode, job.decode)
  /\ \A d \in Device : IsWorker(d) => /\ job.tailNetPrefill[d] >= job.netPrefill[d]
                                      /\ job.tailNetDecode[d] >= job.netDecode[d]

InitialLabel(q, s) ==
  IF Mask(s) = {LastDevice(s)} /\ FitsMemory(q, LastDevice(s), 0, End(s) - 1)
  THEN [score |-> SegmentScore(LastDevice(s), 0, End(s) - 1),
        ttft |-> Ttft(LastDevice(s), 0, End(s) - 1),
        segs |-> <<Segment(LastDevice(s), 0, End(s) - 1)>>]
  ELSE NoLabel

(* The label of state s, continued on device d up to layer end - 1.        *)
Extended(s, d, end) ==
  [score |-> Joined(dp[s].score, SegmentScore(d, End(s), end - 1)),
   ttft  |-> dp[s].ttft + Ttft(d, End(s), end - 1),
   segs  |-> Append(dp[s].segs, Segment(d, End(s), end - 1))]

\* Variant: the first label that reaches a state stays.
Replaces_First(new, old) == ~Exists(old)

Replaces(new, old) ==
  \/ ~Exists(old)
  \/ new.score < old.score
  \/ new.score = old.score /\ new.ttft < old.ttft

(* Device bit masks are tried in the order of their values: the highest    *)
(* bit that is set in only one of them decides.                            *)
Lower(a, b) == \E d \in b \ a : \A e \in a \ b : e < d
Before(s, t) ==
  \/ End(s) < End(t)
  \/ End(s) = End(t) /\ Lower(Mask(s), Mask(t))
  \/ End(s) = End(t) /\ Mask(s) = Mask(t) /\ LastDevice(s) < LastDevice(t)

IsNext(s, S) == \A t \in S \ {s} : Before(s, t)

Extendable(s) == End(s) < NL /\ Cardinality(Mask(s)) < EffectiveMax

(* plan_with_algorithm: validate, then every single segment from layer 0.  *)
Begin(q) ==
  /\ planner = Nobody /\ ~plan[q].done
  /\ IF ValidJob
     THEN /\ planner' = q
          /\ dp' = [s \in States |-> InitialLabel(q, s)]
          /\ todo' = {s \in States : Extendable(s)}
          /\ plan' = plan
     ELSE plan' = [plan EXCEPT ![q] = Planned(<<>>)] /\ UNCHANGED <<planner, dp, todo>>
  /\ job' = job

(* Labels are extended with one more segment of a device not used yet.     *)
\* Variant: a device may serve two segments.
Unused_Any(d, mask) == TRUE

Unused(d, mask) == d \notin mask

(* s is the state t comes from when t's last device takes its last layers. *)
Leads(s, t) ==
  /\ End(t) > End(s) /\ Unused(LastDevice(t), Mask(s))
  /\ Mask(t) = Mask(s) \cup {LastDevice(t)}
  /\ FitsMemory(planner, LastDevice(t), End(s), End(t) - 1)

(* One iteration of the loop over end, mask and last device.               *)
Pending == {s \in todo : Exists(dp[s])}
Extend(s) ==
  /\ s \in Pending /\ IsNext(s, Pending)
  /\ dp' = [t \in States |->
              IF Leads(s, t) /\ Replaces(Extended(s, LastDevice(t), End(t)), dp[t])
              THEN Extended(s, LastDevice(t), End(t)) ELSE dp[t]]
  /\ todo' = todo \ {s}
  /\ UNCHANGED <<job, planner, plan>>

Complete ==
  {s \in States : /\ End(s) = NL /\ Exists(dp[s])
                  /\ Cardinality(Mask(s)) \in job.minDevices .. EffectiveMax}

(* Fewer segments only break a tie.                                        *)
Preferred(a, b) ==
  a.score < b.score \/ (a.score = b.score /\ Len(a.segs) < Len(b.segs))

Finalists == {s \in Complete : \A t \in Complete : ~Preferred(dp[t], dp[s])}

\* Variant: any of the finalists, as if labels were kept in a hash map.
IsWinner_Any(s) == s \in Finalists

IsWinner(s) == s \in Finalists /\ IsNext(s, Finalists)

Choose ==
  /\ planner # Nobody /\ Pending = {}
  /\ IF Complete = {}
     THEN plan' = [plan EXCEPT ![planner] = Planned(<<>>)]
     ELSE \E s \in States : /\ IsWinner(s)
                            /\ plan' = [plan EXCEPT ![planner] = Planned(dp[s].segs)]
  /\ planner' = Nobody /\ dp' = [s \in States |-> NoLabel] /\ todo' = {} /\ job' = job

PlanInit ==
  /\ job \in Jobs
  /\ planner = Nobody /\ todo = {}
  /\ dp = [s \in States |-> NoLabel]
  /\ plan = [q \in Device |-> [done |-> FALSE, segs |-> <<>>]]

PlanNext == Choose \/ (\E q \in Device : Begin(q)) \/ (\E s \in States : Extend(s))

PlanSpec == PlanInit /\ [][PlanNext]_planVars

---------------------------------------------------------------------------
(* Properties *)

(* Segments that tile the layers before `end' on the devices of mask.      *)
Tiles(segs, end, mask) ==
  /\ segs \in Seq([device : Device, first : Layers, last : Layers]) /\ segs # <<>>
  /\ segs[1].first = 0 /\ segs[Len(segs)].last = end - 1
  /\ \A i \in 1 .. Len(segs) : segs[i].first <= segs[i].last
  /\ \A i \in 1 .. Len(segs) - 1 : segs[i + 1].first = segs[i].last + 1
  /\ \A i, j \in 1 .. Len(segs) : i # j => segs[i].device # segs[j].device
  /\ {segs[i].device : i \in 1 .. Len(segs)} = mask

(* Every label of the search, however many replacements it went through,   *)
(* is a placement of exactly the layers and devices its state names, and   *)
(* a finished plan gives every layer of the model to exactly one device.   *)
SearchOK ==
  /\ job \in Jobs /\ planner \in Device \cup {Nobody} /\ todo \subseteq States
  /\ DOMAIN dp = States /\ DOMAIN plan = Device
  /\ \A s \in States : Exists(dp[s]) => /\ Tiles(dp[s].segs, End(s), Mask(s))
                                       /\ dp[s].segs[Len(dp[s].segs)].device = LastDevice(s)
  /\ \A q \in Device : plan[q].segs # <<>> => \E mask \in SUBSET Device : Tiles(plan[q].segs, NL, mask)

(* A layout is given by its devices and the ends of its segments.          *)
Layout(devices, ends) ==
  [i \in DOMAIN devices |-> Segment(devices[i], IF i = 1 THEN 0 ELSE ends[i - 1], ends[i] - 1)]

Ends(k) ==
  {ends \in [1 .. k -> 1 .. NL] : ends[k] = NL /\ \A i \in 1 .. k - 1 : ends[i] < ends[i + 1]}

(* All layouts the objective allows that fit the memory of the devices.    *)
Layouts(q) ==
  {y \in UNION {{Layout(devices, ends) : devices \in Injection(1 .. k, Device), ends \in Ends(k)} :
                  k \in job.minDevices .. EffectiveMax} :
     \A i \in DOMAIN y : FitsMemory(q, y[i].device, y[i].first, y[i].last)}

LayoutScore(y) ==
  FoldLeft(LAMBDA score, s : IF job.algorithm = "throughput"
                             THEN Max2(score, SegmentScore(s.device, s.first, s.last))
                             ELSE score + SegmentScore(s.device, s.first, s.last), 0, y)

(* The search keeps one label per state and yet finds a placement of least *)
(* score among all that are possible, and finds none only if there is none *)
(* (docs/auto_planner_4devices.md: the global optimum of the search space).*)
BestPlan ==
  \A q \in Device :
    (planner = Nobody /\ plan[q].done /\ ValidJob) =>
      IF plan[q].segs = <<>> THEN Layouts(q) = {}
      ELSE /\ plan[q].segs \in Layouts(q)
           /\ \A y \in Layouts(q) : LayoutScore(plan[q].segs) <= LayoutScore(y)

(* Master and workers search for themselves; ties in the scores must not   *)
(* lead them to different placements.                                      *)
PlannersAgree ==
  \A p, q \in Device :
    plan[p].done /\ plan[q].done /\ job.kv[p] = job.kv[q] => plan[p] = plan[q]
=============================================================================
