----------------------------- MODULE Placement -----------------------------
(***************************************************************************)
(* From a topology to running blocks.  Every process of a deployment gets  *)
(* the topology for itself, from a file or from its own planner; a worker  *)
(* hosts the layers under its name, the master connects each of its blocks *)
(* and groups them into requests, and the worker reads a request back into *)
(* layers.  A process is named like its device; the master's is the one    *)
(* with the master's role.                                                 *)
(***************************************************************************)
EXTENDS Planner

CONSTANT Deployments    \* see DeploymentOK

NoFile == <<>>

(* A layer expression of a file or of SPM_WORKER_EXTRA_LAYERS.             *)
SpecOK(s) == s.range \in BOOLEAN /\ {s.first, s.last} \subseteq Nat

(* auto: --auto-plan-profile; the environment of the workers and the       *)
(* encoding of the master's requests.                                      *)
SettingOK(s) ==
  /\ s.auto \in BOOLEAN /\ s.shadow \in BOOLEAN
  /\ s.encoding \in {"batch", "compact", "range"}
  /\ \A e \in ToSet(s.extra) : SpecOK(e)

(* A topology file is a function from names to [host, specs].              *)
DeploymentOK(d) ==
  /\ d.job \in Jobs /\ \E m \in Device : d.job.role[m] = "master"
  /\ SettingOK(d.setting) /\ d.name \in [Device -> Int] /\ IsFiniteSet(DOMAIN d.file)
  /\ \A n \in DOMAIN d.file : /\ d.file[n].host \in Device
                              /\ \A e \in ToSet(d.file[n].specs) : SpecOK(e)

ASSUME PlacementAssumption == \A d \in Deployments : DeploymentOK(d)

VARIABLES
  setting, file, name,
  topology,    \* of each process: a function from names to [host, layers]
  up,          \* "off", "loading", "up" or "failed"
  hosted,      \* layers a worker loaded
  owner,       \* for each block of the master the process it sits on
  at,          \* the block the pass of the master is at
  ran,         \* <<process, layer>> in the order they ran
  outcome      \* "none", "done" or "refused"

placeVars == <<setting, file, name, topology, up, hosted, owner, at, ran, outcome>>
vars == <<planVars, placeVars>>

MasterProcess == CHOOSE d \in Device : job.role[d] = "master"
Workers == Device \ {MasterProcess}

LayersUpTo(first, last) == [i \in 1 .. (last - first + 1) |-> first + i - 1]

(* Topology::from_path and worker expand_layer_spec.                       *)
Expanded(s) == IF s.range THEN s.first .. s.last ELSE {s.first}

BadFileSpec(s) == s.range /\ s.last <= s.first
BadExtraSpec(s) == s.range /\ s.last < s.first

LayersOfSpecs(specs) == UNION {Expanded(s) : s \in ToSet(specs)}

(* build_result: every enabled worker is a node, used or not.              *)
PlannedTopology(segs) ==
  [d \in {w \in Device : IsWorker(w)} |->
     [host |-> d,
      layers |-> UNION {s.first .. s.last : s \in {t \in ToSet(segs) : t.device = d}}]]

FileTopology(f) == [d \in DOMAIN f |-> [host |-> f[d].host, layers |-> LayersOfSpecs(f[d].specs)]]

(* Context::from_args.                                                     *)
GetTopology(q) ==
  /\ up[q] = "off" /\ (setting.auto => plan[q].done)
  /\ IF setting.auto
     THEN IF plan[q].segs = <<>> THEN up' = [up EXCEPT ![q] = "failed"] /\ topology' = topology
          ELSE /\ up' = [up EXCEPT ![q] = "loading"]
               /\ topology' = [topology EXCEPT ![q] = PlannedTopology(plan[q].segs)]
     ELSE IF \E d \in DOMAIN file : \E s \in ToSet(file[d].specs) : BadFileSpec(s)
          THEN up' = [up EXCEPT ![q] = "failed"] /\ topology' = topology
          ELSE /\ up' = [up EXCEPT ![q] = "loading"]
               /\ topology' = [topology EXCEPT ![q] = FileTopology(file)]
  /\ UNCHANGED <<planVars, setting, file, name, hosted, owner, at, ran, outcome>>

(* Layers before the first one, to prefill in the master's place.          *)
ShadowLayers(S) == IF setting.shadow /\ S # {} THEN 0 .. Min(S) - 1 ELSE {}

Hosts(S) == S \cup ShadowLayers(S) \cup LayersOfSpecs(setting.extra)

(* Worker::new.  Under a name the file does not have it takes the layers   *)
(* of some other node; a plan must have the name.                          *)
NodesFor(q) ==
  LET T == topology[q] IN
  IF name[q] \in DOMAIN T THEN {name[q]} ELSE IF setting.auto THEN {} ELSE DOMAIN T

(* Its layers come with those it shadows and the extra ones, which must be *)
(* well formed; the checkpoint has weights for `Layers' only.              *)
Loadable(S) ==
  Hosts(S) \subseteq Layers /\ \A e \in ToSet(setting.extra) : ~BadExtraSpec(e)

StartWorker(q) ==
  /\ up[q] = "loading" /\ q \in Workers
  /\ \/ \E d \in NodesFor(q) : /\ Loadable(topology[q][d].layers)
                              /\ hosted' = [hosted EXCEPT ![q] = Hosts(topology[q][d].layers)]
                              /\ up' = [up EXCEPT ![q] = "up"]
     \/ /\ NodesFor(q) = {} \/ \E d \in NodesFor(q) : ~Loadable(topology[q][d].layers)
        /\ up' = [up EXCEPT ![q] = "failed"] /\ hosted' = hosted
  /\ UNCHANGED <<planVars, setting, file, name, topology, owner, at, ran, outcome>>

(* get_node_for_layer: the map of nodes is searched in its own order.      *)
Owners(T, l) == {d \in DOMAIN T : l \in T[d].layers}
OwnerIn(T, order, l) ==
  LET claims == {i \in DOMAIN order : order[i] \in Owners(T, l)} IN
  IF claims = {} THEN MasterProcess ELSE T[order[Min(claims)]].host

(* LLama::load: a connection for each layer that a node claims, so its     *)
(* process must be up and serve; the master itself does not.               *)
StartMaster ==
  /\ up[MasterProcess] = "loading"
  /\ \E order \in SetToSeqs(DOMAIN topology[MasterProcess]) :
       LET T == topology[MasterProcess]
           found == [l \in Layers |-> OwnerIn(T, order, l)]
           needed == {found[l] : l \in {k \in Layers : Owners(T, k) # {}}} IN
       IF \A w \in needed : up[w] = "up"
       THEN owner' = found /\ up' = [up EXCEPT ![MasterProcess] = "up"]
       ELSE owner' = owner /\ up' = [up EXCEPT ![MasterProcess] = "failed"]
  /\ UNCHANGED <<planVars, setting, file, name, topology, hosted, at, ran, outcome>>

---------------------------------------------------------------------------
(* A pass of the master over its blocks *)

(* Blocks in a row with the same address go out in one request.            *)
\* Variant: blocks in a row on any workers do.
GroupEnd_AnyWorker(b) ==
  Max({e \in b .. NL - 1 : \A l \in b .. e : owner[l] # MasterProcess})

GroupEnd(b) == Max({e \in b .. NL - 1 : \A l \in b .. e : owner[l] = owner[b]})

(* forward_batch: the names of the blocks, the name of the first and how   *)
(* many, or (range) its index and how many.                                *)
Request(encoding, b, e) ==
  CASE encoding = "batch" -> [form |-> "batch", names |-> LayersUpTo(b, e)]
    [] encoding = "compact" -> [form |-> "compact", name |-> b, count |-> e - b + 1]
    [] OTHER -> [form |-> "range", first |-> b, count |-> e - b + 1]

(* The layers that the worker reads in it: expand_compact_batch counts the *)
(* number in the name on, expand_compact_range_batch the index.            *)
\* Variant: the index of the first block is counted from one.
Asked_OffByOne(r) ==
  CASE r.form = "batch" -> r.names
    [] r.form = "compact" -> [i \in 1 .. r.count |-> r.name + i - 1]
    [] OTHER -> [i \in 1 .. r.count |-> r.first + i]

Asked(r) ==
  CASE r.form = "batch" -> r.names
    [] r.form = "compact" -> [i \in 1 .. r.count |-> r.name + i - 1]
    [] OTHER -> [i \in 1 .. r.count |-> r.first + i - 1]

(* An index must be that of a block of the worker before anything runs.    *)
Unnamed(r, own) == r.form = "range" /\ \E i \in DOMAIN Asked(r) : Asked(r)[i] \notin own

RunLocal ==
  /\ up[MasterProcess] = "up" /\ outcome = "none" /\ at < NL /\ owner[at] = MasterProcess
  /\ ran' = Append(ran, <<MasterProcess, at>>) /\ at' = at + 1
  /\ UNCHANGED <<planVars, setting, file, name, topology, up, hosted, owner, outcome>>

(* Named layers run up to the first one that the worker does not have.     *)
RunRemote ==
  /\ up[MasterProcess] = "up" /\ outcome = "none" /\ at < NL /\ owner[at] # MasterProcess
  /\ LET w == owner[at]
         r == Request(setting.encoding, at, GroupEnd(at))
         ops == Asked(r)
         good == Cardinality({i \in DOMAIN ops : \A j \in 1 .. i : ops[j] \in hosted[w]})
         runs == IF Unnamed(r, hosted[w]) THEN 0 ELSE good IN
     /\ ran' = ran \o [i \in 1 .. runs |-> <<w, ops[i]>>]
     /\ IF good = Len(ops) THEN at' = GroupEnd(at) + 1 /\ outcome' = outcome
        ELSE at' = at /\ outcome' = "refused"
  /\ UNCHANGED <<planVars, setting, file, name, topology, up, hosted, owner>>

Finish ==
  /\ at = NL /\ outcome = "none" /\ outcome' = "done"
  /\ UNCHANGED <<planVars, setting, file, name, topology, up, hosted, owner, at, ran>>

Init ==
  /\ PlanInit
  /\ \E d \in Deployments : job = d.job /\ setting = d.setting /\ file = d.file /\ name = d.name
  /\ topology = [d \in Device |-> NoFile] /\ up = [d \in Device |-> "off"]
  /\ hosted = [d \in Device |-> {}] /\ owner = [l \in Layers |-> 0]
  /\ at = 0 /\ ran = <<>> /\ outcome = "none"

Plans == setting.auto /\ PlanNext /\ UNCHANGED placeVars

Next ==
  \/ Plans \/ StartMaster \/ RunLocal \/ RunRemote \/ Finish
  \/ \E q \in Device : GetTopology(q) \/ StartWorker(q)

Spec == Init /\ [][Next]_vars

---------------------------------------------------------------------------
(* Properties *)

(* Nobody was given another cache limit, name or address than the topology *)
(* says.                                                                   *)
Consistent ==
  /\ name = [d \in Device |-> d]
  /\ IF setting.auto THEN \A p, q \in Device : job.kv[p] = job.kv[q]
     ELSE \A d \in DOMAIN file : file[d].host = d /\ d # MasterProcess

(* Processes that read the same topology, or plan alike for themselves,    *)
(* agree on who has which layer: no worker is asked for one it lacks.      *)
Served == Consistent => outcome # "refused"

(* Whatever the topology, each block of a pass runs once and in its order, *)
(* on a process that has its weights.                                      *)
EachLayerOnce ==
  /\ \A i \in DOMAIN ran : /\ ran[i][2] = i - 1
                           /\ ran[i][1] = MasterProcess \/ ran[i][2] \in hosted[ran[i][1]]
  /\ outcome = "done" => Len(ran) = NL
=============================================================================
