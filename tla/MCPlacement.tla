---------------------------- MODULE MCPlacement ----------------------------
(* Four layers.  Device 1 is the master; the others are workers.  Costs    *)
(* are chosen so that ties, full memories and tight objectives occur.      *)
EXTENDS Placement, TLC

Uniform(f) == [d \in Device |-> [l \in Layers |-> f[d]]]

Base ==
  [role |-> [d \in Device |-> IF d = 1 THEN "master" ELSE "worker"], algorithm |-> "dial",
   usable |-> <<9, 9, 9>>, fixed |-> <<1, 1, 1>>,
   memory |-> Uniform(<<1, 1, 1>>), kv |-> <<1, 1, 1>>,
   prefill |-> Uniform(<<2, 1, 1>>), decode |-> Uniform(<<3, 1, 1>>),
   tailPrefill |-> Uniform(<<2, 1, 2>>), tailDecode |-> Uniform(<<3, 1, 2>>),
   energy |-> Uniform(<<1, 1, 1>>),
   netPrefill |-> <<0, 2, 2>>, netDecode |-> <<0, 1, 1>>,
   tailNetPrefill |-> <<0, 3, 2>>, tailNetDecode |-> <<0, 1, 2>>,
   ttftWeight |-> 1, tpotWeight |-> 1, energyWeight |-> 0, penalty |-> 0, output |-> 2,
   risk |-> 0, minDevices |-> 1, maxDevices |-> 3]

Small == [Base EXCEPT !.usable = <<5, 5, 7>>]
Uneven == [Small EXCEPT !.prefill = [@ EXCEPT ![2] = [l \in Layers |-> 4 - l]],
                        !.tailPrefill = [@ EXCEPT ![2] = [l \in Layers |-> 5 - l]]]
(* Segments of the same cost everywhere.                                   *)
Even == [Small EXCEPT !.prefill = Uniform(<<1, 1, 1>>), !.decode = Uniform(<<1, 1, 1>>),
                      !.tailPrefill = Uniform(<<1, 1, 1>>), !.tailDecode = Uniform(<<1, 1, 1>>),
                      !.netPrefill = <<0, 0, 0>>, !.netDecode = <<0, 0, 0>>,
                      !.usable = <<5, 5, 5>>]

Algorithm(j, a) == [j EXCEPT !.algorithm = a]
SmallJobs ==
  { Base, Small, Even, [Base EXCEPT !.risk = 2, !.minDevices = 2],
    [Uneven EXCEPT !.energyWeight = 1, !.penalty = 3, !.risk = 1],
    [Even EXCEPT !.maxDevices = 2],
    [Even EXCEPT !.usable = <<3, 3, 3>>],
    [Base EXCEPT !.maxDevices = 1, !.minDevices = 2],
    [Small EXCEPT !.kv = <<1, 1, 2>>],
    Algorithm(Uneven, "latency"), Algorithm(Uneven, "throughput"),
    Algorithm(Even, "throughput") }

Span(a, b) == [range |-> TRUE, first |-> a, last |-> b]
One(a) == [range |-> FALSE, first |-> a, last |-> a]
Node(h, specs) == [host |-> h, specs |-> specs]

SmallFiles ==
  { 2 :> Node(2, <<Span(0, 1)>>) @@ 3 :> Node(3, <<Span(2, 3)>>),
    2 :> Node(2, <<One(1), One(2)>>) @@ 3 :> Node(3, <<One(2), One(3)>>),   \* both claim 2
    2 :> Node(2, <<One(0), One(3)>>),                                      \* 3 is unknown
    2 :> Node(2, <<One(1)>>) @@ 3 :> Node(2, <<One(2)>>),                   \* one address
    2 :> Node(1, <<One(3)>>), 2 :> Node(2, <<One(3), One(4)>>),   \* the master's address; no layer 4
    2 :> Node(2, <<Span(3, 3)>>), NoFile }

Set(auto, encoding) == [auto |-> auto, shadow |-> FALSE, encoding |-> encoding, extra |-> <<>>]
FileSettings ==
  { Set(FALSE, "batch"), Set(FALSE, "compact"), Set(FALSE, "range"),
    [Set(FALSE, "range") EXCEPT !.shadow = TRUE, !.extra = <<Span(3, 3)>>],
    [Set(FALSE, "batch") EXCEPT !.extra = <<Span(2, 1)>>] }

(* The bit masks of the code, in their order.                              *)
BitMask(mask) == MapThenSumSet(LAMBDA d : 2 ^ (d - 1), mask)
ASSUME MaskOrder == \A a, b \in SUBSET Device : Lower(a, b) <=> BitMask(a) < BitMask(b)

Own == <<1, 2, 3>>
Deployment(j, s, f, n) == [job |-> j, setting |-> s, file |-> f, name |-> n]
SmallDeployments ==
  { Deployment(j, Set(TRUE, "range"), NoFile, Own) : j \in SmallJobs }
  \cup { Deployment(Base, Set(TRUE, "compact"), NoFile, <<1, 2, 9>>) }
  \cup { Deployment(Base, s, f, n) : s \in FileSettings, f \in SmallFiles, n \in {Own, <<1, 2, 9>>} }
=============================================================================
