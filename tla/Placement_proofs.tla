-------------------------- MODULE Placement_proofs --------------------------
(***************************************************************************)
(* For every profile, any devices, layers and deployments: the search of   *)
(* AutoPlanner finds a best placement, every process that searches finds   *)
(* the same one, and what the processes then load serves every block.      *)
(***************************************************************************)
EXTENDS Placement, FiniteSetTheorems, SequenceTheorems, WellFoundedInduction, TLAPS

-----------------------------------------------------------------------------
(* Numbers, devices and states of the search.                              *)

LEMMA Smallest ==
  ASSUME NEW S \in SUBSET Nat, S # {}
  PROVE  \E b \in S : \A c \in S : b <= c
<1> DEFINE R == {p \in Nat \X Nat : p[1] < p[2]}
<1>1. IsWellFoundedOn(R, Nat)
  <2>1. R = OpToRel(<, Nat)
    BY Zenon DEF OpToRel
  <2> QED BY <2>1, NatLessThanWellFounded, Zenon
<1>2. PICK b \in S : \A c \in S : ~ (<<c, b>> \in R)
  <2> HIDE DEF R
  <2> QED BY <1>1, WFMin
<1>3. ASSUME NEW c \in S
      PROVE  b <= c
  <2>1. <<c, b>> \in Nat \X Nat /\ <<c, b>>[1] = c /\ <<c, b>>[2] = b /\ b \in Nat /\ c \in Nat
    OBVIOUS
  <2>2. ~ (c < b)
    BY <1>2, <2>1, Zenon
  <2> QED BY <2>1, <2>2
<1> QED BY <1>3

LEMMA Sizes ==
  /\ NL \in Nat \ {0} /\ RiskUnit \in Nat \ {0}
  /\ Device \in SUBSET (Nat \ {0}) /\ IsFiniteSet(Device) /\ Cardinality(Device) \in Nat
  /\ Nobody \notin Device
<1>1. NL \in Nat \ {0} /\ RiskUnit \in Nat \ {0}
  BY PlannerAssumption
<1>2. PICK n \in 1 .. 12 : Device = 1 .. n
  BY PlannerAssumption
<1>3. IsFiniteSet(Device)
  BY <1>2, FS_Interval
<1> QED BY <1>1, <1>2, <1>3, FS_CardinalityType DEF Nobody

LEMMA StateParts ==
  ASSUME NEW s \in States
  PROVE  /\ End(s) \in 1 .. NL /\ End(s) \in Nat /\ Mask(s) \in SUBSET Device
         /\ LastDevice(s) \in Device /\ LastDevice(s) \in Mask(s) /\ LastDevice(s) \in Nat
         /\ s = <<End(s), Mask(s), LastDevice(s)>>
         /\ IsFiniteSet(Mask(s)) /\ Cardinality(Mask(s)) \in Nat
<1>1. /\ End(s) \in 1 .. NL /\ Mask(s) \in SUBSET Device /\ LastDevice(s) \in Device
      /\ LastDevice(s) \in Mask(s) /\ s = <<End(s), Mask(s), LastDevice(s)>>
  BY DEF States, End, Mask, LastDevice
<1>2. IsFiniteSet(Mask(s)) /\ Cardinality(Mask(s)) \in Nat
  BY <1>1, Sizes, FS_Subset, FS_CardinalityType
<1>3. \A n \in 1 .. NL : n \in Nat
  BY Sizes
<1>4. \A d \in Device : d \in Nat
  BY Sizes
<1> QED BY <1>1, <1>2, <1>3, <1>4, Zenon

LEMMA StateMade ==
  ASSUME NEW end \in 1 .. NL, NEW mask \in SUBSET Device, NEW d \in mask
  PROVE  /\ <<end, mask, d>> \in States /\ End(<<end, mask, d>>) = end
         /\ Mask(<<end, mask, d>>) = mask /\ LastDevice(<<end, mask, d>>) = d
BY DEF States, End, Mask, LastDevice

-----------------------------------------------------------------------------
(* Segments that tile the layers.                                          *)

Seg == [device : Device, first : Layers, last : Layers]

LEMMA SegmentType ==
  ASSUME NEW d \in Device, NEW first \in Nat, NEW end \in 1 .. NL, first < end
  PROVE  /\ Segment(d, first, end - 1) \in Seg
         /\ Segment(d, first, end - 1).device = d /\ Segment(d, first, end - 1).first = first
         /\ Segment(d, first, end - 1).last = end - 1
BY Sizes DEF Seg, Segment, Layers

LEMMA TilesOne ==
  ASSUME NEW d \in Device, NEW end \in 1 .. NL
  PROVE  LET segs == <<Segment(d, 0, end - 1)>> IN
         Tiles(segs, end, {d}) /\ Len(segs) = 1 /\ segs[1].device = d
<1> DEFINE g == Segment(d, 0, end - 1)
<1>1. g \in Seg /\ g.device = d /\ g.first = 0 /\ g.last = end - 1
  BY SegmentType, Sizes
<1> HIDE DEF g
<1>2. /\ <<g>> \in Seq(Seg) /\ Len(<<g>>) = 1 /\ <<g>>[1] = g /\ <<g>> # <<>>
  BY <1>1
<1>3. \A i \in 1 .. 1 : i = 1
  OBVIOUS
<1>4. {<<g>>[i].device : i \in 1 .. 1} = {d}
  BY <1>1, <1>2, <1>3
<1>5. 1 .. 1 - 1 = {}
  OBVIOUS
<1>6. Tiles(<<g>>, end, {d})
  BY <1>1, <1>2, <1>3, <1>4, <1>5, Sizes DEF Tiles, Seg
<1> QED BY <1>1, <1>2, <1>6 DEF g

LEMMA TilesMore ==
  ASSUME NEW segs, NEW e \in 1 .. NL, NEW mask \in SUBSET Device, Tiles(segs, e, mask),
         NEW end \in 1 .. NL, e < end, NEW d \in Device, d \notin mask
  PROVE  LET more == Append(segs, Segment(d, e, end - 1)) IN
         /\ Tiles(more, end, mask \cup {d}) /\ Len(more) = Len(segs) + 1
         /\ more[Len(more)].device = d
<1> DEFINE g == Segment(d, e, end - 1)
           more == Append(segs, g)
           n == Len(segs)
<1>1. g \in Seg /\ g.device = d /\ g.first = e /\ g.last = end - 1 /\ e \in Nat
  BY SegmentType, Sizes
<1> HIDE DEF g
<1>2. segs \in Seq(Seg) /\ segs # <<>> /\ n \in Nat /\ n >= 1
  BY DEF Tiles, Seg
<1>3. /\ more \in Seq(Seg) /\ Len(more) = n + 1 /\ more[n + 1] = g
      /\ \A i \in 1 .. n : more[i] = segs[i] /\ segs[i] \in Seg
  BY <1>1, <1>2
<1>4. more # <<>>
  BY <1>2, <1>3
<1> HIDE DEF more, n
<1>5. /\ segs[1].first = 0 /\ segs[n].last = e - 1
      /\ \A i \in 1 .. n : segs[i].first <= segs[i].last
      /\ \A i \in 1 .. n - 1 : segs[i + 1].first = segs[i].last + 1
      /\ \A i, j \in 1 .. n : i # j => segs[i].device # segs[j].device
      /\ {segs[i].device : i \in 1 .. n} = mask
  BY DEF Tiles, n
<1>6. more[1].first = 0 /\ more[n + 1].last = end - 1
  BY <1>1, <1>2, <1>3, <1>5
<1>7. ASSUME NEW i \in 1 .. n + 1
      PROVE  more[i].first <= more[i].last
  BY <1>1, <1>2, <1>3, <1>5
<1>8. ASSUME NEW i \in 1 .. n
      PROVE  more[i + 1].first = more[i].last + 1
  <2>1. CASE i = n
    BY <1>1, <1>2, <1>3, <1>5, <2>1
  <2>2. CASE i # n
    <3>1. i \in 1 .. n - 1 /\ i + 1 \in 1 .. n
      BY <1>2, <2>2
    <3> QED BY <1>3, <1>5, <3>1
  <2> QED BY <2>1, <2>2
<1>9. ASSUME NEW i \in 1 .. n
      PROVE  more[i].device \in mask /\ more[i].device # d
  BY <1>3, <1>5
<1>10. ASSUME NEW i \in 1 .. n + 1, NEW j \in 1 .. n + 1, i # j
       PROVE  more[i].device # more[j].device
  <2>1. CASE i \in 1 .. n /\ j \in 1 .. n
    BY <1>3, <1>5, <1>10, <2>1
  <2>2. CASE i = n + 1
    <3>1. j \in 1 .. n
      BY <1>2, <1>10, <2>2
    <3> QED BY <1>1, <1>3, <1>9, <2>2, <3>1
  <2>3. CASE j = n + 1
    <3>1. i \in 1 .. n
      BY <1>2, <1>10, <2>3
    <3> QED BY <1>1, <1>3, <1>9, <2>3, <3>1
  <2> QED BY <1>2, <2>1, <2>2, <2>3
<1>11. {more[i].device : i \in 1 .. n + 1} = mask \cup {d}
  <2>1. ASSUME NEW x \in mask
        PROVE  \E i \in 1 .. n + 1 : x = more[i].device
    <3>1. PICK i \in 1 .. n : x = segs[i].device
      BY <1>5
    <3> QED BY <1>2, <1>3, <3>1
  <2>2. more[n + 1].device = d /\ n + 1 \in 1 .. n + 1
    BY <1>1, <1>2, <1>3
  <2>3. \A i \in 1 .. n + 1 : i \in 1 .. n \/ i = n + 1
    BY <1>2
  <2> QED BY <1>9, <2>1, <2>2, <2>3
<1>12. (n + 1) - 1 = n
  BY <1>2
<1>13. Tiles(more, end, mask \cup {d})
  BY <1>3, <1>4, <1>6, <1>7, <1>8, <1>10, <1>11, <1>12 DEF Tiles, Seg
<1> QED BY <1>1, <1>3, <1>13 DEF more, g, n
-----------------------------------------------------------------------------
(* Sums over layers are naturals.                                          *)

(* A fold over the subsets of a finite set has a value for each of them.   *)
FoldOf(S, step, c, g) ==
  /\ g \in [SUBSET S -> Nat]
  /\ \A s \in SUBSET S : g[s] = IF s = {} THEN 0 ELSE step[<<c[s], g[s \ {c[s]}]>>]

LEMMA FoldExists ==
  ASSUME NEW S, IsFiniteSet(S), NEW step \in [S \X Nat -> Nat],
         NEW c, \A s \in SUBSET S : s # {} => c[s] \in s
  PROVE  \E g : FoldOf(S, step, c, g)
<1> DEFINE Small(n) == {s \in SUBSET S : Cardinality(s) <= n}
           Value(g, s) == IF s = {} THEN 0 ELSE step[<<c[s], g[s \ {c[s]}]>>]
           Good(n) == \E g \in [Small(n) -> Nat] : \A s \in Small(n) : g[s] = Value(g, s)
<1>1. \A s \in SUBSET S : IsFiniteSet(s) /\ Cardinality(s) \in Nat
  BY FS_Subset, FS_CardinalityType
<1>2. Good(0)
  <2> DEFINE g == [s \in Small(0) |-> 0]
  <2>1. \A s \in Small(0) : s = {}
    BY <1>1, FS_EmptySet
  <2>2. \A s \in Small(0) : g[s] = Value(g, s)
    BY <2>1
  <2>3. g \in [Small(0) -> Nat]
    OBVIOUS
  <2> QED BY <2>2, <2>3
<1>3. ASSUME NEW n \in Nat, Good(n)
      PROVE  Good(n + 1)
  <2> HIDE DEF Value, Small
  <2>1. PICK g \in [Small(n) -> Nat] : \A s \in Small(n) : g[s] = Value(g, s)
    BY <1>3
  <2> DEFINE h == [s \in Small(n + 1) |-> Value(g, s)]
  <2>2. ASSUME NEW s \in Small(n + 1), s # {}
        PROVE  c[s] \in S /\ s \ {c[s]} \in Small(n)
    <3>1. s \in SUBSET S /\ Cardinality(s) <= n + 1
      BY DEF Small
    <3>2. c[s] \in s /\ IsFiniteSet(s) /\ Cardinality(s) \in Nat
      BY <1>1, <2>2, <3>1
    <3>3. Cardinality(s \ {c[s]}) = Cardinality(s) - 1
      BY <3>2, FS_RemoveElement
    <3> QED BY <3>1, <3>2, <3>3 DEF Small
  <2>3. ASSUME NEW s \in Small(n + 1)
        PROVE  Value(g, s) \in Nat
    BY <2>1, <2>2 DEF Value
  <2>4. Small(n) \subseteq Small(n + 1)
    BY <1>1 DEF Small
  <2>5. ASSUME NEW s \in Small(n)
        PROVE  h[s] = g[s]
    BY <2>1, <2>4
  <2>6. h \in [Small(n + 1) -> Nat]
    BY <2>3
  <2>7. \A s \in Small(n + 1) : h[s] = Value(g, s)
    OBVIOUS
  <2> HIDE DEF h
  <2>8. ASSUME NEW s \in Small(n + 1)
        PROVE  h[s] = Value(h, s)
    BY <2>2, <2>5, <2>7 DEF Value
  <2> QED BY <2>6, <2>8
<1>4. \A n \in Nat : Good(n)
  <2> DEFINE Bad == {n \in Nat : ~ Good(n)}
  <2>1. ASSUME Bad # {}
        PROVE  FALSE
    <3>1. PICK b \in Bad : \A k \in Bad : b <= k
      BY <2>1, Smallest
    <3>2. b \in Nat /\ ~ Good(b)
      OBVIOUS
    <3> HIDE DEF Good
    <3>3. b # 0
      BY <1>2, <3>2
    <3>4. b - 1 \in Nat /\ ~ (b - 1 \in Bad) /\ (b - 1) + 1 = b
      <4>1. b - 1 \in Nat /\ ~ (b <= b - 1) /\ (b - 1) + 1 = b
        BY <3>2, <3>3
      <4> HIDE DEF Bad
      <4> QED BY <3>1, <4>1
    <3>5. Good(b - 1)
      BY <3>4
    <3> QED BY <1>3, <3>2, <3>4, <3>5
  <2> QED BY <2>1
<1>5. Small(Cardinality(S)) = SUBSET S
  BY FS_Subset, FS_CardinalityType
<1>6. Good(Cardinality(S))
  <2> HIDE DEF Good
  <2> QED BY <1>4, FS_CardinalityType
<1>7. PICK g \in [SUBSET S -> Nat] : \A s \in SUBSET S : g[s] = Value(g, s)
  <2> HIDE DEF Small, Value
  <2> QED BY <1>5, <1>6
<1> QED BY <1>7 DEF FoldOf

LEMMA SumType ==
  ASSUME NEW metric \in Metric, NEW d \in Device, NEW a \in Nat, NEW b \in Nat, b < NL
  PROVE  SumOver(metric, d, a, b) \in Nat
<1> DEFINE S == a .. b
           c == [s \in SUBSET S |-> CHOOSE x \in s : TRUE]
           step == [p \in S \X Nat |-> metric[d][p[1]] + p[2]]
           Value(g, s) == IF s = {} THEN 0 ELSE metric[d][CHOOSE x \in s : TRUE]
                                              + g[s \ {CHOOSE x \in s : TRUE}]
           Fold(g) == g = [s \in SUBSET S |-> Value(g, s)]
<1>1. IsFiniteSet(S)
  BY FS_Interval
<1>2. S \subseteq Layers
  BY Sizes DEF Layers
<1>3. step \in [S \X Nat -> Nat]
  BY <1>2 DEF Metric
<1>4. \A s \in SUBSET S : c[s] = CHOOSE x \in s : TRUE
  OBVIOUS
<1>5. \A s \in SUBSET S : s # {} => c[s] \in s
  OBVIOUS
<1>6. \A p \in S \X Nat : step[p] = metric[d][p[1]] + p[2]
  OBVIOUS
<1> HIDE DEF c, step
<1>7. PICK g : FoldOf(S, step, c, g)
  <2> HIDE DEF S
  <2> QED BY <1>1, <1>3, <1>5, FoldExists
<1>8. ASSUME NEW s \in SUBSET S
      PROVE  g[s] = Value(g, s)
  <2> HIDE DEF S
  <2>1. CASE s = {}
    BY <1>7, <2>1 DEF FoldOf
  <2>2. CASE s # {}
    <3>1. c[s] \in S /\ g[s \ {c[s]}] \in Nat
      BY <1>5, <1>7, <2>2 DEF FoldOf
    <3>2. g[s] = metric[d][c[s]] + g[s \ {c[s]}]
      BY <1>6, <1>7, <2>2, <3>1 DEF FoldOf
    <3> QED BY <1>4, <2>2, <3>2
  <2> QED BY <2>1, <2>2
<1>9. Fold(g)
  <2> HIDE DEF Value, S
  <2> QED BY <1>7, <1>8 DEF FoldOf
<1>10. Fold(CHOOSE h : Fold(h))
  <2> HIDE DEF Fold
  <2> QED BY <1>9
<1> DEFINE k == CHOOSE h : Fold(h)
<1>11. SumOver(metric, d, a, b) = k[S]
  BY DEF SumOver, MapThenSumSet, MapThenFoldSet
<1> HIDE DEF k
<1>12. \A s \in SUBSET S : k[s] = Value(k, s)
  <2>1. Fold(k)
    BY <1>10 DEF k
  <2> HIDE DEF Value, S
  <2> QED BY <2>1
<1> DEFINE Bad == {n \in Nat : \E s \in SUBSET S : Cardinality(s) = n /\ ~ (k[s] \in Nat)}
<1>13. Bad = {}
  <2> SUFFICES ASSUME Bad # {}
               PROVE  FALSE
    OBVIOUS
  <2>1. PICK n \in Bad : \A m \in Bad : n <= m
    BY Smallest
  <2>2. PICK s \in SUBSET S : Cardinality(s) = n /\ ~ (k[s] \in Nat)
    OBVIOUS
  <2> DEFINE x == CHOOSE x \in s : TRUE
  <2>3. s # {}
    <3>1. ASSUME s = {}
          PROVE  FALSE
      <4>1. k[s] = 0
        BY <1>12, <3>1, Zenon
      <4> QED BY <2>2, <4>1
    <3> QED BY <3>1
  <2>4. x \in s
    BY <2>3
  <2>5. k[s] = metric[d][x] + k[s \ {x}]
    BY <1>12, <2>3
  <2> HIDE DEF x
  <2>6. IsFiniteSet(s) /\ n \in Nat
    BY <1>1, FS_Subset
  <2>7. Cardinality(s \ {x}) = n - 1 /\ Cardinality(s \ {x}) \in Nat
    BY <2>2, <2>4, <2>6, FS_RemoveElement, FS_CardinalityType
  <2>8. k[s \ {x}] \in Nat
    <3>1. n - 1 \in Nat /\ ~ (n <= n - 1)
      BY <2>6, <2>7
    <3>2. ~ (n - 1 \in Bad)
      <4> HIDE DEF Bad
      <4> QED BY <2>1, <3>1
    <3> HIDE DEF S
    <3>3. s \ {x} \in SUBSET S
      OBVIOUS
    <3> QED BY <2>7, <3>1, <3>2, <3>3
  <2>9. metric[d][x] \in Nat
    BY <1>2, <2>4 DEF Metric
  <2> QED BY <2>2, <2>5, <2>8, <2>9
<1>14. IsFiniteSet(S) /\ Cardinality(S) \in Nat
  BY <1>1, FS_CardinalityType
<1>15. k[S] \in Nat
  <2> HIDE DEF S
  <2> QED BY <1>13, <1>14
<1> QED BY <1>11, <1>15
LEMMA Largest ==
  ASSUME NEW n \in Nat, NEW S \in SUBSET (0 .. n), S # {}
  PROVE  Max(S) \in S /\ \A x \in S : x <= Max(S)
<1> DEFINE T == {n - x : x \in S}
<1>1. T \in SUBSET Nat /\ T # {}
  OBVIOUS
<1>2. PICK b \in T : \A c \in T : b <= c
  BY <1>1, Smallest
<1>3. PICK m \in S : b = n - m
  OBVIOUS
<1>4. ASSUME NEW x \in S
      PROVE  m >= x
  <2>1. n - m <= n - x
    BY <1>2, <1>3
  <2> QED BY <2>1
<1> HIDE DEF T
<1>5. \E x \in S : \A y \in S : x >= y
  BY <1>4
<1>6. Max(S) \in S /\ \A y \in S : Max(S) >= y
  BY <1>5 DEF Max
<1> QED BY <1>6

-----------------------------------------------------------------------------
(* Scores.                                                                 *)

LEMMA JobIsOK ==
  ASSUME job \in Jobs
  PROVE  JobOK(job)
BY PlannerAssumption

LEMMA CostType ==
  ASSUME job \in Jobs, NEW d \in Device, NEW a \in Nat, NEW b \in Nat, b < NL
  PROVE  SegmentScore(d, a, b) \in Nat /\ Ttft(d, a, b) \in Nat
<1>1. JobOK(job)
  BY JobIsOK
<1>2. /\ job.prefill \in Metric /\ job.decode \in Metric /\ job.tailPrefill \in Metric
      /\ job.tailDecode \in Metric /\ job.energy \in Metric
  BY <1>1 DEF JobOK
<1>3. /\ Remote(job.netPrefill, d) \in Nat /\ Remote(job.netDecode, d) \in Nat
      /\ Remote(job.tailNetPrefill, d) \in Nat /\ Remote(job.tailNetDecode, d) \in Nat
  BY <1>1 DEF JobOK, Remote
<1>4. /\ SumOver(job.prefill, d, a, b) \in Nat /\ SumOver(job.decode, d, a, b) \in Nat
      /\ SumOver(job.tailPrefill, d, a, b) \in Nat /\ SumOver(job.tailDecode, d, a, b) \in Nat
      /\ SumOver(job.energy, d, a, b) \in Nat
  BY <1>2, SumType
<1>5. /\ job.ttftWeight \in Nat /\ job.tpotWeight \in Nat /\ job.energyWeight \in Nat
      /\ job.penalty \in Nat /\ job.output \in Nat /\ job.risk \in Nat
      /\ RiskUnit - job.risk \in Nat /\ RiskUnit \in Nat
  BY <1>1, Sizes DEF JobOK
<1>6. \A u, v \in Nat : u * v \in Nat /\ u + v \in Nat /\ Max2(u, v) \in Nat
  BY DEF Max2
<1>7. Ttft(d, a, b) \in Nat
  BY <1>3, <1>4, <1>6, Zenon DEF Ttft
<1>8. RequestCompute(d, a, b) \in Nat /\ RequestNetwork(d) \in Nat
  BY <1>3, <1>4, <1>5, <1>6, Zenon DEF RequestCompute, RequestNetwork
<1>9. \A p, q, r, s \in Nat : Latency(p, q, r, s) \in Nat
  BY <1>5, <1>6, Zenon DEF Latency
<1>10. (IF IsWorker(d) THEN job.penalty ELSE 0) \in Nat
  BY <1>5
<1>11. DialScore(d, a, b) \in Nat
  BY <1>3, <1>4, <1>5, <1>6, <1>9, <1>10, Zenon DEF DialScore
<1> QED BY <1>6, <1>7, <1>8, <1>11, Zenon DEF SegmentScore

SegScore(g) == SegmentScore(g.device, g.first, g.last)

(* f[i] is the score of the first i segments of y.                         *)
Scores(f, y) ==
  /\ f \in [0 .. Len(y) -> Nat] /\ f[0] = 0
  /\ \A i \in 1 .. Len(y) : f[i] = Joined(f[i - 1], SegScore(y[i]))

LEMMA SegScoreType ==
  ASSUME job \in Jobs, NEW g \in Seg
  PROVE  SegScore(g) \in Nat
<1>1. g.device \in Device /\ g.first \in Nat /\ g.last \in Nat /\ g.last < NL
  BY Sizes DEF Seg, Layers
<1> QED BY <1>1, CostType DEF SegScore

LEMMA JoinedFacts ==
  ASSUME NEW a \in Nat, NEW b \in Nat, NEW c \in Nat
  PROVE  /\ Joined(a, c) \in Nat /\ Joined(0, c) = c
         /\ a <= b => Joined(a, c) <= Joined(b, c)
BY DEF Joined, Max2

LEMMA ScoresOne ==
  ASSUME job \in Jobs, NEW g \in Seg
  PROVE  \E f : Scores(f, <<g>>) /\ f[1] = SegScore(g)
<1> DEFINE f == [i \in 0 .. 1 |-> IF i = 0 THEN 0 ELSE SegScore(g)]
<1>1. SegScore(g) \in Nat
  BY SegScoreType
<1>2. f \in [0 .. 1 -> Nat] /\ f[0] = 0 /\ f[1] = SegScore(g)
  BY <1>1
<1>3. Len(<<g>>) = 1 /\ <<g>>[1] = g
  OBVIOUS
<1>4. \A i \in 1 .. 1 : i = 1 /\ i - 1 = 0
  OBVIOUS
<1> HIDE DEF f
<1>5. f[1] = Joined(f[0], SegScore(g))
  BY <1>1, <1>2, JoinedFacts
<1>6. \A i \in 1 .. 1 : f[i] = Joined(f[i - 1], SegScore(<<g>>[i]))
  BY <1>3, <1>4, <1>5, Zenon
<1>7. Scores(f, <<g>>)
  BY <1>2, <1>3, <1>6, Zenon DEF Scores
<1> QED BY <1>2, <1>7

LEMMA ScoresMore ==
  ASSUME job \in Jobs, NEW y \in Seq(Seg), NEW g \in Seg, NEW f, Scores(f, y)
  PROVE  \E h : Scores(h, Append(y, g)) /\ h[Len(y) + 1] = Joined(f[Len(y)], SegScore(g))
<1> DEFINE n == Len(y)
           more == Append(y, g)
           h == [i \in 0 .. n + 1 |-> IF i = n + 1 THEN Joined(f[n], SegScore(g)) ELSE f[i]]
<1>1. n \in Nat /\ Len(more) = n + 1 /\ more[n + 1] = g /\ \A i \in 1 .. n : more[i] = y[i]
  OBVIOUS
<1>2. /\ f \in [0 .. n -> Nat] /\ f[0] = 0
      /\ \A i \in 1 .. n : f[i] = Joined(f[i - 1], SegScore(y[i]))
  BY DEF Scores
<1>3. SegScore(g) \in Nat
  BY SegScoreType
<1> HIDE DEF n, more
<1>4. f[n] \in Nat
  BY <1>1, <1>2
<1>5. Joined(f[n], SegScore(g)) \in Nat
  BY <1>3, <1>4, JoinedFacts
<1>6. /\ h \in [0 .. n + 1 -> Nat] /\ h[n + 1] = Joined(f[n], SegScore(g))
      /\ \A i \in 0 .. n : h[i] = f[i]
  BY <1>1, <1>2, <1>5
<1> HIDE DEF h
<1>7. h[0] = 0
  BY <1>1, <1>2, <1>6
<1>8. ASSUME NEW i \in 1 .. n + 1
      PROVE  h[i] = Joined(h[i - 1], SegScore(more[i]))
  <2>1. CASE i = n + 1
    <3>1. i - 1 = n /\ n \in 0 .. n
      BY <1>1, <2>1
    <3>2. h[i - 1] = f[n]
      BY <1>6, <3>1
    <3> QED BY <1>1, <1>6, <2>1, <3>2
  <2>2. CASE i # n + 1
    <3>1. i \in 1 .. n /\ i - 1 \in 0 .. n /\ i \in 0 .. n
      BY <1>1, <2>2
    <3> QED BY <1>1, <1>2, <1>6, <3>1
  <2> QED BY <2>1, <2>2
<1>9. Scores(h, more)
  BY <1>1, <1>6, <1>7, <1>8 DEF Scores
<1> QED BY <1>6, <1>9 DEF n, more

LEMMA ScoresAgree ==
  ASSUME NEW y, NEW z, NEW f, NEW g, Scores(f, y), Scores(g, z),
         Len(y) \in Nat, Len(z) \in Nat,
         NEW n \in Nat, n <= Len(y), n <= Len(z), \A i \in 1 .. n : y[i] = z[i]
  PROVE  f[n] = g[n]
<1> DEFINE Bad == {i \in Nat : i <= n /\ f[i] # g[i]}
<1>1. Bad = {}
  <2> SUFFICES ASSUME Bad # {}
               PROVE  FALSE
    OBVIOUS
  <2>1. PICK b \in Bad : \A i \in Bad : b <= i
    BY Smallest
  <2>2. b \in Nat /\ b <= n /\ f[b] # g[b]
    OBVIOUS
  <2>3. b # 0
    BY <2>2 DEF Scores
  <2>4. b - 1 \in Nat /\ b - 1 <= n /\ ~ (b <= b - 1) /\ b \in 1 .. n
    BY <2>2, <2>3
  <2>5. f[b - 1] = g[b - 1]
    BY <2>1, <2>4
  <2>6. f[b] = Joined(f[b - 1], SegScore(y[b])) /\ g[b] = Joined(g[b - 1], SegScore(z[b]))
    <3>1. b \in 1 .. Len(y) /\ b \in 1 .. Len(z)
      BY <2>4
    <3> QED BY <3>1, Zenon DEF Scores
  <2> QED BY <2>2, <2>4, <2>5, <2>6
<1> QED BY <1>1

LEMMA ScoreOf ==
  ASSUME job \in Jobs, NEW y \in Seq(Seg)
  PROVE  \E f : Scores(f, y) /\ LayoutScore(y) = f[Len(y)]
<1> DEFINE n == Len(y)
           S == DOMAIN y
           c == [s \in SUBSET S |-> Max(s)]
           step == [p \in S \X Nat |-> Joined(p[2], SegScore(y[p[1]]))]
           Value(g, s) == IF s = {} THEN 0
                          ELSE Joined(g[s \ {Max(s)}], SegScore(y[Max(s)]))
           Fold(g) == g = [s \in SUBSET S |-> Value(g, s)]
<1>1. n \in Nat /\ IsFiniteSet(S) /\ S = 1 .. n
  BY FS_Interval
<1>2. \A i \in S : y[i] \in Seg
  OBVIOUS
<1>3. step \in [S \X Nat -> Nat]
  BY <1>2, SegScoreType, JoinedFacts
<1>4. \A s \in SUBSET S : c[s] = Max(s)
  OBVIOUS
<1>5. \A s \in SUBSET S : s # {} => c[s] \in s
  <2> SUFFICES ASSUME NEW s \in SUBSET S, s # {}
               PROVE  Max(s) \in s
    BY <1>4
  <2>1. s \in SUBSET (0 .. n)
    BY <1>1
  <2> QED BY <1>1, <2>1, Largest
<1>6. \A p \in S \X Nat : step[p] = Joined(p[2], SegScore(y[p[1]]))
  OBVIOUS
<1> HIDE DEF c, step
<1>7. PICK g : FoldOf(S, step, c, g)
  <2> HIDE DEF S
  <2> QED BY <1>1, <1>3, <1>5, FoldExists
<1>8. ASSUME NEW s \in SUBSET S
      PROVE  g[s] = Value(g, s)
  <2> HIDE DEF S
  <2>1. CASE s = {}
    BY <1>7, <2>1 DEF FoldOf
  <2>2. CASE s # {}
    <3>1. c[s] \in S /\ g[s \ {c[s]}] \in Nat
      BY <1>5, <1>7, <2>2 DEF FoldOf
    <3>2. g[s] = Joined(g[s \ {c[s]}], SegScore(y[c[s]]))
      BY <1>6, <1>7, <2>2, <3>1 DEF FoldOf
    <3> QED BY <1>4, <2>2, <3>2
  <2> QED BY <2>1, <2>2
<1>9. Fold(g)
  <2> HIDE DEF Value, S
  <2> QED BY <1>7, <1>8 DEF FoldOf
<1>10. Fold(CHOOSE h : Fold(h))
  <2> HIDE DEF Fold
  <2> QED BY <1>9
<1> DEFINE k == CHOOSE h : Fold(h)
<1>11. LayoutScore(y) = k[S]
  BY DEF LayoutScore, FoldLeft, MapThenFoldSet, Joined, SegScore
<1> HIDE DEF k
<1>12. \A s \in SUBSET S : k[s] = Value(k, s)
  <2>1. Fold(k)
    BY <1>10 DEF k
  <2> HIDE DEF Value, S
  <2> QED BY <2>1
<1>13. k[{}] = 0
  BY <1>12, Zenon
<1>14. ASSUME NEW i \in 1 .. n
       PROVE  k[1 .. i] = Joined(k[1 .. i - 1], SegScore(y[i]))
  <2> DEFINE s == 1 .. i
  <2>1. s \in SUBSET S /\ s # {} /\ s \in SUBSET (0 .. i) /\ i \in Nat /\ i \in s
    <3> HIDE DEF S, n
    <3>1. i \in Nat /\ i \in s /\ \A x \in s : x \in 1 .. n /\ x \in 0 .. i
      BY <1>1
    <3> HIDE DEF s
    <3> QED BY <1>1, <3>1
  <2>2. Max(s) \in s /\ \A x \in s : x <= Max(s)
    <3> HIDE DEF s
    <3> QED BY <2>1, Largest
  <2>3. Max(s) = i
    BY <2>1, <2>2
  <2>4. s \ {i} = 1 .. i - 1
    BY <2>1
  <2> HIDE DEF s, S
  <2>5. k[s] = Joined(k[s \ {Max(s)}], SegScore(y[Max(s)]))
    BY <1>12, <2>1, Zenon
  <2> QED BY <2>3, <2>4, <2>5 DEF s
<1> DEFINE f == [i \in 0 .. n |-> k[1 .. i]]
<1>15. f[0] = 0 /\ f[n] = k[S] /\ \A i \in 1 .. n : f[i] = Joined(f[i - 1], SegScore(y[i]))
  <2>1. 1 .. 0 = {} /\ 0 \in 0 .. n /\ n \in 0 .. n
    BY <1>1
  <2>2. ASSUME NEW i \in 1 .. n
        PROVE  i \in 0 .. n /\ i - 1 \in 0 .. n
    BY <1>1
  <2> QED BY <1>13, <1>14, <2>1, <2>2
<1> HIDE DEF f
<1> DEFINE Bad == {i \in Nat : i <= n /\ ~ (f[i] \in Nat)}
<1>16. Bad = {}
  <2> SUFFICES ASSUME Bad # {}
               PROVE  FALSE
    OBVIOUS
  <2>1. PICK b \in Bad : \A i \in Bad : b <= i
    BY Smallest
  <2>2. b \in Nat /\ b <= n /\ ~ (f[b] \in Nat)
    OBVIOUS
  <2>3. b # 0
    BY <1>15, <2>2
  <2>4. b - 1 \in Nat /\ b - 1 <= n /\ ~ (b <= b - 1) /\ b \in 1 .. n
    BY <1>1, <2>2, <2>3
  <2>5. f[b - 1] \in Nat
    BY <2>1, <2>4
  <2>6. f[b] = Joined(f[b - 1], SegScore(y[b]))
    BY <1>15, <2>4
  <2>7. SegScore(y[b]) \in Nat
    BY <1>2, <2>4, SegScoreType
  <2> QED BY <2>2, <2>5, <2>6, <2>7, JoinedFacts
<1>17. f \in [0 .. n -> Nat]
  <2>1. \A i \in 0 .. n : f[i] \in Nat
    BY <1>16
  <2>2. f = [i \in 0 .. n |-> f[i]]
    BY DEF f
  <2> QED BY <2>1, <2>2
<1>18. Scores(f, y)
  BY <1>15, <1>17 DEF Scores
<1> QED BY <1>11, <1>15, <1>18
-----------------------------------------------------------------------------
(* The job does not change, nor do costs.                                  *)

LEMMA CostsFrozen ==
  ASSUME job' = job, NEW q, NEW d, NEW a, NEW b
  PROVE  /\ FitsMemory(q, d, a, b)' <=> FitsMemory(q, d, a, b)
         /\ SegmentScore(d, a, b)' = SegmentScore(d, a, b)
         /\ Ttft(d, a, b)' = Ttft(d, a, b)
         /\ Joined(a, b)' = Joined(a, b)
         /\ EffectiveMax' = EffectiveMax
         /\ ValidJob' <=> ValidJob
         /\ (\A s \in States : (Extendable(s)' <=> Extendable(s)))
<1>1. FitsMemory(q, d, a, b)' <=> FitsMemory(q, d, a, b)
  BY Zenon DEF FitsMemory
<1>2. \A m : Remote(m, d)' = Remote(m, d)
  BY DEF Remote, IsWorker
<1>3. SegmentScore(d, a, b)' = SegmentScore(d, a, b)
  BY Zenon DEF SegmentScore, DialScore, RequestCompute, RequestNetwork, Latency, Remote, IsWorker
<1>4. Ttft(d, a, b)' = Ttft(d, a, b)
  BY Zenon DEF Ttft, Remote, IsWorker
<1>5. Joined(a, b)' = Joined(a, b)
  BY Zenon DEF Joined
<1>6. EffectiveMax' = EffectiveMax /\ (ValidJob' <=> ValidJob)
  BY Zenon DEF EffectiveMax, ValidJob, NotBelow, IsWorker
<1>7. \A s \in States : (Extendable(s)' <=> Extendable(s))
  BY <1>6, Zenon DEF Extendable
<1> QED BY <1>1, <1>3, <1>4, <1>5, <1>6, <1>7
-----------------------------------------------------------------------------
(* The labels of a search.                                                 *)

Label == [score : Nat, ttft : Nat, segs : Seq(Seg)]

Fits(q, segs) ==
  \A i \in 1 .. Len(segs) : FitsMemory(q, segs[i].device, segs[i].first, segs[i].last)

(* What a label of state s says of a placement that q could use.           *)
LabelOK(q, s, label) ==
  /\ Tiles(label.segs, End(s), Mask(s)) /\ Len(label.segs) = Cardinality(Mask(s))
  /\ label.segs[Len(label.segs)].device = LastDevice(s)
  /\ Fits(q, label.segs)
  /\ \E f : Scores(f, label.segs) /\ label.score = f[Len(label.segs)]

LEMMA ScoresFrozen ==
  ASSUME job' = job, NEW f, NEW y
  PROVE  Scores(f, y)' <=> Scores(f, y)
<1>1. \A g : SegScore(g)' = SegScore(g)
  BY CostsFrozen, Zenon DEF SegScore
<1>2. \A a, b : Joined(a, b)' = Joined(a, b)
  BY CostsFrozen, Zenon
<1> QED BY <1>1, <1>2, Zenon DEF Scores

LEMMA LabelsFrozen ==
  ASSUME job' = job, NEW q, NEW s, NEW label
  PROVE  LabelOK(q, s, label)' <=> LabelOK(q, s, label)
<1>1. \A f : Scores(f, label.segs)' <=> Scores(f, label.segs)
  BY ScoresFrozen, Zenon
<1>2. Fits(q, label.segs)' <=> Fits(q, label.segs)
  BY CostsFrozen, Zenon DEF Fits
<1> QED BY <1>1, <1>2, Zenon DEF LabelOK

LEMMA InitialLabelOK ==
  ASSUME job \in Jobs, NEW q, NEW s \in States
  PROVE  /\ InitialLabel(q, s) \in Label
         /\ Exists(InitialLabel(q, s)) => LabelOK(q, s, InitialLabel(q, s))
<1> DEFINE d == LastDevice(s)
           e == End(s)
           g == Segment(d, 0, e - 1)
           new == [score |-> SegmentScore(d, 0, e - 1), ttft |-> Ttft(d, 0, e - 1),
                   segs |-> <<g>>]
<1>1. d \in Device /\ e \in 1 .. NL /\ 0 \in Nat /\ 0 < e /\ e - 1 \in Nat /\ e - 1 < NL
  BY StateParts, Sizes
<1>2. NoLabel \in Label /\ ~ Exists(NoLabel)
  BY DEF NoLabel, Label, Exists
<1>3. CASE Mask(s) = {d} /\ FitsMemory(q, d, 0, e - 1)
  <2>1. InitialLabel(q, s) = new
    BY <1>3 DEF InitialLabel
  <2>2. g \in Seg /\ g.device = d /\ g.first = 0 /\ g.last = e - 1
    BY <1>1, SegmentType
  <2>3. Tiles(<<g>>, e, {d}) /\ Len(<<g>>) = 1 /\ <<g>>[1] = g
    BY <1>1, TilesOne
  <2> HIDE DEF g, d, e
  <2>4. SegScore(g) = SegmentScore(d, 0, e - 1)
    BY <2>2 DEF SegScore
  <2>5. PICK f : Scores(f, <<g>>) /\ f[1] = SegScore(g)
    BY <2>2, ScoresOne
  <2>6. new \in Label
    <3>1. <<g>> \in Seq(Seg)
      BY <2>2
    <3>2. SegmentScore(d, 0, e - 1) \in Nat /\ Ttft(d, 0, e - 1) \in Nat
      BY <1>1, CostType
    <3> QED BY <3>1, <3>2 DEF Label
  <2>7. new.segs = <<g>> /\ new.score = SegmentScore(d, 0, e - 1)
    OBVIOUS
  <2> HIDE DEF new
  <2>8. Cardinality(Mask(s)) = 1
    BY <1>3, FS_Singleton
  <2>9. Fits(q, <<g>>)
    <3>1. \A i \in 1 .. 1 : i = 1
      OBVIOUS
    <3> QED BY <1>3, <2>2, <2>3, <3>1, Zenon DEF Fits
  <2>10. Tiles(<<g>>, End(s), Mask(s))
    BY <1>3, <2>3, Zenon DEF e
  <2>11. <<g>>[1].device = LastDevice(s)
    BY <2>2, <2>3 DEF d
  <2>12. LabelOK(q, s, new)
    BY <2>3, <2>4, <2>5, <2>7, <2>8, <2>9, <2>10, <2>11, Zenon DEF LabelOK
  <2> QED BY <2>1, <2>6, <2>12
<1>4. CASE ~ (Mask(s) = {d} /\ FitsMemory(q, d, 0, e - 1))
  <2>1. InitialLabel(q, s) = NoLabel
    BY <1>4 DEF InitialLabel
  <2> QED BY <1>2, <2>1
<1> QED BY <1>3, <1>4

LEMMA LeadsParts ==
  ASSUME NEW s \in States, NEW t \in States, Leads(s, t)
  PROVE  /\ End(s) \in 1 .. NL /\ End(t) \in 1 .. NL /\ End(s) < End(t) /\ End(s) \in Nat
         /\ End(t) - 1 \in Nat /\ End(t) - 1 < NL
         /\ LastDevice(t) \in Device /\ LastDevice(t) \notin Mask(s) /\ Mask(s) \in SUBSET Device
         /\ Mask(t) = Mask(s) \cup {LastDevice(t)}
         /\ FitsMemory(planner, LastDevice(t), End(s), End(t) - 1)
         /\ Cardinality(Mask(t)) = Cardinality(Mask(s)) + 1
         /\ Segment(LastDevice(t), End(s), End(t) - 1) \in Seg
<1>1. /\ End(s) < End(t) /\ LastDevice(t) \notin Mask(s)
      /\ Mask(t) = Mask(s) \cup {LastDevice(t)}
      /\ FitsMemory(planner, LastDevice(t), End(s), End(t) - 1)
  BY DEF Leads, Unused
<1>2. /\ End(s) \in 1 .. NL /\ End(t) \in 1 .. NL /\ LastDevice(t) \in Device
      /\ Mask(s) \in SUBSET Device /\ IsFiniteSet(Mask(s)) /\ End(s) \in Nat /\ End(t) \in Nat
  BY StateParts
<1>3. Cardinality(Mask(t)) = Cardinality(Mask(s)) + 1
  BY <1>1, <1>2, FS_AddElement
<1>4. End(t) - 1 \in Nat /\ End(t) - 1 < NL
  BY <1>2, Sizes
<1>5. Segment(LastDevice(t), End(s), End(t) - 1) \in Seg
  BY <1>1, <1>2, SegmentType
<1> QED BY <1>1, <1>2, <1>3, <1>4, <1>5

LEMMA ExtendedOK ==
  ASSUME job \in Jobs, dp \in [States -> Label], NEW s \in States, NEW t \in States,
         LabelOK(planner, s, dp[s]), Leads(s, t)
  PROVE  /\ Extended(s, LastDevice(t), End(t)) \in Label
         /\ Exists(Extended(s, LastDevice(t), End(t)))
         /\ LabelOK(planner, t, Extended(s, LastDevice(t), End(t)))
<1> DEFINE d == LastDevice(t)
           a == End(s)
           e == End(t)
           g == Segment(d, a, e - 1)
           segs == dp[s].segs
           more == Append(segs, g)
           new == Extended(s, d, e)
<1>1. /\ a \in 1 .. NL /\ e \in 1 .. NL /\ a < e /\ a \in Nat /\ e - 1 \in Nat /\ e - 1 < NL
      /\ d \in Device /\ d \notin Mask(s) /\ Mask(s) \in SUBSET Device
      /\ Mask(t) = Mask(s) \cup {d} /\ FitsMemory(planner, d, a, e - 1)
      /\ Cardinality(Mask(t)) = Cardinality(Mask(s)) + 1 /\ g \in Seg
  BY LeadsParts
<1>2. dp[s] \in Label /\ segs \in Seq(Seg) /\ dp[s].score \in Nat /\ dp[s].ttft \in Nat
  BY DEF Label
<1>3. /\ Tiles(segs, a, Mask(s)) /\ Len(segs) = Cardinality(Mask(s)) /\ Fits(planner, segs)
      /\ \E f : Scores(f, segs) /\ dp[s].score = f[Len(segs)]
  BY DEF LabelOK
<1>4. new = [score |-> Joined(dp[s].score, SegmentScore(d, a, e - 1)),
             ttft |-> dp[s].ttft + Ttft(d, a, e - 1), segs |-> more]
  BY DEF Extended
<1>5. g.device = d /\ g.first = a /\ g.last = e - 1
  BY <1>1, SegmentType
<1> HIDE DEF segs
<1>6. Tiles(more, e, Mask(s) \cup {d}) /\ Len(more) = Len(segs) + 1 /\ more[Len(more)].device = d
  <2> HIDE DEF d, a, e
  <2>1. Tiles(segs, a, Mask(s))
    BY <1>3
  <2> QED BY <1>1, <2>1, TilesMore
<1> HIDE DEF g, d, a, e, new
<1>7. SegScore(g) = SegmentScore(d, a, e - 1) /\ SegScore(g) \in Nat
  BY <1>1, <1>5, SegScoreType DEF SegScore
<1>8. /\ more \in Seq(Seg) /\ more # <<>> /\ Len(segs) \in Nat /\ more[Len(segs) + 1] = g
      /\ \A i \in 1 .. Len(segs) : more[i] = segs[i]
  BY <1>1, <1>2
<1>9. Joined(dp[s].score, SegmentScore(d, a, e - 1)) \in Nat
  BY <1>2, <1>7, JoinedFacts
<1>10. dp[s].ttft + Ttft(d, a, e - 1) \in Nat
  <2>1. Ttft(d, a, e - 1) \in Nat
    BY <1>1, CostType
  <2> QED BY <1>2, <2>1
<1>11. PICK f : Scores(f, segs) /\ dp[s].score = f[Len(segs)]
  BY <1>3
<1>12. PICK h : Scores(h, more) /\ h[Len(segs) + 1] = Joined(f[Len(segs)], SegScore(g))
  BY <1>1, <1>2, <1>11, ScoresMore
<1> HIDE DEF more
<1>13. /\ new \in Label /\ new.segs = more
       /\ new.score = Joined(dp[s].score, SegmentScore(d, a, e - 1))
  BY <1>4, <1>8, <1>9, <1>10 DEF Label
<1>14. Exists(new)
  BY <1>8, <1>13 DEF Exists
<1>15. Fits(planner, more)
  <2>1. \A i \in 1 .. Len(more) : i \in 1 .. Len(segs) \/ i = Len(segs) + 1
    BY <1>6, <1>8
  <2> QED BY <1>1, <1>3, <1>5, <1>8, <2>1, Zenon DEF Fits
<1>16. LabelOK(planner, t, new)
  <2>1. /\ Tiles(new.segs, End(t), Mask(t)) /\ Len(new.segs) = Cardinality(Mask(t))
        /\ new.segs[Len(new.segs)].device = LastDevice(t)
    BY <1>1, <1>3, <1>6, <1>13, Zenon DEF e, d
  <2>2. Scores(h, new.segs) /\ new.score = h[Len(new.segs)]
    BY <1>6, <1>7, <1>11, <1>12, <1>13, Zenon
  <2> QED BY <1>13, <1>15, <2>1, <2>2, Zenon DEF LabelOK
<1> QED BY <1>13, <1>14, <1>16 DEF new, d, e
-----------------------------------------------------------------------------
(* What every step of a search keeps.                                      *)

PlanTypes ==
  /\ job \in Jobs /\ planner \in Device \cup {Nobody} /\ todo \in SUBSET States
  /\ dp \in [States -> Label]
  /\ plan \in [Device -> [done : BOOLEAN, segs : Seq(Seg)]]

LabelsHold == \A s \in States : Exists(dp[s]) => LabelOK(planner, s, dp[s])

PlansTile ==
  \A q \in Device : plan[q].segs # <<>> => \E mask \in SUBSET Device : Tiles(plan[q].segs, NL, mask)

SearchInv == PlanTypes /\ LabelsHold /\ PlansTile

LEMMA NoLabels ==
  /\ [s \in States |-> NoLabel] \in [States -> Label]
  /\ \A s \in States : ~ Exists([t \in States |-> NoLabel][s])
BY DEF NoLabel, Label, Exists

LEMMA PlanSet ==
  ASSUME PlanTypes, NEW q \in Device, NEW segs \in Seq(Seg),
         plan' = [plan EXCEPT ![q] = Planned(segs)]
  PROVE  /\ plan' \in [Device -> [done : BOOLEAN, segs : Seq(Seg)]]
         /\ plan'[q].done /\ plan'[q].segs = segs /\ plan'[q] = Planned(segs)
         /\ \A p \in Device : p # q => plan'[p] = plan[p]
<1>1. Planned(segs) \in [done : BOOLEAN, segs : Seq(Seg)]
  BY DEF Planned
<1>2. Planned(segs).done /\ Planned(segs).segs = segs
  BY DEF Planned
<1>3. plan \in [Device -> [done : BOOLEAN, segs : Seq(Seg)]]
  BY DEF PlanTypes
<1> QED BY <1>1, <1>2, <1>3

LEMMA PlanSetTiles ==
  ASSUME PlanTypes, PlansTile, NEW q \in Device, NEW segs \in Seq(Seg),
         segs # <<>> => \E mask \in SUBSET Device : Tiles(segs, NL, mask),
         plan' = [plan EXCEPT ![q] = Planned(segs)]
  PROVE  PlansTile'
<1> SUFFICES ASSUME NEW p \in Device, plan'[p].segs # <<>>
             PROVE  \E mask \in SUBSET Device : Tiles(plan'[p].segs, NL, mask)
  BY DEF PlansTile
<1>1. CASE p = q
  <2>1. plan'[p].segs = segs
    BY <1>1, PlanSet
  <2> QED BY <2>1
<1>2. CASE p # q
  BY <1>2, PlanSet DEF PlansTile
<1> QED BY <1>1, <1>2

LEMMA BeginSearch ==
  ASSUME SearchInv, NEW q \in Device, Begin(q)
  PROVE  SearchInv'
<1>1. PlanTypes /\ job' = job /\ <<>> \in Seq(Seg)
  BY DEF SearchInv, Begin
<1>2. CASE ValidJob
  <2>1. /\ planner' = q /\ dp' = [s \in States |-> InitialLabel(q, s)]
        /\ todo' = {s \in States : Extendable(s)} /\ plan' = plan
    BY <1>2 DEF Begin
  <2>2. \A s \in States : dp'[s] = InitialLabel(q, s)
    BY <2>1
  <2>3. dp' \in [States -> Label]
    BY <1>1, <2>1, InitialLabelOK DEF PlanTypes
  <2>4. PlanTypes'
    BY <1>1, <2>1, <2>3 DEF PlanTypes
  <2>5. \A s \in States : Exists(dp'[s]) => LabelOK(q, s, dp'[s])
    BY <1>1, <2>2, InitialLabelOK, Zenon DEF PlanTypes
  <2>6. LabelsHold'
    BY <1>1, <2>1, <2>5, LabelsFrozen DEF LabelsHold
  <2>7. PlansTile'
    BY <2>1 DEF SearchInv, PlansTile
  <2> QED BY <2>4, <2>6, <2>7 DEF SearchInv
<1>3. CASE ~ ValidJob
  <2>1. /\ plan' = [plan EXCEPT ![q] = Planned(<<>>)]
        /\ planner' = planner /\ dp' = dp /\ todo' = todo
    BY <1>3 DEF Begin
  <2>2. plan' \in [Device -> [done : BOOLEAN, segs : Seq(Seg)]]
    BY <1>1, <2>1, PlanSet
  <2>3. PlanTypes'
    BY <1>1, <2>1, <2>2 DEF PlanTypes
  <2>4. LabelsHold'
    BY <1>1, <2>1, LabelsFrozen DEF LabelsHold, SearchInv
  <2>5. PlansTile'
    BY <1>1, <2>1, PlanSetTiles DEF SearchInv
  <2> QED BY <2>3, <2>4, <2>5 DEF SearchInv
<1> QED BY <1>2, <1>3
LEMMA ExtendSearch ==
  ASSUME SearchInv, NEW s \in States, Extend(s)
  PROVE  SearchInv'
<1>1. /\ PlanTypes /\ job' = job /\ planner' = planner /\ plan' = plan
      /\ todo' = todo \ {s} /\ Exists(dp[s])
  BY DEF SearchInv, Extend, Pending
<1> DEFINE New(t) == Extended(s, LastDevice(t), End(t))
           Put(t) == Leads(s, t) /\ Replaces(New(t), dp[t])
<1>2. dp' = [t \in States |-> IF Put(t) THEN New(t) ELSE dp[t]]
  BY DEF Extend
<1>3. LabelOK(planner, s, dp[s])
  BY <1>1 DEF SearchInv, LabelsHold
<1>4. ASSUME NEW t \in States, Put(t)
      PROVE  New(t) \in Label /\ LabelOK(planner, t, New(t))
  BY <1>1, <1>3, <1>4, ExtendedOK DEF PlanTypes
<1> HIDE DEF New, Put
<1>5. \A t \in States : dp'[t] = IF Put(t) THEN New(t) ELSE dp[t]
  BY <1>2
<1>6. dp' \in [States -> Label]
  BY <1>1, <1>2, <1>4 DEF PlanTypes
<1>7. PlanTypes'
  BY <1>1, <1>6 DEF PlanTypes
<1>8. ASSUME NEW t \in States, Exists(dp'[t])
      PROVE  LabelOK(planner, t, dp'[t])
  BY <1>4, <1>5, <1>8, Zenon DEF SearchInv, LabelsHold
<1>9. LabelsHold'
  BY <1>1, <1>8, LabelsFrozen DEF LabelsHold
<1>10. PlansTile'
  BY <1>1 DEF SearchInv, PlansTile
<1> QED BY <1>7, <1>9, <1>10 DEF SearchInv

LEMMA ChooseSearch ==
  ASSUME SearchInv, Choose
  PROVE  SearchInv'
<1>1. /\ PlanTypes /\ LabelsHold /\ PlansTile /\ planner \in Device /\ <<>> \in Seq(Seg)
      /\ job' = job /\ planner' = Nobody /\ dp' = [s \in States |-> NoLabel] /\ todo' = {}
  BY DEF SearchInv, Choose, PlanTypes
<1>2. PICK segs \in Seq(Seg) :
        /\ plan' = [plan EXCEPT ![planner] = Planned(segs)]
        /\ segs # <<>> => \E mask \in SUBSET Device : Tiles(segs, NL, mask)
  <2>1. CASE Complete = {}
    <3>1. plan' = [plan EXCEPT ![planner] = Planned(<<>>)]
      BY <2>1 DEF Choose
    <3> QED BY <1>1, <3>1
  <2>2. CASE Complete # {}
    <3>1. PICK s \in States : IsWinner(s) /\ plan' = [plan EXCEPT ![planner] = Planned(dp[s].segs)]
      BY <2>2 DEF Choose
    <3>2. End(s) = NL /\ Exists(dp[s])
      BY <3>1 DEF IsWinner, Finalists, Complete
    <3>3. dp[s].segs \in Seq(Seg) /\ Mask(s) \in SUBSET Device
      BY <1>1, StateParts DEF PlanTypes, Label
    <3>4. Tiles(dp[s].segs, NL, Mask(s))
      BY <1>1, <3>2 DEF LabelsHold, LabelOK
    <3> QED BY <3>1, <3>3, <3>4
  <2> QED BY <2>1, <2>2
<1>3. plan' \in [Device -> [done : BOOLEAN, segs : Seq(Seg)]]
  BY <1>1, <1>2, PlanSet
<1>4. PlanTypes'
  BY <1>1, <1>3, NoLabels DEF PlanTypes
<1>5. LabelsHold'
  BY <1>1, NoLabels DEF LabelsHold
<1>6. PlansTile'
  BY <1>1, <1>2, PlanSetTiles
<1> QED BY <1>4, <1>5, <1>6 DEF SearchInv

LEMMA InitSearch ==
  ASSUME PlanInit
  PROVE  SearchInv
<1>1. /\ job \in Jobs /\ planner = Nobody /\ todo = {} /\ dp = [s \in States |-> NoLabel]
      /\ plan = [q \in Device |-> [done |-> FALSE, segs |-> <<>>]]
  BY DEF PlanInit
<1>2. plan \in [Device -> [done : BOOLEAN, segs : Seq(Seg)]]
  BY <1>1
<1>3. PlanTypes
  BY <1>1, <1>2, NoLabels DEF PlanTypes
<1>4. LabelsHold
  BY <1>1, NoLabels DEF LabelsHold
<1>5. PlansTile
  BY <1>1 DEF PlansTile
<1> QED BY <1>3, <1>4, <1>5 DEF SearchInv

LEMMA QuietSearch ==
  ASSUME SearchInv, UNCHANGED planVars
  PROVE  SearchInv'
<1>1. job' = job /\ planner' = planner /\ dp' = dp /\ todo' = todo /\ plan' = plan
  BY DEF planVars
<1>2. PlanTypes' /\ PlansTile'
  BY <1>1 DEF SearchInv, PlanTypes, PlansTile
<1>3. LabelsHold'
  BY <1>1, LabelsFrozen DEF SearchInv, LabelsHold
<1> QED BY <1>2, <1>3 DEF SearchInv

LEMMA StepSearch ==
  ASSUME SearchInv, [PlanNext]_planVars
  PROVE  SearchInv'
BY BeginSearch, ExtendSearch, ChooseSearch, QuietSearch DEF PlanNext

(* The planner of a deployment behaves as it does by itself: nothing the   *)
(* processes do with its plans disturbs a search that is still running.    *)
THEOREM PlansAlone == Spec => PlanSpec
<1>1. Init => PlanInit
  BY DEF Init
<1>2. [Next]_vars => [PlanNext]_planVars
  <2> SUFFICES ASSUME [Next]_vars
               PROVE  [PlanNext]_planVars
    OBVIOUS
  <2>1. CASE Plans
    BY <2>1 DEF Plans
  <2>2. CASE UNCHANGED planVars
    BY <2>2
  <2>3. CASE StartMaster \/ RunLocal \/ RunRemote \/ Finish
    BY <2>2, <2>3 DEF StartMaster, RunLocal, RunRemote, Finish
  <2>4. ASSUME NEW q \in Device, GetTopology(q) \/ StartWorker(q)
        PROVE  [PlanNext]_planVars
    BY <2>2, <2>4 DEF GetTopology, StartWorker
  <2>5. CASE UNCHANGED vars
    BY <2>2, <2>5 DEF vars
  <2> QED BY <2>1, <2>3, <2>4, <2>5 DEF Next
<1> QED BY <1>1, <1>2, PTL DEF Spec, PlanSpec

LEMMA SearchAlways == PlanSpec => []SearchInv
BY InitSearch, StepSearch, PTL DEF PlanSpec

LEMMA SearchInvEnough ==
  ASSUME SearchInv
  PROVE  SearchOK
<1>1. PlanTypes /\ LabelsHold /\ PlansTile
  BY DEF SearchInv
<1>2. DOMAIN dp = States /\ DOMAIN plan = Device
  BY <1>1 DEF PlanTypes
<1>3. \A s \in States : Exists(dp[s]) =>
         /\ Tiles(dp[s].segs, End(s), Mask(s))
         /\ dp[s].segs[Len(dp[s].segs)].device = LastDevice(s)
  BY <1>1 DEF LabelsHold, LabelOK
<1> QED BY <1>1, <1>2, <1>3 DEF SearchOK, PlanTypes, PlansTile

(* Whatever the profile: each label of a search is a placement of exactly  *)
(* the layers and devices its state names, and each plan gives every layer *)
(* to one device.                                                          *)
THEOREM SearchCorrect == Spec => []SearchOK
BY PlansAlone, SearchAlways, SearchInvEnough, PTL
-----------------------------------------------------------------------------
(* Layouts.                                                                *)

(* y is made of k devices and the ends of their segments.                  *)
MadeOf(y, k, devices, ends) ==
  /\ devices \in Injection(1 .. k, Device) /\ ends \in Ends(k)
  /\ y = Layout(devices, ends)

IsLayout(q, y) ==
  /\ \E k \in job.minDevices .. EffectiveMax : \E devices, ends : MadeOf(y, k, devices, ends)
  /\ \A i \in DOMAIN y : FitsMemory(q, y[i].device, y[i].first, y[i].last)

LEMMA LayoutsAre ==
  ASSUME NEW q, NEW y
  PROVE  y \in Layouts(q) <=> IsLayout(q, y)
BY DEF Layouts, IsLayout, MadeOf

LEMMA LayoutsFrozen ==
  ASSUME job' = job, NEW q, NEW y
  PROVE  IsLayout(q, y)' <=> IsLayout(q, y)
<1>1. \A d, a, b : FitsMemory(q, d, a, b)' <=> FitsMemory(q, d, a, b)
  BY CostsFrozen, Zenon
<1>2. EffectiveMax' = EffectiveMax
  BY CostsFrozen, Zenon
<1> QED BY <1>1, <1>2, Zenon DEF IsLayout

LEMMA Numbers ==
  ASSUME job \in Jobs
  PROVE  job.minDevices \in Nat \ {0} /\ EffectiveMax \in Nat
<1>1. JobOK(job)
  BY JobIsOK
<1> QED BY <1>1, Sizes DEF JobOK, EffectiveMax

PartsOf(y, k, devices, ends) ==
  /\ devices \in [1 .. k -> Device] /\ ends \in [1 .. k -> 1 .. NL] /\ ends[k] = NL
  /\ \A i, j \in 1 .. k : i # j => devices[i] # devices[j]
  /\ \A i \in 1 .. k - 1 : ends[i] < ends[i + 1]
  /\ y \in Seq(Seg) /\ Len(y) = k /\ DOMAIN y = 1 .. k
  /\ \A i \in 1 .. k : /\ y[i].device = devices[i] /\ y[i].last = ends[i] - 1
                       /\ y[i].first = IF i = 1 THEN 0 ELSE ends[i - 1]

LEMMA LayoutParts ==
  ASSUME NEW k \in Nat \ {0}, NEW y, NEW devices, NEW ends, MadeOf(y, k, devices, ends)
  PROVE  PartsOf(y, k, devices, ends)
<1>1. /\ devices \in [1 .. k -> Device]
      /\ \A i, j \in 1 .. k : i # j => devices[i] # devices[j]
  BY DEF MadeOf, Injection, IsInjective
<1>2. /\ ends \in [1 .. k -> 1 .. NL] /\ ends[k] = NL
      /\ \A i \in 1 .. k - 1 : ends[i] < ends[i + 1]
  BY DEF MadeOf, Ends
<1>3. DOMAIN devices = 1 .. k
  BY <1>1
<1> DEFINE First(i) == IF i = 1 THEN 0 ELSE ends[i - 1]
<1>4. y = [i \in 1 .. k |-> Segment(devices[i], First(i), ends[i] - 1)]
  BY <1>3, Zenon DEF MadeOf, Layout
<1>5. ASSUME NEW i \in 1 .. k
      PROVE  First(i) \in Nat /\ First(i) < ends[i] /\ ends[i] \in 1 .. NL /\ devices[i] \in Device
  <2>1. ends[i] \in 1 .. NL /\ devices[i] \in Device /\ ends[i] \in Nat
    BY <1>1, <1>2, Sizes
  <2>2. CASE i = 1
    BY <2>1, <2>2
  <2>3. CASE i # 1
    <3>1. i - 1 \in 1 .. k - 1 /\ (i - 1) + 1 = i /\ i - 1 \in 1 .. k
      BY <2>3
    <3>2. ends[i - 1] \in Nat /\ ends[i - 1] < ends[i]
      BY <1>2, <3>1, Sizes
    <3> QED BY <2>1, <2>3, <3>2
  <2> QED BY <2>2, <2>3
<1> HIDE DEF First
<1>6. ASSUME NEW i \in 1 .. k
      PROVE  /\ y[i] \in Seg /\ y[i].device = devices[i] /\ y[i].first = First(i)
             /\ y[i].last = ends[i] - 1
  <2>1. y[i] = Segment(devices[i], First(i), ends[i] - 1)
    BY <1>4
  <2> QED BY <1>5, <2>1, SegmentType
<1>7. y \in [1 .. k -> Seg]
  <2>1. y = [i \in 1 .. k |-> y[i]]
    BY <1>4
  <2> QED BY <1>6, <2>1
<1>8. y \in Seq(Seg) /\ Len(y) = k /\ DOMAIN y = 1 .. k
  BY <1>7
<1> QED BY <1>1, <1>2, <1>6, <1>8 DEF First, PartsOf

(* The segments of a label that is complete are a layout.                  *)
LEMMA LabelIsLayout ==
  ASSUME job \in Jobs, NEW q, NEW s \in States, NEW label \in Label, LabelOK(q, s, label),
         End(s) = NL, Cardinality(Mask(s)) \in job.minDevices .. EffectiveMax
  PROVE  IsLayout(q, label.segs)
<1> DEFINE y == label.segs
           k == Len(y)
           devices == [i \in 1 .. k |-> y[i].device]
           ends == [i \in 1 .. k |-> y[i].last + 1]
<1>1. /\ y \in Seq(Seg) /\ y # <<>> /\ y[1].first = 0 /\ y[k].last = NL - 1
      /\ \A i \in 1 .. k : y[i].first <= y[i].last
      /\ \A i \in 1 .. k - 1 : y[i + 1].first = y[i].last + 1
      /\ \A i, j \in 1 .. k : i # j => y[i].device # y[j].device
      /\ k = Cardinality(Mask(s)) /\ Fits(q, y)
  BY DEF LabelOK, Tiles, Seg
<1>2. k \in job.minDevices .. EffectiveMax /\ k \in Nat \ {0} /\ k \in 1 .. k
  BY <1>1, Numbers
<1>3. y \in [1 .. k -> Seg]
  BY <1>1
<1> HIDE DEF y, k
<1>4. ASSUME NEW i \in 1 .. k
      PROVE  /\ y[i].device \in Device /\ y[i].first \in 0 .. NL - 1 /\ y[i].last \in 0 .. NL - 1
             /\ y[i] = Segment(y[i].device, y[i].first, y[i].last)
             /\ y[i].last + 1 \in 1 .. NL
  <2>1. y[i] \in Seg
    BY <1>3
  <2> QED BY <2>1, Sizes DEF Seg, Segment, Layers
<1>5. devices \in Injection(1 .. k, Device)
  BY <1>1, <1>4 DEF Injection, IsInjective
<1>6. ends \in Ends(k)
  <2>1. ends \in [1 .. k -> 1 .. NL]
    BY <1>4
  <2>2. ends[k] = NL
    BY <1>1, <1>2, Sizes
  <2>3. ASSUME NEW i \in 1 .. k - 1
        PROVE  ends[i] < ends[i + 1]
    <3>1. i \in 1 .. k /\ i + 1 \in 1 .. k
      BY <1>2
    <3>2. y[i + 1].first = y[i].last + 1 /\ y[i + 1].first <= y[i + 1].last
      BY <1>1, <3>1
    <3> QED BY <1>4, <3>1, <3>2
  <2> QED BY <2>1, <2>2, <2>3 DEF Ends
<1>7. y = Layout(devices, ends)
  <2>1. DOMAIN devices = 1 .. k
    OBVIOUS
  <2>2. ASSUME NEW i \in 1 .. k
        PROVE  y[i] = Segment(devices[i], IF i = 1 THEN 0 ELSE ends[i - 1], ends[i] - 1)
    <3>1. devices[i] = y[i].device /\ ends[i] - 1 = y[i].last
      BY <1>4
    <3>2. y[i].first = IF i = 1 THEN 0 ELSE ends[i - 1]
      <4>1. CASE i = 1
        BY <1>1, <4>1
      <4>2. CASE i # 1
        <5>1. i - 1 \in 1 .. k - 1 /\ (i - 1) + 1 = i /\ i - 1 \in 1 .. k
          BY <1>2, <4>2
        <5>2. y[i].first = y[i - 1].last + 1
          BY <1>1, <5>1
        <5> QED BY <4>2, <5>1, <5>2
      <4> QED BY <4>1, <4>2
    <3> QED BY <1>4, <3>1, <3>2
  <2>3. y = [i \in 1 .. k |-> y[i]]
    BY <1>3
  <2> HIDE DEF devices, ends
  <2> QED BY <2>1, <2>2, <2>3 DEF Layout
<1>8. MadeOf(y, k, devices, ends)
  BY <1>5, <1>6, <1>7 DEF MadeOf
<1>9. \A i \in DOMAIN y : FitsMemory(q, y[i].device, y[i].first, y[i].last)
  <2>1. DOMAIN y = 1 .. k
    BY <1>3
  <2> QED BY <1>1, <2>1, Zenon DEF Fits, k
<1> HIDE DEF devices, ends
<1> QED BY <1>2, <1>8, <1>9 DEF IsLayout, y
-----------------------------------------------------------------------------
(* What a search has weighed so far.                                       *)

Single(d, end) == <<end, {d}, d>>

Singles(q) ==
  \A d \in Device, end \in 1 .. NL :
    FitsMemory(q, d, 0, end - 1) =>
      Exists(dp[Single(d, end)]) /\ dp[Single(d, end)].score <= SegmentScore(d, 0, end - 1)

Weighed(s, t) ==
  /\ Exists(dp[t])
  /\ dp[t].score <= Joined(dp[s].score, SegmentScore(LastDevice(t), End(s), End(t) - 1))

Extensions ==
  \A s \in States : Extendable(s) /\ s \notin todo =>
    Exists(dp[s]) /\ \A t \in States : Leads(s, t) => Weighed(s, t)

(* No label that was extended can be replaced any more.                    *)
InOrder == \A s \in States, p \in Pending : Extendable(s) /\ s \notin todo => End(s) <= End(p)

Searched == planner # Nobody => Singles(planner) /\ Extensions /\ InOrder

LEMMA SingleIs ==
  ASSUME NEW d \in Device, NEW end \in 1 .. NL
  PROVE  /\ Single(d, end) \in States /\ End(Single(d, end)) = end
         /\ Mask(Single(d, end)) = {d} /\ LastDevice(Single(d, end)) = d
BY StateMade, Sizes DEF Single

(* When no label is left to extend, no layout is better than every label.  *)
LEMMA LayoutReached ==
  ASSUME SearchInv, planner \in Device, Pending = {}, Searched,
         NEW y, IsLayout(planner, y), NEW g, Scores(g, y)
  PROVE  \E s \in Complete : dp[s].score <= g[Len(y)]
<1>1. PICK k, devices, ends : k \in job.minDevices .. EffectiveMax /\ MadeOf(y, k, devices, ends)
  BY DEF IsLayout
<1>2. /\ job \in Jobs /\ dp \in [States -> Label] /\ planner # Nobody
      /\ Singles(planner) /\ Extensions
  BY Sizes DEF SearchInv, PlanTypes, Searched
<1>3. k \in Nat \ {0} /\ job.minDevices <= k /\ k <= EffectiveMax /\ EffectiveMax \in Nat
  BY <1>1, <1>2, Numbers
<1>4. /\ devices \in [1 .. k -> Device] /\ ends \in [1 .. k -> 1 .. NL] /\ ends[k] = NL
      /\ \A i, j \in 1 .. k : i # j => devices[i] # devices[j]
      /\ \A i \in 1 .. k - 1 : ends[i] < ends[i + 1]
      /\ y \in Seq(Seg) /\ Len(y) = k /\ DOMAIN y = 1 .. k
      /\ \A i \in 1 .. k : /\ y[i].device = devices[i] /\ y[i].last = ends[i] - 1
                           /\ y[i].first = IF i = 1 THEN 0 ELSE ends[i - 1]
  <2>1. PartsOf(y, k, devices, ends)
    BY <1>1, <1>3, LayoutParts
  <2> QED BY <2>1 DEF PartsOf
<1>5. \A i \in 1 .. k : FitsMemory(planner, y[i].device, y[i].first, y[i].last)
  BY <1>4 DEF IsLayout
<1>6. /\ g \in [0 .. k -> Nat] /\ g[0] = 0
      /\ \A i \in 1 .. k : g[i] = Joined(g[i - 1], SegScore(y[i]))
  BY <1>4 DEF Scores
<1> DEFINE Used(i) == {devices[j] : j \in 1 .. i}
           S(i) == <<ends[i], Used(i), devices[i]>>
           Reached(i) == /\ Cardinality(Used(i)) = i /\ IsFiniteSet(Used(i))
                         /\ Exists(dp[S(i)]) /\ dp[S(i)].score <= g[i]
<1>7. ASSUME NEW i \in 1 .. k
      PROVE  /\ S(i) \in States /\ End(S(i)) = ends[i] /\ Mask(S(i)) = Used(i)
             /\ LastDevice(S(i)) = devices[i] /\ ends[i] \in 1 .. NL
  <2>1. ends[i] \in 1 .. NL /\ devices[i] \in Used(i) /\ Used(i) \in SUBSET Device
    BY <1>3, <1>4
  <2> HIDE DEF Used
  <2> QED BY <2>1, StateMade
<1>8. Reached(1)
  <2>1. 1 \in 1 .. k /\ 1 .. 1 = {1}
    BY <1>3
  <2>2. Used(1) = {devices[1]}
    BY <2>1
  <2>3. Cardinality(Used(1)) = 1 /\ IsFiniteSet(Used(1))
    BY <2>2, FS_Singleton
  <2>4. devices[1] \in Device /\ ends[1] \in 1 .. NL
    BY <1>4, <2>1
  <2>5. FitsMemory(planner, devices[1], 0, ends[1] - 1)
    BY <1>4, <1>5, <2>1
  <2>6. S(1) = Single(devices[1], ends[1])
    BY <2>2 DEF Single
  <2>7. Exists(dp[S(1)]) /\ dp[S(1)].score <= SegmentScore(devices[1], 0, ends[1] - 1)
    <3> HIDE DEF S
    <3> QED BY <1>2, <2>4, <2>5, <2>6 DEF Singles
  <2>8. SegScore(y[1]) = SegmentScore(devices[1], 0, ends[1] - 1) /\ y[1] \in Seg
    BY <1>4, <2>1 DEF SegScore
  <2>9. g[1] = SegScore(y[1])
    <3>1. g[1] = Joined(g[1 - 1], SegScore(y[1]))
      BY <1>6, <2>1
    <3>2. 1 - 1 = 0 /\ SegScore(y[1]) \in Nat
      BY <1>2, <2>8, SegScoreType
    <3> QED BY <1>6, <3>1, <3>2, JoinedFacts
  <2> HIDE DEF S, Used
  <2> QED BY <2>3, <2>7, <2>8, <2>9
<1>9. ASSUME NEW i \in 1 .. k - 1, Reached(i)
      PROVE  Reached(i + 1)
  <2>1. i \in 1 .. k /\ i + 1 \in 1 .. k /\ i \in Nat /\ i < k
    BY <1>3
  <2> DEFINE d == devices[i + 1]
             a == ends[i]
             e == ends[i + 1]
  <2>2. Used(i + 1) = Used(i) \cup {d}
    <3>1. \A j \in 1 .. i + 1 : j \in 1 .. i \/ j = i + 1
      BY <2>1
    <3>2. \A j \in 1 .. i : j \in 1 .. i + 1
      BY <2>1
    <3> QED BY <2>1, <3>1, <3>2
  <2>3. d \notin Used(i)
    <3>1. \A j \in 1 .. i : j \in 1 .. k /\ j # i + 1
      BY <1>3, <2>1
    <3> QED BY <1>4, <2>1, <3>1
  <2>4. /\ S(i) \in States /\ End(S(i)) = a /\ Mask(S(i)) = Used(i)
        /\ S(i + 1) \in States /\ End(S(i + 1)) = e /\ Mask(S(i + 1)) = Used(i + 1)
        /\ LastDevice(S(i + 1)) = d /\ a \in 1 .. NL /\ e \in 1 .. NL
    BY <1>7, <2>1
  <2>5. a < e /\ a < NL
    BY <1>4, <2>4, Sizes
  <2>6. Exists(dp[S(i)]) /\ dp[S(i)].score <= g[i] /\ Cardinality(Used(i)) = i /\ IsFiniteSet(Used(i))
    BY <1>9
  <2>7. FitsMemory(planner, d, a, e - 1) /\ SegScore(y[i + 1]) = SegmentScore(d, a, e - 1)
        /\ y[i + 1] \in Seg
    <3>1. /\ y[i + 1].device = d /\ y[i + 1].last = e - 1 /\ y[i + 1].first = a
          /\ y[i + 1] \in Seg
      <4>1. i + 1 # 1 /\ (i + 1) - 1 = i
        BY <2>1
      <4> QED BY <1>4, <2>1, <4>1
    <3> QED BY <1>5, <2>1, <3>1 DEF SegScore
  <2> HIDE DEF S, Used, d, a, e
  <2>8. Extendable(S(i))
    BY <1>3, <2>1, <2>4, <2>5, <2>6 DEF Extendable
  <2>9. S(i) \notin todo
    BY <2>6 DEF Pending
  <2>10. Leads(S(i), S(i + 1))
    BY <2>2, <2>3, <2>4, <2>5, <2>7 DEF Leads, Unused
  <2>11. Exists(dp[S(i + 1)]) /\ dp[S(i + 1)].score <= Joined(dp[S(i)].score, SegScore(y[i + 1]))
    BY <1>2, <2>4, <2>7, <2>8, <2>9, <2>10 DEF Extensions, Weighed
  <2>12. /\ dp[S(i)].score \in Nat /\ dp[S(i + 1)].score \in Nat /\ SegScore(y[i + 1]) \in Nat
         /\ g[i] \in Nat /\ g[i + 1] = Joined(g[i], SegScore(y[i + 1]))
    <3>1. dp[S(i)] \in Label /\ dp[S(i + 1)] \in Label
      BY <1>2, <2>4
    <3>2. i \in 0 .. k /\ (i + 1) - 1 = i
      BY <2>1
    <3> QED BY <1>2, <1>6, <2>1, <2>7, <3>1, <3>2, SegScoreType DEF Label
  <2>13. dp[S(i + 1)].score <= g[i + 1]
    <3>1. Joined(dp[S(i)].score, SegScore(y[i + 1])) <= g[i + 1]
      <4>1. Joined(dp[S(i)].score, SegScore(y[i + 1])) <= Joined(g[i], SegScore(y[i + 1]))
        BY <2>6, <2>12, JoinedFacts, Zenon
      <4> QED BY <2>12, <4>1, Zenon
    <3>2. Joined(dp[S(i)].score, SegScore(y[i + 1])) \in Nat /\ g[i + 1] \in Nat
      BY <2>12, JoinedFacts
    <3> QED BY <2>11, <2>12, <3>1, <3>2
  <2>14. Cardinality(Used(i + 1)) = i + 1 /\ IsFiniteSet(Used(i + 1))
    BY <2>2, <2>3, <2>6, FS_AddElement
  <2> QED BY <2>11, <2>13, <2>14
<1> HIDE DEF Reached
<1>10. Reached(k)
  <2> DEFINE Bad == {i \in Nat : i \in 1 .. k /\ ~ Reached(i)}
  <2>1. Bad = {}
    <3> SUFFICES ASSUME Bad # {}
                 PROVE  FALSE
      OBVIOUS
    <3>1. PICK b \in Bad : \A i \in Bad : b <= i
      BY Smallest
    <3>2. b \in 1 .. k /\ ~ Reached(b) /\ b # 1
      BY <1>8
    <3>3. b - 1 \in 1 .. k - 1 /\ ~ (b <= b - 1) /\ (b - 1) + 1 = b /\ b - 1 \in Nat /\ b - 1 \in 1 .. k
      BY <1>3, <3>2
    <3>4. Reached(b - 1)
      BY <3>1, <3>3
    <3> QED BY <1>9, <3>2, <3>3, <3>4
  <2> QED BY <1>3, <2>1
<1>11. S(k) \in States /\ End(S(k)) = NL /\ Mask(S(k)) = Used(k)
  <2>1. k \in 1 .. k
    BY <1>3
  <2> HIDE DEF S, Used
  <2> QED BY <1>4, <1>7, <2>1
<1>12. Exists(dp[S(k)]) /\ dp[S(k)].score <= g[k] /\ Cardinality(Used(k)) = k
  BY <1>10 DEF Reached
<1> HIDE DEF S, Used
<1>13. S(k) \in Complete
  BY <1>1, <1>3, <1>11, <1>12 DEF Complete
<1> QED BY <1>4, <1>12, <1>13
LEMMA LeadsFrozen ==
  ASSUME job' = job, planner' = planner, NEW s, NEW t
  PROVE  Leads(s, t)' <=> Leads(s, t)
<1>1. \A q, d, a, b : FitsMemory(q, d, a, b)' <=> FitsMemory(q, d, a, b)
  BY CostsFrozen, Zenon
<1>2. Leads(s, t)' <=>
        /\ End(t) > End(s) /\ Unused(LastDevice(t), Mask(s))
        /\ Mask(t) = Mask(s) \cup {LastDevice(t)}
        /\ FitsMemory(planner, LastDevice(t), End(s), End(t) - 1)'
  BY Zenon DEF Leads
<1> QED BY <1>1, <1>2, Zenon DEF Leads

LEMMA BeginSearched ==
  ASSUME SearchInv, NEW q \in Device, Begin(q)
  PROVE  Searched'
<1>1. job' = job /\ planner = Nobody /\ job \in Jobs
  BY DEF SearchInv, PlanTypes, Begin
<1>2. CASE ValidJob
  <2>1. /\ planner' = q /\ dp' = [s \in States |-> InitialLabel(q, s)]
        /\ todo' = {s \in States : Extendable(s)}
    BY <1>2 DEF Begin
  <2>2. ASSUME NEW d \in Device, NEW end \in 1 .. NL, FitsMemory(q, d, 0, end - 1)
        PROVE  /\ Exists(dp'[Single(d, end)])
               /\ dp'[Single(d, end)].score <= SegmentScore(d, 0, end - 1)
    <3> DEFINE s == Single(d, end)
               label == [score |-> SegmentScore(d, 0, end - 1), ttft |-> Ttft(d, 0, end - 1),
                         segs |-> <<Segment(d, 0, end - 1)>>]
    <3>1. s \in States /\ End(s) = end /\ Mask(s) = {d} /\ LastDevice(s) = d
      BY SingleIs
    <3> HIDE DEF s
    <3>2. InitialLabel(q, s) = label
      BY <2>2, <3>1, Zenon DEF InitialLabel
    <3>3. Exists(label) /\ label.score = SegmentScore(d, 0, end - 1)
      BY DEF Exists
    <3>4. SegmentScore(d, 0, end - 1) \in Nat
      <4>1. end - 1 \in Nat /\ end - 1 < NL /\ 0 \in Nat
        BY Sizes
      <4> QED BY <1>1, <4>1, CostType
    <3> HIDE DEF label
    <3>5. dp'[s] = label
      BY <2>1, <3>1, <3>2
    <3> QED BY <3>3, <3>4, <3>5 DEF s
  <2>3. Singles(q)'
    <3>1. \A d, a, b : /\ FitsMemory(q, d, a, b)' <=> FitsMemory(q, d, a, b)
                       /\ SegmentScore(d, a, b)' = SegmentScore(d, a, b)
      BY <1>1, CostsFrozen, Zenon
    <3> QED BY <2>2, <3>1, Zenon DEF Singles
  <2>4. \A s \in States : Extendable(s)' => s \in todo'
    BY <1>1, <2>1, CostsFrozen
  <2>5. Extensions' /\ InOrder'
    BY <2>4, Zenon DEF Extensions, InOrder
  <2> QED BY <2>1, <2>3, <2>5 DEF Searched
<1>3. CASE ~ ValidJob
  BY <1>1, <1>3 DEF Begin, Searched
<1> QED BY <1>2, <1>3

LEMMA ExtendSearched ==
  ASSUME SearchInv, Searched, NEW s \in States, Extend(s)
  PROVE  Searched'
<1> SUFFICES ASSUME planner' # Nobody
             PROVE  Singles(planner)' /\ Extensions' /\ InOrder'
  BY DEF Searched
<1>1. /\ job' = job /\ planner' = planner /\ todo' = todo \ {s} /\ s \in Pending /\ s \in todo
      /\ Exists(dp[s]) /\ IsNext(s, Pending) /\ todo \in SUBSET States
      /\ job \in Jobs /\ dp \in [States -> Label] /\ dp' \in [States -> Label]
  BY ExtendSearch DEF SearchInv, PlanTypes, Extend, Pending
<1>2. Singles(planner) /\ Extensions /\ InOrder
  BY <1>1 DEF Searched
<1> DEFINE New(t) == Extended(s, LastDevice(t), End(t))
<1>3. \A t \in States : dp'[t] = IF Leads(s, t) /\ Replaces(New(t), dp[t]) THEN New(t) ELSE dp[t]
  BY DEF Extend
<1>4. \A t \in States : dp[t].score \in Nat /\ dp'[t].score \in Nat
  BY <1>1 DEF Label
<1>5. ASSUME NEW t \in States, Leads(s, t)
      PROVE  /\ New(t) \in Label /\ Exists(New(t))
             /\ New(t).score = Joined(dp[s].score, SegmentScore(LastDevice(t), End(s), End(t) - 1))
  <2>1. LabelOK(planner, s, dp[s])
    BY <1>1 DEF SearchInv, LabelsHold
  <2> QED BY <1>1, <1>5, <2>1, ExtendedOK DEF Extended
<1> HIDE DEF New
<1>6. ASSUME NEW t \in States, Exists(dp[t])
      PROVE  Exists(dp'[t]) /\ dp'[t].score <= dp[t].score
  <2>1. CASE Leads(s, t) /\ Replaces(New(t), dp[t])
    <3>1. dp'[t] = New(t) /\ Exists(New(t))
      BY <1>3, <1>5, <2>1
    <3>2. New(t).score < dp[t].score \/ New(t).score = dp[t].score
      BY <1>6, <2>1 DEF Replaces
    <3> QED BY <1>4, <3>1, <3>2
  <2>2. CASE ~ (Leads(s, t) /\ Replaces(New(t), dp[t]))
    <3>1. dp'[t] = dp[t]
      BY <1>3, <2>2
    <3> QED BY <1>4, <1>6, <3>1
  <2> QED BY <2>1, <2>2
<1>7. ASSUME NEW t \in States, Leads(s, t)
      PROVE  /\ Exists(dp'[t])
             /\ dp'[t].score <= Joined(dp[s].score, SegmentScore(LastDevice(t), End(s), End(t) - 1))
  <2>1. New(t).score \in Nat
    BY <1>5, <1>7 DEF Label
  <2>2. CASE Replaces(New(t), dp[t])
    <3>1. dp'[t] = New(t)
      BY <1>3, <1>7, <2>2
    <3> QED BY <1>5, <1>7, <2>1, <3>1
  <2>3. CASE ~ Replaces(New(t), dp[t])
    <3>1. dp'[t] = dp[t]
      BY <1>3, <2>3
    <3>2. Exists(dp[t]) /\ ~ (New(t).score < dp[t].score)
      BY <2>3 DEF Replaces
    <3> QED BY <1>4, <1>5, <1>7, <2>1, <3>1, <3>2
  <2> QED BY <2>2, <2>3
<1>8. ASSUME NEW t \in States, ~ (End(t) > End(s))
      PROVE  dp'[t] = dp[t]
  BY <1>3, <1>8 DEF Leads
<1>9. /\ \A d, a, b : /\ FitsMemory(planner, d, a, b)' <=> FitsMemory(planner, d, a, b)
                      /\ SegmentScore(d, a, b)' = SegmentScore(d, a, b)
      /\ \A a, b : Joined(a, b)' = Joined(a, b)
      /\ \A r \in States : Extendable(r)' <=> Extendable(r)
      /\ \A r, t : Leads(r, t)' <=> Leads(r, t)
  BY <1>1, CostsFrozen, LeadsFrozen, Zenon
<1>10. Singles(planner)'
  <2>1. ASSUME NEW d \in Device, NEW end \in 1 .. NL, FitsMemory(planner, d, 0, end - 1)
        PROVE  /\ Exists(dp'[Single(d, end)])
               /\ dp'[Single(d, end)].score <= SegmentScore(d, 0, end - 1)
    <3>1. /\ Single(d, end) \in States /\ Exists(dp[Single(d, end)])
          /\ dp[Single(d, end)].score <= SegmentScore(d, 0, end - 1)
      BY <1>2, <2>1, SingleIs DEF Singles
    <3>2. /\ Exists(dp'[Single(d, end)])
          /\ dp'[Single(d, end)].score <= dp[Single(d, end)].score
      BY <1>6, <3>1
    <3>3. SegmentScore(d, 0, end - 1) \in Nat
      <4>1. end - 1 \in Nat /\ end - 1 < NL /\ 0 \in Nat
        BY Sizes
      <4> QED BY <1>1, <4>1, CostType
    <3> QED BY <1>4, <3>1, <3>2, <3>3
  <2>2. \A d \in Device, end \in 1 .. NL :
          FitsMemory(planner, d, 0, end - 1)' =>
            Exists(dp'[Single(d, end)]) /\ dp'[Single(d, end)].score <= SegmentScore(d, 0, end - 1)'
    BY <1>9, <2>1, Zenon
  <2> QED BY <1>1, <2>2 DEF Singles, Exists
<1>11. ASSUME NEW r \in States, Extendable(r), r \notin todo'
       PROVE  /\ Exists(dp'[r]) /\ dp'[r] = dp[r] /\ End(r) <= End(s)
              /\ \A t \in States : Leads(r, t) =>
                   /\ Exists(dp'[t])
                   /\ dp'[t].score <= Joined(dp[r].score, SegmentScore(LastDevice(t), End(r), End(t) - 1))
  <2>1. End(r) \in Nat /\ End(s) \in Nat
    BY StateParts
  <2>2. CASE r = s
    BY <1>1, <1>7, <1>8, <2>1, <2>2
  <2>3. CASE r # s
    <3>1. r \notin todo
      BY <1>1, <1>11, <2>3
    <3>2. End(r) <= End(s)
      BY <1>1, <1>2, <1>11, <3>1 DEF InOrder
    <3>3. Exists(dp[r]) /\ \A t \in States : Leads(r, t) => Weighed(r, t)
      BY <1>2, <1>11, <3>1 DEF Extensions
    <3>4. dp'[r] = dp[r]
      BY <1>8, <2>1, <3>2
    <3>5. ASSUME NEW t \in States, Leads(r, t)
          PROVE  /\ Exists(dp'[t])
                 /\ dp'[t].score <= Joined(dp[r].score, SegmentScore(LastDevice(t), End(r), End(t) - 1))
      <4>1. Weighed(r, t)
        BY <3>3, <3>5
      <4>2. Exists(dp'[t]) /\ dp'[t].score <= dp[t].score
        BY <1>6, <4>1 DEF Weighed
      <4>3. Joined(dp[r].score, SegmentScore(LastDevice(t), End(r), End(t) - 1)) \in Nat
        <5>1. SegmentScore(LastDevice(t), End(r), End(t) - 1) \in Nat
          BY <1>1, <3>5, LeadsParts, CostType
        <5> QED BY <1>4, <5>1, JoinedFacts
      <4> QED BY <1>4, <4>1, <4>2, <4>3 DEF Weighed
    <3> QED BY <3>2, <3>3, <3>4, <3>5
  <2> QED BY <2>2, <2>3
<1>12. Extensions'
  <2>1. ASSUME NEW r \in States, Extendable(r), r \notin todo', NEW t \in States, Leads(r, t)
        PROVE  Weighed(r, t)'
    <3>1. /\ Exists(dp'[t]) /\ dp'[r] = dp[r]
          /\ dp'[t].score <= Joined(dp[r].score, SegmentScore(LastDevice(t), End(r), End(t) - 1))
      BY <1>11, <2>1
    <3>2. SegmentScore(LastDevice(t), End(r), End(t) - 1)'
            = SegmentScore(LastDevice(t), End(r), End(t) - 1)
      BY <1>9, Zenon
    <3> QED BY <1>1, <3>1, <3>2 DEF Weighed, Exists, Joined
  <2>2. \A r \in States : Extendable(r) /\ r \notin todo' => Exists(dp'[r])
    BY <1>11
  <2> QED BY <1>9, <2>1, <2>2 DEF Extensions, Exists
<1>13. InOrder'
  <2>1. ASSUME NEW r \in States, Extendable(r), r \notin todo', NEW p \in States,
               p \in todo', Exists(dp'[p])
        PROVE  End(r) <= End(p)
    <3>1. End(r) \in Nat /\ End(s) \in Nat /\ End(p) \in Nat /\ End(r) <= End(s)
      BY <1>11, <2>1, StateParts
    <3>2. End(s) <= End(p)
      <4>1. CASE Exists(dp[p])
        <5>1. p \in Pending /\ p # s
          BY <1>1, <2>1, <4>1 DEF Pending
        <5>2. Before(s, p)
          BY <1>1, <5>1 DEF IsNext
        <5> QED BY <3>1, <5>2 DEF Before
      <4>2. CASE ~ Exists(dp[p])
        <5>1. dp'[p] # dp[p]
          BY <2>1, <4>2
        <5> QED BY <1>8, <3>1, <5>1
      <4> QED BY <4>1, <4>2
    <3> QED BY <3>1, <3>2
  <2>2. Pending' = {p \in todo' : Exists(dp'[p])}
    BY DEF Pending, Exists
  <2> QED BY <1>1, <1>9, <2>1, <2>2 DEF InOrder
<1> QED BY <1>10, <1>12, <1>13
-----------------------------------------------------------------------------
(* Plans of least score.                                                   *)

NoneBetter(q, segs) ==
  \A y, f, g : IsLayout(q, y) /\ Scores(f, segs) /\ Scores(g, y) => f[Len(segs)] <= g[Len(y)]

BestFor(q, segs) ==
  IF segs = <<>> THEN \A y : ~ IsLayout(q, y) ELSE IsLayout(q, segs) /\ NoneBetter(q, segs)

PlansBest == \A q \in Device : plan[q].done /\ ValidJob => BestFor(q, plan[q].segs)

BestInv == SearchInv /\ Searched /\ PlansBest

LEMMA BestFrozen ==
  ASSUME job' = job, NEW q, NEW segs
  PROVE  BestFor(q, segs)' <=> BestFor(q, segs)
<1>1. \A y : IsLayout(q, y)' <=> IsLayout(q, y)
  BY LayoutsFrozen, Zenon
<1>2. \A f, y : Scores(f, y)' <=> Scores(f, y)
  BY ScoresFrozen, Zenon
<1>3. NoneBetter(q, segs)' <=> NoneBetter(q, segs)
  BY <1>1, <1>2, Zenon DEF NoneBetter
<1> QED BY <1>1, <1>3, Zenon DEF BestFor

LEMMA PlansBestKept ==
  ASSUME PlansBest, PlanTypes, job' = job, plan' = plan
  PROVE  PlansBest'
<1>1. ValidJob' <=> ValidJob
  BY CostsFrozen
<1>2. \A q, segs : BestFor(q, segs)' <=> BestFor(q, segs)
  BY BestFrozen, Zenon
<1> QED BY <1>1, <1>2, Zenon DEF PlansBest

LEMMA PlansBestSet ==
  ASSUME PlansBest, PlanTypes, job' = job, NEW q \in Device, NEW segs \in Seq(Seg),
         plan' = [plan EXCEPT ![q] = Planned(segs)], ValidJob => BestFor(q, segs)
  PROVE  PlansBest'
<1>1. ValidJob' <=> ValidJob
  BY CostsFrozen
<1>2. \A p, y : BestFor(p, y)' <=> BestFor(p, y)
  BY BestFrozen, Zenon
<1>3. /\ plan'[q].segs = segs
      /\ \A p \in Device : p # q => plan'[p] = plan[p]
  BY PlanSet
<1>4. ASSUME NEW p \in Device, plan'[p].done, ValidJob
      PROVE  BestFor(p, plan'[p].segs)
  <2>1. CASE p = q
    BY <1>3, <1>4, <2>1
  <2>2. CASE p # q
    BY <1>3, <1>4, <2>2 DEF PlansBest
  <2> QED BY <2>1, <2>2
<1> QED BY <1>1, <1>2, <1>4, Zenon DEF PlansBest

LEMMA ChosenBest ==
  ASSUME SearchInv, Searched, planner \in Device, Pending = {}, NEW s \in States, IsWinner(s)
  PROVE  BestFor(planner, dp[s].segs)
<1>1. /\ job \in Jobs /\ dp \in [States -> Label] /\ dp[s] \in Label /\ LabelsHold
  BY DEF SearchInv, PlanTypes
<1>2. /\ End(s) = NL /\ Exists(dp[s]) /\ Cardinality(Mask(s)) \in job.minDevices .. EffectiveMax
      /\ \A t \in Complete : ~ Preferred(dp[t], dp[s])
  BY DEF IsWinner, Finalists, Complete
<1>3. LabelOK(planner, s, dp[s])
  BY <1>1, <1>2 DEF LabelsHold
<1>4. IsLayout(planner, dp[s].segs)
  BY <1>1, <1>2, <1>3, LabelIsLayout
<1>5. PICK h : Scores(h, dp[s].segs) /\ dp[s].score = h[Len(dp[s].segs)]
  BY <1>3 DEF LabelOK
<1>6. dp[s].segs \in Seq(Seg) /\ Len(dp[s].segs) \in Nat
  BY <1>1 DEF Label
<1>7. ASSUME NEW y, NEW f, NEW g, IsLayout(planner, y), Scores(f, dp[s].segs), Scores(g, y)
      PROVE  f[Len(dp[s].segs)] <= g[Len(y)]
  <2>1. f[Len(dp[s].segs)] = dp[s].score
    BY <1>5, <1>6, <1>7, ScoresAgree
  <2>2. PICK t \in Complete : dp[t].score <= g[Len(y)]
    BY <1>7, LayoutReached
  <2>3. ~ (dp[t].score < dp[s].score)
    BY <1>2 DEF Preferred
  <2>4. dp[t].score \in Nat /\ dp[s].score \in Nat
    BY <1>1 DEF Complete, Label
  <2>5. g[Len(y)] \in Nat
    <3>1. PICK k, devices, ends : k \in job.minDevices .. EffectiveMax /\ MadeOf(y, k, devices, ends)
      BY <1>7 DEF IsLayout
    <3>2. k \in Nat \ {0}
      BY <1>1, <3>1, Numbers
    <3>3. PartsOf(y, k, devices, ends)
      BY <3>1, <3>2, LayoutParts
    <3>4. Len(y) \in 0 .. Len(y)
      BY <3>2, <3>3 DEF PartsOf
    <3> QED BY <1>7, <3>4 DEF Scores
  <2> QED BY <2>1, <2>2, <2>3, <2>4, <2>5
<1>8. NoneBetter(planner, dp[s].segs)
  BY <1>7 DEF NoneBetter
<1> QED BY <1>2, <1>4, <1>8 DEF BestFor, Exists

LEMMA NoLayout ==
  ASSUME SearchInv, Searched, planner \in Device, Pending = {}, Complete = {}
  PROVE  BestFor(planner, <<>>)
<1> SUFFICES ASSUME NEW y, IsLayout(planner, y)
             PROVE  FALSE
  BY DEF BestFor
<1>1. job \in Jobs
  BY DEF SearchInv, PlanTypes
<1>2. PICK k, devices, ends : k \in job.minDevices .. EffectiveMax /\ MadeOf(y, k, devices, ends)
  BY DEF IsLayout
<1>3. k \in Nat \ {0}
  BY <1>1, <1>2, Numbers
<1>4. y \in Seq(Seg)
  BY <1>2, <1>3, LayoutParts DEF PartsOf
<1>5. PICK g : Scores(g, y)
  BY <1>1, <1>4, ScoreOf
<1> QED BY <1>5, LayoutReached

LEMMA StepBest ==
  ASSUME BestInv, [PlanNext]_planVars
  PROVE  BestInv'
<1>1. SearchInv /\ SearchInv' /\ Searched /\ PlansBest /\ PlanTypes /\ <<>> \in Seq(Seg)
  BY StepSearch DEF BestInv, SearchInv
<1>2. ASSUME NEW q \in Device, Begin(q)
      PROVE  BestInv'
  <2>1. CASE ValidJob
    <3>1. plan' = plan /\ job' = job
      BY <1>2, <2>1 DEF Begin
    <3> QED BY <1>1, <1>2, <3>1, BeginSearched, PlansBestKept DEF BestInv
  <2>2. CASE ~ ValidJob
    <3>1. plan' = [plan EXCEPT ![q] = Planned(<<>>)] /\ job' = job
      BY <1>2, <2>2 DEF Begin
    <3>2. PlansBest'
      BY <1>1, <2>2, <3>1, PlansBestSet
    <3> QED BY <1>1, <1>2, <3>2, BeginSearched DEF BestInv
  <2> QED BY <2>1, <2>2
<1>3. ASSUME NEW s \in States, Extend(s)
      PROVE  BestInv'
  <2>1. plan' = plan /\ job' = job
    BY <1>3 DEF Extend
  <2> QED BY <1>1, <1>3, <2>1, ExtendSearched, PlansBestKept DEF BestInv
<1>4. CASE Choose
  <2>1. planner \in Device /\ Pending = {} /\ job' = job /\ planner' = Nobody
    BY <1>1, <1>4 DEF Choose, PlanTypes
  <2>2. Searched'
    BY <2>1 DEF Searched
  <2>3. PlansBest'
    <3>1. CASE Complete = {}
      <4>1. plan' = [plan EXCEPT ![planner] = Planned(<<>>)]
        BY <1>4, <3>1 DEF Choose
      <4> QED BY <1>1, <2>1, <3>1, <4>1, NoLayout, PlansBestSet
    <3>2. CASE Complete # {}
      <4>1. PICK s \in States : IsWinner(s) /\ plan' = [plan EXCEPT ![planner] = Planned(dp[s].segs)]
        BY <1>4, <3>2 DEF Choose
      <4>2. BestFor(planner, dp[s].segs)
        BY <1>1, <2>1, <4>1, ChosenBest
      <4>3. dp[s].segs \in Seq(Seg)
        BY <1>1 DEF PlanTypes, Label
      <4> QED BY <1>1, <2>1, <4>1, <4>2, <4>3, PlansBestSet
    <3> QED BY <3>1, <3>2
  <2> QED BY <1>1, <2>2, <2>3 DEF BestInv
<1>5. CASE UNCHANGED planVars
  <2>1. /\ job' = job /\ plan' = plan /\ planner' = planner /\ dp' = dp /\ todo' = todo
    BY <1>5 DEF planVars
  <2>2. PlansBest'
    BY <1>1, <2>1, PlansBestKept
  <2>3. Searched'
    <3>1. /\ \A q, d, a, b : /\ FitsMemory(q, d, a, b)' <=> FitsMemory(q, d, a, b)
                             /\ SegmentScore(d, a, b)' = SegmentScore(d, a, b)
          /\ \A r \in States : Extendable(r)' <=> Extendable(r)
          /\ \A r, t : Leads(r, t)' <=> Leads(r, t)
      BY <2>1, CostsFrozen, LeadsFrozen, Zenon
    <3>2. Singles(planner)' <=> Singles(planner)
      BY <2>1, <3>1, Zenon DEF Singles
    <3>3. \A r, t : Weighed(r, t)' <=> Weighed(r, t)
      BY <2>1, <3>1, Zenon DEF Weighed, Joined
    <3>4. Extensions' <=> Extensions
      BY <2>1, <3>1, <3>3, Zenon DEF Extensions
    <3>5. InOrder' <=> InOrder
      BY <2>1, <3>1, Zenon DEF InOrder, Pending
    <3> QED BY <1>1, <2>1, <3>2, <3>4, <3>5 DEF Searched
  <2> QED BY <1>1, <2>2, <2>3 DEF BestInv
<1> QED BY <1>2, <1>3, <1>4, <1>5 DEF PlanNext

LEMMA InitBest ==
  ASSUME PlanInit
  PROVE  BestInv
<1>1. SearchInv
  BY InitSearch
<1>2. planner = Nobody /\ \A q \in Device : ~ plan[q].done
  BY DEF PlanInit
<1> QED BY <1>1, <1>2 DEF BestInv, Searched, PlansBest

LEMMA BestAlways == PlanSpec => []BestInv
BY InitBest, StepBest, PTL DEF PlanSpec

LEMMA BestInvEnough ==
  ASSUME BestInv
  PROVE  BestPlan
<1>1. job \in Jobs /\ PlansBest /\ plan \in [Device -> [done : BOOLEAN, segs : Seq(Seg)]]
  BY DEF BestInv, SearchInv, PlanTypes
<1> SUFFICES ASSUME NEW q \in Device, plan[q].done, ValidJob
             PROVE  IF plan[q].segs = <<>> THEN Layouts(q) = {}
                    ELSE /\ plan[q].segs \in Layouts(q)
                         /\ \A y \in Layouts(q) : LayoutScore(plan[q].segs) <= LayoutScore(y)
  BY DEF BestPlan
<1> DEFINE segs == plan[q].segs
<1>2. BestFor(q, segs) /\ segs \in Seq(Seg)
  BY <1>1 DEF PlansBest
<1> HIDE DEF segs
<1>3. CASE segs = <<>>
  <2>1. \A y : ~ (y \in Layouts(q))
    BY <1>2, <1>3, LayoutsAre, Zenon DEF BestFor
  <2> QED BY <1>3, <2>1 DEF segs
<1>4. CASE segs # <<>>
  <2>1. IsLayout(q, segs) /\ NoneBetter(q, segs)
    BY <1>2, <1>4 DEF BestFor
  <2>2. PICK f : Scores(f, segs) /\ LayoutScore(segs) = f[Len(segs)]
    BY <1>1, <1>2, ScoreOf
  <2>3. ASSUME NEW y \in Layouts(q)
        PROVE  LayoutScore(segs) <= LayoutScore(y)
    <3>1. IsLayout(q, y)
      BY LayoutsAre
    <3>2. PICK k, devices, ends : k \in job.minDevices .. EffectiveMax /\ MadeOf(y, k, devices, ends)
      BY <3>1 DEF IsLayout
    <3>3. k \in Nat \ {0}
      BY <1>1, <3>2, Numbers
    <3>4. y \in Seq(Seg)
      BY <3>2, <3>3, LayoutParts DEF PartsOf
    <3>5. PICK g : Scores(g, y) /\ LayoutScore(y) = g[Len(y)]
      BY <1>1, <3>4, ScoreOf
    <3> QED BY <2>1, <2>2, <3>1, <3>5 DEF NoneBetter
  <2>4. segs \in Layouts(q)
    BY <2>1, LayoutsAre
  <2> QED BY <1>4, <2>3, <2>4 DEF segs
<1> QED BY <1>3, <1>4

(* Whatever the profile, the objective and the algorithm: the plan of a    *)
(* process that accepts the profile has the least score of all layouts     *)
(* that fit, and there is no plan only when nothing fits.                  *)
THEOREM PlanIsBest == Spec => []BestPlan
BY PlansAlone, BestAlways, BestInvEnough, PTL
-----------------------------------------------------------------------------
(* The same search, written as a function of labels and what is pending.   *)

LeadsFor(q, s, t) ==
  /\ End(t) > End(s) /\ Unused(LastDevice(t), Mask(s))
  /\ Mask(t) = Mask(s) \cup {LastDevice(t)}
  /\ FitsMemory(q, LastDevice(t), End(s), End(t) - 1)

ExtendedIn(D, s, t) ==
  [score |-> Joined(D[s].score, SegmentScore(LastDevice(t), End(s), End(t) - 1)),
   ttft  |-> D[s].ttft + Ttft(LastDevice(t), End(s), End(t) - 1),
   segs  |-> Append(D[s].segs, Segment(LastDevice(t), End(s), End(t) - 1))]

AfterLabel(q, D, s, t) ==
  IF LeadsFor(q, s, t) /\ Replaces(ExtendedIn(D, s, t), D[t]) THEN ExtendedIn(D, s, t) ELSE D[t]

After(q, D, s) == [t \in States |-> AfterLabel(q, D, s, t)]

PendingIn(D, T) == {s \in T : Exists(D[s])}

Start(q) == <<[s \in States |-> InitialLabel(q, s)], {s \in States : Extendable(s)}>>

StepOf(q, a, b) ==
  \E s \in States : /\ s \in PendingIn(a[1], a[2]) /\ IsNext(s, PendingIn(a[1], a[2]))
                    /\ b = <<After(q, a[1], s), a[2] \ {s}>>

Trace(q, n, tr) == tr[0] = Start(q) /\ \A i \in 0 .. n - 1 : StepOf(q, tr[i], tr[i + 1])

Reaches(q, D, T) == \E n \in Nat : \E tr : Trace(q, n, tr) /\ tr[n] = <<D, T>>

CompleteIn(D) ==
  {s \in States : /\ End(s) = NL /\ Exists(D[s])
                  /\ Cardinality(Mask(s)) \in job.minDevices .. EffectiveMax}

FinalistsIn(D) == {s \in CompleteIn(D) : \A t \in CompleteIn(D) : ~ Preferred(D[t], D[s])}

ResultOf(D, segs) ==
  IF CompleteIn(D) = {} THEN segs = <<>>
  ELSE \E s \in States : s \in FinalistsIn(D) /\ IsNext(s, FinalistsIn(D)) /\ segs = D[s].segs

Finds(q, segs) == \E D, T : Reaches(q, D, T) /\ PendingIn(D, T) = {} /\ ResultOf(D, segs)

Traced ==
  /\ planner # Nobody => ValidJob /\ Reaches(planner, dp, todo)
  /\ \A q \in Device : plan[q].done =>
       IF ValidJob THEN Finds(q, plan[q].segs) ELSE plan[q].segs = <<>>

TraceInv == PlanTypes /\ Traced

LEMMA SearchFrozen ==
  ASSUME job' = job
  PROVE  /\ \A q : Start(q)' = Start(q)
         /\ \A q, D, T : Reaches(q, D, T)' <=> Reaches(q, D, T)
         /\ \A q, segs : Finds(q, segs)' <=> Finds(q, segs)
<1>1. /\ \A q, d, a, b : /\ FitsMemory(q, d, a, b)' <=> FitsMemory(q, d, a, b)
                         /\ SegmentScore(d, a, b)' = SegmentScore(d, a, b)
                         /\ Ttft(d, a, b)' = Ttft(d, a, b)
      /\ \A a, b : Joined(a, b)' = Joined(a, b)
      /\ \A r \in States : Extendable(r)' <=> Extendable(r)
      /\ EffectiveMax' = EffectiveMax
  BY CostsFrozen, Zenon
<1>2. \A q, s, t : LeadsFor(q, s, t)' <=> LeadsFor(q, s, t)
  BY <1>1, Zenon DEF LeadsFor
<1>3. \A D, s, t : ExtendedIn(D, s, t)' = ExtendedIn(D, s, t)
  BY <1>1, Zenon DEF ExtendedIn, Joined
<1>4. \A q, D, s, t : AfterLabel(q, D, s, t)' = AfterLabel(q, D, s, t)
  BY <1>2, <1>3, Zenon DEF AfterLabel
<1>5. ASSUME NEW q, NEW D, NEW s
      PROVE  After(q, D, s)' = After(q, D, s)
  <2>1. After(q, D, s)' = [t \in States |-> AfterLabel(q, D, s, t)']
    BY DEF After
  <2> QED BY <1>4, <2>1 DEF After
<1>6. \A q, s : InitialLabel(q, s)' = InitialLabel(q, s)
  BY <1>1, Zenon DEF InitialLabel
<1>7. ASSUME NEW q
      PROVE  Start(q)' = Start(q)
  <2>1. Start(q)' = <<[s \in States |-> InitialLabel(q, s)'], {s \in States : Extendable(s)'}>>
    BY DEF Start
  <2>2. [s \in States |-> InitialLabel(q, s)'] = [s \in States |-> InitialLabel(q, s)]
    BY <1>6
  <2>3. {s \in States : Extendable(s)'} = {s \in States : Extendable(s)}
    BY <1>1
  <2> QED BY <2>1, <2>2, <2>3 DEF Start
<1>8. \A q, a, b : StepOf(q, a, b)' <=> StepOf(q, a, b)
  BY <1>5, Zenon DEF StepOf
<1>9. \A q, n, tr : Trace(q, n, tr)' <=> Trace(q, n, tr)
  BY <1>7, <1>8, Zenon DEF Trace
<1>10. \A q, D, T : Reaches(q, D, T)' <=> Reaches(q, D, T)
  BY <1>9, Zenon DEF Reaches
<1>11. ASSUME NEW D
       PROVE  CompleteIn(D)' = CompleteIn(D)
  BY <1>1 DEF CompleteIn
<1>12. ASSUME NEW D
       PROVE  FinalistsIn(D)' = FinalistsIn(D)
  BY <1>11 DEF FinalistsIn
<1>13. \A D, segs : ResultOf(D, segs)' <=> ResultOf(D, segs)
  BY <1>11, <1>12, Zenon DEF ResultOf
<1>14. \A q, segs : Finds(q, segs)' <=> Finds(q, segs)
  BY <1>10, <1>13, Zenon DEF Finds
<1> QED BY <1>7, <1>10, <1>14
-----------------------------------------------------------------------------
(* There is one search, and one result.                                    *)

LEMMA LowerAsymmetric ==
  ASSUME NEW a \in SUBSET Device, NEW b \in SUBSET Device, Lower(a, b)
  PROVE  ~ Lower(b, a)
<1> SUFFICES ASSUME Lower(b, a)
             PROVE  FALSE
  OBVIOUS
<1>1. PICK d \in b \ a : \A e \in a \ b : e < d
  BY DEF Lower
<1>2. PICK c \in a \ b : \A e \in b \ a : e < c
  BY DEF Lower
<1>3. c < d /\ d < c /\ c \in Nat /\ d \in Nat
  BY <1>1, <1>2, Sizes
<1> QED BY <1>3

LEMMA BeforeAsymmetric ==
  ASSUME NEW s \in States, NEW t \in States, Before(s, t)
  PROVE  ~ Before(t, s)
<1>1. /\ End(s) \in Nat /\ End(t) \in Nat /\ LastDevice(s) \in Nat /\ LastDevice(t) \in Nat
      /\ Mask(s) \in SUBSET Device /\ Mask(t) \in SUBSET Device
  BY StateParts
<1>2. \A a : ~ Lower(a, a)
  BY DEF Lower
<1>3. Lower(Mask(s), Mask(t)) => ~ Lower(Mask(t), Mask(s))
  BY <1>1, LowerAsymmetric
<1> HIDE DEF Lower
<1> QED BY <1>1, <1>2, <1>3 DEF Before

LEMMA NextUnique ==
  ASSUME NEW S \in SUBSET States, NEW s \in S, NEW t \in S, IsNext(s, S), IsNext(t, S)
  PROVE  s = t
BY BeforeAsymmetric DEF IsNext

LEMMA StepUnique ==
  ASSUME NEW q, NEW a, NEW b, NEW c, StepOf(q, a, b), StepOf(q, a, c), a[2] \in SUBSET States
  PROVE  b = c
<1> DEFINE P == PendingIn(a[1], a[2])
<1>1. PICK s \in States : s \in P /\ IsNext(s, P) /\ b = <<After(q, a[1], s), a[2] \ {s}>>
  BY DEF StepOf
<1>2. PICK t \in States : t \in P /\ IsNext(t, P) /\ c = <<After(q, a[1], t), a[2] \ {t}>>
  BY DEF StepOf
<1>3. P \in SUBSET States
  BY DEF PendingIn
<1> HIDE DEF P
<1>4. s = t
  BY <1>1, <1>2, <1>3, NextUnique
<1> QED BY <1>1, <1>2, <1>4

LEMMA TraceTodo ==
  ASSUME NEW q, NEW n \in Nat, NEW tr, Trace(q, n, tr), NEW k \in 0 .. n
  PROVE  tr[k][2] \in SUBSET States
<1> DEFINE Bad == {i \in Nat : i <= n /\ ~ (tr[i][2] \in SUBSET States)}
<1>1. Bad = {}
  <2> SUFFICES ASSUME Bad # {}
               PROVE  FALSE
    OBVIOUS
  <2>1. PICK b \in Bad : \A i \in Bad : b <= i
    BY Smallest
  <2>2. b \in Nat /\ b <= n /\ ~ (tr[b][2] \in SUBSET States)
    OBVIOUS
  <2>3. b # 0
    BY <2>2 DEF Trace, Start
  <2>4. b - 1 \in Nat /\ b - 1 <= n /\ ~ (b <= b - 1) /\ b - 1 \in 0 .. n - 1 /\ (b - 1) + 1 = b
    BY <2>2, <2>3
  <2>5. tr[b - 1][2] \in SUBSET States
    BY <2>1, <2>4
  <2>6. StepOf(q, tr[b - 1], tr[b])
    BY <2>4 DEF Trace
  <2> HIDE DEF Bad
  <2>7. PICK s \in States : tr[b] = <<After(q, tr[b - 1][1], s), tr[b - 1][2] \ {s}>>
    BY <2>6 DEF StepOf
  <2> QED BY <2>2, <2>5, <2>7
<1> QED BY <1>1

LEMMA TracesAgree ==
  ASSUME NEW q, NEW n \in Nat, NEW m \in Nat, NEW tr, NEW ur, Trace(q, n, tr), Trace(q, m, ur),
         NEW k \in Nat, k <= n, k <= m
  PROVE  tr[k] = ur[k]
<1> DEFINE Bad == {i \in Nat : i <= k /\ tr[i] # ur[i]}
<1>1. Bad = {}
  <2> SUFFICES ASSUME Bad # {}
               PROVE  FALSE
    OBVIOUS
  <2>1. PICK b \in Bad : \A i \in Bad : b <= i
    BY Smallest
  <2>2. b \in Nat /\ b <= k /\ tr[b] # ur[b]
    OBVIOUS
  <2>3. b # 0
    BY <2>2 DEF Trace
  <2>4. /\ b - 1 \in Nat /\ b - 1 <= k /\ ~ (b <= b - 1) /\ (b - 1) + 1 = b
        /\ b - 1 \in 0 .. n - 1 /\ b - 1 \in 0 .. m - 1 /\ b - 1 \in 0 .. n
    BY <2>2, <2>3
  <2>5. tr[b - 1] = ur[b - 1]
    BY <2>1, <2>4
  <2>6. StepOf(q, tr[b - 1], tr[b]) /\ StepOf(q, ur[b - 1], ur[b])
    BY <2>4 DEF Trace
  <2>7. tr[b - 1][2] \in SUBSET States
    BY <2>4, TraceTodo
  <2> HIDE DEF Bad
  <2>8. tr[b] = ur[b]
    BY <2>5, <2>6, <2>7, StepUnique
  <2> QED BY <2>2, <2>8
<1> QED BY <1>1

(* A search with nothing left to extend goes no further.                   *)
LEMMA TraceEnds ==
  ASSUME NEW q, NEW n \in Nat, NEW m \in Nat, NEW tr, NEW ur, Trace(q, n, tr), Trace(q, m, ur),
         PendingIn(tr[n][1], tr[n][2]) = {}
  PROVE  ~ (n < m)
<1> SUFFICES ASSUME n < m
             PROVE  FALSE
  OBVIOUS
<1>1. tr[n] = ur[n]
  BY TracesAgree
<1>2. StepOf(q, ur[n], ur[n + 1])
  BY DEF Trace
<1>3. PICK s : s \in PendingIn(ur[n][1], ur[n][2])
  BY <1>2 DEF StepOf
<1> QED BY <1>1, <1>3

LEMMA FindsOne ==
  ASSUME NEW q, NEW x, NEW y, Finds(q, x), Finds(q, y)
  PROVE  x = y
<1>1. PICK D, T : Reaches(q, D, T) /\ PendingIn(D, T) = {} /\ ResultOf(D, x)
  BY DEF Finds
<1>2. PICK E, U : Reaches(q, E, U) /\ PendingIn(E, U) = {} /\ ResultOf(E, y)
  BY DEF Finds
<1>3. PICK n, tr : n \in Nat /\ Trace(q, n, tr) /\ tr[n] = <<D, T>>
  BY <1>1 DEF Reaches
<1>4. PICK m, ur : m \in Nat /\ Trace(q, m, ur) /\ ur[m] = <<E, U>>
  BY <1>2 DEF Reaches
<1>5. PendingIn(tr[n][1], tr[n][2]) = {} /\ PendingIn(ur[m][1], ur[m][2]) = {}
  BY <1>1, <1>2, <1>3, <1>4
<1>6. ~ (n < m) /\ ~ (m < n)
  BY <1>3, <1>4, <1>5, TraceEnds
<1>7. n = m
  BY <1>3, <1>4, <1>6
<1>8. tr[n] = ur[n]
  BY <1>3, <1>4, <1>7, TracesAgree
<1>9. D = E
  BY <1>3, <1>4, <1>7, <1>8
<1>10. ResultOf(D, x) /\ ResultOf(D, y)
  BY <1>1, <1>2, <1>9
<1>11. CASE CompleteIn(D) = {}
  BY <1>10, <1>11 DEF ResultOf
<1>12. CASE CompleteIn(D) # {}
  <2> DEFINE F == FinalistsIn(D)
  <2>1. PICK s \in States : s \in F /\ IsNext(s, F) /\ x = D[s].segs
    BY <1>10, <1>12 DEF ResultOf
  <2>2. PICK t \in States : t \in F /\ IsNext(t, F) /\ y = D[t].segs
    BY <1>10, <1>12 DEF ResultOf
  <2>3. F \in SUBSET States
    BY DEF FinalistsIn, CompleteIn
  <2> HIDE DEF F
  <2>4. s = t
    BY <2>1, <2>2, <2>3, NextUnique
  <2> QED BY <2>1, <2>2, <2>4
<1> QED BY <1>11, <1>12

(* Processes with the same cache search alike.                             *)
LEMMA SameSearch ==
  ASSUME NEW p, NEW q, job.kv[p] = job.kv[q], NEW segs
  PROVE  Finds(p, segs) <=> Finds(q, segs)
<1>1. \A d, a, b : FitsMemory(p, d, a, b) <=> FitsMemory(q, d, a, b)
  BY Zenon DEF FitsMemory
<1>2. \A s, t : LeadsFor(p, s, t) <=> LeadsFor(q, s, t)
  BY <1>1, Zenon DEF LeadsFor
<1>3. \A D, s, t : AfterLabel(p, D, s, t) = AfterLabel(q, D, s, t)
  BY <1>2, Zenon DEF AfterLabel
<1>4. \A D, s : After(p, D, s) = After(q, D, s)
  BY <1>3 DEF After
<1>5. \A s : InitialLabel(p, s) = InitialLabel(q, s)
  BY <1>1, Zenon DEF InitialLabel
<1>6. Start(p) = Start(q)
  BY <1>5 DEF Start
<1>7. \A a, b : StepOf(p, a, b) <=> StepOf(q, a, b)
  BY <1>4, Zenon DEF StepOf
<1>8. \A n, tr : Trace(p, n, tr) <=> Trace(q, n, tr)
  BY <1>6, <1>7, Zenon DEF Trace
<1> QED BY <1>8, Zenon DEF Finds, Reaches

LEMMA TraceMore ==
  ASSUME NEW q, NEW D, NEW T, Reaches(q, D, T), NEW E, NEW U, StepOf(q, <<D, T>>, <<E, U>>)
  PROVE  Reaches(q, E, U)
<1>1. PICK n, tr : n \in Nat /\ Trace(q, n, tr) /\ tr[n] = <<D, T>>
  BY DEF Reaches
<1> DEFINE ur == [i \in 0 .. n + 1 |-> IF i = n + 1 THEN <<E, U>> ELSE tr[i]]
<1>2. ur[n + 1] = <<E, U>> /\ \A i \in 0 .. n : ur[i] = tr[i]
  BY <1>1
<1> HIDE DEF ur
<1>3. ur[0] = Start(q)
  BY <1>1, <1>2 DEF Trace
<1>4. ASSUME NEW i \in 0 .. (n + 1) - 1
      PROVE  StepOf(q, ur[i], ur[i + 1])
  <2>1. CASE i = n
    BY <1>1, <1>2, <2>1
  <2>2. CASE i # n
    <3>1. i \in 0 .. n - 1 /\ i \in 0 .. n /\ i + 1 \in 0 .. n
      BY <1>1, <2>2
    <3>2. StepOf(q, tr[i], tr[i + 1])
      BY <1>1, <3>1 DEF Trace
    <3> QED BY <1>2, <3>1, <3>2
  <2> QED BY <2>1, <2>2
<1>5. Trace(q, n + 1, ur)
  BY <1>3, <1>4 DEF Trace
<1>6. n + 1 \in Nat
  BY <1>1
<1> QED BY <1>2, <1>5, <1>6 DEF Reaches
LEMMA BeginTraced ==
  ASSUME TraceInv, NEW q \in Device, Begin(q), PlanTypes'
  PROVE  Traced'
<1>1. job' = job /\ planner = Nobody /\ (ValidJob' <=> ValidJob) /\ PlanTypes /\ Traced
  BY CostsFrozen DEF TraceInv, Begin
<1>2. /\ \A D, T : Reaches(q, D, T)' <=> Reaches(q, D, T)
      /\ \A p, segs : Finds(p, segs)' <=> Finds(p, segs)
  BY <1>1, SearchFrozen, Zenon
<1>3. CASE ValidJob
  <2>1. planner' = q /\ plan' = plan /\ <<dp', todo'>> = Start(q)
    BY <1>3 DEF Begin, Start
  <2>2. Reaches(q, dp', todo')
    <3> DEFINE tr == [i \in {0} |-> Start(q)]
    <3>1. tr[0] = Start(q) /\ 0 .. 0 - 1 = {} /\ 0 \in Nat
      OBVIOUS
    <3> HIDE DEF tr
    <3>2. Trace(q, 0, tr)
      BY <3>1 DEF Trace
    <3> QED BY <2>1, <3>1, <3>2 DEF Reaches
  <2> QED BY <1>1, <1>2, <1>3, <2>1, <2>2, Zenon DEF Traced
<1>4. CASE ~ ValidJob
  <2>1. plan' = [plan EXCEPT ![q] = Planned(<<>>)] /\ planner' = planner
    BY <1>4 DEF Begin
  <2>2. <<>> \in Seq(Seg)
    OBVIOUS
  <2>3. \A p \in Device : plan'[p].done => plan'[p].segs = <<>>
    BY <1>1, <1>4, <2>1, <2>2, PlanSet DEF Traced
  <2> QED BY <1>1, <1>4, <2>1, <2>3, Zenon DEF Traced
<1> QED BY <1>3, <1>4
LEMMA ExtendTraced ==
  ASSUME TraceInv, NEW s \in States, Extend(s)
  PROVE  Traced'
<1>1. /\ job' = job /\ planner' = planner /\ plan' = plan /\ (ValidJob' <=> ValidJob)
      /\ PlanTypes /\ Traced
  BY CostsFrozen DEF TraceInv, Extend
<1>2. /\ \A q, D, T : Reaches(q, D, T)' <=> Reaches(q, D, T)
      /\ \A p, segs : Finds(p, segs)' <=> Finds(p, segs)
  BY <1>1, SearchFrozen, Zenon
<1>3. ASSUME planner # Nobody
      PROVE  ValidJob /\ Reaches(planner, dp', todo')
  <2>1. ValidJob /\ Reaches(planner, dp, todo)
    BY <1>1, <1>3 DEF Traced
  <2>2. dp' = After(planner, dp, s) /\ todo' = todo \ {s}
    BY Zenon DEF Extend, After, AfterLabel, LeadsFor, ExtendedIn, Leads, Extended
  <2>3. s \in PendingIn(dp, todo) /\ IsNext(s, PendingIn(dp, todo))
    BY DEF Extend, Pending, PendingIn
  <2>4. /\ <<dp, todo>>[1] = dp /\ <<dp, todo>>[2] = todo
    OBVIOUS
  <2>5. StepOf(planner, <<dp, todo>>, <<dp', todo'>>)
    BY <2>2, <2>3, <2>4, Zenon DEF StepOf
  <2> QED BY <2>1, <2>5, TraceMore
<1> QED BY <1>1, <1>2, <1>3, Zenon DEF Traced

LEMMA ChooseTraced ==
  ASSUME TraceInv, Choose
  PROVE  Traced'
<1>1. /\ job' = job /\ planner' = Nobody /\ planner \in Device /\ planner # Nobody
      /\ (ValidJob' <=> ValidJob) /\ PlanTypes /\ Traced
  BY CostsFrozen DEF TraceInv, Choose, PlanTypes
<1>2. \A p, segs : Finds(p, segs)' <=> Finds(p, segs)
  BY <1>1, SearchFrozen, Zenon
<1>3. ValidJob /\ Reaches(planner, dp, todo) /\ PendingIn(dp, todo) = {}
  BY <1>1 DEF Traced, Choose, Pending, PendingIn
<1>4. CompleteIn(dp) = Complete /\ FinalistsIn(dp) = Finalists
  BY DEF CompleteIn, Complete, FinalistsIn, Finalists
<1>5. PICK segs \in Seq(Seg) : plan' = [plan EXCEPT ![planner] = Planned(segs)] /\ ResultOf(dp, segs)
  <2>1. CASE Complete = {}
    <3>1. plan' = [plan EXCEPT ![planner] = Planned(<<>>)] /\ <<>> \in Seq(Seg)
      BY <2>1 DEF Choose
    <3> QED BY <1>4, <2>1, <3>1 DEF ResultOf
  <2>2. CASE Complete # {}
    <3>1. PICK s \in States : IsWinner(s) /\ plan' = [plan EXCEPT ![planner] = Planned(dp[s].segs)]
      BY <2>2 DEF Choose
    <3>2. dp[s].segs \in Seq(Seg)
      BY <1>1 DEF PlanTypes, Label
    <3> QED BY <1>4, <2>2, <3>1, <3>2 DEF ResultOf, IsWinner
  <2> QED BY <2>1, <2>2
<1>6. Finds(planner, segs)
  BY <1>3, <1>5 DEF Finds
<1>7. ASSUME NEW p \in Device, plan'[p].done
      PROVE  Finds(p, plan'[p].segs)
  <2>1. CASE p = planner
    <3>1. plan'[p].segs = segs
      BY <1>1, <1>5, <2>1, PlanSet
    <3> QED BY <1>6, <2>1, <3>1
  <2>2. CASE p # planner
    <3>1. plan'[p] = plan[p]
      BY <1>1, <1>5, <2>2, PlanSet
    <3> QED BY <1>1, <1>3, <1>7, <3>1 DEF Traced
  <2> QED BY <2>1, <2>2
<1> QED BY <1>1, <1>2, <1>3, <1>7, Zenon DEF Traced

LEMMA StepTraced ==
  ASSUME TraceInv, PlanTypes', [PlanNext]_planVars
  PROVE  TraceInv'
<1>1. CASE UNCHANGED planVars
  <2>1. /\ job' = job /\ planner' = planner /\ dp' = dp /\ todo' = todo /\ plan' = plan
        /\ (ValidJob' <=> ValidJob) /\ Traced
    BY <1>1, CostsFrozen DEF planVars, TraceInv
  <2>2. /\ \A q, D, T : Reaches(q, D, T)' <=> Reaches(q, D, T)
        /\ \A p, segs : Finds(p, segs)' <=> Finds(p, segs)
    BY <2>1, SearchFrozen, Zenon
  <2>3. Traced'
    BY <2>1, <2>2, Zenon DEF Traced
  <2> QED BY <2>3 DEF TraceInv
<1> QED BY <1>1, BeginTraced, ExtendTraced, ChooseTraced DEF PlanNext, TraceInv

LEMMA InitTraced ==
  ASSUME PlanInit
  PROVE  TraceInv
<1>1. PlanTypes
  BY InitSearch DEF SearchInv
<1>2. planner = Nobody /\ \A q \in Device : ~ plan[q].done
  BY DEF PlanInit
<1> QED BY <1>1, <1>2 DEF TraceInv, Traced

LEMMA TraceAlways == PlanSpec => []TraceInv
<1>1. PlanInit => TraceInv
  BY InitTraced
<1>2. SearchInv' => PlanTypes'
  BY DEF SearchInv
<1>3. TraceInv /\ SearchInv' /\ [PlanNext]_planVars => TraceInv'
  BY <1>2, StepTraced
<1> QED BY <1>1, <1>3, SearchAlways, PTL DEF PlanSpec

LEMMA TraceInvEnough ==
  ASSUME TraceInv
  PROVE  PlannersAgree
<1> SUFFICES ASSUME NEW p \in Device, NEW q \in Device, plan[p].done, plan[q].done,
                    job.kv[p] = job.kv[q]
             PROVE  plan[p] = plan[q]
  BY DEF PlannersAgree
<1>1. plan[p].segs = plan[q].segs
  <2>1. CASE ValidJob
    <3>1. Finds(p, plan[p].segs) /\ Finds(q, plan[q].segs)
      BY <2>1 DEF TraceInv, Traced
    <3>2. Finds(q, plan[p].segs)
      BY <3>1, SameSearch
    <3> QED BY <3>1, <3>2, FindsOne
  <2>2. CASE ~ ValidJob
    BY <2>2 DEF TraceInv, Traced
  <2> QED BY <2>1, <2>2
<1>2. plan[p] \in [done : BOOLEAN, segs : Seq(Seg)] /\ plan[q] \in [done : BOOLEAN, segs : Seq(Seg)]
  BY DEF TraceInv, PlanTypes
<1>3. plan[p] = [done |-> plan[p].done, segs |-> plan[p].segs]
  BY <1>2
<1>4. plan[q] = [done |-> plan[q].done, segs |-> plan[q].segs]
  BY <1>2
<1>5. plan[p].done = TRUE /\ plan[q].done = TRUE
  BY <1>2
<1> QED BY <1>1, <1>3, <1>4, <1>5, Zenon

(* Whatever the profile and however the searches interleave with the rest  *)
(* of the deployment: processes with the same cache limit that finished    *)
(* their search hold the same plan, ties in the scores included.           *)
THEOREM PlansAgree == Spec => []PlannersAgree
BY PlansAlone, TraceAlways, TraceInvEnough, PTL
-----------------------------------------------------------------------------
(* From plans to running blocks.                                           *)

Running(q) == up[q] \in {"loading", "up"}

DeployTypes ==
  /\ \E m \in Device : job.role[m] = "master"
  /\ up \in [Device -> {"off", "loading", "up", "failed"}]
  /\ hosted = [q \in Device |-> hosted[q]] /\ topology = [q \in Device |-> topology[q]]
  /\ IsFiniteSet(DOMAIN file) /\ \A n \in DOMAIN file : file[n].host \in Device
  /\ \A q \in Device : /\ IsFiniteSet(DOMAIN topology[q])
                       /\ \A n \in DOMAIN topology[q] : topology[q][n].host \in Device
  /\ up[MasterProcess] = "up" => owner \in [Layers -> Device]

(* A worker has blocks only once it is up, and then all of its node's.     *)
Loaded ==
  \A q \in Device :
    /\ hosted[q] # {} => up[q] = "up"
    /\ q \in Workers /\ up[q] = "up" /\ name[q] \in DOMAIN topology[q] =>
         topology[q][name[q]].layers \subseteq hosted[q]

PassOK ==
  /\ at \in 0 .. NL /\ ran \in Seq(Device \X Layers)
  /\ outcome \in {"none", "done", "refused"}
  /\ outcome = "none" => Len(ran) = at
  /\ EachLayerOnce

PassInv == DeployTypes /\ Loaded /\ PassOK

LEMMA Rigid ==
  ASSUME [Next]_vars
  PROVE  job' = job /\ setting' = setting /\ file' = file /\ name' = name
<1>1. CASE Plans
  BY <1>1 DEF Plans, placeVars, PlanNext, Choose, Begin, Extend
<1>2. CASE StartMaster \/ RunLocal \/ RunRemote \/ Finish
  BY <1>2 DEF StartMaster, RunLocal, RunRemote, Finish, planVars
<1>3. ASSUME NEW q \in Device, GetTopology(q) \/ StartWorker(q)
      PROVE  job' = job /\ setting' = setting /\ file' = file /\ name' = name
  BY <1>3 DEF GetTopology, StartWorker, planVars
<1>4. CASE UNCHANGED vars
  BY <1>4 DEF vars, planVars, placeVars
<1> QED BY <1>1, <1>2, <1>3, <1>4 DEF Next

LEMMA MasterFrozen ==
  ASSUME job' = job
  PROVE  /\ MasterProcess' = MasterProcess /\ Workers' = Workers
         /\ \A segs : PlannedTopology(segs)' = PlannedTopology(segs)
<1>1. MasterProcess' = MasterProcess
  BY DEF MasterProcess
<1>2. Workers' = Workers
  BY <1>1 DEF Workers
<1>3. ASSUME NEW segs
      PROVE  PlannedTopology(segs)' = PlannedTopology(segs)
  <2>1. {w \in Device : IsWorker(w)}' = {w \in Device : IsWorker(w)}
    BY DEF IsWorker
  <2> QED BY <2>1 DEF PlannedTopology
<1> QED BY <1>1, <1>2, <1>3

LEMMA MasterIs ==
  ASSUME \E m \in Device : job.role[m] = "master"
  PROVE  MasterProcess \in Device /\ job.role[MasterProcess] = "master" /\ ~ IsWorker(MasterProcess)
<1>1. MasterProcess \in Device /\ job.role[MasterProcess] = "master"
  BY DEF MasterProcess
<1> QED BY <1>1 DEF IsWorker

LEMMA OwnerOf ==
  ASSUME NEW T, IsFiniteSet(DOMAIN T), NEW order \in SetToSeqs(DOMAIN T), NEW l
  PROVE  \/ OwnerIn(T, order, l) = MasterProcess
         \/ \E d \in DOMAIN T : l \in T[d].layers /\ OwnerIn(T, order, l) = T[d].host
<1> DEFINE claims == {i \in DOMAIN order : order[i] \in Owners(T, l)}
<1>1. CASE claims = {}
  BY <1>1 DEF OwnerIn
<1>2. CASE claims # {}
  <2>1. Cardinality(DOMAIN T) \in Nat /\ order \in [1 .. Cardinality(DOMAIN T) -> DOMAIN T]
    BY FS_CardinalityType DEF SetToSeqs
  <2>2. claims \in SUBSET Nat
    BY <2>1
  <2> HIDE DEF claims
  <2>3. \E b \in claims : \A c \in claims : b <= c
    BY <1>2, <2>2, Smallest
  <2>4. Min(claims) \in claims
    BY <2>3 DEF Min
  <2>5. OwnerIn(T, order, l) = T[order[Min(claims)]].host
    BY <1>2 DEF OwnerIn, claims
  <2>6. order[Min(claims)] \in Owners(T, l)
    BY <2>4 DEF claims
  <2> QED BY <2>5, <2>6 DEF Owners
<1> QED BY <1>1, <1>2

LEMMA GroupIs ==
  ASSUME NEW b \in Layers
  PROVE  /\ GroupEnd(b) \in b .. NL - 1 /\ GroupEnd(b) \in Nat /\ b \in Nat
         /\ \A l \in b .. GroupEnd(b) : l \in Layers /\ owner[l] = owner[b]
<1> DEFINE E == {e \in b .. NL - 1 : \A l \in b .. e : owner[l] = owner[b]}
<1>1. b \in Nat /\ b <= NL - 1 /\ NL - 1 \in Nat
  BY Sizes DEF Layers
<1>2. b \in E
  <2>1. \A l \in b .. b : l = b
    BY <1>1
  <2> QED BY <1>1, <2>1
<1>3. E \in SUBSET (0 .. NL - 1)
  BY <1>1
<1> HIDE DEF E
<1>4. Max(E) \in E
  BY <1>1, <1>2, <1>3, Largest
<1>5. GroupEnd(b) = Max(E)
  BY DEF GroupEnd, E
<1>6. GroupEnd(b) \in b .. NL - 1 /\ \A l \in b .. GroupEnd(b) : owner[l] = owner[b]
  BY <1>4, <1>5 DEF E
<1> QED BY <1>1, <1>6 DEF Layers

(* The first blocks of a request, up to one that is missing.               *)
LEMMA FirstOnes ==
  ASSUME NEW n \in Nat, NEW G \in SUBSET (1 .. n), \A i \in G : \A j \in 1 .. i : j \in G
  PROVE  Cardinality(G) \in 0 .. n /\ G = 1 .. Cardinality(G)
<1>1. CASE G = {}
  BY <1>1, FS_EmptySet
<1>2. CASE G # {}
  <2> DEFINE m == Max(G)
  <2>1. G \in SUBSET (0 .. n)
    OBVIOUS
  <2>2. m \in G /\ \A x \in G : x <= m
    BY <1>2, <2>1, Largest
  <2> HIDE DEF m
  <2>3. m \in 1 .. n
    BY <2>2
  <2>4. G = 1 .. m
    <3>1. ASSUME NEW x \in G
          PROVE  x \in 1 .. m
      BY <2>2, <2>3
    <3>2. ASSUME NEW x \in 1 .. m
          PROVE  x \in G
      BY <2>2
    <3> QED BY <3>1, <3>2
  <2>5. Cardinality(1 .. m) = m
    BY <2>3, FS_Interval
  <2> QED BY <2>3, <2>4, <2>5
<1> QED BY <1>1, <1>2
-----------------------------------------------------------------------------
(* A pass of the master.                                                   *)

LEMMA PassInit ==
  ASSUME Init
  PROVE  PassInv
<1>1. PICK d \in Deployments : job = d.job /\ file = d.file
  BY DEF Init
<1>2. /\ \E m \in Device : job.role[m] = "master"
      /\ IsFiniteSet(DOMAIN file) /\ \A n \in DOMAIN file : file[n].host \in Device
  BY <1>1, PlacementAssumption DEF DeploymentOK
<1>3. /\ topology = [q \in Device |-> NoFile] /\ up = [q \in Device |-> "off"]
      /\ hosted = [q \in Device |-> {}] /\ at = 0 /\ ran = <<>> /\ outcome = "none"
  BY DEF Init
<1>4. MasterProcess \in Device
  BY <1>2, MasterIs
<1>5. DOMAIN NoFile = {} /\ IsFiniteSet(DOMAIN NoFile)
  BY FS_EmptySet DEF NoFile
<1>6. DeployTypes
  <2>1. up[MasterProcess] # "up"
    BY <1>3, <1>4
  <2>2. \A q \in Device : topology[q] = NoFile
    BY <1>3
  <2> QED BY <1>2, <1>3, <1>5, <2>1, <2>2 DEF DeployTypes
<1>7. Loaded
  BY <1>3 DEF Loaded
<1>8. PassOK
  BY <1>3, Sizes DEF PassOK, EachLayerOnce
<1> QED BY <1>6, <1>7, <1>8 DEF PassInv

LEMMA PassQuiet ==
  ASSUME PassInv, job' = job, file' = file, name' = name,
         topology' = topology, up' = up, hosted' = hosted, owner' = owner,
         at' = at, ran' = ran, outcome' = outcome
  PROVE  PassInv'
<1>1. MasterProcess' = MasterProcess /\ Workers' = Workers
  BY MasterFrozen
<1>2. DeployTypes'
  BY <1>1 DEF PassInv, DeployTypes
<1>3. Loaded'
  BY <1>1 DEF PassInv, Loaded
<1>4. PassOK'
  BY <1>1 DEF PassInv, PassOK, EachLayerOnce
<1> QED BY <1>2, <1>3, <1>4 DEF PassInv

LEMMA PassGet ==
  ASSUME PassInv, NEW q \in Device, GetTopology(q)
  PROVE  PassInv'
<1>1. /\ job' = job /\ file' = file /\ name' = name /\ hosted' = hosted /\ owner' = owner
      /\ at' = at /\ ran' = ran /\ outcome' = outcome /\ up[q] = "off"
  BY DEF GetTopology, planVars
<1>2. MasterProcess' = MasterProcess /\ Workers' = Workers
  BY <1>1, MasterFrozen
<1>3. PICK T, u : /\ up' = [up EXCEPT ![q] = u] /\ u \in {"loading", "failed"}
                  /\ topology' = [topology EXCEPT ![q] = T]
                  /\ IsFiniteSet(DOMAIN T) /\ \A n \in DOMAIN T : T[n].host \in Device
  <2>1. /\ IsFiniteSet(DOMAIN topology[q])
        /\ \A n \in DOMAIN topology[q] : topology[q][n].host \in Device
        /\ topology = [topology EXCEPT ![q] = topology[q]]
    BY DEF PassInv, DeployTypes
  <2>2. ASSUME NEW segs
        PROVE  LET P == PlannedTopology(segs) IN
               IsFiniteSet(DOMAIN P) /\ \A n \in DOMAIN P : P[n].host \in Device
    <3>1. DOMAIN PlannedTopology(segs) = {w \in Device : IsWorker(w)}
      BY DEF PlannedTopology
    <3>2. IsFiniteSet({w \in Device : IsWorker(w)})
      BY Sizes, FS_Subset
    <3>3. \A n \in DOMAIN PlannedTopology(segs) : PlannedTopology(segs)[n].host \in Device
      BY DEF PlannedTopology
    <3> QED BY <3>1, <3>2, <3>3
  <2>3. LET P == FileTopology(file) IN
        IsFiniteSet(DOMAIN P) /\ \A n \in DOMAIN P : P[n].host \in Device
    BY DEF PassInv, DeployTypes, FileTopology
  <2>4. CASE up' = [up EXCEPT ![q] = "failed"] /\ topology' = topology
    BY <2>1, <2>4
  <2>5. CASE /\ up' = [up EXCEPT ![q] = "loading"]
             /\ topology' = [topology EXCEPT ![q] = PlannedTopology(plan[q].segs)]
    BY <2>2, <2>5
  <2>6. CASE /\ up' = [up EXCEPT ![q] = "loading"]
             /\ topology' = [topology EXCEPT ![q] = FileTopology(file)]
    BY <2>3, <2>6
  <2> QED BY <2>4, <2>5, <2>6, Zenon DEF GetTopology
<1>4. /\ up \in [Device -> {"off", "loading", "up", "failed"}]
      /\ topology = [p \in Device |-> topology[p]]
  BY DEF PassInv, DeployTypes
<1>5. /\ up' \in [Device -> {"off", "loading", "up", "failed"}]
      /\ topology' = [p \in Device |-> topology'[p]]
      /\ up'[q] # "up" /\ \A p \in Device : p # q => up'[p] = up[p] /\ topology'[p] = topology[p]
      /\ topology'[q] = T
  BY <1>3, <1>4
<1>6. DeployTypes'
  <2>1. \A p \in Device : /\ IsFiniteSet(DOMAIN topology'[p])
                          /\ \A n \in DOMAIN topology'[p] : topology'[p][n].host \in Device
    BY <1>3, <1>5 DEF PassInv, DeployTypes
  <2>2. up'[MasterProcess] = "up" => owner \in [Layers -> Device]
    <3>1. MasterProcess \in Device
      BY MasterIs DEF PassInv, DeployTypes
    <3> QED BY <1>5, <3>1 DEF PassInv, DeployTypes
  <2> QED BY <1>1, <1>2, <1>5, <2>1, <2>2 DEF PassInv, DeployTypes
<1>7. Loaded'
  BY <1>1, <1>2, <1>5 DEF PassInv, Loaded
<1>8. PassOK'
  BY <1>1, <1>2 DEF PassInv, PassOK, EachLayerOnce
<1> QED BY <1>6, <1>7, <1>8 DEF PassInv

LEMMA PassWorker ==
  ASSUME PassInv, NEW q \in Device, StartWorker(q)
  PROVE  PassInv'
<1>1. /\ job' = job /\ file' = file /\ name' = name /\ topology' = topology /\ owner' = owner
      /\ at' = at /\ ran' = ran /\ outcome' = outcome /\ up[q] = "loading" /\ q \in Workers
  BY DEF StartWorker, planVars
<1>2. MasterProcess' = MasterProcess /\ Workers' = Workers
  BY <1>1, MasterFrozen
<1>3. \A S : S \subseteq Hosts(S)
  BY DEF Hosts
<1> DEFINE Starts(H, u) ==
             /\ up' = [up EXCEPT ![q] = u] /\ u \in {"up", "failed"}
             /\ hosted' = [hosted EXCEPT ![q] = H]
             /\ u = "up" /\ name[q] \in DOMAIN topology[q] =>
                  topology[q][name[q]].layers \subseteq H
             /\ u = "failed" => H = {}
<1>4. PICK H, u : Starts(H, u)
  <2>1. hosted[q] = {} /\ hosted = [hosted EXCEPT ![q] = {}]
    BY <1>1 DEF PassInv, Loaded, DeployTypes
  <2>2. CASE up' = [up EXCEPT ![q] = "failed"] /\ hosted' = hosted
    <3>1. Starts({}, "failed")
      BY <2>1, <2>2
    <3> HIDE DEF Starts
    <3> QED BY <3>1
  <2>3. ASSUME NEW d \in NodesFor(q),
               hosted' = [hosted EXCEPT ![q] = Hosts(topology[q][d].layers)],
               up' = [up EXCEPT ![q] = "up"]
        PROVE  \E H, u : Starts(H, u)
    <3>1. name[q] \in DOMAIN topology[q] => d = name[q]
      BY <2>3 DEF NodesFor
    <3>2. Starts(Hosts(topology[q][d].layers), "up")
      BY <1>3, <2>3, <3>1
    <3> HIDE DEF Starts
    <3> QED BY <3>2
  <2> HIDE DEF Starts
  <2> QED BY <2>2, <2>3, Zenon DEF StartWorker
<1>5. /\ up \in [Device -> {"off", "loading", "up", "failed"}]
      /\ hosted = [p \in Device |-> hosted[p]]
      /\ MasterProcess \in Device /\ q # MasterProcess
  BY <1>1, MasterIs DEF PassInv, DeployTypes, Workers
<1>6. /\ up' \in [Device -> {"off", "loading", "up", "failed"}]
      /\ hosted' = [p \in Device |-> hosted'[p]]
      /\ up'[q] = u /\ hosted'[q] = H
      /\ \A p \in Device : p # q => up'[p] = up[p] /\ hosted'[p] = hosted[p]
  BY <1>4, <1>5
<1>7. DeployTypes'
  BY <1>1, <1>2, <1>5, <1>6 DEF PassInv, DeployTypes
<1>8. Loaded'
  <2> SUFFICES ASSUME NEW p \in Device
               PROVE  /\ hosted'[p] # {} => up'[p] = "up"
                      /\ p \in Workers /\ up'[p] = "up" /\ name[p] \in DOMAIN topology[p] =>
                           topology[p][name[p]].layers \subseteq hosted'[p]
    BY <1>1, <1>2 DEF Loaded
  <2>1. CASE p = q
    BY <1>4, <1>6, <2>1
  <2>2. CASE p # q
    BY <1>6, <2>2 DEF PassInv, Loaded
  <2> QED BY <2>1, <2>2
<1>9. PassOK'
  <2>1. hosted[q] = {}
    BY <1>1 DEF PassInv, Loaded
  <2>2. ASSUME NEW i \in DOMAIN ran
        PROVE  /\ ran[i][2] = i - 1
               /\ ran[i][1] = MasterProcess \/ ran[i][2] \in hosted'[ran[i][1]]
    <3>1. /\ ran[i][2] = i - 1
          /\ ran[i][1] = MasterProcess \/ ran[i][2] \in hosted[ran[i][1]]
      BY DEF PassInv, PassOK, EachLayerOnce
    <3>2. ran[i][1] \in Device
      BY DEF PassInv, PassOK
    <3> QED BY <1>6, <2>1, <3>1, <3>2
  <2> QED BY <1>1, <1>2, <2>2 DEF PassInv, PassOK, EachLayerOnce
<1> QED BY <1>7, <1>8, <1>9 DEF PassInv
LEMMA PassMaster ==
  ASSUME PassInv, StartMaster
  PROVE  PassInv'
<1>1. /\ job' = job /\ file' = file /\ name' = name /\ topology' = topology /\ hosted' = hosted
      /\ at' = at /\ ran' = ran /\ outcome' = outcome /\ up[MasterProcess] = "loading"
  BY DEF StartMaster, planVars
<1>2. MasterProcess' = MasterProcess /\ Workers' = Workers
  BY <1>1, MasterFrozen
<1> DEFINE M == MasterProcess
<1>3. M \in Device /\ up \in [Device -> {"off", "loading", "up", "failed"}]
  BY MasterIs DEF PassInv, DeployTypes
<1>4. PICK u, own : /\ up' = [up EXCEPT ![M] = u] /\ u \in {"up", "failed"} /\ owner' = own
                    /\ u = "up" => own \in [Layers -> Device]
  <2>1. PICK order \in SetToSeqs(DOMAIN topology[M]) :
          LET found == [l \in Layers |-> OwnerIn(topology[M], order, l)] IN
          \/ owner' = found /\ up' = [up EXCEPT ![M] = "up"]
          \/ owner' = owner /\ up' = [up EXCEPT ![M] = "failed"]
    BY Zenon DEF StartMaster
  <2> DEFINE found == [l \in Layers |-> OwnerIn(topology[M], order, l)]
  <2>2. ASSUME NEW l \in Layers
        PROVE  OwnerIn(topology[M], order, l) \in Device
    <3>1. /\ IsFiniteSet(DOMAIN topology[M])
          /\ \A n \in DOMAIN topology[M] : topology[M][n].host \in Device
      BY <1>3 DEF PassInv, DeployTypes
    <3> HIDE DEF M
    <3>2. \/ OwnerIn(topology[M], order, l) = MasterProcess
          \/ \E d \in DOMAIN topology[M] : /\ l \in topology[M][d].layers
                                           /\ OwnerIn(topology[M], order, l) = topology[M][d].host
      BY <3>1, OwnerOf
    <3> QED BY <1>3, <3>1, <3>2 DEF M
  <2>3. found \in [Layers -> Device]
    BY <2>2
  <2> HIDE DEF found
  <2>4. \/ owner' = found /\ up' = [up EXCEPT ![M] = "up"]
        \/ owner' = owner /\ up' = [up EXCEPT ![M] = "failed"]
    BY <2>1 DEF found
  <2> QED BY <2>3, <2>4
<1> HIDE DEF M
<1>5. /\ up' \in [Device -> {"off", "loading", "up", "failed"}] /\ up'[M] = u
      /\ \A p \in Device : p # M => up'[p] = up[p]
  BY <1>3, <1>4
<1>6. up'[M] = "up" => owner' \in [Layers -> Device]
  BY <1>4, <1>5
<1>7. DeployTypes'
  BY <1>1, <1>2, <1>5, <1>6 DEF PassInv, DeployTypes, M
<1>8. Loaded'
  <2> SUFFICES ASSUME NEW p \in Device
               PROVE  /\ hosted[p] # {} => up'[p] = "up"
                      /\ p \in Workers /\ up'[p] = "up" /\ name[p] \in DOMAIN topology[p] =>
                           topology[p][name[p]].layers \subseteq hosted[p]
    BY <1>1, <1>2 DEF Loaded
  <2>1. CASE p = M
    <3>1. hosted[p] = {} /\ p \notin Workers
      BY <1>1, <2>1 DEF PassInv, Loaded, M, Workers
    <3> QED BY <3>1
  <2>2. CASE p # M
    BY <1>5, <2>2 DEF PassInv, Loaded
  <2> QED BY <2>1, <2>2
<1>9. PassOK'
  BY <1>1, <1>2 DEF PassInv, PassOK, EachLayerOnce
<1> QED BY <1>7, <1>8, <1>9 DEF PassInv

LEMMA PassLocal ==
  ASSUME PassInv, RunLocal
  PROVE  PassInv'
<1>1. /\ job' = job /\ file' = file /\ name' = name /\ topology' = topology /\ hosted' = hosted
      /\ owner' = owner /\ up' = up /\ outcome' = outcome /\ outcome = "none" /\ at < NL
      /\ ran' = Append(ran, <<MasterProcess, at>>) /\ at' = at + 1
  BY DEF RunLocal, planVars
<1>2. MasterProcess' = MasterProcess /\ Workers' = Workers /\ MasterProcess \in Device
  BY <1>1, MasterFrozen, MasterIs DEF PassInv, DeployTypes
<1>3. DeployTypes' /\ Loaded'
  BY <1>1, <1>2 DEF PassInv, DeployTypes, Loaded
<1>4. /\ at \in Nat /\ at \in Layers /\ at' \in 0 .. NL /\ Len(ran) = at
      /\ ran \in Seq(Device \X Layers)
  BY <1>1, Sizes DEF PassInv, PassOK, Layers
<1>5. <<MasterProcess, at>> \in Device \X Layers
  BY <1>2, <1>4
<1>6. /\ ran' \in Seq(Device \X Layers) /\ Len(ran') = at + 1 /\ DOMAIN ran' = 1 .. at + 1
      /\ ran'[at + 1] = <<MasterProcess, at>> /\ \A i \in 1 .. at : ran'[i] = ran[i]
  BY <1>1, <1>4, <1>5
<1>7. ASSUME NEW i \in DOMAIN ran'
      PROVE  /\ ran'[i][2] = i - 1
             /\ ran'[i][1] = MasterProcess \/ ran'[i][2] \in hosted[ran'[i][1]]
  <2>1. CASE i = at + 1
    BY <1>4, <1>6, <2>1
  <2>2. CASE i # at + 1
    <3>1. i \in 1 .. at /\ i \in DOMAIN ran
      BY <1>4, <1>6, <2>2
    <3> QED BY <1>6, <3>1 DEF PassInv, PassOK, EachLayerOnce
  <2> QED BY <2>1, <2>2
<1>8. PassOK'
  BY <1>1, <1>2, <1>4, <1>6, <1>7 DEF PassInv, PassOK, EachLayerOnce
<1> QED BY <1>3, <1>8 DEF PassInv

LEMMA PassFinish ==
  ASSUME PassInv, Finish
  PROVE  PassInv'
<1>1. /\ job' = job /\ file' = file /\ name' = name /\ topology' = topology /\ hosted' = hosted
      /\ owner' = owner /\ up' = up /\ outcome' = "done" /\ outcome = "none" /\ at = NL
      /\ ran' = ran /\ at' = at
  BY DEF Finish, planVars
<1>2. MasterProcess' = MasterProcess /\ Workers' = Workers
  BY <1>1, MasterFrozen
<1>3. DeployTypes' /\ Loaded'
  BY <1>1, <1>2 DEF PassInv, DeployTypes, Loaded
<1>4. PassOK'
  BY <1>1, <1>2 DEF PassInv, PassOK, EachLayerOnce
<1> QED BY <1>3, <1>4 DEF PassInv

(* What a request runs: the blocks up to the first that is missing.        *)
RunsUpTo(ops, b, e, H) ==
  LET good == Cardinality({i \in DOMAIN ops : \A j \in 1 .. i : ops[j] \in H}) IN
  /\ Len(ops) = e - b + 1 /\ DOMAIN ops = 1 .. e - b + 1
  /\ \A i \in 1 .. e - b + 1 : ops[i] = b + i - 1
  /\ good \in 0 .. Len(ops) /\ \A i \in 1 .. good : ops[i] \in H
  /\ (\A l \in b .. e : l \in H) => good = Len(ops)

LEMMA RequestRuns ==
  ASSUME NEW b \in Nat, NEW e \in Nat, b <= e, NEW encoding, NEW H
  PROVE  RunsUpTo(Asked(Request(encoding, b, e)), b, e, H)
<1> DEFINE n == e - b + 1
           ops == Asked(Request(encoding, b, e))
           G == {i \in DOMAIN ops : \A j \in 1 .. i : ops[j] \in H}
<1>1. n \in Nat
  OBVIOUS
<1>2. ops = [i \in 1 .. n |-> b + i - 1]
  BY DEF Asked, Request, LayersUpTo
<1>3. Len(ops) = n /\ DOMAIN ops = 1 .. n /\ \A i \in 1 .. n : ops[i] = b + i - 1
  BY <1>1, <1>2
<1> HIDE DEF n, ops
<1>4. G \in SUBSET (1 .. n)
  BY <1>3
<1>5. ASSUME NEW i \in G, NEW j \in 1 .. i
      PROVE  j \in G
  <2>1. i \in 1 .. n /\ j \in 1 .. n /\ \A k \in 1 .. j : k \in 1 .. i
    BY <1>1, <1>4
  <2> QED BY <1>3, <2>1
<1>6. Cardinality(G) \in 0 .. n /\ G = 1 .. Cardinality(G)
  <2> HIDE DEF G
  <2> QED BY <1>1, <1>4, <1>5, FirstOnes
<1>7. ASSUME NEW i \in 1 .. Cardinality(G)
      PROVE  ops[i] \in H
  <2>1. i \in G /\ i \in 1 .. i
    BY <1>4, <1>6
  <2> QED BY <2>1
<1>8. ASSUME \A l \in b .. e : l \in H
      PROVE  Cardinality(G) = n
  <2>1. ASSUME NEW i \in 1 .. n
        PROVE  ops[i] \in H
    <3>1. b + i - 1 \in b .. e
      BY <1>1 DEF n
    <3> QED BY <1>3, <1>8, <3>1
  <2>2. G = 1 .. n
    <3>1. \A i \in 1 .. n : \A j \in 1 .. i : j \in 1 .. n
      BY <1>1
    <3> QED BY <1>3, <1>4, <2>1, <3>1
  <2> HIDE DEF G
  <2>3. Cardinality(1 .. n) = n
    BY <1>1, FS_Interval
  <2> QED BY <2>2, <2>3
<1> QED BY <1>3, <1>6, <1>7, <1>8, Zenon DEF RunsUpTo, n, ops, G

LEMMA Joins ==
  ASSUME NEW S, NEW s \in Seq(S), NEW t \in Seq(S)
  PROVE  /\ s \o t \in Seq(S) /\ Len(s \o t) = Len(s) + Len(t)
         /\ \A i \in 1 .. Len(s) : (s \o t)[i] = s[i]
         /\ \A i \in 1 .. Len(t) : (s \o t)[Len(s) + i] = t[i]
OBVIOUS
LEMMA PassRemote ==
  ASSUME PassInv, RunRemote
  PROVE  PassInv'
<1> DEFINE w == owner[at]
           e == GroupEnd(at)
           r == Request(setting.encoding, at, e)
           ops == Asked(r)
           good == Cardinality({i \in DOMAIN ops : \A j \in 1 .. i : ops[j] \in hosted[w]})
           runs == IF Unnamed(r, hosted[w]) THEN 0 ELSE good
           more == [i \in 1 .. runs |-> <<w, ops[i]>>]
<1>1. /\ job' = job /\ file' = file /\ name' = name /\ topology' = topology /\ hosted' = hosted
      /\ owner' = owner /\ up' = up /\ outcome = "none" /\ at < NL /\ up[MasterProcess] = "up"
      /\ ran' = ran \o more
      /\ \/ good = Len(ops) /\ at' = e + 1 /\ outcome' = outcome
         \/ good # Len(ops) /\ at' = at /\ outcome' = "refused"
  BY Zenon DEF RunRemote, planVars
<1>2. MasterProcess' = MasterProcess /\ Workers' = Workers
  BY <1>1, MasterFrozen
<1>3. DeployTypes' /\ Loaded'
  BY <1>1, <1>2 DEF PassInv, DeployTypes, Loaded
<1>4. /\ at \in Nat /\ at \in Layers /\ Len(ran) = at /\ ran \in Seq(Device \X Layers)
  BY <1>1, Sizes DEF PassInv, PassOK, Layers
<1>5. w \in Device
  BY <1>1, <1>4 DEF PassInv, DeployTypes
<1>6. e \in Nat /\ e <= NL - 1 /\ at <= e
  BY <1>4, GroupIs, Sizes
<1>7. /\ Len(ops) = e - at + 1 /\ \A i \in 1 .. e - at + 1 : ops[i] = at + i - 1
      /\ good \in 0 .. Len(ops) /\ \A i \in 1 .. good : ops[i] \in hosted[w]
      /\ DOMAIN ops = 1 .. Len(ops)
  <2>1. RunsUpTo(ops, at, e, hosted[w])
    <3> HIDE DEF e, w
    <3> QED BY <1>4, <1>6, RequestRuns
  <2> HIDE DEF ops, e, w
  <2> QED BY <2>1 DEF RunsUpTo
<1> HIDE DEF w, e, r, good
<1>8. /\ runs \in 0 .. Len(ops) /\ runs \in Nat /\ runs <= good
      /\ good = Len(ops) => runs = Len(ops)
  <2>1. good = Len(ops) => ~ Unnamed(r, hosted[w])
    BY <1>7 DEF Unnamed
  <2> HIDE DEF ops
  <2> QED BY <1>6, <1>7, <2>1
<1> HIDE DEF runs, ops
<1>9. ASSUME NEW i \in 1 .. runs
      PROVE  /\ ops[i] = at + i - 1 /\ ops[i] \in Layers /\ ops[i] \in hosted[w]
  <2>1. i \in 1 .. e - at + 1 /\ i \in 1 .. good
    BY <1>6, <1>7, <1>8
  <2>2. at + i - 1 \in Layers
    BY <1>4, <1>6, <2>1, Sizes DEF Layers
  <2> QED BY <1>7, <2>1, <2>2
<1>10. /\ more \in Seq(Device \X Layers) /\ Len(more) = runs
       /\ \A i \in 1 .. runs : more[i] = <<w, ops[i]>>
  BY <1>5, <1>8, <1>9
<1> HIDE DEF more
<1>11. /\ ran' \in Seq(Device \X Layers) /\ Len(ran') = at + runs /\ DOMAIN ran' = 1 .. at + runs
       /\ \A i \in 1 .. at : ran'[i] = ran[i]
       /\ \A i \in 1 .. runs : ran'[at + i] = more[i]
  <2>1. /\ ran' \in Seq(Device \X Layers) /\ Len(ran') = Len(ran) + Len(more)
        /\ \A i \in 1 .. Len(ran) : ran'[i] = ran[i]
        /\ \A i \in 1 .. Len(more) : ran'[Len(ran) + i] = more[i]
    <3>1. ran' = ran \o more
      BY <1>1
    <3>2. /\ ran \in Seq(Device \X Layers) /\ more \in Seq(Device \X Layers)
      BY <1>4, <1>10
    <3> QED BY <3>1, <3>2, Joins
  <2>2. Len(ran) = at /\ Len(more) = runs
    BY <1>4, <1>10
  <2> QED BY <2>1, <2>2
<1>12. ASSUME NEW i \in DOMAIN ran'
       PROVE  /\ ran'[i][2] = i - 1
              /\ ran'[i][1] = MasterProcess \/ ran'[i][2] \in hosted[ran'[i][1]]
  <2>1. CASE i <= at
    <3>1. i \in 1 .. at /\ i \in DOMAIN ran
      BY <1>4, <1>8, <1>11, <2>1
    <3> QED BY <1>11, <3>1 DEF PassInv, PassOK, EachLayerOnce
  <2>2. CASE ~ (i <= at)
    <3>1. i - at \in 1 .. runs /\ at + (i - at) = i /\ at + (i - at) - 1 = i - 1
      BY <1>4, <1>8, <1>11, <2>2
    <3>2. ran'[i] = <<w, ops[i - at]>>
      BY <1>10, <1>11, <3>1
    <3> QED BY <1>9, <3>1, <3>2
  <2> QED BY <2>1, <2>2
<1>13. at' \in 0 .. NL /\ outcome' \in {"none", "done", "refused"} /\ outcome' # "done"
       /\ (outcome' = "none" => Len(ran') = at')
  BY <1>1, <1>4, <1>6, <1>7, <1>8, <1>11, Sizes
<1>14. PassOK'
  BY <1>1, <1>2, <1>11, <1>12, <1>13 DEF PassOK, EachLayerOnce
<1> QED BY <1>3, <1>14 DEF PassInv

LEMMA PassStep ==
  ASSUME PassInv, [Next]_vars
  PROVE  PassInv'
<1>1. CASE Plans
  BY <1>1, Rigid, PassQuiet DEF Plans, placeVars
<1>2. CASE UNCHANGED vars
  BY <1>2, PassQuiet DEF vars, planVars, placeVars
<1> QED BY <1>1, <1>2, PassMaster, PassLocal, PassRemote, PassFinish, PassGet, PassWorker DEF Next

LEMMA PassAlways == Spec => []PassInv
BY PassInit, PassStep, PTL DEF Spec

(* Whatever the topology and whoever claims a layer: each block of a pass  *)
(* runs once, in the order of the layers, on the master or on a process    *)
(* that loaded it, and a pass that is done ran them all.                   *)
THEOREM EachLayerRunsOnce == Spec => []EachLayerOnce
<1>1. PassInv => EachLayerOnce
  BY DEF PassInv, PassOK
<1> QED BY <1>1, PassAlways, PTL
-----------------------------------------------------------------------------
(* Processes that agree on the topology.                                   *)

(* A process does not search again once it has its plan.                   *)
Fresh == planner # Nobody => ~ plan[planner].done

Told ==
  \A q \in Device : Running(q) =>
    IF setting.auto
    THEN /\ plan[q].done /\ plan[q].segs # <<>>
         /\ topology[q] = PlannedTopology(plan[q].segs)
    ELSE topology[q] = FileTopology(file)

OwnersLoaded ==
  Consistent /\ up[MasterProcess] = "up" =>
    \A l \in Layers : owner[l] # MasterProcess => l \in hosted[owner[l]]

TellInv == Fresh /\ Told /\ OwnersLoaded /\ Served

(* What the invariants above say of a state.                               *)
Known == PlanTypes /\ PlannersAgree /\ PassInv

LEMMA ConsistentFrozen ==
  ASSUME job' = job, setting' = setting, file' = file, name' = name
  PROVE  Consistent' <=> Consistent
<1>1. MasterProcess' = MasterProcess
  BY MasterFrozen
<1> QED BY <1>1 DEF Consistent

LEMMA TellInit ==
  ASSUME Init
  PROVE  TellInv
<1>1. /\ planner = Nobody /\ up = [q \in Device |-> "off"] /\ outcome = "none"
  BY DEF Init, PlanInit
<1>2. MasterProcess \in Device
  BY PassInit, MasterIs DEF PassInv, DeployTypes
<1> QED BY <1>1, <1>2 DEF TellInv, Fresh, Told, Running, OwnersLoaded, Served

LEMMA TellPlans ==
  ASSUME TellInv, Known, Plans
  PROVE  TellInv'
<1>1. /\ job' = job /\ setting' = setting /\ file' = file /\ name' = name
      /\ topology' = topology /\ up' = up /\ hosted' = hosted /\ owner' = owner /\ outcome' = outcome
  BY Rigid DEF Plans, placeVars, Next
<1>2. MasterProcess' = MasterProcess /\ (Consistent' <=> Consistent)
      /\ \A segs : PlannedTopology(segs)' = PlannedTopology(segs)
  BY <1>1, MasterFrozen, ConsistentFrozen
<1>3. PlanTypes /\ Fresh /\ <<>> \in Seq(Seg)
  BY DEF Known, TellInv
<1>4. /\ Fresh' /\ \A q \in Device : plan[q].done => plan'[q] = plan[q]
  <2>1. ASSUME NEW q \in Device, Begin(q)
        PROVE  /\ Fresh' /\ \A p \in Device : plan[p].done => plan'[p] = plan[p]
    <3>1. planner = Nobody /\ ~ plan[q].done
      BY <2>1 DEF Begin
    <3>2. CASE plan' = plan /\ planner' = q
      BY <3>1, <3>2 DEF Fresh
    <3>3. CASE plan' = [plan EXCEPT ![q] = Planned(<<>>)] /\ planner' = planner
      <4>1. \A p \in Device : p # q => plan'[p] = plan[p]
        BY <1>3, <3>3, PlanSet
      <4> QED BY <3>1, <3>3, <4>1 DEF Fresh
    <3> QED BY <2>1, <3>2, <3>3, Zenon DEF Begin
  <2>2. ASSUME NEW s \in States, Extend(s)
        PROVE  /\ Fresh' /\ \A p \in Device : plan[p].done => plan'[p] = plan[p]
    BY <1>3, <2>2 DEF Extend, Fresh
  <2>3. CASE Choose
    <3>1. planner \in Device /\ planner' = Nobody /\ ~ plan[planner].done
      BY <1>3, <2>3 DEF Choose, PlanTypes, Fresh
    <3>2. PICK segs \in Seq(Seg) : plan' = [plan EXCEPT ![planner] = Planned(segs)]
      <4>1. \A s \in States : dp[s].segs \in Seq(Seg)
        BY <1>3 DEF PlanTypes, Label
      <4> QED BY <1>3, <2>3, <4>1 DEF Choose
    <3>3. \A p \in Device : p # planner => plan'[p] = plan[p]
      BY <1>3, <3>1, <3>2, PlanSet
    <3> QED BY <3>1, <3>3 DEF Fresh
  <2> QED BY <2>1, <2>2, <2>3 DEF Plans, PlanNext
<1>5. Told'
  <2> SUFFICES ASSUME NEW q \in Device, Running(q)
               PROVE  IF setting.auto
                      THEN /\ plan'[q].done /\ plan'[q].segs # <<>>
                           /\ topology[q] = PlannedTopology(plan'[q].segs)
                      ELSE topology[q] = FileTopology(file)
    BY <1>1, <1>2 DEF Told, Running
  <2> QED BY <1>4 DEF TellInv, Told
<1>6. OwnersLoaded' /\ Served'
  BY <1>1, <1>2 DEF TellInv, OwnersLoaded, Served
<1> QED BY <1>4, <1>5, <1>6 DEF TellInv

LEMMA TellGet ==
  ASSUME TellInv, Known, NEW q \in Device, GetTopology(q)
  PROVE  TellInv'
<1>1. /\ job' = job /\ setting' = setting /\ file' = file /\ name' = name
      /\ planner' = planner /\ plan' = plan
      /\ hosted' = hosted /\ owner' = owner /\ outcome' = outcome /\ up[q] = "off"
  BY DEF GetTopology, planVars
<1>2. MasterProcess' = MasterProcess /\ (Consistent' <=> Consistent)
      /\ \A segs : PlannedTopology(segs)' = PlannedTopology(segs)
  BY <1>1, MasterFrozen, ConsistentFrozen
<1>3. /\ up \in [Device -> {"off", "loading", "up", "failed"}]
      /\ topology = [p \in Device |-> topology[p]]
      /\ MasterProcess \in Device
  BY MasterIs DEF Known, PassInv, DeployTypes
<1> DEFINE Tells(T) == IF setting.auto
                       THEN /\ plan[q].done /\ plan[q].segs # <<>>
                            /\ T = PlannedTopology(plan[q].segs)
                       ELSE T = FileTopology(file)
<1>4. \/ up' = [up EXCEPT ![q] = "failed"] /\ topology' = topology
      \/ \E T : /\ up' = [up EXCEPT ![q] = "loading"]
                /\ topology' = [topology EXCEPT ![q] = T] /\ Tells(T)
  BY Zenon DEF GetTopology
<1> HIDE DEF Tells
<1>5. /\ \A p \in Device : p # q => up'[p] = up[p] /\ topology'[p] = topology[p]
      /\ up'[q] \in {"failed", "loading"} /\ (up'[q] = "loading" => Tells(topology'[q]))
  BY <1>3, <1>4
<1>6. Told'
  <2> SUFFICES ASSUME NEW p \in Device, up'[p] \in {"loading", "up"}
               PROVE  IF setting.auto
                      THEN /\ plan[p].done /\ plan[p].segs # <<>>
                           /\ topology'[p] = PlannedTopology(plan[p].segs)
                      ELSE topology'[p] = FileTopology(file)
    BY <1>1, <1>2 DEF Told, Running
  <2>1. CASE p = q
    BY <1>5, <2>1 DEF Tells
  <2>2. CASE p # q
    BY <1>5, <2>2 DEF TellInv, Told, Running
  <2> QED BY <2>1, <2>2
<1>7. OwnersLoaded' /\ Served' /\ Fresh'
  <2>1. up'[MasterProcess] = "up" => up[MasterProcess] = "up"
    BY <1>3, <1>5
  <2> QED BY <1>1, <1>2, <2>1 DEF TellInv, OwnersLoaded, Served, Fresh
<1> QED BY <1>6, <1>7 DEF TellInv

LEMMA TellWorker ==
  ASSUME TellInv, Known, NEW q \in Device, StartWorker(q)
  PROVE  TellInv'
<1>1. /\ job' = job /\ setting' = setting /\ file' = file /\ name' = name
      /\ planner' = planner /\ plan' = plan /\ topology' = topology
      /\ owner' = owner /\ outcome' = outcome /\ up[q] = "loading" /\ q \in Workers
  BY DEF StartWorker, planVars
<1>2. MasterProcess' = MasterProcess /\ (Consistent' <=> Consistent)
      /\ \A segs : PlannedTopology(segs)' = PlannedTopology(segs)
  BY <1>1, MasterFrozen, ConsistentFrozen
<1>3. /\ up \in [Device -> {"off", "loading", "up", "failed"}]
      /\ hosted = [p \in Device |-> hosted[p]] /\ hosted[q] = {}
      /\ MasterProcess \in Device /\ q # MasterProcess
  BY <1>1, MasterIs DEF Known, PassInv, DeployTypes, Loaded, Workers
<1>4. \E H, u : /\ up' = [up EXCEPT ![q] = u]
                /\ (hosted' = [hosted EXCEPT ![q] = H] \/ hosted' = hosted)
  BY Zenon DEF StartWorker
<1>5. \A p \in Device : p # q => up'[p] = up[p] /\ hosted'[p] = hosted[p]
  BY <1>3, <1>4
<1>6. Told'
  <2> SUFFICES ASSUME NEW p \in Device, up'[p] \in {"loading", "up"}
               PROVE  IF setting.auto
                      THEN /\ plan[p].done /\ plan[p].segs # <<>>
                           /\ topology[p] = PlannedTopology(plan[p].segs)
                      ELSE topology[p] = FileTopology(file)
    BY <1>1, <1>2 DEF Told, Running
  <2>1. up[p] \in {"loading", "up"}
    BY <1>1, <1>5
  <2> QED BY <2>1 DEF TellInv, Told, Running
<1>7. OwnersLoaded'
  <2> SUFFICES ASSUME Consistent, up'[MasterProcess] = "up",
                      NEW l \in Layers, owner[l] # MasterProcess
               PROVE  l \in hosted'[owner[l]]
    BY <1>1, <1>2 DEF OwnersLoaded
  <2>1. up[MasterProcess] = "up"
    BY <1>3, <1>5
  <2>2. l \in hosted[owner[l]] /\ owner[l] \in Device
    BY <2>1 DEF TellInv, OwnersLoaded, Known, PassInv, DeployTypes
  <2> QED BY <1>3, <1>5, <2>2
<1>8. Served' /\ Fresh'
  BY <1>1, <1>2 DEF TellInv, Served, Fresh
<1> QED BY <1>6, <1>7, <1>8 DEF TellInv
LEMMA SameTopology ==
  ASSUME Told, PlannersAgree, Consistent, NEW p \in Device, NEW q \in Device,
         Running(p), Running(q)
  PROVE  topology[p] = topology[q]
<1>1. CASE setting.auto
  <2>1. /\ plan[p].done /\ topology[p] = PlannedTopology(plan[p].segs)
        /\ plan[q].done /\ topology[q] = PlannedTopology(plan[q].segs)
    BY <1>1 DEF Told
  <2>2. job.kv[p] = job.kv[q]
    BY <1>1 DEF Consistent
  <2>3. plan[p] = plan[q]
    BY <2>1, <2>2 DEF PlannersAgree
  <2> QED BY <2>1, <2>3
<1>2. CASE ~ setting.auto
  BY <1>2 DEF Told
<1> QED BY <1>1, <1>2

LEMMA NodeIs ==
  ASSUME Known, Told, Consistent, NEW q \in Device, Running(q), NEW n \in DOMAIN topology[q]
  PROVE  topology[q][n].host = n /\ n \in Device
<1>1. topology[q][n].host \in Device
  BY DEF Known, PassInv, DeployTypes
<1>2. CASE setting.auto
  <2>1. topology[q] = PlannedTopology(plan[q].segs)
    BY <1>2 DEF Told
  <2>2. topology[q][n].host = n
    BY <2>1 DEF PlannedTopology
  <2> QED BY <1>1, <2>2
<1>3. CASE ~ setting.auto
  <2>1. topology[q] = FileTopology(file)
    BY <1>3 DEF Told
  <2>2. n \in DOMAIN file /\ topology[q][n].host = file[n].host
    BY <2>1 DEF FileTopology
  <2>3. file[n].host = n
    BY <1>3, <2>2 DEF Consistent
  <2> QED BY <1>1, <2>2, <2>3
<1> QED BY <1>2, <1>3

LEMMA TellMaster ==
  ASSUME TellInv, Known, StartMaster
  PROVE  TellInv'
<1> DEFINE M == MasterProcess
<1>1. /\ job' = job /\ setting' = setting /\ file' = file /\ name' = name
      /\ planner' = planner /\ plan' = plan /\ topology' = topology
      /\ hosted' = hosted /\ outcome' = outcome /\ up[M] = "loading"
  BY DEF StartMaster, planVars
<1>2. MasterProcess' = M /\ (Consistent' <=> Consistent)
      /\ \A segs : PlannedTopology(segs)' = PlannedTopology(segs)
  BY <1>1, MasterFrozen, ConsistentFrozen
<1>3. /\ up \in [Device -> {"off", "loading", "up", "failed"}] /\ M \in Device
      /\ IsFiniteSet(DOMAIN topology[M])
  BY MasterIs DEF Known, PassInv, DeployTypes
<1> DEFINE Found(order) == [l \in Layers |-> OwnerIn(topology[M], order, l)]
           Claimed == {k \in Layers : Owners(topology[M], k) # {}}
           Needed(order) == {Found(order)[l] : l \in Claimed}
<1>4. PICK order \in SetToSeqs(DOMAIN topology[M]) :
        \/ /\ \A w \in Needed(order) : up[w] = "up"
           /\ owner' = Found(order) /\ up' = [up EXCEPT ![M] = "up"]
        \/ owner' = owner /\ up' = [up EXCEPT ![M] = "failed"]
  BY Zenon DEF StartMaster
<1>5. \A p \in Device : p # M => up'[p] = up[p]
  <2> HIDE DEF Needed, Found, M
  <2> QED BY <1>3, <1>4
<1>6. Told'
  <2> SUFFICES ASSUME NEW p \in Device, up'[p] \in {"loading", "up"}
               PROVE  IF setting.auto
                      THEN /\ plan[p].done /\ plan[p].segs # <<>>
                           /\ topology[p] = PlannedTopology(plan[p].segs)
                      ELSE topology[p] = FileTopology(file)
    BY <1>1, <1>2 DEF Told, Running
  <2>1. up[p] \in {"loading", "up"}
    BY <1>1, <1>5
  <2> HIDE DEF M, Found, Needed
  <2> QED BY <2>1 DEF TellInv, Told, Running
<1>7. OwnersLoaded'
  <2> SUFFICES ASSUME Consistent, up'[M] = "up", NEW l \in Layers, owner'[l] # M
               PROVE  l \in hosted[owner'[l]]
    BY <1>1, <1>2 DEF OwnersLoaded
  <2>1. /\ \A w \in Needed(order) : up[w] = "up"
        /\ owner' = Found(order)
    <3> HIDE DEF Needed, Found, M
    <3>1. up' # [up EXCEPT ![M] = "failed"]
      BY <1>3
    <3> QED BY <1>4, <3>1
  <2> DEFINE w == OwnerIn(topology[M], order, l)
  <2>2. owner'[l] = w /\ w # M
    BY <2>1
  <2>3. PICK d \in DOMAIN topology[M] : l \in topology[M][d].layers /\ w = topology[M][d].host
    <3> HIDE DEF Found, Needed
    <3> QED BY <1>3, <2>2, OwnerOf
  <2>4. up[w] = "up"
    <3>1. Found(order)[l] = w
      OBVIOUS
    <3>2. l \in Claimed
      BY <2>3 DEF Owners
    <3>3. w \in Needed(order)
      <4> HIDE DEF Found, Claimed, w
      <4> QED BY <3>1, <3>2
    <3> HIDE DEF Needed, w
    <3> QED BY <2>1, <3>3
  <2> HIDE DEF Found, Needed
  <2>5. Running(M)
    BY <1>1 DEF Running
  <2> HIDE DEF w, M
  <2>6. w = d /\ d \in Device
    BY <1>3, <2>3, <2>5, NodeIs DEF TellInv
  <2>7. Running(d)
    BY <2>4, <2>6 DEF Running
  <2>8. topology[d] = topology[M]
    BY <1>3, <2>5, <2>6, <2>7, SameTopology DEF TellInv, Known
  <2>9. name[d] = d /\ d \in Workers
    BY <2>2, <2>6 DEF Consistent, Workers, M
  <2>10. topology[d][d].layers \subseteq hosted[d]
    BY <2>3, <2>4, <2>6, <2>8, <2>9 DEF Known, PassInv, Loaded
  <2> QED BY <2>2, <2>3, <2>6, <2>8, <2>10
<1>8. Served' /\ Fresh'
  BY <1>1, <1>2 DEF TellInv, Served, Fresh
<1> QED BY <1>6, <1>7, <1>8 DEF TellInv

LEMMA TellRemote ==
  ASSUME TellInv, Known, RunRemote
  PROVE  TellInv'
<1> DEFINE w == owner[at]
           e == GroupEnd(at)
           r == Request(setting.encoding, at, e)
           ops == Asked(r)
           good == Cardinality({i \in DOMAIN ops : \A j \in 1 .. i : ops[j] \in hosted[w]})
<1>1. /\ job' = job /\ setting' = setting /\ file' = file /\ name' = name
      /\ planner' = planner /\ plan' = plan /\ topology' = topology /\ hosted' = hosted
      /\ owner' = owner /\ up' = up /\ at < NL /\ up[MasterProcess] = "up" /\ w # MasterProcess
      /\ outcome = "none" /\ (good = Len(ops) => outcome' = outcome)
  BY Zenon DEF RunRemote, planVars
<1>2. MasterProcess' = MasterProcess /\ (Consistent' <=> Consistent)
      /\ \A segs : PlannedTopology(segs)' = PlannedTopology(segs)
  BY <1>1, MasterFrozen, ConsistentFrozen
<1>3. Told' /\ Fresh' /\ OwnersLoaded'
  BY <1>1, <1>2 DEF TellInv, Told, Running, Fresh, OwnersLoaded
<1>4. ASSUME Consistent
      PROVE  outcome' = "none"
  <2>1. at \in Layers
    BY <1>1, Sizes DEF Known, PassInv, PassOK, Layers
  <2>2. /\ e \in Nat /\ at \in Nat /\ at <= e
        /\ \A l \in at .. e : l \in Layers /\ owner[l] = w
    BY <2>1, GroupIs
  <2>3. RunsUpTo(ops, at, e, hosted[w])
    <3> HIDE DEF e, w
    <3> QED BY <2>2, RequestRuns
  <2>4. \A l \in at .. e : l \in hosted[w]
    <3> HIDE DEF e, w, ops, good
    <3> QED BY <1>1, <1>4, <2>2 DEF TellInv, OwnersLoaded
  <2>5. good = Len(ops)
    <3> HIDE DEF e, w, ops
    <3> QED BY <2>3, <2>4 DEF RunsUpTo
  <2> QED BY <1>1, <2>5
<1>5. Served'
  BY <1>1, <1>2, <1>4 DEF Served
<1> QED BY <1>3, <1>5 DEF TellInv

LEMMA TellStep ==
  ASSUME TellInv, Known, [Next]_vars
  PROVE  TellInv'
<1>1. ASSUME /\ job' = job /\ setting' = setting /\ file' = file /\ name' = name
             /\ planner' = planner /\ plan' = plan /\ topology' = topology /\ hosted' = hosted
             /\ owner' = owner /\ up' = up /\ (outcome' = outcome \/ outcome' = "done")
      PROVE  TellInv'
  <2>1. MasterProcess' = MasterProcess /\ (Consistent' <=> Consistent)
        /\ \A segs : PlannedTopology(segs)' = PlannedTopology(segs)
    BY <1>1, MasterFrozen, ConsistentFrozen
  <2> QED BY <1>1, <2>1 DEF TellInv, Told, Running, Fresh, OwnersLoaded, Served
<1>2. CASE RunLocal \/ Finish
  BY <1>1, <1>2 DEF RunLocal, Finish, planVars
<1>3. CASE UNCHANGED vars
  BY <1>1, <1>3 DEF vars, planVars, placeVars
<1> QED BY <1>2, <1>3, TellPlans, TellGet, TellWorker, TellMaster, TellRemote DEF Next

LEMMA KnownAlways == Spec => []Known
<1>1. TraceInv => PlanTypes /\ PlannersAgree
  BY TraceInvEnough DEF TraceInv
<1>2. PlanTypes /\ PlannersAgree /\ PassInv => Known
  BY DEF Known
<1> QED BY <1>1, <1>2, PlansAlone, TraceAlways, PassAlways, PTL

(* Whatever the layers, the devices and the topology, planned or read from *)
(* a file: when names, addresses and cache limits are the topology's, no   *)
(* worker is asked for a block that it does not have, in whatever order    *)
(* the processes search, load and start.                                   *)
THEOREM NoneRefused == Spec => []Served
<1>1. Init => TellInv
  BY TellInit
<1>2. TellInv /\ Known /\ [Next]_vars => TellInv'
  BY TellStep
<1>3. TellInv => Served
  BY DEF TellInv
<1> QED BY <1>1, <1>2, <1>3, KnownAlways, PTL DEF Spec
=============================================================================
