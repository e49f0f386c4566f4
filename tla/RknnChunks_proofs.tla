-------------------------- MODULE RknnChunks_proofs --------------------------
(***************************************************************************)
(* For every directory of chunk files and every set of them that does not  *)
(* load: what a runner was built from covers what it claims to cover.      *)
(***************************************************************************)
EXTENDS RknnChunks, SequenceTheorems, WellFoundedInduction, TLAPS

----------------------------------------------------------------------------
(* Largest and smallest buckets.                                           *)

LEMMA SmallestExists ==
  ASSUME NEW S \in SUBSET Nat, S # {}
  PROVE  Min(S) \in S /\ \A y \in S : Min(S) <= y
<1> DEFINE R == {p \in Nat \X Nat : p[1] < p[2]}
<1>1. IsWellFoundedOn(R, Nat)
  <2>1. R = OpToRel(<, Nat)
    BY Zenon DEF OpToRel
  <2> QED BY <2>1, NatLessThanWellFounded, Zenon
<1>2. PICK x \in S : \A y \in S : ~ (<<y, x>> \in R)
  <2> HIDE DEF R
  <2> QED BY <1>1, WFMin
<1>3. \A y \in S : x <= y
  <2> SUFFICES ASSUME NEW y \in S
               PROVE  x <= y
    OBVIOUS
  <2>1. x \in Nat /\ y \in Nat /\ ~ (<<y, x>> \in R)
    BY <1>2
  <2>2. <<y, x>> \in Nat \X Nat /\ <<y, x>>[1] = y /\ <<y, x>>[2] = x
    BY <2>1
  <2>3. ~ (y < x)
    BY <2>1, <2>2, Zenon
  <2> QED BY <2>1, <2>3
<1> QED BY <1>3 DEF Min

LEMMA LargestExists ==
  ASSUME NEW S \in SUBSET (0 .. MaxUsize), S # {}
  PROVE  Max(S) \in S /\ \A y \in S : Max(S) >= y
<1> DEFINE T == {MaxUsize - x : x \in S}
<1>1. MaxUsize \in Nat
  BY ChunkAssumption
<1>2. T \in SUBSET Nat /\ T # {}
  <2>1. \A x \in S : x \in 0 .. MaxUsize /\ MaxUsize - x \in Nat
    BY <1>1
  <2>2. PICK x : x \in S
    OBVIOUS
  <2>3. MaxUsize - x \in T
    BY <2>2
  <2> QED BY <2>1, <2>3
<1>3. PICK t \in T : \A y \in T : t <= y
  BY <1>2, SmallestExists
<1>4. PICK x \in S : t = MaxUsize - x
  OBVIOUS
<1>5. \A y \in S : x >= y
  <2> SUFFICES ASSUME NEW y \in S
               PROVE  x >= y
    OBVIOUS
  <2>1. MaxUsize - y \in T
    OBVIOUS
  <2>2. MaxUsize - x <= MaxUsize - y
    BY <1>3, <1>4, <2>1
  <2> QED BY <1>1, <2>2
<1> QED BY <1>5 DEF Max

LEMMA ServesType ==
  ASSUME NEW f \in Files
  PROVE  Serves(f) \subseteq 0 .. MaxUsize
<1>1. f.buckets \subseteq 0 .. MaxUsize /\ Defaults \subseteq 0 .. MaxUsize /\ {} \subseteq 0 .. MaxUsize
  BY ChunkAssumption
<1> QED BY <1>1 DEF Serves

LEMMA MaxBucketFacts ==
  ASSUME NEW cs \in Seq(Files)
  PROVE  /\ MaxBucketOf(cs) \in Nat
         /\ \A i \in 1 .. Len(cs) : \A b \in Serves(cs[i]) : b <= MaxBucketOf(cs)
         /\ MaxBucketOf(cs) = 0 \/ \E i \in 1 .. Len(cs) : MaxBucketOf(cs) \in Serves(cs[i])
<1> DEFINE S == {0} \cup UNION {Serves(cs[i]) : i \in DOMAIN cs}
<1>1. DOMAIN cs = 1 .. Len(cs) /\ \A i \in 1 .. Len(cs) : cs[i] \in Files
  OBVIOUS
<1>2. S \in SUBSET (0 .. MaxUsize) /\ S # {}
  <2>1. \A i \in 1 .. Len(cs) : Serves(cs[i]) \subseteq 0 .. MaxUsize
    BY <1>1, ServesType
  <2>2. 0 \in 0 .. MaxUsize
    BY ChunkAssumption
  <2> QED BY <1>1, <2>1, <2>2
<1>3. MaxBucketOf(cs) \in S /\ \A y \in S : MaxBucketOf(cs) >= y
  <2>1. MaxBucketOf(cs) = Max(S)
    BY DEF MaxBucketOf
  <2> HIDE DEF S
  <2> QED BY <1>2, <2>1, LargestExists
<1>4. MaxBucketOf(cs) \in Nat
  BY <1>2, <1>3
<1>5. ASSUME NEW i \in 1 .. Len(cs), NEW b \in Serves(cs[i])
      PROVE  b <= MaxBucketOf(cs)
  <2>1. b \in S
    BY <1>1
  <2> HIDE DEF S
  <2>2. b \in Nat
    BY <1>2, <2>1, ChunkAssumption
  <2> QED BY <1>3, <1>4, <2>1, <2>2
<1> QED BY <1>1, <1>3, <1>4, <1>5

(* A chunk serves a position when one of its buckets holds it.             *)
LEMMA RunsFacts ==
  ASSUME NEW f \in Files, NEW past \in Nat \ {0}
  PROVE  Runs(f, past) <=> \E b \in Serves(f) : b >= past
<1> DEFINE S == {b \in Serves(f) : b >= past}
<1>1. Serves(f) \in SUBSET (0 .. MaxUsize) /\ Serves(f) \in SUBSET Nat
  BY ServesType, ChunkAssumption
<1>2. CASE S # {}
  <2>1. Min(S) \in S
    BY <1>1, <1>2, SmallestExists
  <2>2. Bucket(f, past) = Min(S)
    BY <1>2 DEF Bucket
  <2> QED BY <2>1, <2>2 DEF Runs
<1>3. CASE S = {} /\ Serves(f) # {}
  <2>1. Max(Serves(f)) \in Serves(f)
    BY <1>1, <1>3, LargestExists
  <2>2. Bucket(f, past) = Max(Serves(f))
    BY <1>3 DEF Bucket
  <2> QED BY <1>3, <2>1, <2>2 DEF Runs
<1>4. CASE Serves(f) = {}
  BY <1>4 DEF Bucket, Runs
<1> QED BY <1>2, <1>3, <1>4

----------------------------------------------------------------------------
(* The keys.                                                               *)

LEMMA KeysAsymmetric ==
  ASSUME NEW f \in Files, NEW g \in Files
  PROVE  /\ Better(f, g) => ~Better(g, f)
         /\ RangeBetter(f, g) => ~RangeBetter(g, f) /\ f # g
         /\ f.last = g.last => (RangeBetter(f, g) <=> Better(f, g))
<1>1. /\ f.class \in Nat /\ f.bucket \in Nat /\ f.name \in Nat /\ f.last \in Nat
      /\ g.class \in Nat /\ g.bucket \in Nat /\ g.name \in Nat /\ g.last \in Nat
  BY ChunkAssumption
<1> QED BY <1>1 DEF Better, RangeBetter

----------------------------------------------------------------------------
(* The invariant.                                                          *)

Types ==
  /\ bad \subseteq dir /\ dir \subseteq Files
  /\ pc \in {"pick", "try", "prefill", "prefilltry", "ready", "failed"}
  /\ expected \in 0 .. NL /\ left \subseteq dir /\ cands \subseteq DecodeFiles
  /\ chunks \in Seq(DecodeFiles) /\ prefill \in Seq(Candidates("prefill")) /\ maxBucket \in Nat

NextLayer(cs) == IF cs = <<>> THEN 0 ELSE cs[Len(cs)].last + 1

Chain(cs) ==
  \A i \in 1 .. Len(cs) :
    cs[i].first = (IF i = 1 THEN 0 ELSE cs[i - 1].last + 1) /\ cs[i] \notin bad

(* A file was taken over better ones only because of one that is bad.      *)
Won(c) ==
  \A f \in DecodeFiles :
    f.first = c.first /\ RangeBetter(f, c) =>
      IF f.last = c.last THEN f \in bad
      ELSE \E g \in bad : g.first = f.first /\ g.last = c.last /\ RangeBetter(g, f)

(* No file that starts further on was touched yet.  The range under way    *)
(* was picked for a file that is better than all that start there, and     *)
(* what is no longer a candidate of it did not load.                       *)
Picking ==
  /\ pc \in {"pick", "try"} =>
       /\ expected = NextLayer(chunks) /\ prefill = <<>> /\ left \subseteq DecodeFiles
       /\ \A f \in DecodeFiles : f.first > expected => f \in left
  /\ pc = "pick" => \A f \in DecodeFiles : f.first = expected => f \in left
  /\ pc = "try" =>
       \A c \in cands :
         /\ c.first = expected
         /\ \A f \in DecodeFiles : f.first = c.first /\ f.last = c.last => f \in cands \cup bad
         /\ \E h \in cands \cup bad :
              /\ h.first = c.first /\ h.last = c.last /\ h \in DecodeFiles
              /\ \A f \in DecodeFiles : f.first = h.first => f = h \/ RangeBetter(h, f)

(* The prefill files left are those that start behind the loaded ones.     *)
Prefilling ==
  /\ pc = "prefill" => prefill = <<>>
  /\ pc = "prefilltry" =>
       /\ CoversAll(Candidates("prefill")) /\ left # {}
       /\ left = {f \in Candidates("prefill") : f.first >= NextLayer(prefill)}
  /\ pc = "ready" /\ prefill # <<>> => prefill[Len(prefill)].last = NL - 1

Limits ==
  pc \in {"prefill", "prefilltry", "ready"} => chunks # <<>> /\ maxBucket = MaxBucketOf(chunks)

ChunkInv ==
  /\ Types /\ Chain(chunks) /\ Chain(prefill)
  /\ \A i \in 1 .. Len(chunks) : Won(chunks[i])
  /\ Picking /\ Prefilling /\ Limits

(* A chunk that goes on where the others end.                              *)
LEMMA ChainGrows ==
  ASSUME NEW S, NEW cs \in Seq(S), NEW f \in S, Chain(cs), f.first = NextLayer(cs), f \notin bad
  PROVE  /\ Append(cs, f) \in Seq(S) /\ Chain(Append(cs, f))
         /\ Append(cs, f) # <<>> /\ Append(cs, f)[Len(Append(cs, f))] = f
         /\ NextLayer(Append(cs, f)) = f.last + 1
<1> DEFINE t == Append(cs, f)
<1>1. /\ t \in Seq(S) /\ t # <<>> /\ Len(t) = Len(cs) + 1 /\ Len(cs) \in Nat
      /\ \A i \in 1 .. Len(cs) : t[i] = cs[i]
      /\ t[Len(cs) + 1] = f
  BY AppendProperties
<1>2. cs = <<>> <=> Len(cs) = 0
  BY EmptySeq
<1> HIDE DEF t
<1>3. ASSUME NEW i \in 1 .. Len(t)
      PROVE  t[i].first = (IF i = 1 THEN 0 ELSE t[i - 1].last + 1) /\ t[i] \notin bad
  <2>1. CASE i <= Len(cs)
    <3>1. i \in 1 .. Len(cs) /\ (i # 1 => i - 1 \in 1 .. Len(cs))
      BY <1>1, <2>1
    <3> QED BY <1>1, <3>1 DEF Chain
  <2>2. CASE i = Len(cs) + 1
    <3>1. CASE cs = <<>>
      BY <1>1, <1>2, <2>2, <3>1 DEF NextLayer
    <3>2. CASE cs # <<>>
      <4>1. i # 1 /\ i - 1 = Len(cs) /\ Len(cs) \in 1 .. Len(cs)
        BY <1>1, <1>2, <2>2, <3>2
      <4> QED BY <1>1, <2>2, <3>2, <4>1 DEF NextLayer
    <3> QED BY <3>1, <3>2
  <2> QED BY <1>1, <2>1, <2>2
<1>4. Chain(t)
  BY <1>3 DEF Chain
<1>5. t[Len(t)] = f /\ NextLayer(t) = f.last + 1
  BY <1>1 DEF NextLayer
<1> QED BY <1>1, <1>4, <1>5 DEF t

(* Every operator but the sequences depends on the directory alone.        *)
LEMMA SameDirectory ==
  ASSUME UNCHANGED <<dir, bad>>
  PROVE  /\ DecodeFiles' = DecodeFiles /\ Candidates("prefill")' = Candidates("prefill")
         /\ \A cs : Chain(cs)' = Chain(cs)
         /\ \A c : Won(c)' = Won(c)
BY DEF DecodeFiles, Candidates, Chain, Won

----------------------------------------------------------------------------
(* The steps.                                                              *)

LEMMA InitInv == Init => ChunkInv
<1> SUFFICES ASSUME Init
             PROVE  ChunkInv
  OBVIOUS
<1>1. /\ bad \subseteq dir /\ dir \subseteq Files /\ left = DecodeFiles /\ DecodeFiles \subseteq dir
      /\ pc \in {"pick", "failed"} /\ expected = 0 /\ cands = {}
      /\ chunks = <<>> /\ prefill = <<>> /\ maxBucket = 0
  BY DEF Init, DecodeFiles, Candidates
<1>2. chunks \in Seq(DecodeFiles) /\ prefill \in Seq(Candidates("prefill")) /\ Len(chunks) = 0
  BY <1>1
<1>3. expected \in 0 .. NL /\ maxBucket \in Nat
  BY <1>1, ChunkAssumption
<1>4. Types
  BY <1>1, <1>2, <1>3 DEF Types
<1>5. Chain(chunks) /\ Chain(prefill) /\ \A i \in 1 .. Len(chunks) : Won(chunks[i])
  BY <1>1, <1>2 DEF Chain
<1>6. Picking /\ Prefilling /\ Limits
  BY <1>1 DEF Picking, Prefilling, Limits, NextLayer
<1> QED BY <1>4, <1>5, <1>6 DEF ChunkInv

LEMMA DecodeFilesType ==
  ASSUME Types
  PROVE  /\ DecodeFiles \subseteq dir /\ DecodeFiles \subseteq Files
         /\ Candidates("prefill") \subseteq dir /\ Candidates("prefill") \subseteq Files
         /\ \A f \in Files : f.first \in Nat /\ f.last \in Nat /\ f.first <= f.last /\ f.last < NL
         /\ NL \in Nat
BY ChunkAssumption DEF Types, DecodeFiles, Candidates

LEMMA PickRangeInv ==
  ASSUME ChunkInv, PickRange
  PROVE  ChunkInv'
<1>1. Types /\ pc = "pick" /\ Picking
  BY DEF ChunkInv, PickRange
<1>2. PICK h \in left :
        /\ h.first = expected
        /\ \A g \in left : g.first = expected => h = g \/ RangeBetter(h, g)
        /\ cands' = SameRange(left, h)
        /\ left' = left \ SameRange(left, h)
  BY DEF PickRange
<1>3. pc' = "try" /\ UNCHANGED <<dir, bad, expected, chunks, prefill, maxBucket>>
  BY DEF PickRange
<1>4. /\ DecodeFiles' = DecodeFiles /\ Candidates("prefill")' = Candidates("prefill")
      /\ \A cs : Chain(cs)' = Chain(cs)
      /\ \A c : Won(c)' = Won(c)
  BY <1>3, SameDirectory
<1>5. \A c \in SameRange(left, h) : c.first = expected /\ c.last = h.last /\ c \in left
  BY <1>2 DEF SameRange
<1>6. left \subseteq DecodeFiles /\ left' \subseteq DecodeFiles /\ Types'
  BY <1>1, <1>2, <1>3, <1>4 DEF Types, SameRange, Picking
<1>7. ChunkInv'
  <2>1. \A f \in DecodeFiles : f.first > expected => f \in left'
    <3>1. \A f \in DecodeFiles : f.first > expected => f.first # expected
      BY <1>1, DecodeFilesType, ChunkAssumption DEF Types
    <3> QED BY <1>1, <1>2, <1>5, <3>1 DEF Picking
  <2>2. ASSUME NEW c \in cands'
        PROVE  /\ c.first = expected
               /\ \A f \in DecodeFiles : f.first = c.first /\ f.last = c.last => f \in cands' \cup bad
               /\ \E k \in cands' \cup bad :
                    /\ k.first = c.first /\ k.last = c.last /\ k \in DecodeFiles
                    /\ \A f \in DecodeFiles : f.first = k.first => f = k \/ RangeBetter(k, f)
    <3>1. c.first = expected /\ c.last = h.last
      BY <1>2, <1>5, <2>2
    <3>2. \A f \in DecodeFiles : f.first = expected => f \in left
      BY <1>1 DEF Picking
    <3>3. h \in cands'
      BY <1>2 DEF SameRange
    <3>4. \A f \in DecodeFiles : f.first = c.first /\ f.last = c.last => f \in cands' \cup bad
      BY <1>2, <3>1, <3>2 DEF SameRange
    <3>5. h \in DecodeFiles /\ \A f \in DecodeFiles : f.first = h.first => f = h \/ RangeBetter(h, f)
      BY <1>2, <1>6, <3>2
    <3> QED BY <1>2, <3>1, <3>3, <3>4, <3>5
  <2>3. Picking'
    BY <1>1, <1>3, <1>4, <1>6, <2>1, <2>2 DEF Picking, NextLayer
  <2> QED BY <1>3, <1>4, <1>6, <2>3 DEF ChunkInv, Prefilling, Limits
<1> QED BY <1>7

(* Loading is over: nothing, or a runner with its bound.                   *)
LEMMA DecodeDoneInv ==
  ASSUME ChunkInv, DecodeDone, pc \in {"pick", "try"}
  PROVE  ChunkInv'
<1>1. /\ maxBucket' = MaxBucketOf(chunks)
      /\ pc' \in {"failed", "prefill"} /\ (pc' = "prefill" => chunks # <<>>)
      /\ UNCHANGED <<dir, bad, expected, left, cands, chunks, prefill>>
  BY DEF DecodeDone
<1>2. /\ DecodeFiles' = DecodeFiles /\ Candidates("prefill")' = Candidates("prefill")
      /\ \A cs : Chain(cs)' = Chain(cs)
      /\ \A c : Won(c)' = Won(c)
  BY <1>1, SameDirectory
<1>3. chunks \in Seq(Files) /\ prefill = <<>>
  <2>1. chunks \in Seq(DecodeFiles) /\ DecodeFiles \subseteq Files
    BY DecodeFilesType DEF ChunkInv, Types
  <2> QED BY <2>1, SeqMonotonic DEF ChunkInv, Picking
<1>4. maxBucket' \in Nat
  BY <1>1, <1>3, MaxBucketFacts
<1>5. Types'
  BY <1>1, <1>2, <1>4 DEF ChunkInv, Types
<1>6. MaxBucketOf(chunks)' = MaxBucketOf(chunks)
  BY <1>1 DEF MaxBucketOf
<1>7. Picking' /\ Prefilling' /\ Limits'
  BY <1>1, <1>3, <1>6 DEF Picking, Prefilling, Limits
<1> QED BY <1>1, <1>2, <1>5, <1>7 DEF ChunkInv

(* The candidate that loads is the best that is left; if a better file     *)
(* starts at its layer, the file its range was picked for is bad.          *)
LEMMA LoadCandidateInv ==
  ASSUME ChunkInv, LoadCandidate
  PROVE  ChunkInv'
<1>1. Types /\ pc = "try" /\ Picking
  BY DEF ChunkInv, LoadCandidate
<1>2. PICK c \in cands \ bad : Foremost(c, cands) /\ Loaded(c)
  BY DEF LoadCandidate
<1>3. /\ cands' = {} /\ pc' = "pick"
      /\ UNCHANGED <<dir, bad, left, prefill, maxBucket>>
      /\ chunks' = Append(chunks, c) /\ expected' = c.last + 1
  BY <1>2 DEF LoadCandidate, Loaded
<1>4. /\ DecodeFiles' = DecodeFiles /\ Candidates("prefill")' = Candidates("prefill")
      /\ \A cs : Chain(cs)' = Chain(cs)
      /\ \A d : Won(d)' = Won(d)
  BY <1>3, SameDirectory
<1>5. /\ c \in DecodeFiles /\ c \in Files /\ c.first = expected /\ expected = NextLayer(chunks)
      /\ c.first \in Nat /\ c.last \in Nat /\ c.first <= c.last /\ c.last < NL /\ NL \in Nat
  BY <1>1, <1>2, DecodeFilesType DEF Types, Picking
<1>6. PICK h \in cands \cup bad :
        /\ h.first = c.first /\ h.last = c.last /\ h \in DecodeFiles
        /\ \A f \in DecodeFiles : f.first = h.first => f = h \/ RangeBetter(h, f)
  BY <1>1, <1>2 DEF Picking
<1>7. Won(c)
  <2> SUFFICES ASSUME NEW f \in DecodeFiles, f.first = c.first, RangeBetter(f, c)
               PROVE  IF f.last = c.last THEN f \in bad
                      ELSE \E g \in bad : g.first = f.first /\ g.last = c.last /\ RangeBetter(g, f)
    BY DEF Won
  <2>1. f \in Files /\ h \in Files
    BY <1>1, <1>6, DecodeFilesType
  <2>2. CASE f.last = c.last
    <3>1. f \in cands \cup bad
      BY <1>1, <1>2, <2>2 DEF Picking
    <3>2. f \notin cands
      <4>1. Better(f, c) /\ f # c /\ ~Better(c, f)
        BY <1>5, <2>1, <2>2, KeysAsymmetric
      <4> QED BY <1>2, <4>1 DEF Foremost
    <3> QED BY <2>2, <3>1, <3>2
  <2>3. CASE f.last # c.last
    <3>1. RangeBetter(h, f) /\ f # h
      BY <1>6, <2>3
    <3>2. h \notin cands
      <4>1. h # c
        BY <1>5, <2>1, <3>1, KeysAsymmetric
      <4>2. RangeBetter(h, c)
        BY <1>5, <1>6, <4>1
      <4>3. Better(h, c) /\ ~Better(c, h)
        BY <1>5, <1>6, <2>1, <4>2, KeysAsymmetric
      <4> QED BY <1>2, <4>1, <4>3 DEF Foremost
    <3> QED BY <1>6, <2>3, <3>1, <3>2
  <2> QED BY <2>2, <2>3
<1>8. /\ chunks' \in Seq(DecodeFiles) /\ Chain(chunks') /\ chunks' # <<>>
      /\ NextLayer(chunks') = c.last + 1
  BY <1>1, <1>2, <1>3, <1>5, ChainGrows DEF ChunkInv, Types
<1>9. \A i \in 1 .. Len(chunks') : Won(chunks'[i])
  <2>1. /\ Len(chunks') = Len(chunks) + 1 /\ Len(chunks) \in Nat
        /\ \A i \in 1 .. Len(chunks) : chunks'[i] = chunks[i]
        /\ chunks'[Len(chunks) + 1] = c
    BY <1>1, <1>3, <1>5, AppendProperties DEF Types
  <2> SUFFICES ASSUME NEW i \in 1 .. Len(chunks')
               PROVE  Won(chunks'[i])
    OBVIOUS
  <2>2. CASE i = Len(chunks) + 1
    BY <1>7, <2>1, <2>2
  <2>3. CASE i # Len(chunks) + 1
    <3>1. i \in 1 .. Len(chunks)
      BY <2>1, <2>3
    <3> QED BY <2>1, <3>1 DEF ChunkInv
  <2> QED BY <2>2, <2>3
<1>10. Types'
  BY <1>1, <1>3, <1>4, <1>5, <1>8 DEF Types
<1>11. Picking'
  <2>1. \A f \in DecodeFiles : f.first >= expected' => f \in left
    <3>1. \A f \in DecodeFiles : f.first \in Nat
      BY <1>1, DecodeFilesType
    <3>2. \A f \in DecodeFiles : f.first >= expected' => f.first > expected
      BY <1>3, <1>5, <3>1
    <3> QED BY <1>1, <3>2 DEF Picking
  <2>2. \A f \in DecodeFiles : f.first \in Nat
    BY <1>1, DecodeFilesType
  <2>3. expected' \in Nat
    BY <1>3, <1>5
  <2>4. NextLayer(chunks)' = expected'
    BY <1>3, <1>8 DEF NextLayer
  <2>5. \A f \in DecodeFiles' : /\ f.first > expected' => f \in left'
                                /\ f.first = expected' => f \in left'
    BY <1>3, <1>4, <2>1, <2>2, <2>3
  <2> QED BY <1>1, <1>3, <1>4, <2>4, <2>5 DEF Picking
<1> QED BY <1>3, <1>4, <1>8, <1>9, <1>10, <1>11 DEF ChunkInv, Prefilling, Limits

(* A candidate that does not load is bad, and stays among what was tried.  *)
LEMMA CandidateFailsInv ==
  ASSUME ChunkInv, CandidateFails
  PROVE  ChunkInv'
<1>1. Types /\ pc = "try" /\ Picking
  BY DEF ChunkInv, CandidateFails
<1>2. PICK c \in cands \cap bad : cands' = cands \ {c}
  BY DEF CandidateFails
<1>3. UNCHANGED <<dir, bad, pc, expected, left, chunks, prefill, maxBucket>>
  BY DEF CandidateFails
<1>4. /\ DecodeFiles' = DecodeFiles /\ Candidates("prefill")' = Candidates("prefill")
      /\ \A cs : Chain(cs)' = Chain(cs)
      /\ \A d : Won(d)' = Won(d)
  BY <1>3, SameDirectory
<1>5. cands' \subseteq cands /\ cands' \cup bad = cands \cup bad
  BY <1>2
<1>6. Types'
  BY <1>1, <1>3, <1>4, <1>5 DEF Types
<1>7. Picking'
  <2>1. NextLayer(chunks)' = NextLayer(chunks)
    BY <1>3 DEF NextLayer
  <2> QED BY <1>1, <1>3, <1>4, <1>5, <2>1 DEF Picking
<1> QED BY <1>1, <1>3, <1>4, <1>6, <1>7 DEF ChunkInv, Prefilling, Limits

LEMMA StartPrefillInv ==
  ASSUME ChunkInv, StartPrefill
  PROVE  ChunkInv'
<1> DEFINE P == Candidates("prefill")
<1>1. Types /\ pc = "prefill" /\ prefill = <<>> /\ Limits
  BY DEF ChunkInv, StartPrefill, Prefilling
<1>2. /\ cands' = {} /\ UNCHANGED <<dir, bad, expected, chunks, prefill, maxBucket>>
      /\ \/ pc' = "ready" /\ left' \in {{}, P}
         \/ pc' = "prefilltry" /\ left' = P /\ P # {} /\ CoversAll(P)
  BY DEF StartPrefill
<1>3. /\ DecodeFiles' = DecodeFiles /\ P' = P
      /\ \A cs : Chain(cs)' = Chain(cs)
      /\ \A d : Won(d)' = Won(d)
  BY <1>2, SameDirectory
<1>4. P \subseteq dir /\ \A f \in P : f.first \in Nat
  BY <1>1, DecodeFilesType
<1>5. Types'
  BY <1>1, <1>2, <1>3, <1>4 DEF Types
<1>6. Picking' /\ Limits'
  BY <1>1, <1>2 DEF Picking, Limits, MaxBucketOf
<1>7. ASSUME pc' = "ready"
      PROVE  Prefilling'
  BY <1>1, <1>2, <1>7 DEF Prefilling
<1>8. ASSUME pc' = "prefilltry"
      PROVE  Prefilling'
  <2>1. CoversAll(P)' = CoversAll(P)
    BY <1>3 DEF CoversAll, Starts
  <2>2. NextLayer(prefill)' = 0
    BY <1>1, <1>2 DEF NextLayer
  <2>3. P = {f \in P : f.first >= 0}
    BY <1>4
  <2> QED BY <1>2, <1>3, <1>8, <2>1, <2>2, <2>3 DEF Prefilling
<1>9. Prefilling'
  BY <1>2, <1>7, <1>8
<1> QED BY <1>2, <1>3, <1>5, <1>6, <1>9 DEF ChunkInv

(* What starts next is what the ranges say: no gap, no overlap, and the    *)
(* last range ends with the last layer.                                    *)
LEMMA NextRange ==
  ASSUME ChunkInv, pc = "prefilltry", NEW f \in left,
         \A g \in left \ SameRange(left, f) :
           f.first < g.first \/ (f.first = g.first /\ f.last < g.last)
  PROVE  /\ f.first = NextLayer(prefill)
         /\ left \ SameRange(left, f) = {g \in Candidates("prefill") : g.first >= f.last + 1}
         /\ left \ SameRange(left, f) = {} => f.last = NL - 1
<1> DEFINE P == Candidates("prefill")
           n == NextLayer(prefill)
           rest == left \ SameRange(left, f)
<1>1. /\ CoversAll(P) /\ left = {g \in P : g.first >= n}
      /\ f \in P /\ f.first >= n
      /\ \A g \in P : g.first \in Nat /\ g.last \in Nat /\ g.first <= g.last /\ g.last < NL
      /\ NL \in Nat /\ prefill \in Seq(P)
  <2>1. CoversAll(P) /\ left = {g \in P : g.first >= n} /\ Types
    BY DEF ChunkInv, Prefilling
  <2>2. /\ \A g \in P : g.first \in Nat /\ g.last \in Nat /\ g.first <= g.last /\ g.last < NL
        /\ NL \in Nat
    BY <2>1, DecodeFilesType
  <2>3. f \in P /\ f.first >= n
    BY <2>1
  <2> QED BY <2>1, <2>2, <2>3 DEF Types
<1>2. n \in Nat /\ \E g \in P : g.first = n
  <2>1. CASE prefill = <<>>
    BY <1>1, <2>1 DEF NextLayer, CoversAll, Starts
  <2>2. CASE prefill # <<>>
    <3>1. prefill[Len(prefill)] \in P /\ n = prefill[Len(prefill)].last + 1
      BY <1>1, <2>2, EmptySeq DEF NextLayer
    <3>2. n \in Nat /\ n # NL
      BY <1>1, <3>1
    <3> QED BY <1>1, <3>1, <3>2 DEF CoversAll, Starts
  <2> QED BY <2>1, <2>2
<1> HIDE DEF n
<1>3. f.first = n
  <2>1. PICK g \in P : g.first = n
    BY <1>2
  <2>2. g \in left
    BY <1>1, <1>2, <2>1
  <2>3. CASE g \in SameRange(left, f)
    BY <2>1, <2>3 DEF SameRange
  <2>4. CASE g \notin SameRange(left, f)
    <3>1. f.first <= g.first
      BY <1>1, <2>1, <2>2, <2>4
    <3> QED BY <1>1, <1>2, <2>1, <3>1
  <2> QED BY <2>3, <2>4
<1>4. ASSUME NEW g \in rest
      PROVE  g \in P /\ g.first >= f.last + 1
  <2>1. g \in P /\ g \in left
    BY <1>1
  <2>2. ~ (f.first = g.first /\ f.last < g.last)
    BY <1>1, <2>1 DEF CoversAll
  <2>3. f.first < g.first
    BY <2>2
  <2>4. f.last < g.first
    BY <1>1, <2>1, <2>3 DEF CoversAll
  <2> QED BY <1>1, <2>1, <2>4
<1>5. ASSUME NEW g \in P, g.first >= f.last + 1
      PROVE  g \in rest
  <2>1. g.first > f.first
    BY <1>1, <1>5
  <2>2. g \in left
    BY <1>1, <1>2, <1>3, <2>1
  <2> QED BY <1>1, <2>1, <2>2 DEF SameRange
<1>6. rest = {g \in P : g.first >= f.last + 1}
  BY <1>4, <1>5
<1>7. ASSUME rest = {}
      PROVE  f.last = NL - 1
  <2>1. CASE f.last + 1 \in Starts(P)
    <3>1. PICK g \in P : g.first = f.last + 1
      BY <2>1 DEF Starts
    <3>2. f.last + 1 \in Int
      BY <1>1
    <3>3. g.first >= f.last + 1
      BY <3>1, <3>2
    <3>4. g \in rest
      BY <1>5, <3>1, <3>3
    <3> QED BY <1>7, <3>4
  <2>2. CASE f.last + 1 = NL
    BY <1>1, <2>2
  <2> QED BY <1>1, <2>1, <2>2 DEF CoversAll
<1> QED BY <1>3, <1>6, <1>7 DEF n

LEMMA LoadPrefillInv ==
  ASSUME ChunkInv, LoadPrefill
  PROVE  ChunkInv'
<1> DEFINE P == Candidates("prefill")
<1>1. Types /\ pc = "prefilltry" /\ CoversAll(P) /\ Limits /\ Chain(prefill)
  BY DEF ChunkInv, LoadPrefill, Prefilling
<1>2. /\ UNCHANGED <<dir, bad, expected, cands, chunks, maxBucket>>
      /\ pc' = IF left' = {} THEN "ready" ELSE pc
  BY DEF LoadPrefill
<1>3. /\ DecodeFiles' = DecodeFiles /\ P' = P
      /\ \A cs : Chain(cs)' = Chain(cs)
      /\ \A d : Won(d)' = Won(d)
      /\ CoversAll(P)' = CoversAll(P)
  <2>1. DecodeFiles' = DecodeFiles /\ P' = P
    BY <1>2, SameDirectory
  <2> QED BY <1>2, <2>1, SameDirectory DEF CoversAll, Starts
<1>4. PICK f \in left :
        LET here == SameRange(left, f)  good == here \ bad IN
        /\ \A g \in left \ here :
             f.first < g.first \/ (f.first = g.first /\ f.last < g.last)
        /\ \/ good = {} /\ prefill' = <<>> /\ left' = {}
           \/ \E g \in good : /\ Foremost(g, good)
                              /\ prefill' = Append(prefill, g) /\ left' = left \ here
  BY DEF LoadPrefill
<1>5. Picking' /\ Limits'
  BY <1>1, <1>2 DEF Picking, Limits, MaxBucketOf
<1>6. CASE prefill' = <<>> /\ left' = {}
  <2>1. Types'
    BY <1>1, <1>2, <1>3, <1>6 DEF Types
  <2>2. Prefilling' /\ Chain(prefill)'
    BY <1>2, <1>6 DEF Prefilling, Chain
  <2> QED BY <1>2, <1>3, <1>5, <2>1, <2>2 DEF ChunkInv
<1>7. ASSUME NEW g \in SameRange(left, f) \ bad,
             prefill' = Append(prefill, g), left' = left \ SameRange(left, f)
      PROVE  ChunkInv'
  <2>1. /\ f.first = NextLayer(prefill)
        /\ left \ SameRange(left, f) = {x \in P : x.first >= f.last + 1}
        /\ left \ SameRange(left, f) = {} => f.last = NL - 1
    BY <1>1, <1>4, NextRange
  <2>2. /\ left \subseteq P /\ g \in P /\ g \notin bad
        /\ g.first = f.first /\ g.last = f.last
    BY <1>1, <1>7 DEF ChunkInv, Prefilling, SameRange
  <2>3. /\ prefill' \in Seq(P) /\ Chain(prefill') /\ prefill' # <<>>
        /\ prefill'[Len(prefill')] = g /\ NextLayer(prefill') = f.last + 1
    BY <1>1, <1>7, <2>1, <2>2, ChainGrows DEF Types
  <2>4. Types'
    BY <1>1, <1>2, <1>3, <1>7, <2>3 DEF Types
  <2>5. NextLayer(prefill)' = f.last + 1
    BY <2>3 DEF NextLayer
  <2>6. left' = {x \in P : x.first >= f.last + 1} /\ (left' = {} => g.last = NL - 1)
    BY <1>7, <2>1, <2>2
  <2>7. Prefilling'
    BY <1>1, <1>2, <1>3, <2>3, <2>5, <2>6 DEF Prefilling
  <2> QED BY <1>2, <1>3, <1>5, <2>3, <2>4, <2>7 DEF ChunkInv
<1> QED BY <1>4, <1>6, <1>7

LEMMA ShrinkLastChunkInv ==
  ASSUME ChunkInv, ShrinkLastChunk
  PROVE  ChunkInv'
<1> DEFINE t == Front(chunks)
<1>1. Types /\ pc = "ready" /\ Len(chunks) > 1
  BY DEF ChunkInv, ShrinkLastChunk
<1>2. /\ chunks' = t /\ maxBucket' = MaxBucketOf(t)
      /\ UNCHANGED <<dir, bad, pc, expected, left, cands, prefill>>
  BY DEF ShrinkLastChunk
<1>3. /\ DecodeFiles' = DecodeFiles /\ Candidates("prefill")' = Candidates("prefill")
      /\ \A cs : Chain(cs)' = Chain(cs)
      /\ \A d : Won(d)' = Won(d)
  BY <1>2, SameDirectory
<1>4. /\ t \in Seq(DecodeFiles) /\ Len(t) = Len(chunks) - 1 /\ Len(chunks) \in Nat
      /\ \A i \in 1 .. Len(t) : t[i] = chunks[i]
  <2>1. t = SubSeq(chunks, 1, Len(chunks) - 1)
    BY DEF Front
  <2>2. chunks \in Seq(DecodeFiles) /\ Len(chunks) \in Nat
    BY <1>1 DEF Types
  <2> QED BY <1>1, <2>1, <2>2, SubSeqProperties
<1>5. t # <<>>
  BY <1>1, <1>4, EmptySeq
<1>6. MaxBucketOf(t) \in Nat
  <2>1. t \in Seq(Files)
    BY <1>1, <1>4, DecodeFilesType, SeqMonotonic
  <2> HIDE DEF t
  <2> QED BY <2>1, MaxBucketFacts
<1> HIDE DEF t
<1>7. Types'
  BY <1>1, <1>2, <1>3, <1>4, <1>6 DEF Types
<1>8. Chain(t)
  <2> SUFFICES ASSUME NEW i \in 1 .. Len(t)
               PROVE  t[i].first = (IF i = 1 THEN 0 ELSE t[i - 1].last + 1) /\ t[i] \notin bad
    BY DEF Chain
  <2>1. i \in 1 .. Len(chunks) /\ (i # 1 => i - 1 \in 1 .. Len(t))
    BY <1>4
  <2> QED BY <1>4, <2>1 DEF ChunkInv, Chain
<1>9. \A i \in 1 .. Len(t) : Won(t[i])
  <2>1. 1 .. Len(t) \subseteq 1 .. Len(chunks)
    BY <1>4
  <2> QED BY <1>4, <2>1 DEF ChunkInv
<1>10. Picking' /\ Prefilling' /\ Limits'
  <2>1. MaxBucketOf(chunks)' = MaxBucketOf(t)
    BY <1>2 DEF MaxBucketOf
  <2> QED BY <1>1, <1>2, <1>5, <2>1 DEF ChunkInv, Picking, Prefilling, Limits
<1> QED BY <1>2, <1>3, <1>7, <1>8, <1>9, <1>10 DEF ChunkInv

LEMMA StepInv == ChunkInv /\ [Next]_vars => ChunkInv'
<1> SUFFICES ASSUME ChunkInv, [Next]_vars
             PROVE  ChunkInv'
  OBVIOUS
<1>1. CASE PickRange
  BY <1>1, PickRangeInv
<1>2. CASE StopAtGap
  BY <1>2, DecodeDoneInv DEF StopAtGap
<1>3. CASE LoadCandidate
  BY <1>3, LoadCandidateInv
<1>4. CASE CandidateFails
  BY <1>4, CandidateFailsInv
<1>5. CASE AllCandidatesFail
  BY <1>5, DecodeDoneInv DEF AllCandidatesFail
<1>6. CASE StartPrefill
  BY <1>6, StartPrefillInv
<1>7. CASE LoadPrefill
  BY <1>7, LoadPrefillInv
<1>8. CASE ShrinkLastChunk
  BY <1>8, ShrinkLastChunkInv
<1>9. CASE UNCHANGED vars
  <2>1. /\ UNCHANGED <<dir, bad, pc, expected, left, cands, chunks, prefill, maxBucket>>
        /\ DecodeFiles' = DecodeFiles /\ Candidates("prefill")' = Candidates("prefill")
        /\ \A cs : Chain(cs)' = Chain(cs)
        /\ \A d : Won(d)' = Won(d)
    BY <1>9, SameDirectory DEF vars
  <2>2. Types' /\ Picking'
    BY <2>1 DEF ChunkInv, Types, Picking, NextLayer
  <2>3. Prefilling' /\ Limits'
    BY <2>1 DEF ChunkInv, Prefilling, Limits, NextLayer, MaxBucketOf, CoversAll, Starts
  <2> QED BY <2>1, <2>2, <2>3 DEF ChunkInv
<1> QED BY <1>1, <1>2, <1>3, <1>4, <1>5, <1>6, <1>7, <1>8, <1>9 DEF Next

----------------------------------------------------------------------------
(* The theorems.                                                           *)

(* Loading the chunks keeps the invariant (TextRknnRunner::load and        *)
(* shrink_last_chunk).                                                     *)
THEOREM ChunksCorrect == Spec => []ChunkInv
BY InitInv, StepInv, PTL DEF Spec

(* Every variable keeps its type.                                          *)
THEOREM ChunkTypes == Spec => []TypeOK
<1>1. ChunkInv => TypeOK
  <2> SUFFICES ASSUME ChunkInv
               PROVE  TypeOK
    OBVIOUS
  <2>1. Types
    BY DEF ChunkInv
  <2>2. chunks \in Seq(Files) /\ prefill \in Seq(Files)
    BY <2>1, DecodeFilesType, SeqMonotonic DEF Types
  <2> QED BY <2>1, <2>2 DEF Types, TypeOK
<1> QED BY <1>1, ChunksCorrect, PTL

(* The decode chunks cover a prefix of the layers once and in order, the   *)
(* prefill chunks all of them or none, and a runner has a decode chunk.    *)
THEOREM ChunksCover == Spec => []Coverage
<1>1. ChunkInv => Coverage
  <2> SUFFICES ASSUME ChunkInv
               PROVE  Coverage
    OBVIOUS
  <2>1. DOMAIN chunks = 1 .. Len(chunks) /\ DOMAIN prefill = 1 .. Len(prefill)
    BY DEF ChunkInv, Types
  <2>2. Contiguous(chunks) /\ Contiguous(prefill)
    BY <2>1 DEF ChunkInv, Chain, Contiguous
  <2> QED BY <2>2 DEF ChunkInv, Prefilling, Limits, Coverage
<1> QED BY <1>1, ChunksCorrect, PTL

(* A better file that starts at a loaded chunk's layer was passed over     *)
(* only because of a file that did not load (chunk_candidate_sort_key).    *)
THEOREM BestFilesChosen == Spec => []NoBetterFile
<1>1. ChunkInv => NoBetterFile
  <2> SUFFICES ASSUME ChunkInv, NEW i \in DOMAIN chunks, NEW f \in dir,
                      f.stage = chunks[i].stage, f.first = chunks[i].first,
                      RangeBetter(f, chunks[i])
               PROVE  IF f.last = chunks[i].last THEN f \in bad
                      ELSE \E g \in bad : /\ g.first = f.first /\ g.last = chunks[i].last
                                          /\ RangeBetter(g, f)
    BY DEF NoBetterFile
  <2>1. i \in 1 .. Len(chunks) /\ chunks[i] \in DecodeFiles
    BY DEF ChunkInv, Types
  <2>2. f \in DecodeFiles
    BY <2>1 DEF DecodeFiles, Candidates
  <2> QED BY <2>1, <2>2 DEF ChunkInv, Won
<1> QED BY <1>1, ChunksCorrect, PTL

(* The bound on positions is that of the chunks that are left              *)
(* (max_supported_bucket, shrink_last_chunk).                              *)
THEOREM BoundExact == Spec => []BoundIsOfTheseChunks
<1>1. ChunkInv => BoundIsOfTheseChunks
  <2> SUFFICES ASSUME ChunkInv, pc = "ready", NEW past \in 1 .. maxBucket + 1
               PROVE  past <= maxBucket <=> \E i \in DOMAIN chunks : Runs(chunks[i], past)
    BY DEF BoundIsOfTheseChunks
  <2>1. /\ chunks \in Seq(Files) /\ maxBucket \in Nat /\ maxBucket = MaxBucketOf(chunks)
        /\ DOMAIN chunks = 1 .. Len(chunks)
    <3>1. chunks \in Seq(DecodeFiles) /\ DecodeFiles \subseteq Files
      BY DecodeFilesType DEF ChunkInv, Types
    <3> QED BY <3>1, SeqMonotonic DEF ChunkInv, Types, Limits
  <2>2. past \in Nat \ {0} /\ \A i \in 1 .. Len(chunks) : chunks[i] \in Files
    BY <2>1
  <2>3. \A i \in 1 .. Len(chunks) : Runs(chunks[i], past) <=> \E b \in Serves(chunks[i]) : b >= past
    BY <2>2, RunsFacts
  <2>4. /\ \A i \in 1 .. Len(chunks) : \A b \in Serves(chunks[i]) : b <= maxBucket /\ b \in Nat
        /\ maxBucket = 0 \/ \E i \in 1 .. Len(chunks) : maxBucket \in Serves(chunks[i])
    <3>1. \A i \in 1 .. Len(chunks) : Serves(chunks[i]) \subseteq 0 .. MaxUsize
      BY <2>2, ServesType
    <3>2. \A b \in 0 .. MaxUsize : b \in Nat
      OBVIOUS
    <3>3. chunks \in Seq(Files) /\ maxBucket = MaxBucketOf(chunks)
      BY <2>1
    <3>4. /\ \A i \in 1 .. Len(chunks) : \A b \in Serves(chunks[i]) : b <= MaxBucketOf(chunks)
          /\ \/ MaxBucketOf(chunks) = 0
             \/ \E i \in 1 .. Len(chunks) : MaxBucketOf(chunks) \in Serves(chunks[i])
      BY <3>3, MaxBucketFacts, Zenon
    <3> QED BY <3>1, <3>2, <3>3, <3>4, Zenon
  <2>5. ASSUME past <= maxBucket
        PROVE  \E i \in 1 .. Len(chunks) : Runs(chunks[i], past)
    <3>1. PICK i \in 1 .. Len(chunks) : maxBucket \in Serves(chunks[i])
      BY <2>1, <2>2, <2>4, <2>5
    <3> QED BY <2>1, <2>2, <2>3, <2>5, <3>1
  <2>6. ASSUME NEW i \in 1 .. Len(chunks), Runs(chunks[i], past)
        PROVE  past <= maxBucket
    <3>1. PICK b \in Serves(chunks[i]) : b >= past
      BY <2>3, <2>6
    <3> QED BY <2>1, <2>2, <2>4, <3>1
  <2> QED BY <2>1, <2>5, <2>6
<1> QED BY <1>1, ChunksCorrect, PTL
=============================================================================
