-------------------------- MODULE ApiMaster_proofs --------------------------
(***************************************************************************)
(* For any number of chats, views and workers, any lengths and messages:   *)
(* the process keeps to its transfer limit, chats are served one at a      *)
(* time, and a client is answered from its own messages alone.             *)
(***************************************************************************)
EXTENDS ApiMaster, SequenceTheorems, FiniteSetTheorems, TLAPS

-----------------------------------------------------------------------------
(* The transfer limiter.                                                   *)

LimiterTypes ==
  /\ next \in Int /\ level \in Nat
  /\ wait \in [Writer -> [step : {"idle", "came", "sleeps"}, at : Int]]

Late == {w \in Writer : wait[w].step # "idle"}
Fits == IsFiniteSet(Late) /\ Cardinality(Late) <= Cardinality(Probe) + 1

(* Writers that will write, or may still reserve to write, up to moment k, *)
(* without a slot of their own in the t moments that are behind.           *)
Owed(t, k) ==
  {w \in Writer : \/ wait[w].step = "came" /\ wait[w].at < -t
                  \/ wait[w].step = "sleeps" /\ wait[w].at <= k}

Least(a, b) == IF a < b THEN a ELSE b
Slots(t, k) == Later(Least(next, k + 1) + t, 0)

(* Since the last moment at which nothing was written too fast, t moments  *)
(* ago, no more was written and is owed than there were slots, and one     *)
(* chunk of each writer that was late then.                                *)
Burst ==
  \E t \in Nat : \A k \in Nat :
    level + t + Cardinality(Owed(t, k)) <= Cardinality(Probe) + 1 + Slots(t, k)

LEMMA ProbesFinite == IsFiniteSet(Probe) /\ Cardinality(Probe) \in Nat
BY ApiAssumption, FS_Product, FS_CardinalityType DEF Probe

LEMMA OwedFinite ==
  ASSUME Fits, NEW t, NEW k
  PROVE  /\ IsFiniteSet(Owed(t, k)) /\ Cardinality(Owed(t, k)) \in Nat
         /\ Cardinality(Owed(t, k)) <= Cardinality(Probe) + 1
<1>1. Owed(t, k) \in SUBSET Late
  BY DEF Owed, Late
<1>2. IsFiniteSet(Owed(t, k)) /\ Cardinality(Owed(t, k)) <= Cardinality(Late)
  BY <1>1, FS_Subset DEF Fits
<1>3. Cardinality(Owed(t, k)) \in Nat /\ Cardinality(Late) \in Nat
  BY <1>2, FS_CardinalityType DEF Fits
<1> QED BY <1>2, <1>3, ProbesFinite DEF Fits

(* Nothing new is owed.                                                    *)
LEMMA NothingOwed ==
  ASSUME LimiterTypes, Burst, Fits, next' = next, level' = level,
         \A t, k \in Nat : Owed(t, k)' \subseteq Owed(t, k)
  PROVE  Burst'
<1>1. PICK t \in Nat : \A k \in Nat :
        level + t + Cardinality(Owed(t, k)) <= Cardinality(Probe) + 1 + Slots(t, k)
  BY DEF Burst
<1>2. ASSUME NEW k \in Nat
      PROVE  level' + t + Cardinality(Owed(t, k)') <= Cardinality(Probe) + 1 + Slots(t, k)'
  <2>1. /\ Cardinality(Owed(t, k)') <= Cardinality(Owed(t, k))
        /\ Cardinality(Owed(t, k)') \in Nat /\ Cardinality(Owed(t, k)) \in Nat
    <3>1. Owed(t, k)' \in SUBSET Owed(t, k)
      OBVIOUS
    <3> QED BY <3>1, OwedFinite, FS_Subset, FS_CardinalityType
  <2>2. Slots(t, k)' = Slots(t, k) /\ Slots(t, k) \in Int
    BY DEF Slots, Later, Least, LimiterTypes
  <2>3. level + t + Cardinality(Owed(t, k)) <= Cardinality(Probe) + 1 + Slots(t, k)
    BY <1>1
  <2> HIDE DEF Burst
  <2> QED BY <2>1, <2>2, <2>3, ProbesFinite DEF LimiterTypes
<1> QED BY <1>2 DEF Burst

LEMMA ReadClockBurst ==
  ASSUME LimiterTypes, Burst, Fits, NEW w \in Writer, ReadClock(w)
  PROVE  LimiterTypes' /\ Burst'
<1>1. LimiterTypes'
  BY DEF LimiterTypes, ReadClock
<1>2. \A t, k \in Nat : Owed(t, k)' \subseteq Owed(t, k)
  BY DEF LimiterTypes, ReadClock, Owed
<1> QED BY <1>1, <1>2, NothingOwed DEF ReadClock

LEMMA DroppedBurst ==
  ASSUME LimiterTypes, Burst, Fits, NEW w \in Writer, Dropped(w)
  PROVE  LimiterTypes' /\ Burst'
<1>1. LimiterTypes'
  BY DEF LimiterTypes, Dropped, Idle
<1>2. \A t, k \in Nat : Owed(t, k)' \subseteq Owed(t, k)
  BY DEF LimiterTypes, Dropped, Owed, Idle
<1> QED BY <1>1, <1>2, NothingOwed DEF Dropped

(* Whoever reserves the first free moment takes a slot of its own, or one  *)
(* that it was owed before.                                                *)
LEMMA ReserveBurst ==
  ASSUME LimiterTypes, Burst, Fits, NEW w \in Writer, Reserve(w)
  PROVE  LimiterTypes' /\ Burst'
<1> DEFINE s == wait[w].at
           until == FirstFree(s)
<1>1. /\ s \in Int /\ until \in Int /\ until >= s /\ until >= next /\ next \in Int
      /\ until = next \/ until = s
      /\ wait[w].step = "came" /\ next' = until + 1 /\ level' = level
      /\ wait' = [wait EXCEPT ![w] = [step |-> "sleeps", at |-> until]]
  BY DEF LimiterTypes, Reserve, FirstFree, Later
<1> HIDE DEF s, until
<1>2. LimiterTypes'
  BY <1>1 DEF LimiterTypes
<1>3. PICK t \in Nat : \A k \in Nat :
        level + t + Cardinality(Owed(t, k)) <= Cardinality(Probe) + 1 + Slots(t, k)
  BY DEF Burst
<1>4. ASSUME NEW k \in Nat
      PROVE  level' + t + Cardinality(Owed(t, k)') <= Cardinality(Probe) + 1 + Slots(t, k)'
  <2>1. level + t + Cardinality(Owed(t, k)) <= Cardinality(Probe) + 1 + Slots(t, k)
    BY <1>3
  <2>2. /\ IsFiniteSet(Owed(t, k)) /\ Cardinality(Owed(t, k)) \in Nat
        /\ level \in Nat /\ Cardinality(Probe) \in Nat
        /\ Slots(t, k) \in Nat /\ Slots(t, k)' \in Nat
    BY <1>1, OwedFinite, ProbesFinite DEF Slots, Later, Least, LimiterTypes
  <2>3. Slots(t, k) <= Slots(t, k)'
    BY <1>1 DEF Slots, Later, Least
  <2>4. CASE s < -t \/ until > k
    <3>1. Owed(t, k)' \in SUBSET Owed(t, k)
      BY <1>1, <2>4 DEF Owed, LimiterTypes, s
    <3>2. Cardinality(Owed(t, k)') <= Cardinality(Owed(t, k)) /\ Cardinality(Owed(t, k)') \in Nat
      BY <2>2, <3>1, FS_Subset, FS_CardinalityType
    <3> QED BY <1>1, <2>1, <2>2, <2>3, <3>2
  <2>5. CASE s >= -t /\ until <= k
    <3>1. Owed(t, k)' \in SUBSET (Owed(t, k) \cup {w})
      BY <1>1 DEF Owed, LimiterTypes
    <3>2. /\ Cardinality(Owed(t, k)') <= Cardinality(Owed(t, k)) + 1
          /\ Cardinality(Owed(t, k)') \in Nat
      <4>1. /\ IsFiniteSet(Owed(t, k) \cup {w})
            /\ Cardinality(Owed(t, k) \cup {w}) <= Cardinality(Owed(t, k)) + 1
            /\ Cardinality(Owed(t, k) \cup {w}) \in Nat
        BY <2>2, FS_AddElement
      <4>2. IsFiniteSet(Owed(t, k)') /\ Cardinality(Owed(t, k)') <= Cardinality(Owed(t, k) \cup {w})
        BY <3>1, <4>1, FS_Subset
      <4>3. Cardinality(Owed(t, k)') \in Nat
        BY <4>2, FS_CardinalityType
      <4> QED BY <2>2, <4>1, <4>2, <4>3
    <3>3. Slots(t, k)' >= Slots(t, k) + 1
      BY <1>1, <2>5 DEF Slots, Later, Least
    <3> QED BY <1>1, <2>1, <2>2, <3>2, <3>3
  <2> QED BY <1>1, <2>4, <2>5
<1> QED BY <1>2, <1>4 DEF Burst

(* What is written was owed.                                               *)
LEMMA WriteChunkBurst ==
  ASSUME LimiterTypes, Burst, Fits, NEW w \in Writer, WriteChunk(w)
  PROVE  LimiterTypes' /\ Burst'
<1>1. LimiterTypes' /\ wait' = [wait EXCEPT ![w] = Idle] /\ next' = next
  BY DEF LimiterTypes, WriteChunk, Idle
<1>2. CASE level' = level
  <2>1. \A t, k \in Nat : Owed(t, k)' \subseteq Owed(t, k)
    BY <1>1 DEF LimiterTypes, Owed, Idle
  <2> QED BY <1>1, <1>2, <2>1, NothingOwed
<1>3. CASE level' = level + 1 /\ wait[w].step = "sleeps" /\ wait[w].at <= 0
  <2>1. PICK t \in Nat : \A k \in Nat :
          level + t + Cardinality(Owed(t, k)) <= Cardinality(Probe) + 1 + Slots(t, k)
    BY DEF Burst
  <2>2. ASSUME NEW k \in Nat
        PROVE  level' + t + Cardinality(Owed(t, k)') <= Cardinality(Probe) + 1 + Slots(t, k)'
    <3>1. w \in Owed(t, k)
      BY <1>3 DEF Owed, LimiterTypes
    <3>2. Owed(t, k)' = Owed(t, k) \ {w}
      BY <1>1 DEF Owed, LimiterTypes, Idle
    <3>3. /\ Cardinality(Owed(t, k)') = Cardinality(Owed(t, k)) - 1
          /\ Cardinality(Owed(t, k)) \in Nat
      BY <3>1, <3>2, OwedFinite, FS_RemoveElement
    <3>4. Slots(t, k)' = Slots(t, k) /\ Slots(t, k) \in Int
      BY <1>1 DEF Slots, Later, Least, LimiterTypes
    <3>5. level + t + Cardinality(Owed(t, k)) <= Cardinality(Probe) + 1 + Slots(t, k)
      BY <2>1
    <3> HIDE DEF Burst
    <3> QED BY <1>3, <3>3, <3>4, <3>5, ProbesFinite DEF LimiterTypes
  <2> QED BY <1>1, <2>2 DEF Burst
<1> QED BY <1>2, <1>3 DEF WriteChunk

(* Time passes: one moment more is behind, or what was written too fast is *)
(* made up for, and all that can be owed is a chunk of each late writer.   *)
LEMMA TickBurst ==
  ASSUME LimiterTypes, Burst, Fits, Tick
  PROVE  LimiterTypes' /\ Burst'
<1>1. /\ Past \in Nat /\ next \in Int /\ level \in Nat
      /\ next' = Later(next - 1, -Past) /\ level' = Later(level - 1, 0)
      /\ next' \in Int /\ level' \in Nat
      /\ wait' \in [Writer -> [step : {"idle", "came", "sleeps"}, at : Int]]
      /\ \A w \in Writer :
           /\ wait[w].step = "idle" => wait'[w].step = "idle"
           /\ wait[w].step # "idle" => /\ wait'[w].step = wait[w].step
                                       /\ wait'[w].at = Later(wait[w].at - 1, -Past)
  BY PastAssumption DEF LimiterTypes, Tick, Later, Idle
<1>2. LimiterTypes'
  BY <1>1 DEF LimiterTypes
<1>3. CASE level = 0
  <2>1. ASSUME NEW k \in Nat
        PROVE  level' + 0 + Cardinality(Owed(0, k)') <= Cardinality(Probe) + 1 + Slots(0, k)'
    <3>1. Owed(0, k)' \in SUBSET Late
      BY <1>1 DEF Owed, Late
    <3>2. /\ Cardinality(Owed(0, k)') <= Cardinality(Probe) + 1
          /\ Cardinality(Owed(0, k)') \in Nat
      <4>1. IsFiniteSet(Owed(0, k)') /\ Cardinality(Owed(0, k)') <= Cardinality(Late)
        BY <3>1, FS_Subset DEF Fits
      <4>2. Cardinality(Owed(0, k)') \in Nat /\ Cardinality(Late) \in Nat
        BY <4>1, FS_CardinalityType DEF Fits
      <4> QED BY <4>1, <4>2, ProbesFinite DEF Fits
    <3>3. Slots(0, k)' \in Nat /\ level' = 0
      BY <1>1, <1>3 DEF Slots, Later, Least
    <3> QED BY <3>2, <3>3, ProbesFinite
  <2> QED BY <1>2, <2>1 DEF Burst
<1>4. CASE level # 0
  <2>1. PICK t \in Nat : \A k \in Nat :
          level + t + Cardinality(Owed(t, k)) <= Cardinality(Probe) + 1 + Slots(t, k)
    BY DEF Burst
  <2>2. ASSUME NEW k \in Nat
        PROVE  level' + (t + 1) + Cardinality(Owed(t + 1, k)')
                 <= Cardinality(Probe) + 1 + Slots(t + 1, k)'
    <3>1. k + 1 \in Nat /\ level' = level - 1
      BY <1>1, <1>4 DEF Later
    <3>2. Owed(t + 1, k)' \in SUBSET Owed(t, k + 1)
      <4> SUFFICES ASSUME NEW w \in Writer,
                          \/ wait'[w].step = "came" /\ wait'[w].at < -(t + 1)
                          \/ wait'[w].step = "sleeps" /\ wait'[w].at <= k
                   PROVE  w \in Owed(t, k + 1)
        BY DEF Owed
      <4>1. wait[w].at \in Int
        BY DEF LimiterTypes
      <4> QED BY <1>1, <4>1 DEF Owed, Later
    <3>3. /\ Cardinality(Owed(t + 1, k)') <= Cardinality(Owed(t, k + 1))
          /\ Cardinality(Owed(t + 1, k)') \in Nat /\ Cardinality(Owed(t, k + 1)) \in Nat
      BY <3>2, OwedFinite, FS_Subset, FS_CardinalityType
    <3>4. Slots(t, k + 1) <= Slots(t + 1, k)' /\ Slots(t, k + 1) \in Nat /\ Slots(t + 1, k)' \in Nat
      BY <1>1 DEF Slots, Later, Least
    <3>5. level + t + Cardinality(Owed(t, k + 1)) <= Cardinality(Probe) + 1 + Slots(t, k + 1)
      BY <2>1, <3>1
    <3> HIDE DEF Burst
    <3> QED BY <1>1, <3>1, <3>3, <3>4, <3>5, ProbesFinite
  <2>3. t + 1 \in Nat
    OBVIOUS
  <2> QED BY <1>2, <2>2, <2>3 DEF Burst
<1> QED BY <1>3, <1>4
-----------------------------------------------------------------------------
(* Sequences, prefixes and the texts of an answer.                         *)

LEMMA ConcatAt ==
  ASSUME NEW S, NEW s \in Seq(S), NEW t \in Seq(S)
  PROVE  /\ s \o t \in Seq(S) /\ Len(s) \in Nat /\ Len(t) \in Nat
         /\ Len(s \o t) = Len(s) + Len(t)
         /\ \A i \in 1 .. Len(s) : (s \o t)[i] = s[i]
         /\ \A i \in 1 .. Len(t) : (s \o t)[Len(s) + i] = t[i]
<1>1. /\ s \o t \in Seq(S) /\ Len(s \o t) = Len(s) + Len(t)
      /\ Len(s) \in Nat /\ Len(t) \in Nat
  BY ConcatProperties, LenProperties
<1>2. \A i \in 1 .. Len(s) + Len(t) :
        (s \o t)[i] = IF i <= Len(s) THEN s[i] ELSE t[i - Len(s)]
  BY ConcatProperties, Zenon
<1>3. ASSUME NEW i \in 1 .. Len(s)
      PROVE  (s \o t)[i] = s[i]
  <2>1. i \in 1 .. Len(s) + Len(t) /\ i <= Len(s)
    BY <1>1
  <2> QED BY <1>2, <2>1, Zenon
<1>4. ASSUME NEW i \in 1 .. Len(t)
      PROVE  (s \o t)[Len(s) + i] = t[i]
  <2>1. Len(s) + i \in 1 .. Len(s) + Len(t) /\ ~ (Len(s) + i <= Len(s)) /\ (Len(s) + i) - Len(s) = i
    BY <1>1
  <2>2. (s \o t)[Len(s) + i] = t[(Len(s) + i) - Len(s)]
    BY <1>2, <2>1, Zenon
  <2> QED BY <2>1, <2>2, Zenon
<1> QED BY <1>1, <1>3, <1>4

LEMMA PrefixFacts ==
  ASSUME NEW S, NEW s \in Seq(S), NEW t \in Seq(S)
  PROVE  /\ IsPrefix(s, t) <=> Len(s) <= Len(t) /\ \A i \in 1 .. Len(s) : s[i] = t[i]
         /\ IsPrefix(s, s) /\ IsPrefix(<<>>, s) /\ IsPrefix(s, s \o t)
<1>1. ASSUME NEW a \in Seq(S), NEW b \in Seq(S)
      PROVE  IsPrefix(a, b) <=> Len(a) <= Len(b) /\ \A i \in 1 .. Len(a) : a[i] = b[i]
  <2>1. Len(a) \in Nat /\ Len(b) \in Nat
    BY LenProperties
  <2>2. CASE Len(a) <= Len(b)
    <3> DEFINE u == SubSeq(a, 1, Len(a))
               v == SubSeq(b, 1, Len(a))
    <3>1. /\ u \in Seq(S) /\ Len(u) = Len(a) /\ \A i \in 1 .. Len(a) : u[i] = a[i]
      BY <2>1, SubSeqProperties
    <3>2. /\ v \in Seq(S) /\ Len(v) = Len(a) /\ \A i \in 1 .. Len(a) : v[i] = b[i]
      BY <2>1, <2>2, SubSeqProperties
    <3>3. IsPrefix(a, b) <=> u = v
      BY <2>2 DEF IsPrefix
    <3> HIDE DEF u, v
    <3>4. ASSUME \A i \in 1 .. Len(a) : a[i] = b[i]
          PROVE  u = v
      BY <3>1, <3>2, <3>4, SeqEqual
    <3>5. ASSUME u = v
          PROVE  \A i \in 1 .. Len(a) : a[i] = b[i]
      BY <3>1, <3>2, <3>5
    <3> QED BY <2>2, <3>3, <3>4, <3>5
  <2>3. CASE ~ (Len(a) <= Len(b))
    BY <2>3 DEF IsPrefix
  <2> QED BY <2>2, <2>3
<1>2. IsPrefix(s, s)
  BY <1>1, LenProperties
<1>3. IsPrefix(<<>>, s)
  <2>1. <<>> \in Seq(S) /\ Len(<<>>) = 0 /\ Len(s) \in Nat
    OBVIOUS
  <2>2. Len(<<>>) <= Len(s) /\ \A i \in 1 .. Len(<<>>) : <<>>[i] = s[i]
    BY <2>1
  <2> QED BY <1>1, <2>1, <2>2, Zenon
<1>4. IsPrefix(s, s \o t)
  <2>1. /\ s \o t \in Seq(S) /\ Len(s \o t) = Len(s) + Len(t)
        /\ \A i \in 1 .. Len(s) : (s \o t)[i] = s[i]
        /\ Len(s) \in Nat /\ Len(t) \in Nat
    BY ConcatAt
  <2>2. Len(s) <= Len(s \o t) /\ \A i \in 1 .. Len(s) : s[i] = (s \o t)[i]
    BY <2>1
  <2> QED BY <1>1, <2>1, <2>2, Zenon
<1> QED BY <1>1, <1>2, <1>3, <1>4

LEMMA PrefixOfMore ==
  ASSUME NEW S, NEW s \in Seq(S), NEW t \in Seq(S), NEW e \in Seq(S), IsPrefix(s, t)
  PROVE  IsPrefix(s, t \o e)
<1>1. Len(s) <= Len(t) /\ \A i \in 1 .. Len(s) : s[i] = t[i]
  BY PrefixFacts
<1>2. /\ t \o e \in Seq(S) /\ Len(t \o e) = Len(t) + Len(e)
      /\ \A i \in 1 .. Len(t) : (t \o e)[i] = t[i]
      /\ Len(s) \in Nat /\ Len(t) \in Nat /\ Len(e) \in Nat
  BY ConcatAt, LenProperties
<1>3. \A i \in 1 .. Len(s) : i \in 1 .. Len(t)
  BY <1>1, <1>2
<1>4. Len(s) <= Len(t \o e) /\ \A i \in 1 .. Len(s) : s[i] = (t \o e)[i]
  BY <1>1, <1>2, <1>3
<1> QED BY <1>2, <1>4, PrefixFacts

Word == STRING \cup (Seq(Chat \X Nat) \X Nat)
Event ==
  {Failed(400), Failed(500), DoneMark}
  \cup {Metrics(n) : n \in Nat} \cup {Piece(t) : t \in Word}
  \cup {Answer(text, n) : text \in Seq(Word), n \in Nat}

LEMMA MessagesType ==
  ASSUME ask \in Asks, NEW c \in Chat
  PROVE  Messages(c) \in Seq(Chat \X Nat) /\ ask[c].stream \in BOOLEAN
<1>1. ask[c].messages \in Seq(BOOLEAN) /\ ask[c].stream \in BOOLEAN
  BY ApiAssumption
<1>2. DOMAIN ask[c].messages = 1 .. Len(ask[c].messages) /\ Len(ask[c].messages) \in Nat
  BY <1>1
<1>3. Messages(c) \in [1 .. Len(ask[c].messages) -> Chat \X Nat]
  BY <1>2 DEF Messages, Message
<1> QED BY <1>1, <1>2, <1>3, SeqDef

LEMMA TextFacts ==
  ASSUME ask \in Asks, NEW c \in Chat, NEW n \in Nat
  PROVE  /\ Text(c, n) \in Seq(Word) /\ ArgsPrompt \in Seq(Word)
         /\ Text(c, 0) = ArgsPrompt
         /\ <<Token(Messages(c), n + 1)>> \in Seq(Word)
         /\ Text(c, n + 1) = Text(c, n) \o <<Token(Messages(c), n + 1)>>
<1> DEFINE T(k) == [i \in 1 .. k |-> Token(Messages(c), i)]
<1>1. ArgsPrompt \in Seq(Word)
  BY ApiAssumption, SeqMonotonic DEF Word
<1>2. ASSUME NEW k \in Nat
      PROVE  T(k) \in Seq(Word) /\ Len(T(k)) = k /\ \A i \in 1 .. k : T(k)[i] = Token(Messages(c), i)
  <2>1. \A i \in Nat : Token(Messages(c), i) \in Word
    BY MessagesType DEF Word, Token
  <2>2. T(k) \in [1 .. k -> Word]
    BY <2>1
  <2>3. T(k) \in Seq(Word)
    BY <2>2, SeqDef
  <2> QED BY <2>2, <2>3
<1>3. ASSUME NEW k \in Nat
      PROVE  Text(c, k) = ArgsPrompt \o T(k) /\ Text(c, k) \in Seq(Word)
  BY <1>1, <1>2, ConcatProperties DEF Text
<1>4. Text(c, 0) = ArgsPrompt
  <2>1. T(0) = <<>>
    BY <1>2, EmptySeq
  <2> QED BY <1>1, <1>3, <2>1, ConcatEmptySeq
<1>5. Token(Messages(c), n + 1) \in Word
  BY MessagesType DEF Word, Token
<1>6. T(n + 1) = T(n) \o <<Token(Messages(c), n + 1)>>
  <2> DEFINE u == T(n)
             v == <<Token(Messages(c), n + 1)>>
             x == T(n + 1)
  <2>1. /\ u \in Seq(Word) /\ Len(u) = n
        /\ \A i \in 1 .. n : u[i] = Token(Messages(c), i)
        /\ x \in Seq(Word) /\ Len(x) = n + 1
        /\ \A i \in 1 .. n + 1 : x[i] = Token(Messages(c), i)
    BY <1>2
  <2>2. v \in Seq(Word) /\ Len(v) = 1 /\ v[1] = Token(Messages(c), n + 1)
    BY <1>5
  <2> HIDE DEF u, v, x
  <2>3. /\ u \o v \in Seq(Word) /\ Len(u \o v) = n + 1
        /\ \A i \in 1 .. Len(u) : (u \o v)[i] = u[i]
        /\ \A i \in 1 .. Len(v) : (u \o v)[Len(u) + i] = v[i]
    <3>1. /\ u \o v \in Seq(Word) /\ Len(u \o v) = Len(u) + Len(v)
          /\ \A i \in 1 .. Len(u) : (u \o v)[i] = u[i]
          /\ \A i \in 1 .. Len(v) : (u \o v)[Len(u) + i] = v[i]
      <4>1. u \in Seq(Word) /\ v \in Seq(Word)
        BY <2>1, <2>2
      <4> QED BY <4>1, ConcatAt
    <3> QED BY <2>1, <2>2, <3>1
  <2>4. ASSUME NEW i \in 1 .. Len(x)
        PROVE  x[i] = (u \o v)[i]
    <3>1. CASE i = n + 1
      <4>1. (u \o v)[n + 1] = v[1]
        BY <2>1, <2>2, <2>3
      <4> QED BY <2>1, <2>2, <3>1, <4>1
    <3>2. CASE i \in 1 .. n
      BY <2>1, <2>3, <3>2
    <3>3. i = n + 1 \/ i \in 1 .. n
      BY <2>1
    <3> QED BY <3>1, <3>2, <3>3
  <2>5. x = u \o v
    BY <2>1, <2>3, <2>4, SeqEqual
  <2> QED BY <2>5 DEF u, v, x
<1>7. <<Token(Messages(c), n + 1)>> \in Seq(Word)
  BY <1>5
<1>8. Text(c, n + 1) = Text(c, n) \o <<Token(Messages(c), n + 1)>>
  <2> DEFINE v == <<Token(Messages(c), n + 1)>>
             u == T(n)
  <2>1. Text(c, n + 1) = ArgsPrompt \o (u \o v) /\ Text(c, n) = ArgsPrompt \o u
    BY <1>6 DEF Text
  <2>2. u \in Seq(Word) /\ v \in Seq(Word)
    BY <1>2, <1>7
  <2> HIDE DEF T, u, v
  <2>3. ArgsPrompt \o (u \o v) = (ArgsPrompt \o u) \o v
    BY <1>1, <2>2, ConcatAssociative
  <2> QED BY <2>1, <2>3 DEF v
<1> QED BY <1>1, <1>3, <1>4, <1>7, <1>8

LEMMA PiecesFacts ==
  ASSUME NEW a \in Seq(Word), NEW b \in Seq(Word)
  PROVE  Pieces(a) \in Seq(Event) /\ Pieces(a \o b) = Pieces(a) \o Pieces(b)
<1>1. ASSUME NEW s \in Seq(Word)
      PROVE  /\ Pieces(s) \in Seq(Event) /\ Len(Pieces(s)) = Len(s)
             /\ \A i \in 1 .. Len(s) : Pieces(s)[i] = Piece(s[i])
  <2>1. DOMAIN s = 1 .. Len(s) /\ Len(s) \in Nat /\ \A i \in 1 .. Len(s) : s[i] \in Word
    OBVIOUS
  <2>2. \A t \in Word : Piece(t) \in Event
    BY DEF Event
  <2>3. Pieces(s) \in [1 .. Len(s) -> Event]
    BY <2>1, <2>2 DEF Pieces
  <2>4. Pieces(s) \in Seq(Event)
    BY <2>1, <2>3, SeqDef
  <2> QED BY <2>1, <2>3, <2>4 DEF Pieces
<1>2. /\ a \o b \in Seq(Word) /\ Len(a \o b) = Len(a) + Len(b)
      /\ \A i \in 1 .. Len(a) : (a \o b)[i] = a[i]
      /\ \A i \in 1 .. Len(b) : (a \o b)[Len(a) + i] = b[i]
      /\ Len(a) \in Nat /\ Len(b) \in Nat
  BY ConcatAt
<1> DEFINE u == Pieces(a) \o Pieces(b)
           v == Pieces(a \o b)
<1>3. /\ u \in Seq(Event) /\ Len(u) = Len(a) + Len(b)
      /\ \A i \in 1 .. Len(a) : u[i] = Pieces(a)[i]
      /\ \A i \in 1 .. Len(b) : u[Len(a) + i] = Pieces(b)[i]
  <2>1. Pieces(a) \in Seq(Event) /\ Pieces(b) \in Seq(Event)
    BY <1>1
  <2>2. Len(Pieces(a)) = Len(a) /\ Len(Pieces(b)) = Len(b)
    BY <1>1
  <2> HIDE DEF v
  <2>3. /\ u \in Seq(Event) /\ Len(u) = Len(Pieces(a)) + Len(Pieces(b))
        /\ \A i \in 1 .. Len(Pieces(a)) : u[i] = Pieces(a)[i]
        /\ \A i \in 1 .. Len(Pieces(b)) : u[Len(Pieces(a)) + i] = Pieces(b)[i]
    BY <2>1, ConcatAt
  <2> HIDE DEF u
  <2> QED BY <2>2, <2>3, Zenon
<1>4. /\ v \in Seq(Event) /\ Len(v) = Len(a) + Len(b)
      /\ \A i \in 1 .. Len(a) + Len(b) : v[i] = Piece((a \o b)[i])
  BY <1>1, <1>2
<1> HIDE DEF u, v
<1>5. ASSUME NEW i \in 1 .. Len(u)
      PROVE  u[i] = v[i]
  <2>1. CASE i <= Len(a)
    BY <1>1, <1>2, <1>3, <1>4, <2>1
  <2>2. CASE i > Len(a)
    <3>1. PICK j \in 1 .. Len(b) : i = Len(a) + j
      <4>1. i - Len(a) \in 1 .. Len(b) /\ i = Len(a) + (i - Len(a))
        BY <1>2, <1>3, <2>2
      <4> QED BY <4>1
    <3>2. u[i] = Piece(b[j])
      BY <1>1, <1>3, <3>1
    <3>3. i \in 1 .. Len(a) + Len(b)
      BY <1>3
    <3>4. v[i] = Piece(b[j])
      BY <1>2, <1>4, <3>1, <3>3
    <3> QED BY <3>2, <3>4
  <2> QED BY <1>2, <1>3, <2>1, <2>2
<1>6. u = v
  BY <1>3, <1>4, <1>5, SeqEqual
<1> QED BY <1>1, <1>6 DEF u, v

-----------------------------------------------------------------------------
(* What a client was told so far, and all that it may be told.             *)

Serving == {"writing", "waiting", "ending"}

Said(c, text) == IF ask[c].stream THEN Pieces(text) ELSE <<>>
Whole(c) == IF ask[c].stream THEN Streams(c) ELSE Answers(c)
Heard(c) == IsPrefix(out[c], Said(c, resp[c])) /\ (c \notin gone => out[c] = Said(c, resp[c]))

Closed(c) ==
  /\ \E s \in Whole(c) : IsPrefix(out[c], s)
  /\ c \notin gone => out[c] \in Whole(c)
  /\ BadMessages(c) # {} => \A i \in DOMAIN out[c] : out[c][i].kind \in {"error", "[DONE]"}

FailedEnd(c, status) == IF ask[c].stream THEN <<Failed(status), DoneMark>> ELSE <<Failed(status)>>
GoodEnd(c, n) ==
  IF ask[c].stream THEN <<Metrics(Replies(n)), DoneMark>> ELSE <<Answer(Text(c, n), Replies(n))>>

LEMMA RepliesType == ASSUME NEW n \in 0 .. SampleLen PROVE n \in Nat /\ Replies(n) \in Nat
BY ApiAssumption DEF Replies

LEMMA EndsAreWhole ==
  ASSUME ask \in Asks, NEW c \in Chat, NEW n \in 0 .. SampleLen, NEW status \in {400, 500}
  PROVE  /\ Said(c, Text(c, n)) \in Seq(Event)
         /\ FailedEnd(c, status) \in Seq(Event) /\ FailedEnd(c, status) \in Whole(c)
         /\ FailedEnd(c, 500) \in Seq(Event) /\ Said(c, Text(c, n)) \o FailedEnd(c, 500) \in Whole(c)
         /\ GoodEnd(c, n) \in Seq(Event) /\ Said(c, Text(c, n)) \o GoodEnd(c, n) \in Whole(c)
<1>1. /\ n \in Nat /\ Replies(n) \in Nat /\ Text(c, n) \in Seq(Word)
      /\ Pieces(Text(c, n)) \in Seq(Event) /\ ask[c].stream \in BOOLEAN
  BY RepliesType, TextFacts, PiecesFacts, MessagesType
<1>2. \A s \in {400, 500} : Failed(s) \in Event
  BY DEF Event
<1>3. DoneMark \in Event /\ Metrics(Replies(n)) \in Event
  BY <1>1 DEF Event
<1>4. Answer(Text(c, n), Replies(n)) \in Event
  BY <1>1 DEF Event
<1>5. Said(c, Text(c, n)) \in Seq(Event)
  BY <1>1 DEF Said
<1>6. FailedEnd(c, status) \in Seq(Event) /\ FailedEnd(c, 500) \in Seq(Event)
  BY <1>2, <1>3 DEF FailedEnd
<1>7. GoodEnd(c, n) \in Seq(Event)
  BY <1>3, <1>4 DEF GoodEnd
<1>8. CASE ask[c].stream
  <2>1. Whole(c) = Streams(c) /\ Said(c, Text(c, n)) = Pieces(Text(c, n))
    BY <1>8 DEF Whole, Said
  <2>2. FailedEnd(c, status) \in Whole(c)
    BY <1>8, <2>1 DEF FailedEnd, Streams
  <2>3. Said(c, Text(c, n)) \o FailedEnd(c, 500) \in Whole(c)
    <3>1. Pieces(Text(c, n)) \o <<Failed(500), DoneMark>> \in Streams(c)
      <4> DEFINE Broken == {Pieces(Text(c, m)) \o <<Failed(500), DoneMark>> : m \in 0 .. SampleLen}
      <4>1. Pieces(Text(c, n)) \o <<Failed(500), DoneMark>> \in Broken
        OBVIOUS
      <4>2. \A x \in Broken : x \in Streams(c)
        <5> HIDE DEF Broken
        <5>1. \E early, complete : Streams(c) = early \cup Broken \cup complete
          BY DEF Streams, Broken
        <5> QED BY <5>1
      <4> QED BY <4>1, <4>2
    <3> QED BY <1>8, <2>1, <3>1 DEF FailedEnd
  <2>4. Said(c, Text(c, n)) \o GoodEnd(c, n) \in Whole(c)
    BY <1>8, <2>1, ZenonT(40) DEF GoodEnd, Streams
  <2> QED BY <1>5, <1>6, <1>7, <2>2, <2>3, <2>4
<1>9. CASE ~ask[c].stream
  <2>1. Whole(c) = Answers(c) /\ Said(c, Text(c, n)) = <<>>
    BY <1>9 DEF Whole, Said
  <2>2. FailedEnd(c, status) \in Answers(c) /\ FailedEnd(c, 500) \in Answers(c)
    BY <1>9 DEF FailedEnd, Answers
  <2>3. GoodEnd(c, n) \in Answers(c)
    BY <1>9 DEF GoodEnd, Answers
  <2>4. <<>> \o FailedEnd(c, 500) = FailedEnd(c, 500) /\ <<>> \o GoodEnd(c, n) = GoodEnd(c, n)
    BY <1>6, <1>7, ConcatEmptySeq
  <2> QED BY <1>5, <1>6, <1>7, <2>1, <2>2, <2>3, <2>4
<1> QED BY <1>1, <1>8, <1>9

(* ask is never written.                                                   *)
LEMMA SameAsk ==
  ASSUME ask' = ask
  PROVE  \A c : /\ Messages(c)' = Messages(c) /\ BadMessages(c)' = BadMessages(c)
                /\ \A n : Text(c, n)' = Text(c, n) /\ Said(c, n)' = Said(c, n)
                /\ Whole(c)' = Whole(c)
<1>1. \A c : Messages(c)' = Messages(c) /\ BadMessages(c)' = BadMessages(c)
  BY DEF Messages, BadMessages
<1>2. \A c, n : Text(c, n)' = Text(c, n)
  BY <1>1 DEF Text
<1>3. \A c, n : Said(c, n)' = Said(c, n)
  BY DEF Said
<1>4. \A c : Streams(c)' = Streams(c)
  <2> DEFINE Broken(c) == {Pieces(Text(c, n)) \o <<Failed(500), DoneMark>> : n \in 0 .. SampleLen}
             Complete(c) == {Pieces(Text(c, n)) \o <<Metrics(Replies(n)), DoneMark>> : n \in 0 .. SampleLen}
             Early == {<<Failed(s), DoneMark>> : s \in {400, 500}}
  <2>1. \A c : Broken(c)' = Broken(c)
    BY <1>2
  <2>2. \A c : Complete(c)' = Complete(c)
    BY <1>2
  <2>3. \A c : Streams(c) = Early \cup Broken(c) \cup Complete(c)
    BY DEF Streams
  <2>4. \A c : Streams(c)' = Early \cup Broken(c)' \cup Complete(c)'
    BY DEF Streams
  <2> HIDE DEF Broken, Complete, Early
  <2> QED BY <2>1, <2>2, <2>3, <2>4
<1>5. \A c : Answers(c)' = Answers(c)
  BY <1>2 DEF Answers
<1>6. \A c : Whole(c)' = Whole(c)
  BY <1>4, <1>5 DEF Whole
<1> QED BY <1>1, <1>2, <1>3, <1>6

-----------------------------------------------------------------------------
(* The invariant.                                                          *)

ApiTypes ==
  /\ ask \in Asks
  /\ chat \in [Chat -> {"new", "queued", "writing", "waiting", "ending", "done"}]
  /\ holder \in Chat \cup {Nobody} /\ queue \in Seq(Chat \cup View)
  /\ resp \in [Chat -> Seq(Word)] /\ out \in [Chat -> Seq(Event)]

(* The lock: a chat is served if and only if it holds it, and a chat that  *)
(* waits for it waits once.                                                *)
Lock ==
  /\ \A c \in Chat : chat[c] \in Serving <=> holder = c
  /\ \A i \in 1 .. Len(queue) : queue[i] \in Chat => chat[queue[i]] = "queued"
  /\ \A i, j \in 1 .. Len(queue) : queue[i] \in Chat /\ queue[i] = queue[j] => i = j

LateChats == \A c \in Chat : wait[c].step # "idle" => chat[c] = "writing"

(* While a chat is served, the generator and the profile are its own.      *)
Served(c) ==
  /\ BadMessages(c) = {}
  /\ \E n \in 0 .. SampleLen :
       /\ resp[c] = Text(c, n)
       /\ IF chat[c] = "ending" THEN profile = Replies(n)
          ELSE /\ n < SampleLen /\ profile = n
               /\ model = [history |-> Messages(c), generated |-> n]

Own(c) ==
  /\ chat[c] \in {"new", "queued"} => resp[c] = <<>> /\ out[c] = <<>>
  /\ chat[c] \in Serving => Heard(c) /\ Served(c)
  /\ chat[c] = "done" => Closed(c)

ApiInv ==
  /\ ApiTypes /\ Lock /\ LateChats /\ (\A c \in Chat : Own(c))
  /\ LimiterTypes /\ Burst

-----------------------------------------------------------------------------
(* The limiter among the requests.                                         *)

LEMMA FitsHolds ==
  ASSUME ApiTypes, Lock, LateChats
  PROVE  Fits
<1>1. Late \in SUBSET (Probe \cup {holder})
  BY ApiAssumption DEF Late, Lock, LateChats, Serving
<1>2. /\ IsFiniteSet(Probe \cup {holder})
      /\ Cardinality(Probe \cup {holder}) <= Cardinality(Probe) + 1
      /\ Cardinality(Probe \cup {holder}) \in Nat
  BY ProbesFinite, FS_AddElement
<1>3. IsFiniteSet(Late) /\ Cardinality(Late) <= Cardinality(Probe \cup {holder})
  BY <1>1, <1>2, FS_Subset
<1>4. Cardinality(Late) \in Nat
  BY <1>3, FS_CardinalityType
<1> QED BY <1>2, <1>3, <1>4, ProbesFinite DEF Fits

LEMMA SameLimiter ==
  ASSUME LimiterTypes, Burst, UNCHANGED limiterVars
  PROVE  LimiterTypes' /\ Burst'
BY DEF LimiterTypes, Burst, Owed, Slots, limiterVars

LEMMA LimiterInv ==
  ASSUME ApiInv, Next
  PROVE  LimiterTypes' /\ Burst'
<1>1. Fits /\ LimiterTypes /\ Burst
  BY FitsHolds DEF ApiInv
<1>2. Chat \subseteq Writer /\ Probe \subseteq Writer
  BY ApiAssumption
<1>3. \/ UNCHANGED limiterVars
      \/ Tick
      \/ \E w \in Writer : ReadClock(w) \/ Reserve(w) \/ WriteChunk(w) \/ Dropped(w)
  <2>1. ASSUME NEW c \in Chat, Post(c) \/ ChatStep(c) \/ ClientLeaves(c)
        PROVE  \/ UNCHANGED limiterVars
               \/ ReadClock(c) \/ Reserve(c) \/ WriteChunk(c) \/ Dropped(c)
    BY <2>1 DEF Post, ChatStep, ClientLeaves, ResetFails, RefuseMessage, StartGenerate,
       WaitForSlot, SendChunk, NextToken, EndOfStream, Finish, GenerationFails
  <2>2. ASSUME NEW v \in View, Get(v) \/ ViewStep(v)
        PROVE  UNCHANGED limiterVars
    BY <2>2 DEF Get, ViewStep, ReadTopology, AnswerView
  <2>3. ASSUME NEW p \in Probe, ProbeStep(p) \/ Info(p) \/ Offline(p)
        PROVE  \/ UNCHANGED limiterVars
               \/ ReadClock(p) \/ Reserve(p) \/ WriteChunk(p) \/ Dropped(p)
    BY <2>3 DEF ProbeStep, Connect, WaitForSlot, SendHello, Info, Offline
  <2>4. ASSUME TimePasses
        PROVE  Tick
    BY <2>4 DEF TimePasses
  <2> QED BY <1>2, <2>1, <2>2, <2>3, <2>4 DEF Next
<1> QED BY <1>1, <1>3, SameLimiter, TickBurst, ReadClockBurst, ReserveBurst, WriteChunkBurst,
           DroppedBurst

-----------------------------------------------------------------------------
(* What is sent.                                                           *)

LEMMA SentFacts ==
  ASSUME ApiTypes, NEW c \in Chat, NEW e \in Seq(Event)
  PROVE  /\ Sent(c, e) \in [Chat -> Seq(Event)]
         /\ Sent(c, e)[c] = IF c \in gone THEN out[c] ELSE out[c] \o e
         /\ \A d \in Chat \ {c} : Sent(c, e)[d] = out[d]
<1>1. out \in [Chat -> Seq(Event)]
  BY DEF ApiTypes
<1>2. out[c] \o e \in Seq(Event)
  BY <1>1, ConcatProperties
<1> QED BY <1>1, <1>2 DEF Sent

(* More of the text.                                                       *)
LEMMA StreamHeard ==
  ASSUME ApiTypes, NEW c \in Chat, Heard(c), NEW text \in Seq(Word), Stream(c, text),
         ask' = ask, gone' = gone
  PROVE  /\ resp' \in [Chat -> Seq(Word)] /\ out' \in [Chat -> Seq(Event)]
         /\ resp'[c] = resp[c] \o text /\ Heard(c)'
         /\ \A d \in Chat \ {c} : resp'[d] = resp[d] /\ out'[d] = out[d]
<1>1. resp[c] \in Seq(Word) /\ out[c] \in Seq(Event) /\ resp \in [Chat -> Seq(Word)]
      /\ out \in [Chat -> Seq(Event)] /\ ask[c].stream \in BOOLEAN
  BY MessagesType DEF ApiTypes
<1>2. /\ Pieces(resp[c]) \in Seq(Event) /\ Pieces(text) \in Seq(Event)
      /\ Pieces(resp[c] \o text) = Pieces(resp[c]) \o Pieces(text)
      /\ resp[c] \o text \in Seq(Word)
  BY <1>1, PiecesFacts, ConcatProperties
<1>3. /\ resp' \in [Chat -> Seq(Word)] /\ resp'[c] = resp[c] \o text
      /\ \A d \in Chat \ {c} : resp'[d] = resp[d]
  BY <1>1, <1>2 DEF Stream
<1>4. CASE ask[c].stream
  <2>1. out' = Sent(c, Pieces(text))
    BY <1>4 DEF Stream
  <2>2. /\ out' \in [Chat -> Seq(Event)]
        /\ out'[c] = IF c \in gone THEN out[c] ELSE out[c] \o Pieces(text)
        /\ \A d \in Chat \ {c} : out'[d] = out[d]
    BY <1>2, <2>1, SentFacts
  <2>3. Said(c, resp[c]) = Pieces(resp[c]) /\ Said(c, resp[c])' = Pieces(resp[c]) \o Pieces(text)
    BY <1>2, <1>3, <1>4 DEF Said
  <2>4. Heard(c)'
    <3>1. CASE c \in gone
      <4>1. IsPrefix(out[c], Pieces(resp[c]) \o Pieces(text))
        BY <1>1, <1>2, <2>3, PrefixOfMore DEF Heard
      <4> QED BY <2>2, <2>3, <3>1, <4>1 DEF Heard
    <3>2. CASE c \notin gone
      <4>1. out'[c] = Pieces(resp[c]) \o Pieces(text)
        BY <2>2, <2>3, <3>2 DEF Heard
      <4>2. IsPrefix(out'[c], out'[c])
        BY <2>2, PrefixFacts
      <4> QED BY <2>3, <4>1, <4>2 DEF Heard
    <3> QED BY <3>1, <3>2
  <2> QED BY <1>3, <2>2, <2>4
<1>5. CASE ~ask[c].stream
  <2>1. out' = out
    BY <1>5 DEF Stream
  <2> QED BY <1>1, <1>3, <1>5, <2>1 DEF Heard, Said
<1> QED BY <1>1, <1>4, <1>5

(* The end after some text.                                                *)
LEMMA ServedClosed ==
  ASSUME ApiTypes, NEW c \in Chat, NEW n \in 0 .. SampleLen, Heard(c), resp[c] = Text(c, n),
         BadMessages(c) = {}, NEW e \in {FailedEnd(c, 500), GoodEnd(c, n)},
         out' = Sent(c, e), ask' = ask, gone' = gone
  PROVE  /\ Closed(c)' /\ out' \in [Chat -> Seq(Event)]
         /\ \A d \in Chat \ {c} : out'[d] = out[d]
<1> DEFINE s == Said(c, Text(c, n))
<1>1. s \in Seq(Event) /\ e \in Seq(Event) /\ s \o e \in Whole(c) /\ s \o e \in Seq(Event)
  <2>1. s \in Seq(Event) /\ e \in Seq(Event) /\ s \o e \in Whole(c)
    BY EndsAreWhole DEF ApiTypes
  <2> QED BY <2>1, ConcatProperties
<1>2. /\ out' \in [Chat -> Seq(Event)]
      /\ out'[c] = IF c \in gone THEN out[c] ELSE out[c] \o e
      /\ \A d \in Chat \ {c} : out'[d] = out[d]
  BY <1>1, SentFacts
<1>3. IsPrefix(out[c], s) /\ (c \notin gone => out[c] = s) /\ out[c] \in Seq(Event)
  BY DEF Heard, ApiTypes
<1> HIDE DEF s
<1>4. IsPrefix(out'[c], s \o e) /\ (c \notin gone => out'[c] = s \o e)
  <2>1. CASE c \in gone
    BY <1>1, <1>2, <1>3, <2>1, PrefixOfMore
  <2>2. CASE c \notin gone
    <3>1. IsPrefix(s \o e, s \o e)
      BY <1>1, PrefixFacts
    <3> QED BY <1>2, <1>3, <2>2, <3>1
  <2> QED BY <2>1, <2>2
<1>5. Whole(c)' = Whole(c) /\ BadMessages(c)' = {}
  BY SameAsk
<1>6. Closed(c)'
  BY <1>1, <1>4, <1>5 DEF Closed
<1> QED BY <1>2, <1>6

(* An error is all that is said.                                           *)
LEMMA RefusedClosed ==
  ASSUME ApiTypes, NEW c \in Chat, out[c] \in {<<>>},
         NEW e \in {FailedEnd(c, 400), FailedEnd(c, 500)},
         out' = Sent(c, e), ask' = ask, gone' = gone
  PROVE  /\ Closed(c)' /\ out' \in [Chat -> Seq(Event)]
         /\ \A d \in Chat \ {c} : out'[d] = out[d]
<1>1. e \in Seq(Event) /\ e \in Whole(c)
  <2>1. 0 \in 0 .. SampleLen
    BY ApiAssumption
  <2> QED BY <2>1, EndsAreWhole DEF ApiTypes
<1>2. \A i \in DOMAIN e : e[i].kind \in {"error", "[DONE]"}
  BY DEF FailedEnd, Failed, DoneMark
<1>3. /\ out' \in [Chat -> Seq(Event)]
      /\ out'[c] = IF c \in gone THEN out[c] ELSE out[c] \o e
      /\ \A d \in Chat \ {c} : out'[d] = out[d]
  BY <1>1, SentFacts
<1>4. out'[c] = IF c \in gone THEN <<>> ELSE <<>> \o e
  BY <1>3
<1>5. IsPrefix(<<>>, e) /\ IsPrefix(e, e) /\ <<>> \o e = e
  BY <1>1, PrefixFacts, ConcatEmptySeq
<1>6. Whole(c)' = Whole(c)
  BY SameAsk
<1>7. CASE c \in gone
  <2>1. out'[c] = <<>>
    BY <1>4, <1>7
  <2> QED BY <1>1, <1>3, <1>5, <1>6, <1>7, <2>1 DEF Closed
<1>8. CASE c \notin gone
  <2>1. out'[c] = e
    BY <1>4, <1>5, <1>8
  <2>2. e \in Whole(c)' /\ IsPrefix(out'[c], e)
    BY <1>1, <1>5, <1>6, <2>1
  <2>3. \A i \in DOMAIN out'[c] : out'[c][i].kind \in {"error", "[DONE]"}
    BY <1>2, <2>1, Zenon
  <2>4. Closed(c)'
    BY <2>1, <2>2, <2>3, Zenon DEF Closed
  <2> QED BY <1>3, <2>4
<1> QED BY <1>7, <1>8

-----------------------------------------------------------------------------
(* One chat moves on, and the others keep what they have: none of them is  *)
(* being served when the generator or the profile changes.                 *)
LEMMA OthersKeep ==
  ASSUME ApiInv, NEW c \in Chat, ask' = ask,
         \A d \in Chat \ {c} :
           /\ chat'[d] = chat[d] /\ resp'[d] = resp[d] /\ out'[d] = out[d]
           /\ d \in gone' <=> d \in gone
           /\ chat[d] \in Serving => UNCHANGED <<model, profile>>,
         Own(c)'
  PROVE  \A d \in Chat : Own(d)'
<1> SUFFICES ASSUME NEW d \in Chat, d # c
             PROVE  Own(d)'
  OBVIOUS
<1>1. /\ Own(d) /\ chat'[d] = chat[d] /\ resp'[d] = resp[d] /\ out'[d] = out[d]
      /\ d \in gone' <=> d \in gone
      /\ chat[d] \in Serving => UNCHANGED <<model, profile>>
  BY DEF ApiInv
<1>2. /\ Messages(d)' = Messages(d) /\ BadMessages(d)' = BadMessages(d)
      /\ \A n : Text(d, n)' = Text(d, n) /\ Said(d, n)' = Said(d, n)
      /\ Whole(d)' = Whole(d)
  BY SameAsk
<1>3. Heard(d)' <=> Heard(d)
  <2>1. Said(d, resp[d])' = Said(d, resp[d])
    BY <1>1 DEF Said
  <2> QED BY <1>1, <2>1 DEF Heard
<1>4. Closed(d)' <=> Closed(d)
  BY <1>1, <1>2 DEF Closed
<1>5. chat[d] \in Serving => (Served(d)' <=> Served(d))
  BY <1>1, <1>2 DEF Served
<1> QED BY <1>1, <1>3, <1>4, <1>5 DEF Own, Serving

(* A step that leaves the chats alone.                                     *)
LEMMA ChatsKeep ==
  ASSUME ApiInv, UNCHANGED <<ask, chat, model, profile, resp, out>>,
         \A d \in Chat : d \in gone' <=> d \in gone
  PROVE  \A d \in Chat : Own(d)'
<1> SUFFICES ASSUME NEW d \in Chat
             PROVE  Own(d)'
  OBVIOUS
<1>1. Own(d)
  BY DEF ApiInv
<1>2. /\ Messages(d)' = Messages(d) /\ BadMessages(d)' = BadMessages(d)
      /\ \A n : Text(d, n)' = Text(d, n) /\ Said(d, n)' = Said(d, n)
      /\ Whole(d)' = Whole(d)
  BY SameAsk
<1>3. Heard(d)' <=> Heard(d)
  <2>1. Said(d, resp[d])' = Said(d, resp[d])
    BY DEF Said
  <2> QED BY <2>1 DEF Heard
<1>4. Closed(d)' <=> Closed(d)
  BY <1>2 DEF Closed
<1>5. Served(d)' <=> Served(d)
  BY <1>2 DEF Served
<1> QED BY <1>1, <1>3, <1>4, <1>5 DEF Own

-----------------------------------------------------------------------------
(* The lock.                                                               *)

LEMMA Enqueued ==
  ASSUME ApiTypes, Lock, NEW r \in Chat \cup View, queue' = Append(queue, r), holder' = holder,
         \/ r \in Chat /\ chat[r] = "new" /\ chat' = [chat EXCEPT ![r] = "queued"]
         \/ r \in View /\ chat' = chat
  PROVE  Lock' /\ queue' \in Seq(Chat \cup View)
<1>1. /\ queue' \in Seq(Chat \cup View) /\ Len(queue') = Len(queue) + 1 /\ Len(queue) \in Nat
      /\ \A i \in 1 .. Len(queue) : queue'[i] = queue[i]
      /\ queue'[Len(queue) + 1] = r
  BY AppendProperties, LenProperties DEF ApiTypes
<1>2. /\ chat \in [Chat -> {"new", "queued", "writing", "waiting", "ending", "done"}]
      /\ \A c \in Chat : chat[c] \in Serving <=> holder = c
      /\ \A i \in 1 .. Len(queue) : queue[i] \in Chat => chat[queue[i]] = "queued"
      /\ \A i, j \in 1 .. Len(queue) : queue[i] \in Chat /\ queue[i] = queue[j] => i = j
  BY DEF ApiTypes, Lock
<1>3. r \in View => r \notin Chat
  BY ApiAssumption
<1>4. \A i \in 1 .. Len(queue') : i \in 1 .. Len(queue) \/ i = Len(queue) + 1
  BY <1>1
<1>5. r \in Chat => \A i \in 1 .. Len(queue) : queue[i] # r
  BY <1>2, <1>3
<1>6. \A c \in Chat : chat'[c] \in Serving <=> holder' = c
  BY <1>2 DEF Serving
<1>7. \A i \in 1 .. Len(queue') : queue'[i] \in Chat => chat'[queue'[i]] = "queued"
  BY <1>1, <1>2, <1>3, <1>4
<1>8. \A i, j \in 1 .. Len(queue') : queue'[i] \in Chat /\ queue'[i] = queue'[j] => i = j
  BY <1>1, <1>2, <1>3, <1>4, <1>5
<1> QED BY <1>1, <1>6, <1>7, <1>8 DEF Lock

LEMMA Dequeued ==
  ASSUME ApiTypes, Lock, NEW r \in Chat \cup View, Turn(r), queue' = Tail(queue),
         \/ /\ r \in Chat
            /\ \E s \in Serving \cup {"done"} :
                 /\ chat' = [chat EXCEPT ![r] = s]
                 /\ holder' = IF s = "done" THEN Nobody ELSE r
         \/ r \in View /\ chat' = chat /\ holder' = holder
  PROVE  /\ Lock' /\ queue' \in Seq(Chat \cup View) /\ holder' \in Chat \cup {Nobody}
         /\ \A c \in Chat : chat[c] \notin Serving
         /\ r \in Chat => chat[r] = "queued"
<1>1. /\ queue \in Seq(Chat \cup View) /\ queue # <<>> /\ holder = Nobody /\ queue[1] = r
      /\ Len(queue) \in Nat /\ 1 \in 1 .. Len(queue)
  <2>1. queue \in Seq(Chat \cup View) /\ queue # <<>> /\ holder = Nobody /\ Head(queue) = r
    BY DEF Turn, ApiTypes
  <2> QED BY <2>1, EmptySeq
<1>2. /\ queue' \in Seq(Chat \cup View) /\ Len(queue') = Len(queue) - 1
      /\ \A i \in 1 .. Len(queue') : queue'[i] = queue[i + 1]
  BY <1>1, HeadTailProperties
<1>3. /\ chat \in [Chat -> {"new", "queued", "writing", "waiting", "ending", "done"}]
      /\ \A c \in Chat : chat[c] \in Serving <=> holder = c
      /\ \A i \in 1 .. Len(queue) : queue[i] \in Chat => chat[queue[i]] = "queued"
      /\ \A i, j \in 1 .. Len(queue) : queue[i] \in Chat /\ queue[i] = queue[j] => i = j
  BY DEF ApiTypes, Lock
<1>4. /\ Nobody \notin Chat /\ (r \in View => r \notin Chat)
  BY ApiAssumption
<1>5. \A c \in Chat : chat[c] \notin Serving
  BY <1>1, <1>3, <1>4
<1>6. r \in Chat => chat[r] = "queued"
  BY <1>1, <1>3
<1>7. \A i \in 1 .. Len(queue') : i + 1 \in 1 .. Len(queue) /\ i + 1 # 1
  BY <1>1, <1>2
<1>8. r \in Chat => \A i \in 1 .. Len(queue') : queue'[i] # r
  BY <1>1, <1>2, <1>3, <1>7
<1>9. holder' \in Chat \cup {Nobody} /\ \A c \in Chat : chat'[c] \in Serving <=> holder' = c
  BY <1>1, <1>3, <1>4, <1>5 DEF Serving
<1>10. \A i \in 1 .. Len(queue') : queue'[i] \in Chat => chat'[queue'[i]] = "queued"
  BY <1>2, <1>3, <1>4, <1>7, <1>8
<1>11. \A i, j \in 1 .. Len(queue') : queue'[i] \in Chat /\ queue'[i] = queue'[j] => i = j
  <2> SUFFICES ASSUME NEW i \in 1 .. Len(queue'), NEW j \in 1 .. Len(queue'),
                      queue'[i] \in Chat, queue'[i] = queue'[j]
               PROVE  i = j
    OBVIOUS
  <2>1. i + 1 = j + 1
    BY <1>2, <1>3, <1>7
  <2> QED BY <1>2, <2>1
<1> QED BY <1>2, <1>5, <1>6, <1>9, <1>10, <1>11 DEF Lock

LEMMA LockKept ==
  ASSUME ApiTypes, Lock, queue' = queue, NEW c \in Chat, chat[c] \in Serving,
         NEW s \in Serving \cup {"done"}, chat' = [chat EXCEPT ![c] = s],
         holder' = IF s = "done" THEN Nobody ELSE holder
  PROVE  /\ Lock' /\ holder' \in Chat \cup {Nobody}
         /\ \A d \in Chat \ {c} : chat[d] \notin Serving
<1>1. /\ chat \in [Chat -> {"new", "queued", "writing", "waiting", "ending", "done"}]
      /\ \A d \in Chat : chat[d] \in Serving <=> holder = d
      /\ \A i \in 1 .. Len(queue) : queue[i] \in Chat => chat[queue[i]] = "queued"
      /\ \A i, j \in 1 .. Len(queue) : queue[i] \in Chat /\ queue[i] = queue[j] => i = j
  BY DEF ApiTypes, Lock
<1>2. Nobody \notin Chat /\ holder = c
  BY <1>1, ApiAssumption
<1>3. \A d \in Chat \ {c} : chat[d] \notin Serving
  BY <1>1, <1>2
<1>4. holder' \in Chat \cup {Nobody} /\ \A d \in Chat : chat'[d] \in Serving <=> holder' = d
  BY <1>1, <1>2, <1>3 DEF Serving
<1>5. \A i \in 1 .. Len(queue') : queue'[i] \in Chat => chat'[queue'[i]] = "queued"
  BY <1>1 DEF Serving
<1> QED BY <1>1, <1>3, <1>4, <1>5 DEF Lock
-----------------------------------------------------------------------------
(* The steps.  Each gives the types, the lock, the late chats and what     *)
(* every chat has; LimiterInv gives the rest.                              *)

ChatInv == ApiTypes /\ Lock /\ LateChats /\ \A c \in Chat : Own(c)

LEMMA InitInv == Init => ApiInv
<1> SUFFICES ASSUME Init
             PROVE  ApiInv
  OBVIOUS
<1>1. ask \in Asks /\ chat = [c \in Chat |-> "new"] /\ holder = Nobody /\ queue = <<>>
      /\ resp = [c \in Chat |-> <<>>] /\ out = [c \in Chat |-> <<>>]
      /\ next = 0 /\ level = 0 /\ wait = [w \in Writer |-> Idle]
  BY DEF Init, LimiterInit
<1>2. ApiTypes
  BY <1>1 DEF ApiTypes
<1>3. Lock /\ LateChats
  <2>1. Chat \subseteq Writer /\ Nobody \notin Chat
    BY ApiAssumption
  <2> QED BY <1>1, <2>1 DEF Lock, LateChats, Serving, Idle
<1>4. \A c \in Chat : Own(c)
  BY <1>1 DEF Own, Serving
<1>5. LimiterTypes
  BY <1>1 DEF LimiterTypes, Idle
<1>6. Burst
  <2>1. \A k \in Nat : level + 0 + Cardinality(Owed(0, k)) <= Cardinality(Probe) + 1 + Slots(0, k)
    <3>1. \A k \in Nat : Owed(0, k) = {}
      BY <1>1 DEF Owed, Idle
    <3>2. Cardinality({}) = 0
      BY FS_EmptySet
    <3>3. \A k \in Nat : Slots(0, k) \in Nat
      BY <1>1 DEF Slots, Later, Least
    <3> SUFFICES ASSUME NEW k \in Nat
                 PROVE  level + 0 + Cardinality(Owed(0, k)) <= Cardinality(Probe) + 1 + Slots(0, k)
      OBVIOUS
    <3>4. Cardinality(Owed(0, k)) = 0
      BY <3>1, <3>2
    <3>5. Slots(0, k) \in Nat
      BY <3>3
    <3> QED BY <1>1, <3>4, <3>5, ProbesFinite
  <2> QED BY <2>1 DEF Burst
<1> QED BY <1>2, <1>3, <1>4, <1>5, <1>6 DEF ApiInv

LEMMA PostInv ==
  ASSUME ApiInv, NEW c \in Chat, Post(c)
  PROVE  ChatInv'
<1>1. ApiTypes /\ Lock /\ LateChats /\ Own(c)
  BY DEF ApiInv
<1>2. /\ chat[c] = "new" /\ chat' = [chat EXCEPT ![c] = "queued"] /\ queue' = Append(queue, c)
      /\ UNCHANGED <<ask, model, profile, resp, out, gone, holder, wait>>
  BY DEF Post, limiterVars
<1>3. Lock' /\ queue' \in Seq(Chat \cup View)
  BY <1>1, <1>2, Enqueued
<1>4. ApiTypes' /\ LateChats'
  BY <1>1, <1>2, <1>3 DEF ApiTypes, LateChats
<1>5. Own(c)'
  BY <1>1, <1>2 DEF Own, ApiTypes, Serving
<1>6. \A d \in Chat : Own(d)'
  BY <1>1, <1>2, <1>5, OthersKeep DEF ApiTypes
<1> QED BY <1>3, <1>4, <1>6 DEF ChatInv

(* A request that ends where it gets the lock.                             *)
LEMMA RefusedInv ==
  ASSUME ApiInv, NEW c \in Chat, NEW status \in {400, 500}, Turn(c), queue' = Tail(queue),
         Fail(c, status), UNCHANGED <<ask, resp, gone, wait>>
  PROVE  ChatInv'
<1>1. ApiTypes /\ Lock /\ LateChats /\ Own(c)
  BY DEF ApiInv
<1>2. /\ chat' = [chat EXCEPT ![c] = "done"] /\ holder' = Nobody
      /\ out' = Sent(c, FailedEnd(c, status))
  BY DEF Fail, FailedEnd
<1>3. /\ Lock' /\ queue' \in Seq(Chat \cup View) /\ holder' \in Chat \cup {Nobody}
      /\ \A d \in Chat : chat[d] \notin Serving
      /\ chat[c] = "queued"
  <2>1. \E s \in Serving \cup {"done"} :
          /\ chat' = [chat EXCEPT ![c] = s]
          /\ holder' = IF s = "done" THEN Nobody ELSE c
    BY <1>2
  <2> HIDE DEF Fail
  <2> QED BY <1>1, <2>1, Dequeued
<1>4. out[c] \in {<<>>}
  BY <1>1, <1>3 DEF Own
<1>5. /\ Closed(c)' /\ out' \in [Chat -> Seq(Event)]
      /\ \A d \in Chat \ {c} : out'[d] = out[d]
  <2>1. PICK e \in {FailedEnd(c, 400), FailedEnd(c, 500)} : out' = Sent(c, e)
    BY <1>2
  <2> QED BY <1>1, <1>4, <2>1, RefusedClosed
<1>6. ApiTypes'
  BY <1>1, <1>2, <1>3, <1>5 DEF ApiTypes
<1>7. LateChats'
  BY <1>1, <1>2, <1>3 DEF LateChats, ApiTypes
<1>8. chat'[c] = "done" /\ \A d \in Chat \ {c} : chat'[d] = chat[d]
  BY <1>1, <1>2 DEF ApiTypes
<1>9. Own(c)'
  BY <1>5, <1>8 DEF Own, Serving
<1>10. \A d \in Chat : Own(d)'
  <2>1. \A d \in Chat \ {c} :
          /\ chat'[d] = chat[d] /\ resp'[d] = resp[d] /\ out'[d] = out[d]
          /\ d \in gone' <=> d \in gone
          /\ chat[d] \in Serving => UNCHANGED <<model, profile>>
    BY <1>3, <1>5, <1>8
  <2> QED BY <1>9, <2>1, OthersKeep
<1> QED BY <1>3, <1>6, <1>7, <1>10 DEF ChatInv

LEMMA StartGenerateInv ==
  ASSUME ApiInv, NEW c \in Chat, StartGenerate(c)
  PROVE  ChatInv'
<1>1. ApiTypes /\ Lock /\ LateChats /\ Own(c)
  BY DEF ApiInv
<1>2. /\ Turn(c) /\ queue' = Tail(queue) /\ BadMessages(c) = {}
      /\ holder' = c /\ profile' = 0 /\ chat' = [chat EXCEPT ![c] = "writing"]
      /\ Stream(c, ArgsPrompt)
      /\ UNCHANGED <<ask, gone, wait>>
  BY DEF StartGenerate, NoProfile, limiterVars
<1>3. model' = [history |-> Messages(c), generated |-> 0]
  <2>1. Messages(c) \in Seq(Chat \X Nat)
    BY <1>1, MessagesType DEF ApiTypes
  <2>2. <<>> \o Messages(c) = Messages(c)
    BY <2>1, ConcatEmptySeq
  <2> QED BY <2>2 DEF StartGenerate, Reset
<1>4. /\ Lock' /\ queue' \in Seq(Chat \cup View) /\ holder' \in Chat \cup {Nobody}
      /\ \A d \in Chat : chat[d] \notin Serving
      /\ chat[c] = "queued"
  <2>1. \E s \in Serving \cup {"done"} :
          /\ chat' = [chat EXCEPT ![c] = s]
          /\ holder' = IF s = "done" THEN Nobody ELSE c
    BY <1>2 DEF Serving
  <2> QED BY <1>1, <1>2, <2>1, Dequeued
<1>5. resp[c] = <<>> /\ out[c] = <<>>
  BY <1>1, <1>4 DEF Own
<1>6. Heard(c)
  <2>1. Pieces(<<>>) = <<>>
    <3>1. Pieces(<<>>) \in Seq(Event)
      <4>1. <<>> \in Seq(Word)
        OBVIOUS
      <4> QED BY <4>1, PiecesFacts
    <3>2. DOMAIN Pieces(<<>>) = {}
      BY DEF Pieces
    <3> QED BY <3>1, <3>2, EmptySeq
  <2>2. Said(c, <<>>) = <<>> /\ IsPrefix(<<>>, <<>>)
    <3>1. <<>> \in Seq(Event)
      OBVIOUS
    <3> QED BY <2>1, <3>1, PrefixFacts DEF Said
  <2> QED BY <1>5, <2>2 DEF Heard
<1>7. ArgsPrompt \in Seq(Word) /\ Text(c, 0) = ArgsPrompt
  BY <1>1, TextFacts DEF ApiTypes
<1>8. /\ resp' \in [Chat -> Seq(Word)] /\ out' \in [Chat -> Seq(Event)]
      /\ resp'[c] = resp[c] \o ArgsPrompt /\ Heard(c)'
      /\ \A d \in Chat \ {c} : resp'[d] = resp[d] /\ out'[d] = out[d]
  BY <1>1, <1>2, <1>6, <1>7, StreamHeard
<1>9. resp'[c] = Text(c, 0)
  <2>1. <<>> \o ArgsPrompt = ArgsPrompt
    BY <1>7, ConcatEmptySeq
  <2> QED BY <1>5, <1>7, <1>8, <2>1
<1>10. chat'[c] = "writing" /\ \A d \in Chat \ {c} : chat'[d] = chat[d]
  BY <1>1, <1>2 DEF ApiTypes
<1>11. ApiTypes' /\ LateChats'
  BY <1>1, <1>2, <1>4, <1>8 DEF ApiTypes, LateChats
<1>12. Own(c)'
  <2>1. Messages(c)' = Messages(c) /\ BadMessages(c)' = {} /\ Text(c, 0)' = Text(c, 0)
    BY <1>2, SameAsk
  <2>2. 0 \in 0 .. SampleLen /\ 0 < SampleLen
    BY ApiAssumption
  <2>3. Served(c)'
    BY <1>2, <1>3, <1>9, <1>10, <2>1, <2>2 DEF Served
  <2> QED BY <1>8, <1>10, <2>3 DEF Own, Serving
<1>13. \A d \in Chat : Own(d)'
  BY <1>2, <1>4, <1>8, <1>10, <1>12, OthersKeep
<1> QED BY <1>4, <1>11, <1>13 DEF ChatInv

(* A chunk of the request, or a step of its wait: nothing is answered.     *)
LEMMA WritingInv ==
  ASSUME ApiInv, NEW c \in Chat, chat[c] = "writing",
         NEW s \in {"writing", "waiting"}, chat' = [chat EXCEPT ![c] = s],
         UNCHANGED <<ask, model, profile, resp, out, gone, holder, queue>>, LateChats'
  PROVE  ChatInv'
<1>1. ApiTypes /\ Lock /\ LateChats /\ Own(c)
  BY DEF ApiInv
<1>2. /\ Lock' /\ holder' \in Chat \cup {Nobody}
      /\ \A d \in Chat \ {c} : chat[d] \notin Serving
  <2>1. chat[c] \in Serving /\ s \in Serving \cup {"done"} /\ s # "done"
    BY DEF Serving
  <2> QED BY <1>1, <2>1, LockKept
<1>3. ApiTypes'
  BY <1>1, <1>2 DEF ApiTypes
<1>4. chat'[c] = s /\ \A d \in Chat \ {c} : chat'[d] = chat[d]
  BY <1>1 DEF ApiTypes
<1>5. Own(c)'
  <2>1. /\ Messages(c)' = Messages(c) /\ BadMessages(c)' = BadMessages(c)
        /\ \A n : Text(c, n)' = Text(c, n) /\ Said(c, n)' = Said(c, n)
    BY SameAsk
  <2>2. Heard(c) /\ Served(c)
    BY <1>1 DEF Own, Serving
  <2>3. Heard(c)'
    <3>1. Said(c, resp[c])' = Said(c, resp[c])
      BY DEF Said
    <3> QED BY <2>2, <3>1 DEF Heard
  <2>4. Served(c)'
    BY <1>4, <2>1, <2>2 DEF Served
  <2> QED BY <1>4, <2>3, <2>4 DEF Own, Serving
<1>6. \A d \in Chat : Own(d)'
  BY <1>2, <1>4, <1>5, OthersKeep
<1> QED BY <1>2, <1>3, <1>6 DEF ChatInv

(* What a chat that waits for its token has.                               *)
LEMMA WaitingHas ==
  ASSUME ApiInv, NEW c \in Chat, chat[c] \in {"writing", "waiting"}
  PROVE  /\ Heard(c) /\ BadMessages(c) = {} /\ chat[c] \in Serving
         /\ \E n \in 0 .. SampleLen :
              /\ resp[c] = Text(c, n) /\ n < SampleLen /\ profile = n
              /\ model = [history |-> Messages(c), generated |-> n]
<1>1. Own(c) /\ chat[c] \in Serving /\ chat[c] # "ending"
  BY DEF ApiInv, Serving
<1> QED BY <1>1 DEF Own, Served

LEMMA NextTokenInv ==
  ASSUME ApiInv, NEW c \in Chat, NextToken(c)
  PROVE  ChatInv'
<1>1. ApiTypes /\ Lock /\ LateChats /\ chat[c] = "waiting"
  BY DEF ApiInv, NextToken, TokenSampled
<1>2. PICK n \in 0 .. SampleLen :
        /\ resp[c] = Text(c, n) /\ n < SampleLen /\ profile = n
        /\ model = [history |-> Messages(c), generated |-> n]
  BY <1>1, WaitingHas
<1>3. Heard(c) /\ BadMessages(c) = {} /\ chat[c] \in Serving
  BY <1>1, WaitingHas
<1>4. n \in Nat /\ n + 1 \in 0 .. SampleLen /\ SampleLen \in Nat
  BY <1>2, ApiAssumption
<1>5. /\ profile' = n + 1 /\ model' = [history |-> Messages(c), generated |-> n + 1]
      /\ Stream(c, <<Token(Messages(c), n + 1)>>)
      /\ UNCHANGED <<ask, gone, holder, queue, wait>>
  BY <1>2 DEF NextToken, TokenSampled, Counted, Sampled, lockVars, limiterVars
<1>6. chat' = [chat EXCEPT ![c] = IF n + 1 < SampleLen THEN "writing" ELSE "ending"]
  BY <1>2 DEF NextToken, Sampled
<1>7. /\ <<Token(Messages(c), n + 1)>> \in Seq(Word)
      /\ Text(c, n + 1) = Text(c, n) \o <<Token(Messages(c), n + 1)>>
  BY <1>1, <1>4, TextFacts DEF ApiTypes
<1>8. /\ resp' \in [Chat -> Seq(Word)] /\ out' \in [Chat -> Seq(Event)]
      /\ resp'[c] = resp[c] \o <<Token(Messages(c), n + 1)>> /\ Heard(c)'
      /\ \A d \in Chat \ {c} : resp'[d] = resp[d] /\ out'[d] = out[d]
  BY <1>1, <1>3, <1>5, <1>7, StreamHeard
<1>9. /\ Lock' /\ holder' \in Chat \cup {Nobody}
      /\ \A d \in Chat \ {c} : chat[d] \notin Serving
  <2>1. PICK s \in Serving \cup {"done"} : chat' = [chat EXCEPT ![c] = s] /\ s # "done"
    BY <1>6 DEF Serving
  <2> QED BY <1>1, <1>3, <1>5, <2>1, LockKept
<1>10. /\ chat'[c] = (IF n + 1 < SampleLen THEN "writing" ELSE "ending")
       /\ \A d \in Chat \ {c} : chat'[d] = chat[d]
  BY <1>1, <1>6 DEF ApiTypes
<1>11. ApiTypes' /\ LateChats'
  BY <1>1, <1>5, <1>6, <1>8, <1>9 DEF ApiTypes, LateChats
<1>12. Own(c)'
  <2>1. Messages(c)' = Messages(c) /\ BadMessages(c)' = {} /\ Text(c, n + 1)' = Text(c, n + 1)
    BY <1>3, <1>5, SameAsk
  <2>2. resp'[c] = Text(c, n + 1)
    BY <1>2, <1>7, <1>8
  <2>3. n + 1 < SampleLen \/ Replies(n + 1) = n + 1
    BY <1>4 DEF Replies
  <2>4. Served(c)'
    BY <1>4, <1>5, <1>10, <2>1, <2>2, <2>3 DEF Served
  <2>5. chat'[c] \in Serving /\ chat'[c] \notin {"new", "queued", "done"}
    BY <1>10 DEF Serving
  <2> QED BY <1>8, <2>4, <2>5 DEF Own
<1>13. \A d \in Chat : Own(d)'
  BY <1>5, <1>8, <1>9, <1>10, <1>12, OthersKeep
<1> QED BY <1>9, <1>11, <1>13 DEF ChatInv

LEMMA EndOfStreamInv ==
  ASSUME ApiInv, NEW c \in Chat, EndOfStream(c)
  PROVE  ChatInv'
<1>1. ApiTypes /\ Lock /\ LateChats /\ chat[c] = "waiting"
  BY DEF ApiInv, EndOfStream, TokenSampled
<1>2. PICK n \in 0 .. SampleLen :
        /\ resp[c] = Text(c, n) /\ n < SampleLen /\ profile = n
        /\ model = [history |-> Messages(c), generated |-> n]
  BY <1>1, WaitingHas
<1>3. Heard(c) /\ BadMessages(c) = {} /\ chat[c] \in Serving
  BY <1>1, WaitingHas
<1>4. n \in Nat /\ Replies(n) = n + 1
  BY <1>2, ApiAssumption DEF Replies
<1>5. /\ profile' = n + 1 /\ chat' = [chat EXCEPT ![c] = "ending"]
      /\ UNCHANGED <<ask, resp, out, gone, holder, queue, wait>>
  BY <1>2 DEF EndOfStream, TokenSampled, Counted, lockVars, limiterVars
<1>6. /\ Lock' /\ holder' \in Chat \cup {Nobody}
      /\ \A d \in Chat \ {c} : chat[d] \notin Serving
  <2>1. "ending" \in Serving \cup {"done"}
    BY DEF Serving
  <2> QED BY <1>1, <1>3, <1>5, <2>1, LockKept
<1>7. chat'[c] = "ending" /\ \A d \in Chat \ {c} : chat'[d] = chat[d]
  BY <1>1, <1>5 DEF ApiTypes
<1>8. ApiTypes' /\ LateChats'
  BY <1>1, <1>5, <1>6 DEF ApiTypes, LateChats
<1>9. Own(c)'
  <2>1. BadMessages(c)' = {} /\ Text(c, n)' = Text(c, n)
    BY <1>3, <1>5, SameAsk
  <2>2. Heard(c)'
    <3>1. Said(c, resp[c])' = Said(c, resp[c])
      BY <1>5 DEF Said
    <3> QED BY <1>3, <1>5, <3>1 DEF Heard
  <2>3. Served(c)'
    BY <1>2, <1>4, <1>5, <1>7, <2>1 DEF Served
  <2> QED BY <1>7, <2>2, <2>3 DEF Own, Serving
<1>10. \A d \in Chat : Own(d)'
  BY <1>5, <1>6, <1>7, <1>9, OthersKeep
<1> QED BY <1>6, <1>8, <1>10 DEF ChatInv

(* The end of a chat that was served.                                      *)
LEMMA EndedInv ==
  ASSUME ApiInv, NEW c \in Chat, chat[c] \in Serving,
         NEW n \in 0 .. SampleLen, resp[c] = Text(c, n),
         NEW e \in {FailedEnd(c, 500), GoodEnd(c, n)}, out' = Sent(c, e),
         chat' = [chat EXCEPT ![c] = "done"], holder' = Nobody,
         UNCHANGED <<ask, model, profile, resp, gone, queue>>, LateChats'
  PROVE  ChatInv'
<1>1. ApiTypes /\ Lock /\ LateChats /\ Heard(c) /\ BadMessages(c) = {}
  BY DEF ApiInv, Own, Served
<1>2. /\ Closed(c)' /\ out' \in [Chat -> Seq(Event)]
      /\ \A d \in Chat \ {c} : out'[d] = out[d]
  BY <1>1, ServedClosed
<1>3. /\ Lock' /\ holder' \in Chat \cup {Nobody}
      /\ \A d \in Chat \ {c} : chat[d] \notin Serving
  <2>1. "done" \in Serving \cup {"done"}
    OBVIOUS
  <2> QED BY <1>1, <2>1, LockKept
<1>4. chat'[c] = "done" /\ \A d \in Chat \ {c} : chat'[d] = chat[d]
  BY <1>1 DEF ApiTypes
<1>5. ApiTypes'
  BY <1>1, <1>2, <1>3 DEF ApiTypes
<1>6. Own(c)'
  BY <1>2, <1>4 DEF Own, Serving
<1>7. \A d \in Chat : Own(d)'
  BY <1>2, <1>4, <1>6, OthersKeep
<1> QED BY <1>3, <1>5, <1>7 DEF ChatInv

LEMMA FinishInv ==
  ASSUME ApiInv, NEW c \in Chat, Finish(c)
  PROVE  ChatInv'
<1>1. /\ chat[c] = "ending" /\ chat' = [chat EXCEPT ![c] = "done"] /\ holder' = Nobody
      /\ UNCHANGED <<ask, model, profile, resp, gone, queue, wait>>
  BY DEF Finish, limiterVars
<1>2. ApiTypes /\ LateChats /\ chat[c] \in Serving /\ Served(c)
  BY <1>1 DEF ApiInv, Own, Serving
<1>3. PICK n \in 0 .. SampleLen : resp[c] = Text(c, n) /\ profile = Replies(n)
  BY <1>1, <1>2 DEF Served
<1>4. out' = Sent(c, GoodEnd(c, n))
  BY <1>3 DEF Finish, GoodEnd
<1>5. PICK e \in {FailedEnd(c, 500), GoodEnd(c, n)} : out' = Sent(c, e)
  BY <1>4
<1>6. LateChats'
  BY <1>1, <1>2 DEF LateChats, ApiTypes
<1>7. resp[c] = Text(c, n) /\ UNCHANGED <<ask, model, profile, resp, gone, queue>>
  BY <1>1, <1>3
<1> QED BY <1>1, <1>2, <1>5, <1>6, <1>7, EndedInv, ZenonT(60)

LEMMA GenerationFailsInv ==
  ASSUME ApiInv, NEW c \in Chat, GenerationFails(c)
  PROVE  ChatInv'
<1>1. /\ chat[c] \in {"writing", "waiting"} /\ chat' = [chat EXCEPT ![c] = "done"]
      /\ holder' = Nobody /\ wait' = [wait EXCEPT ![c] = Idle]
      /\ out' = Sent(c, FailedEnd(c, 500))
      /\ UNCHANGED <<ask, model, profile, resp, gone, queue>>
  BY DEF GenerationFails, Fail, FailedEnd, Dropped
<1>2. ApiTypes /\ LateChats /\ LimiterTypes /\ chat[c] \in Serving
  BY <1>1, WaitingHas DEF ApiInv
<1>3. PICK n \in 0 .. SampleLen : resp[c] = Text(c, n)
  BY <1>1, WaitingHas
<1>4. PICK e \in {FailedEnd(c, 500), GoodEnd(c, n)} : out' = Sent(c, e)
  BY <1>1
<1>5. LateChats'
  BY <1>1, <1>2, ApiAssumption DEF LateChats, ApiTypes, LimiterTypes, Idle
<1> QED BY <1>1, <1>2, <1>3, <1>4, <1>5, EndedInv, ZenonT(60)

LEMMA ClientLeavesInv ==
  ASSUME ApiInv, NEW c \in Chat, ClientLeaves(c)
  PROVE  ChatInv'
<1>1. /\ chat[c] \notin {"new", "done"} /\ gone' = gone \cup {c}
      /\ UNCHANGED <<ask, chat, model, profile, resp, out, holder, queue, wait>>
  BY DEF ClientLeaves, lockVars, limiterVars
<1>2. ApiTypes' /\ Lock' /\ LateChats'
  BY <1>1 DEF ApiInv, ApiTypes, Lock, LateChats
<1>3. Own(c)'
  <2>1. Own(c)
    BY DEF ApiInv
  <2>2. /\ Messages(c)' = Messages(c) /\ BadMessages(c)' = BadMessages(c)
        /\ \A n : Text(c, n)' = Text(c, n) /\ Said(c, n)' = Said(c, n)
    BY <1>1, SameAsk
  <2>3. Heard(c) => Heard(c)'
    <3>1. Said(c, resp[c])' = Said(c, resp[c])
      BY <1>1 DEF Said
    <3> QED BY <1>1, <3>1 DEF Heard
  <2>4. Served(c) => Served(c)'
    BY <1>1, <2>2 DEF Served
  <2> QED BY <1>1, <2>1, <2>3, <2>4 DEF Own
<1>4. \A d \in Chat : Own(d)'
  BY <1>1, <1>3, OthersKeep
<1> QED BY <1>2, <1>4 DEF ChatInv

(* Views, probes and time leave the chats alone.                           *)
LEMMA ElsewhereInv ==
  ASSUME ApiInv, UNCHANGED <<ask, chat, model, profile, resp, out, gone>>, LateChats',
         \/ UNCHANGED <<holder, queue>>
         \/ Lock' /\ queue' \in Seq(Chat \cup View) /\ holder' = holder
  PROVE  ChatInv'
<1>1. ApiTypes' /\ Lock'
  BY DEF ApiInv, ApiTypes, Lock
<1>2. \A d \in Chat : Own(d)'
  BY ChatsKeep
<1> QED BY <1>1, <1>2 DEF ChatInv
LEMMA WaitForSlotInv ==
  ASSUME ApiInv, NEW w \in Writer, WaitForSlot(w)
  PROVE  ChatInv'
<1>1. /\ UNCHANGED <<ask, chat, model, profile, resp, out, gone, holder, queue>>
      /\ w \in Chat => chat[w] = "writing"
      /\ \A x \in Writer \ {w} : wait'[x] = wait[x]
  BY DEF WaitForSlot, Writing, ReadClock, Reserve, ApiInv, LimiterTypes, chatVars, lockVars
<1>2. LateChats'
  BY <1>1, ApiAssumption DEF ApiInv, LateChats
<1> QED BY <1>1, <1>2, ElsewhereInv

LEMMA SendChunkInv ==
  ASSUME ApiInv, NEW c \in Chat, SendChunk(c)
  PROVE  ChatInv'
<1>1. /\ chat[c] = "writing" /\ wait' = [wait EXCEPT ![c] = Idle]
      /\ \E s \in {"writing", "waiting"} : chat' = [chat EXCEPT ![c] = s]
      /\ UNCHANGED <<ask, model, profile, resp, out, gone, holder, queue>>
  BY DEF SendChunk, WriteChunk, lockVars, ApiInv, ApiTypes
<1>2. LateChats'
  BY <1>1, ApiAssumption DEF ApiInv, ApiTypes, LateChats, LimiterTypes, Idle
<1> QED BY <1>1, <1>2, WritingInv

LEMMA ViewInv ==
  ASSUME ApiInv, NEW v \in View, Get(v) \/ ViewStep(v)
  PROVE  ChatInv'
<1>1. ApiTypes /\ Lock /\ LateChats
  BY DEF ApiInv
<1>2. UNCHANGED <<ask, chat, model, profile, resp, out, gone, holder, wait>> /\ LateChats'
  BY <1>1 DEF Get, ViewStep, ReadTopology, AnswerView, chatVars, lockVars, limiterVars, LateChats
<1>3. CASE queue' = Append(queue, v)
  <2>1. Lock' /\ queue' \in Seq(Chat \cup View)
    BY <1>1, <1>2, <1>3, Enqueued
  <2> QED BY <1>2, <2>1, ElsewhereInv
<1>4. CASE Turn(v) /\ queue' = Tail(queue)
  <2>1. Lock' /\ queue' \in Seq(Chat \cup View)
    BY <1>1, <1>2, <1>4, Dequeued
  <2> QED BY <1>2, <2>1, ElsewhereInv
<1>5. CASE queue' = queue
  BY <1>2, <1>5, ElsewhereInv
<1> QED BY <1>3, <1>4, <1>5 DEF Get, ViewStep, ReadTopology, AnswerView, lockVars

(* A probe that ends or writes is idle then.                               *)
LEMMA ProbeInv ==
  ASSUME ApiInv, NEW p \in Probe,
         Connect(p) \/ SendHello(p) \/ Info(p) \/ Offline(p)
  PROVE  ChatInv'
<1>1. /\ UNCHANGED <<ask, chat, model, profile, resp, out, gone, holder, queue>>
      /\ wait' \in {wait, [wait EXCEPT ![p] = Idle]}
  BY DEF Connect, SendHello, Info, Offline, WriteChunk, Dropped, chatVars, lockVars, limiterVars
<1>2. LateChats'
  BY <1>1, ApiAssumption DEF ApiInv, LateChats, LimiterTypes, Idle
<1> QED BY <1>1, <1>2, ElsewhereInv

LEMMA TimePassesInv ==
  ASSUME ApiInv, TimePasses
  PROVE  ChatInv'
<1>1. /\ UNCHANGED <<ask, chat, model, profile, resp, out, gone, holder, queue>>
      /\ \A w \in Writer : wait[w].step = "idle" => wait'[w].step = "idle"
  BY DEF TimePasses, Tick, Idle, chatVars, lockVars
<1>2. LateChats'
  BY <1>1, ApiAssumption DEF ApiInv, LateChats, LimiterTypes
<1> QED BY <1>1, <1>2, ElsewhereInv

LEMMA StepInv == ApiInv /\ [Next]_vars => ApiInv'
<1> SUFFICES ASSUME ApiInv, [Next]_vars
             PROVE  ApiInv'
  OBVIOUS
<1>1. ASSUME NEW c \in Chat, Post(c) \/ ChatStep(c) \/ ClientLeaves(c)
      PROVE  ChatInv'
  <2>1. CASE Post(c)
    BY <2>1, PostInv
  <2>2. CASE ResetFails(c)
    <3>1. /\ Turn(c) /\ queue' = Tail(queue) /\ Fail(c, 500)
          /\ UNCHANGED <<ask, resp, gone, wait>>
      BY <2>2 DEF ResetFails, limiterVars
    <3> QED BY <3>1, RefusedInv
  <2>3. CASE RefuseMessage(c)
    <3>1. /\ Turn(c) /\ queue' = Tail(queue) /\ Fail(c, 400)
          /\ UNCHANGED <<ask, resp, gone, wait>>
      BY <2>3 DEF RefuseMessage, limiterVars
    <3> QED BY <3>1, RefusedInv
  <2>4. CASE StartGenerate(c)
    BY <2>4, StartGenerateInv
  <2>5. CASE WaitForSlot(c)
    BY <2>5, WaitForSlotInv, ApiAssumption
  <2>6. CASE SendChunk(c)
    BY <2>6, SendChunkInv
  <2>7. CASE NextToken(c)
    BY <2>7, NextTokenInv
  <2>8. CASE EndOfStream(c)
    BY <2>8, EndOfStreamInv
  <2>9. CASE Finish(c)
    BY <2>9, FinishInv
  <2>10. CASE GenerationFails(c)
    BY <2>10, GenerationFailsInv
  <2>11. CASE ClientLeaves(c)
    BY <2>11, ClientLeavesInv
  <2> QED BY <1>1, <2>1, <2>2, <2>3, <2>4, <2>5, <2>6, <2>7, <2>8, <2>9, <2>10, <2>11 DEF ChatStep
<1>2. ASSUME NEW p \in Probe, ProbeStep(p) \/ Info(p) \/ Offline(p)
      PROVE  ChatInv'
  <2>1. CASE WaitForSlot(p)
    BY <2>1, WaitForSlotInv, ApiAssumption
  <2> QED BY <1>2, <2>1, ProbeInv DEF ProbeStep
<1>3. CASE Next
  <2>1. ChatInv'
    BY <1>1, <1>2, <1>3, ViewInv, TimePassesInv DEF Next
  <2>2. LimiterTypes' /\ Burst'
    BY <1>3, LimiterInv
  <2> QED BY <2>1, <2>2 DEF ChatInv, ApiInv
<1>4. CASE UNCHANGED vars
  <2>1. /\ UNCHANGED <<ask, chat, model, profile, resp, out, gone, holder, queue, wait>>
        /\ UNCHANGED limiterVars
    BY <1>4 DEF vars, chatVars, lockVars, limiterVars
  <2>2. LateChats'
    BY <2>1 DEF ApiInv, LateChats
  <2>3. ChatInv'
    BY <2>1, <2>2, ElsewhereInv
  <2>4. LimiterTypes' /\ Burst'
    BY <2>1, SameLimiter DEF ApiInv
  <2> QED BY <2>3, <2>4 DEF ChatInv, ApiInv
<1> QED BY <1>3, <1>4

-----------------------------------------------------------------------------
(* The theorems.                                                           *)

(* Every step of the handlers and of the limiter keeps the invariant: one  *)
(* chat is served at a time, and what it reads is its own.                 *)
THEOREM ApiCorrect == Spec => []ApiInv
BY InitInv, StepInv, PTL DEF Spec

(* A client is answered from its own messages alone (chat in               *)
(* spm/api/mod.rs, reset and generate in spm/master.rs).                   *)
THEOREM AnswersAreOwn == Spec => []OwnAnswer
<1>1. ApiInv => OwnAnswer
  <2> SUFFICES ASSUME ApiInv, NEW c \in Chat
               PROVE  /\ \E s \in Whole(c) : IsPrefix(out[c], s)
                      /\ chat[c] = "done" /\ c \notin gone => out[c] \in Whole(c)
                      /\ BadMessages(c) # {} =>
                           \A i \in DOMAIN out[c] : out[c][i].kind \in {"error", "[DONE]"}
    BY DEF OwnAnswer, Whole
  <2>1. /\ ApiTypes /\ Own(c) /\ out[c] \in Seq(Event)
        /\ chat[c] \in {"new", "queued", "writing", "waiting", "ending", "done"}
    BY DEF ApiInv, ApiTypes
  <2>2. CASE chat[c] \in {"new", "queued"}
    <3>1. out[c] = <<>> /\ chat[c] # "done"
      BY <2>1, <2>2 DEF Own
    <3>2. PICK s \in Whole(c) : s \in Seq(Event)
      <4>1. 0 \in 0 .. SampleLen
        BY ApiAssumption
      <4> QED BY <2>1, <4>1, EndsAreWhole DEF ApiTypes
    <3>3. IsPrefix(<<>>, s)
      BY <3>2, PrefixFacts
    <3> QED BY <3>1, <3>2, <3>3
  <2>3. CASE chat[c] \in Serving
    <3>1. chat[c] # "done" /\ BadMessages(c) = {} /\ Heard(c)
      BY <2>1, <2>3 DEF Own, Served, Serving
    <3>2. PICK n \in 0 .. SampleLen : resp[c] = Text(c, n)
      BY <2>1, <2>3 DEF Own, Served
    <3>3. /\ Said(c, Text(c, n)) \in Seq(Event) /\ FailedEnd(c, 500) \in Seq(Event)
          /\ Said(c, Text(c, n)) \o FailedEnd(c, 500) \in Whole(c)
      BY <2>1, EndsAreWhole DEF ApiTypes
    <3>4. IsPrefix(out[c], Said(c, Text(c, n)))
      BY <3>1, <3>2 DEF Heard
    <3>5. IsPrefix(out[c], Said(c, Text(c, n)) \o FailedEnd(c, 500))
      BY <2>1, <3>3, <3>4, PrefixOfMore
    <3> QED BY <3>1, <3>3, <3>5
  <2>4. CASE chat[c] = "done"
    BY <2>1, <2>4 DEF Own, Closed
  <2> QED BY <2>1, <2>2, <2>3, <2>4 DEF Serving
<1> QED BY <1>1, ApiCorrect, PTL

(* The process keeps to its transfer limit, whichever writers are dropped  *)
(* and however late they are (wait_for_slot in proto/message.rs).          *)
THEOREM RateIsKept == Spec => []WithinRate
<1>1. ApiInv => WithinRate
  <2> SUFFICES ASSUME ApiInv
               PROVE  level <= Cardinality(Probe) + 2
    BY DEF WithinRate
  <2>1. Fits /\ next \in Int /\ level \in Nat /\ Burst
    BY FitsHolds DEF ApiInv, LimiterTypes
  <2>2. PICK t \in Nat : \A k \in Nat :
          level + t + Cardinality(Owed(t, k)) <= Cardinality(Probe) + 1 + Slots(t, k)
    BY <2>1 DEF Burst
  <2>3. level + t + Cardinality(Owed(t, 0)) <= Cardinality(Probe) + 1 + Slots(t, 0)
    BY <2>2
  <2>4. Cardinality(Owed(t, 0)) \in Nat
    BY <2>1, OwedFinite
  <2>5. Slots(t, 0) <= t + 1 /\ Slots(t, 0) \in Nat
    BY <2>1 DEF Slots, Later, Least
  <2> QED BY <2>1, <2>3, <2>4, <2>5, ProbesFinite
<1> QED BY <1>1, ApiCorrect, PTL
=============================================================================
