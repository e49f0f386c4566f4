-------------------------- MODULE GgmlShard_proofs --------------------------
(***************************************************************************)
(* For every cut of the layers, context and bucket: the states of a GGML   *)
(* deployment are exact wherever the pass under way relies on them.        *)
(***************************************************************************)
EXTENDS GgmlShard, SequenceTheorems, TLAPS

Token == Nat \X Nat
RowsType == [1 .. Capacity -> Token \cup {Zero}]
StateType == [next : 0 .. MaxSeq, rows : RowsType, conv : Seq(Token), rec : Seq(Token)]
GraphType == [decode : Nat, prefill : Nat \X Nat]

Types ==
  /\ ranges \in Splits
  /\ state \in [Layers -> StateType]
  /\ graph \in [Layers -> GraphType]
  /\ phase \in {"warm", "idle", "chat", "down"}
  /\ step \in Nat /\ stream \in Nat /\ generated \in Nat
  /\ prompt \in Prompts
  /\ indexPos \in 0 .. MaxSeq
  /\ pass \in [n : Nat, position : 0 .. MaxSeq, at : 0 .. Len(ranges) + 1]

(* The first layer the pass under way has not come to.                     *)
Frontier == IF pass.at <= Len(ranges) THEN ranges[pass.at].first ELSE NL + 1

(* A layer has seen the first P tokens of the current context, nothing     *)
(* else where it looks, and expects the next.                              *)
Sees(s, l, P) ==
  IF l \in Linear THEN s.conv = Context(P) /\ s.rec = Context(P)
  ELSE \A i \in 1 .. P : s.rows[i] = <<stream, i - 1>>
Holds(l, P) == state[l].next = P /\ Sees(state[l], l, P)

(* A computation read the tokens of the current context.                   *)
OnlyContext(P) == {Context(P)}

(* In a pass the layers behind the frontier hold its tokens too, and those *)
(* before it hold what came before, unless it starts the context.          *)
During ==
  pass # NoPass =>
    /\ pass.n >= 1 /\ pass.at >= 1 /\ phase \in {"warm", "chat"}
    /\ pass.at > 1 => pass.position + pass.n <= MaxSeq
    /\ \A i \in 1 .. pass.at - 1 : ranges[i].last < Frontier
    /\ \A l \in Layers : l < Frontier =>
         Holds(l, pass.position + pass.n) /\ read[l] = OnlyContext(pass.position + pass.n)
    /\ \A l \in Layers : l >= Frontier => pass.position = 0 \/ Holds(l, pass.position)

WarmPosition == IF step < 2 THEN 0 ELSE WarmTokens(prompt) + step - 2

(* Between two passes of the warm-up, and of an answer, every layer holds  *)
(* what the next one relies on.                                            *)
Warm ==
  phase = "warm" =>
    /\ step <= 2 + DecodeSteps
    /\ pass # NoPass => /\ step < 2 + DecodeSteps
                        /\ pass.position = WarmPosition
                        /\ pass.n = IF step < 2 THEN WarmTokens(prompt) ELSE 1
    /\ pass = NoPass /\ step >= 2 => \A l \in Layers : Holds(l, WarmPosition)
Chatting ==
  phase = "chat" =>
    /\ generated = 0 => indexPos = 0
    /\ pass # NoPass => pass.position = indexPos
    /\ pass = NoPass /\ generated > 0 => \A l \in Layers : Holds(l, indexPos)

ShardInv == Types /\ During /\ Warm /\ Chatting

----------------------------------------------------------------------------
(* Numbers.                                                                *)

(* A multiple of the bucket that is not smaller.                           *)
LEMMA RoundsUp ==
  ASSUME NEW x \in Nat
  PROVE  /\ ((x + Bucket - 1) \div Bucket) * Bucket \in Nat
         /\ ((x + Bucket - 1) \div Bucket) * Bucket >= x
<1> DEFINE q == (x + Bucket - 1) \div Bucket
           r == (x + Bucket - 1) % Bucket
<1>1. Bucket \in Nat \ {0} /\ x + Bucket - 1 \in Nat
  BY GgmlAssumption
<1>2. q \in Nat /\ r \in 0 .. Bucket - 1 /\ x + Bucket - 1 = Bucket * q + r
  BY <1>1
<1>3. q * Bucket \in Nat /\ q * Bucket = Bucket * q
  BY <1>1, <1>2
<1> HIDE DEF q, r
<1>4. q * Bucket >= x
  BY <1>1, <1>2, <1>3
<1> QED BY <1>3, <1>4 DEF q

LEMMA CapacityBound == Capacity \in Nat /\ Capacity >= MaxSeq
BY RoundsUp, GgmlAssumption DEF Capacity

(* A graph reads all the rows of its own pass, and no more than there are. *)
LEMMA ActiveLengthBound ==
  ASSUME NEW n \in Nat, NEW p \in Nat, p + n <= MaxSeq
  PROVE  ActiveLength(n, p) \in Nat /\ ActiveLength(n, p) >= p + n
<1>1. p + n \in Nat /\ Capacity \in Nat /\ Capacity >= p + n
  BY CapacityBound, GgmlAssumption
<1> QED BY <1>1, RoundsUp DEF ActiveLength, AtMost

(* The warm-up leaves room for its decode steps.                           *)
LEMMA WarmBound ==
  ASSUME NEW p \in Prompts
  PROVE  /\ DecodeSteps \in Nat /\ WarmTokens(p) \in Nat \ {0}
         /\ WarmTokens(p) + DecodeSteps <= MaxSeq
BY GgmlAssumption DEF DecodeSteps, WarmTokens, AtMost

(* What a cut of the layers is.                                            *)
LEMMA RangeFacts ==
  ASSUME Types
  PROVE  /\ ranges \in Seq([first : Layers, last : Layers])
         /\ Len(ranges) \in Nat \ {0}
         /\ ranges[1].first = 1 /\ ranges[Len(ranges)].last = NL
         /\ \A i \in 1 .. Len(ranges) :
              /\ ranges[i].first \in Layers /\ ranges[i].last \in Layers
              /\ ranges[i].first <= ranges[i].last
              /\ i < Len(ranges) => ranges[i + 1].first = ranges[i].last + 1
<1>1. /\ ranges \in Seq([first : Layers, last : Layers]) /\ ranges # <<>>
      /\ ranges[1].first = 1 /\ ranges[Len(ranges)].last = NL
      /\ \A i \in 1 .. Len(ranges) : ranges[i].first <= ranges[i].last
      /\ \A i \in 2 .. Len(ranges) : ranges[i].first = ranges[i - 1].last + 1
  BY GgmlAssumption DEF Types
<1>2. Len(ranges) \in Nat \ {0}
  BY <1>1, EmptySeq
<1>3. \A i \in 1 .. Len(ranges) : ranges[i] \in [first : Layers, last : Layers]
  BY <1>1, ElementOfSeq
<1>4. \A i \in 1 .. Len(ranges) : i < Len(ranges) => ranges[i + 1].first = ranges[i].last + 1
  <2> SUFFICES ASSUME NEW i \in 1 .. Len(ranges), i < Len(ranges)
               PROVE  ranges[i + 1].first = ranges[i].last + 1
    OBVIOUS
  <2>1. i + 1 \in 2 .. Len(ranges) /\ (i + 1) - 1 = i
    BY <1>2
  <2> QED BY <1>1, <2>1
<1> QED BY <1>1, <1>2, <1>3, <1>4

----------------------------------------------------------------------------
(* Contexts.                                                               *)

LEMMA ContextType ==
  ASSUME stream \in Nat, NEW n \in Nat, NEW p \in Nat
  PROVE  /\ Context(n) \in Seq(Token) /\ Len(Context(n)) = n
         /\ New(n, p) \in Seq(Token) /\ Len(New(n, p)) = n
BY DEF Context, New, Token

(* The new tokens of a pass take the context on.                           *)
LEMMA ContextGrows ==
  ASSUME stream \in Nat, NEW n \in Nat, NEW p \in Nat
  PROVE  Context(p) \o New(n, p) = Context(p + n)
<1> DEFINE s == Context(p)
           t == New(n, p)
           u == Context(p + n)
<1>1. /\ s \in Seq(Token) /\ Len(s) = p /\ t \in Seq(Token) /\ Len(t) = n
      /\ u \in Seq(Token) /\ Len(u) = p + n
  BY ContextType
<1>2. \A i \in 1 .. p + n : u[i] = IF i <= p THEN s[i] ELSE t[i - p]
  BY DEF Context, New
<1> HIDE DEF s, t, u
<1>3. /\ s \o t \in Seq(Token) /\ Len(s \o t) = p + n
      /\ \A i \in 1 .. p + n : (s \o t)[i] = IF i <= p THEN s[i] ELSE t[i - p]
  <2>1. /\ s \o t \in Seq(Token) /\ Len(s \o t) = Len(s) + Len(t)
        /\ \A i \in 1 .. Len(s) + Len(t) :
             (s \o t)[i] = IF i <= Len(s) THEN s[i] ELSE t[i - Len(s)]
    BY <1>1, ConcatProperties
  <2> QED BY <1>1, <2>1
<1>4. \A i \in 1 .. p + n : (s \o t)[i] = u[i]
  BY <1>2, <1>3
<1>5. s \o t = u
  BY <1>1, <1>3, <1>4, SeqEqual
<1> QED BY <1>5 DEF s, t, u

LEMMA FreshSees ==
  ASSUME Types, NEW l \in Layers
  PROVE  Fresh \in StateType /\ Sees(Fresh, l, 0)
<1>1. Fresh.rows \in RowsType /\ Fresh.next \in 0 .. MaxSeq
  BY GgmlAssumption DEF Fresh, RowsType
<1>2. Fresh.conv \in Seq(Token) /\ Fresh.rec \in Seq(Token)
  BY DEF Fresh
<1>3. Context(0) = <<>>
  BY DEF Context
<1>4. Fresh \in StateType
  BY <1>1, <1>2 DEF Fresh, StateType
<1> QED BY <1>3, <1>4 DEF Sees, Fresh

(* Any computation leaves a state of the right shape.                      *)
LEMMA ComputedType ==
  ASSUME Types, NEW l \in Layers, NEW s \in StateType, NEW n \in Nat, NEW p \in Nat,
         NEW half \in BOOLEAN
  PROVE  /\ Computed(l, s, n, p, half) \in StateType
         /\ Computed(l, s, n, p, half).next = s.next
<1>1. stream \in Nat /\ New(n, p) \in Seq(Token)
  BY ContextType DEF Types
<1>2. s.conv \in Seq(Token) /\ s.rec \in Seq(Token) /\ s.rows \in RowsType
  BY DEF StateType
<1>3. s.conv \o New(n, p) \in Seq(Token) /\ s.rec \o New(n, p) \in Seq(Token)
  BY <1>1, <1>2, ConcatProperties
<1>4. CASE l \in Linear
  <2> DEFINE conv == s.conv \o New(n, p)
             rec == IF half THEN s.rec ELSE s.rec \o New(n, p)
  <2>1. Computed(l, s, n, p, half) = [s EXCEPT !.conv = conv, !.rec = rec]
    BY <1>4 DEF Computed, StateType
  <2>2. conv \in Seq(Token) /\ rec \in Seq(Token)
    BY <1>2, <1>3
  <2> HIDE DEF conv, rec
  <2> QED BY <2>1, <2>2 DEF StateType
<1>5. CASE l \notin Linear
  <2> DEFINE rows == [i \in 1 .. Capacity |->
                        IF i - 1 \in p .. p + n - 1 THEN <<stream, i - 1>> ELSE s.rows[i]]
  <2>1. Computed(l, s, n, p, half) = [s EXCEPT !.rows = rows]
    BY <1>5 DEF Computed
  <2>2. rows \in RowsType
    <3> SUFFICES ASSUME NEW i \in 1 .. Capacity
                 PROVE  (IF i - 1 \in p .. p + n - 1 THEN <<stream, i - 1>> ELSE s.rows[i])
                          \in Token \cup {Zero}
      BY DEF RowsType
    <3>1. s.rows[i] \in Token \cup {Zero}
      BY <1>2 DEF RowsType
    <3>2. <<stream, i - 1>> \in Token
      BY <1>1, CapacityBound DEF Token
    <3> QED BY <3>1, <3>2
  <2> HIDE DEF rows
  <2> QED BY <2>1, <2>2 DEF StateType
<1> QED BY <1>4, <1>5

(* A state that has seen what comes before the pass, computed with the     *)
(* tokens of the pass, has seen these too, and nothing else is read.       *)
LEMMA ComputedSees ==
  ASSUME Types, NEW l \in Layers, NEW s \in StateType, NEW n \in Nat \ {0}, NEW p \in Nat,
         p + n <= MaxSeq, Sees(s, l, p), NEW length \in Nat, length >= p + n
  PROVE  /\ Sees(Computed(l, s, n, p, FALSE), l, p + n)
         /\ Seen(l, s, n, p, length) = OnlyContext(p + n)
<1>1. stream \in Nat
  BY DEF Types
<1>2. CASE l \in Linear
  <2>1. s.conv = Context(p) /\ s.rec = Context(p)
    BY <1>2 DEF Sees
  <2>2. s.conv \o New(n, p) = Context(p + n) /\ s.rec \o New(n, p) = Context(p + n)
    BY <1>1, <2>1, ContextGrows
  <2>3. /\ Computed(l, s, n, p, FALSE).conv = s.conv \o New(n, p)
        /\ Computed(l, s, n, p, FALSE).rec = s.rec \o New(n, p)
    BY <1>2 DEF Computed, StateType
  <2>4. Seen(l, s, n, p, length) = {s.conv \o New(n, p), s.rec \o New(n, p)}
    BY <1>2 DEF Seen
  <2> QED BY <1>2, <2>2, <2>3, <2>4 DEF Sees, OnlyContext
<1>3. CASE l \notin Linear
  <2> DEFINE rows == Computed(l, s, n, p, FALSE).rows
  <2>1. rows \in [1 .. Capacity -> Token \cup {Zero}]
    BY ComputedType DEF StateType, RowsType
  <2>2. \A i \in 1 .. Capacity :
          rows[i] = IF i - 1 \in p .. p + n - 1 THEN <<stream, i - 1>> ELSE s.rows[i]
    BY <1>3 DEF Computed, StateType
  <2>3. p + n \in Nat /\ Capacity \in Nat /\ p + n <= Capacity
    BY CapacityBound, GgmlAssumption
  <2>4. \A i \in 1 .. p : s.rows[i] = <<stream, i - 1>>
    BY <1>3 DEF Sees
  <2> HIDE DEF rows
  <2>5. ASSUME NEW i \in 1 .. p + n
        PROVE  rows[i] = <<stream, i - 1>>
    <3>1. i \in 1 .. Capacity
      BY <2>3
    <3>2. CASE i <= p
      <4>1. i \in 1 .. p /\ ~(i - 1 \in p .. p + n - 1)
        BY <3>2
      <4> QED BY <2>2, <2>4, <3>1, <4>1
    <3>3. CASE i > p
      <4>1. i - 1 \in p .. p + n - 1
        BY <3>3
      <4> QED BY <2>2, <3>1, <4>1
    <3> QED BY <3>2, <3>3
  <2>6. SubSeq(rows, 1, p + n) = Context(p + n)
    <3>1. rows \in Seq(Token \cup {Zero}) /\ Len(rows) = Capacity
      BY <2>1, <2>3
    <3>2. /\ SubSeq(rows, 1, p + n) \in Seq(Token \cup {Zero})
          /\ Len(SubSeq(rows, 1, p + n)) = p + n
          /\ \A i \in 1 .. p + n : SubSeq(rows, 1, p + n)[i] = rows[i]
      BY <2>3, <3>1, SubSeqProperties
    <3>3. /\ Context(p + n) \in Seq(Token \cup {Zero}) /\ Len(Context(p + n)) = p + n
          /\ \A i \in 1 .. p + n : Context(p + n)[i] = <<stream, i - 1>>
      <4>1. Context(p + n) \in Seq(Token) /\ Len(Context(p + n)) = p + n
        BY <1>1, <2>3, ContextType
      <4> QED BY <4>1 DEF Context
    <3> DEFINE a == SubSeq(rows, 1, p + n)
               b == Context(p + n)
    <3>4. /\ a \in Seq(Token \cup {Zero}) /\ b \in Seq(Token \cup {Zero})
          /\ Len(a) = p + n /\ Len(b) = p + n /\ \A i \in 1 .. p + n : a[i] = b[i]
      BY <2>5, <3>2, <3>3
    <3> HIDE DEF a, b
    <3>5. a = b
      BY <3>4, SeqEqual
    <3> QED BY <3>5 DEF a, b
  <2>7. AtMost(length, p + n) = p + n
    BY <2>3 DEF AtMost
  <2>8. Seen(l, s, n, p, length) = {SubSeq(rows, 1, p + n)}
    BY <1>3, <2>7 DEF Seen, rows
  <2>9. Sees(Computed(l, s, n, p, FALSE), l, p + n)
    BY <1>3, <2>5 DEF Sees, rows
  <2> QED BY <2>6, <2>8, <2>9 DEF OnlyContext
<1> QED BY <1>2, <1>3

----------------------------------------------------------------------------
(* One range.                                                              *)

Ran == Committed(After(Size(pass.at), FALSE))
End == pass.position + pass.n

(* The range a pass has come to.                                           *)
LEMMA RunningFacts ==
  ASSUME Types, During, Running
  PROVE  /\ pass.at \in 1 .. Len(ranges) /\ pass.n \in Nat \ {0} /\ pass.position \in 0 .. MaxSeq
         /\ ranges[pass.at].first \in Layers /\ ranges[pass.at].last \in Layers
         /\ ranges[pass.at].first <= ranges[pass.at].last
         /\ Frontier = ranges[pass.at].first
         /\ InRange(pass.at) \subseteq Layers
         /\ ranges[pass.at].first \in InRange(pass.at)
<1>1. pass.at \in 1 .. Len(ranges) /\ pass.n \in Nat \ {0} /\ pass.position \in 0 .. MaxSeq
  BY RangeFacts DEF Types, During, Running
<1>2. /\ ranges[pass.at].first \in Layers /\ ranges[pass.at].last \in Layers
      /\ ranges[pass.at].first <= ranges[pass.at].last
  BY <1>1, RangeFacts
<1>3. Frontier = ranges[pass.at].first
  BY DEF Frontier, Running
<1> QED BY <1>1, <1>2, <1>3, GgmlAssumption DEF InRange, Layers

(* An accepted pass fits into the context.                                 *)
LEMMA AcceptedFits ==
  ASSUME Types, During, Running, Accepted
  PROVE  End \in Nat /\ End <= MaxSeq
<1>1. CheckPosition(state[ranges[pass.at].first], pass.n, pass.position)
  BY RunningFacts DEF Accepted
<1> QED BY <1>1, RunningFacts, GgmlAssumption DEF CheckPosition, End

(* What a layer of the range starts from.                                  *)
LEMMA StartSees ==
  ASSUME Types, During, Running, NEW l \in InRange(pass.at)
  PROVE  /\ ResetIfNew(state[l], pass.position) \in StateType
         /\ Sees(ResetIfNew(state[l], pass.position), l, pass.position)
<1>1. l \in Layers /\ l >= Frontier
  BY RunningFacts DEF InRange, Layers
<1>2. state[l] \in StateType
  BY <1>1 DEF Types
<1>3. CASE pass.position = 0
  BY <1>1, <1>3, FreshSees DEF ResetIfNew
<1>4. CASE pass.position # 0
  <2>1. Holds(l, pass.position)
    BY <1>1, <1>4 DEF During, Running
  <2> QED BY <1>2, <1>4, <2>1 DEF ResetIfNew, Holds
<1> QED BY <1>3, <1>4

(* However far a range comes, its states keep their shape.                 *)
LEMMA AfterType ==
  ASSUME Types, During, Running, NEW done \in Nat, NEW half \in BOOLEAN
  PROVE  After(done, half) \in [Layers -> StateType]
<1> SUFFICES ASSUME NEW l \in Layers
             PROVE  After(done, half)[l] \in StateType
  BY DEF After
<1>1. CASE l \notin InRange(pass.at)
  BY <1>1 DEF After, Types
<1>2. CASE l \in InRange(pass.at)
  <2> DEFINE s == ResetIfNew(state[l], pass.position)
  <2>1. s \in StateType
    BY <1>2, StartSees
  <2>2. /\ Computed(l, s, pass.n, pass.position, FALSE) \in StateType
        /\ Computed(l, s, pass.n, pass.position, TRUE) \in StateType
    <3>1. pass.n \in Nat /\ pass.position \in Nat
      BY RunningFacts
    <3>2. \A h \in BOOLEAN : Computed(l, s, pass.n, pass.position, h) \in StateType
      BY <2>1, <3>1, ComputedType
    <3> QED BY <3>2, Zenon
  <2>3. After(done, half)[l] \in {Computed(l, s, pass.n, pass.position, FALSE),
                                  Computed(l, s, pass.n, pass.position, TRUE), s}
    BY <1>2 DEF After
  <2> QED BY <2>1, <2>2, <2>3
<1> QED BY <1>1, <1>2

LEMMA BuiltFacts ==
  ASSUME Types, During, Running, Accepted
  PROVE  /\ Built \in [Layers -> GraphType]
         /\ LengthOf(Built[ranges[pass.at].first], pass.n) = ActiveLength(pass.n, pass.position)
<1> DEFINE f == ranges[pass.at].first
           a == ActiveLength(pass.n, pass.position)
           g == GraphFor(graph[f], pass.n, a)
<1>1. f \in Layers /\ pass.n \in Nat
  BY RunningFacts
<1>2. a \in Nat
  BY RunningFacts, AcceptedFits, ActiveLengthBound DEF End
<1>3. graph \in [Layers -> GraphType] /\ graph[f] \in GraphType
  BY <1>1 DEF Types
<1> HIDE DEF a
<1>4. g \in GraphType /\ LengthOf(g, pass.n) = a
  BY <1>1, <1>2, <1>3 DEF GraphFor, GraphFits, GraphType, LengthOf
<1>5. Built = [graph EXCEPT ![f] = g]
  BY DEF Built, a
<1> QED BY <1>1, <1>3, <1>4, <1>5 DEF a

(* A range that ran: its layers have read and now hold the tokens up to    *)
(* the end of the pass; the others are as they were.                       *)
LEMMA RanFacts ==
  ASSUME Types, During, Running, Accepted
  PROVE  /\ Ran \in [Layers -> StateType]
         /\ \A l \in InRange(pass.at) :
              Ran[l].next = End /\ Sees(Ran[l], l, End) /\ Reads[l] = OnlyContext(End)
         /\ \A l \in Layers \ InRange(pass.at) : Ran[l] = state[l] /\ Reads[l] = read[l]
<1> DEFINE n == pass.n
           p == pass.position
           st == After(Size(pass.at), FALSE)
<1>1. End \in Nat /\ End <= MaxSeq /\ End = p + n /\ n \in Nat \ {0} /\ p \in Nat
  BY RunningFacts, AcceptedFits DEF End
<1>2. Size(pass.at) \in Nat
  BY RunningFacts DEF Size, Layers
<1>3. st \in [Layers -> StateType]
  BY <1>2, AfterType
<1>4. ASSUME NEW l \in Layers \ InRange(pass.at)
      PROVE  Ran[l] = state[l] /\ Reads[l] = read[l]
  BY <1>4 DEF Ran, Committed, After, Reads
<1>5. ASSUME NEW l \in InRange(pass.at)
      PROVE  Ran[l].next = End /\ Sees(Ran[l], l, End) /\ Reads[l] = OnlyContext(End)
  <2> DEFINE s == ResetIfNew(state[l], p)
             c == Computed(l, s, n, p, FALSE)
  <2>1. l \in Layers
    BY RunningFacts
  <2>2. s \in StateType /\ Sees(s, l, p)
    BY StartSees
  <2>3. ActiveLength(n, p) \in Nat /\ ActiveLength(n, p) >= p + n
    BY <1>1, ActiveLengthBound
  <2>4. c \in StateType
    BY <1>1, <2>1, <2>2, ComputedType
  <2>5. Sees(c, l, End) /\ Seen(l, s, n, p, ActiveLength(n, p)) = OnlyContext(End)
    <3>1. p + n <= MaxSeq
      BY <1>1
    <3>2. Sees(c, l, p + n) /\ Seen(l, s, n, p, ActiveLength(n, p)) = OnlyContext(p + n)
      <4> HIDE DEF s, n, p
      <4>1. /\ n \in Nat \ {0} /\ p \in Nat /\ p + n <= MaxSeq
            /\ s \in StateType /\ Sees(s, l, p)
        BY <1>1, <2>2, <3>1
      <4> QED BY <2>1, <2>3, <4>1, ComputedSees, ZenonT(40)
    <3> QED BY <3>2 DEF End
  <2>6. st[l] = c
    <3>1. l - ranges[pass.at].first < Size(pass.at)
      BY RunningFacts DEF Size, InRange, Layers
    <3> QED BY <2>1, <3>1 DEF After
  <2>7. Ran[l] = [c EXCEPT !.next = End]
    BY <2>1, <2>6 DEF Ran, Committed, End
  <2>8. Reads[l] = OnlyContext(End)
    <3>1. Reads[l] = Seen(l, s, n, p, LengthOf(Built[ranges[pass.at].first], n))
      BY <2>1 DEF Reads
    <3> QED BY <2>5, <3>1, BuiltFacts
  <2> HIDE DEF c
  <2>9. Ran[l].next = End /\ Ran[l].rows = c.rows /\ Ran[l].conv = c.conv /\ Ran[l].rec = c.rec
    BY <2>4, <2>7 DEF StateType
  <2> QED BY <2>5, <2>8, <2>9 DEF Sees
<1>6. Ran \in [Layers -> StateType]
  <2> SUFFICES ASSUME NEW l \in Layers
               PROVE  Ran[l] \in StateType
    BY DEF Ran, Committed
  <2>1. CASE l \notin InRange(pass.at)
    BY <1>4, <2>1 DEF Types
  <2>2. CASE l \in InRange(pass.at)
    <3>1. Ran[l] = [st[l] EXCEPT !.next = End]
      BY <2>2 DEF Ran, Committed, End
    <3> HIDE DEF st
    <3>2. st[l] \in StateType /\ End \in 0 .. MaxSeq
      BY <1>1, <1>3, GgmlAssumption
    <3> QED BY <3>1, <3>2 DEF StateType
  <2> QED BY <2>1, <2>2
<1> QED BY <1>4, <1>5, <1>6

----------------------------------------------------------------------------
(* The steps.                                                              *)

LEMMA InitInv == Init => ShardInv
<1> SUFFICES ASSUME Init
             PROVE  ShardInv
  OBVIOUS
<1>1. Fresh \in StateType
  <2>1. Fresh.rows \in RowsType /\ Fresh.next \in 0 .. MaxSeq
    BY GgmlAssumption DEF Fresh, RowsType
  <2>2. Fresh.conv \in Seq(Token) /\ Fresh.rec \in Seq(Token)
    BY DEF Fresh
  <2> QED BY <2>1, <2>2 DEF Fresh, StateType
<1>2. state \in [Layers -> StateType] /\ graph \in [Layers -> GraphType]
  BY <1>1 DEF Init, NoGraph, GraphType
<1>3. ranges \in Splits /\ Len(ranges) \in Nat
  BY GgmlAssumption, EmptySeq DEF Init
<1>4. pass \in [n : Nat, position : 0 .. MaxSeq, at : 0 .. Len(ranges) + 1]
  BY <1>3, GgmlAssumption DEF Init, NoPass
<1>5. Types
  BY <1>2, <1>3, <1>4, GgmlAssumption DEF Init, Types
<1>6. During
  BY DEF Init, During
<1>7. DecodeSteps \in Nat
  BY WarmBound DEF Init
<1> QED BY <1>5, <1>6, <1>7 DEF Init, ShardInv, Warm, Chatting

(* The master starts a pass: either at position 0, or behind the tokens    *)
(* every layer holds.                                                      *)
LEMMA PassStarts ==
  ASSUME Types, NEW n \in Nat \ {0}, NEW p \in 0 .. MaxSeq, StartPass(n, p),
         UNCHANGED <<ranges, state, graph, read, phase>>, phase \in {"warm", "chat"},
         p # 0 => \A l \in Layers : Holds(l, p)
  PROVE  /\ stream' \in Nat /\ pass'.n = n /\ pass'.position = p
         /\ pass' \in [n : Nat, position : 0 .. MaxSeq, at : 0 .. Len(ranges) + 1]
         /\ During'
<1>1. pass' = [n |-> n, position |-> p, at |-> 1]
  BY DEF StartPass
<1>2. Len(ranges) \in Nat \ {0} /\ ranges[1].first = 1
  BY RangeFacts
<1>3. stream' \in Nat
  BY DEF StartPass, Types
<1>4. pass' \in [n : Nat, position : 0 .. MaxSeq, at : 0 .. Len(ranges) + 1]
  BY <1>1, <1>2
<1>5. Frontier' = 1
  BY <1>1, <1>2 DEF Frontier
<1>6. ASSUME NEW l \in Layers
      PROVE  /\ ~(l < Frontier')
             /\ pass.position' = 0 \/ Holds(l, pass.position)'
  <2>1. ~(l < Frontier')
    BY <1>5 DEF Layers
  <2>2. CASE p = 0
    BY <1>1, <2>1, <2>2
  <2>3. CASE p # 0
    <3>1. stream' = stream /\ state' = state /\ pass.position' = p
      BY <1>1, <2>3 DEF StartPass
    <3>2. Holds(l, p)
      BY <2>3
    <3>3. Holds(l, pass.position)'
      BY <3>1, <3>2 DEF Holds, Sees, Context
    <3> QED BY <2>1, <3>3
  <2> QED BY <2>2, <2>3
<1>7. /\ pass.n' >= 1 /\ pass.at' = 1 /\ phase' \in {"warm", "chat"}
      /\ \A i \in 1 .. pass.at' - 1 : FALSE
  BY <1>1
<1>8. During'
  BY <1>6, <1>7 DEF During
<1> QED BY <1>1, <1>3, <1>4, <1>8

LEMMA WarmPassInv ==
  ASSUME ShardInv, WarmPass
  PROVE  ShardInv'
<1>1. Types /\ pass = NoPass /\ phase = "warm" /\ step < 2 + DecodeSteps /\ step \in Nat
      /\ prompt \in Prompts
  BY DEF ShardInv, WarmPass, Types
<1>2. UNCHANGED <<ranges, state, graph, read, phase, step, prompt, indexPos, generated>>
  BY DEF WarmPass
<1> DEFINE n == IF step < 2 THEN WarmTokens(prompt) ELSE 1
           p == WarmPosition
<1>3. n \in Nat \ {0} /\ p \in 0 .. MaxSeq /\ (step < 2 => p = 0)
  BY <1>1, WarmBound, GgmlAssumption DEF WarmPosition
<1>4. StartPass(n, p)
  BY DEF WarmPass, WarmPosition
<1>5. p # 0 => \A l \in Layers : Holds(l, p)
  BY <1>1, <1>3 DEF ShardInv, Warm
<1> HIDE DEF n, p
<1>6. /\ stream' \in Nat /\ pass'.n = n /\ pass'.position = p
      /\ pass' \in [n : Nat, position : 0 .. MaxSeq, at : 0 .. Len(ranges) + 1]
      /\ During'
  BY <1>1, <1>2, <1>3, <1>4, <1>5, PassStarts
<1>7. Types'
  BY <1>1, <1>2, <1>6 DEF Types
<1>8. DecodeSteps' = DecodeSteps /\ WarmTokens(prompt)' = WarmTokens(prompt)
      /\ WarmPosition' = WarmPosition
  BY <1>2 DEF DecodeSteps, WarmTokens, WarmPosition
<1>9. pass' # NoPass
  BY <1>3, <1>6 DEF NoPass
<1>10. Warm'
  <2>1. step' < 2 + DecodeSteps' /\ step' <= 2 + DecodeSteps'
    BY <1>1, <1>2, <1>8, WarmBound
  <2>2. pass'.position = WarmPosition'
    BY <1>6, <1>8 DEF p
  <2>3. pass'.n = IF step' < 2 THEN WarmTokens(prompt)' ELSE 1
    BY <1>2, <1>6, <1>8 DEF n
  <2> QED BY <1>9, <2>1, <2>2, <2>3 DEF Warm
<1> QED BY <1>1, <1>2, <1>6, <1>7, <1>10 DEF ShardInv, Chatting

LEMMA NextTokenInv ==
  ASSUME ShardInv, NextToken
  PROVE  ShardInv'
<1>1. Types /\ pass = NoPass /\ phase = "chat" /\ generated \in Nat /\ indexPos \in 0 .. MaxSeq
      /\ prompt \in Nat \ {0}
  BY GgmlAssumption DEF ShardInv, NextToken, Types
<1>2. UNCHANGED <<ranges, state, graph, read, phase, step, prompt, indexPos, generated>>
  BY DEF NextToken
<1> DEFINE n == IF generated = 0 THEN prompt ELSE 1
<1>3. n \in Nat \ {0}
  BY <1>1
<1>4. StartPass(n, indexPos)
  BY <1>1 DEF NextToken, ShardInv, Chatting
<1>5. indexPos # 0 => \A l \in Layers : Holds(l, indexPos)
  BY <1>1 DEF ShardInv, Chatting
<1> HIDE DEF n
<1>6. /\ stream' \in Nat /\ pass'.n = n /\ pass'.position = indexPos
      /\ pass' \in [n : Nat, position : 0 .. MaxSeq, at : 0 .. Len(ranges) + 1]
      /\ During'
  BY <1>1, <1>2, <1>3, <1>4, <1>5, PassStarts
<1>7. Types'
  BY <1>1, <1>2, <1>6 DEF Types
<1>8. pass' # NoPass
  BY <1>3, <1>6 DEF NoPass
<1>9. Chatting'
  <2>1. generated = 0 => indexPos = 0
    BY <1>1 DEF ShardInv, Chatting
  <2> QED BY <1>2, <1>6, <1>8, <2>1 DEF Chatting
<1> QED BY <1>1, <1>2, <1>6, <1>7, <1>9 DEF ShardInv, Warm

(* Every layer has been through: all of them hold the tokens of the pass.  *)
LEMMA PassEnd ==
  ASSUME Types, During, pass # NoPass, pass.at = Len(ranges) + 1
  PROVE  /\ End \in Nat /\ End <= MaxSeq
         /\ \A l \in Layers : Holds(l, End)
<1>1. Len(ranges) \in Nat \ {0}
  BY RangeFacts
<1>2. Frontier = NL + 1 /\ pass.at > 1
  BY <1>1 DEF Frontier
<1>3. \A l \in Layers : l < Frontier
  BY <1>2, GgmlAssumption DEF Layers
<1>4. \A l \in Layers : Holds(l, pass.position + pass.n)
  BY <1>3 DEF During
<1>5. pass.position + pass.n \in Nat /\ pass.position + pass.n <= MaxSeq
  BY <1>2 DEF During, Types
<1> QED BY <1>4, <1>5 DEF End

LEMMA PassDoneInv ==
  ASSUME ShardInv, PassDone
  PROVE  ShardInv'
<1>1. Types /\ During /\ pass # NoPass /\ pass.at = Len(ranges) + 1
  BY DEF ShardInv, PassDone
<1>2. pass' = NoPass /\ UNCHANGED <<ranges, state, graph, read, stream, prompt>>
  BY DEF PassDone
<1>3. /\ End \in Nat /\ End <= MaxSeq /\ End = pass.position + pass.n
      /\ \A l \in Layers : Holds(l, End)
  BY <1>1, PassEnd DEF End
<1>4. \A l \in Layers, P \in Nat : Holds(l, P) => Holds(l, P)'
  BY <1>2 DEF Holds, Sees, Context
<1>5. During' /\ pass' \in [n : Nat, position : 0 .. MaxSeq, at : 0 .. Len(ranges) + 1]
  <2>1. Len(ranges) \in Nat
    BY <1>1, RangeFacts
  <2> QED BY <1>2, <2>1, GgmlAssumption DEF During, NoPass
<1>6. CASE phase = "warm" /\ step' = step + 1 /\ UNCHANGED <<phase, indexPos, generated>>
  <2>1. /\ step \in Nat /\ step < 2 + DecodeSteps /\ pass.position = WarmPosition
        /\ pass.n = IF step < 2 THEN WarmTokens(prompt) ELSE 1
    BY <1>1, <1>6 DEF ShardInv, Warm, Types
  <2>2. prompt \in Prompts /\ DecodeSteps \in Nat /\ WarmTokens(prompt) \in Nat
    BY <1>1, WarmBound DEF Types
  <2>3. DecodeSteps' = DecodeSteps /\ WarmTokens(prompt)' = WarmTokens(prompt)
    BY <1>2 DEF DecodeSteps, WarmTokens
  <2>4. step' >= 2 => WarmPosition' = End
    BY <1>3, <1>6, <2>1, <2>2, <2>3 DEF WarmPosition
  <2>5. step' >= 2 => \A l \in Layers : Holds(l, WarmPosition)'
    <3> SUFFICES ASSUME step' >= 2, NEW l \in Layers
                 PROVE  Holds(l, WarmPosition)'
      OBVIOUS
    <3>1. state[l].next = End /\ Sees(state[l], l, End)
      BY <1>3 DEF Holds
    <3>2. WarmPosition' = End
      BY <2>4
    <3> QED BY <1>2, <3>1, <3>2 DEF Holds, Sees, Context
  <2>6. Warm'
    <3>1. step' <= 2 + DecodeSteps'
      BY <1>6, <2>1, <2>2, <2>3
    <3> QED BY <1>2, <2>5, <3>1 DEF Warm
  <2>7. Types'
    BY <1>1, <1>2, <1>5, <1>6, <2>1 DEF Types
  <2> QED BY <1>5, <1>6, <2>6, <2>7 DEF ShardInv, Chatting
<1>7. CASE /\ phase = "chat" /\ indexPos' = indexPos + pass.n
           /\ \/ generated' = generated + 1 /\ phase' \in {"chat", "idle"}
              \/ phase' = "idle" /\ UNCHANGED generated
           /\ UNCHANGED step
  <2>1. pass.position = indexPos /\ generated \in Nat
    BY <1>1, <1>7 DEF ShardInv, Chatting, Types
  <2>2. indexPos' = End /\ indexPos' \in 0 .. MaxSeq
    BY <1>3, <1>7, <2>1
  <2>3. generated' \in Nat /\ phase' \in {"chat", "idle"}
    BY <1>7, <2>1
  <2>4. Types'
    BY <1>1, <1>2, <1>5, <1>7, <2>2, <2>3 DEF Types
  <2>5. phase' = "chat" => Chatting'
    <3> SUFFICES ASSUME phase' = "chat"
                 PROVE  Chatting'
      OBVIOUS
    <3>1. generated' # 0
      BY <1>7, <2>1
    <3>2. ASSUME NEW l \in Layers
          PROVE  Holds(l, indexPos)'
      <4>1. state[l].next = End /\ Sees(state[l], l, End)
        BY <1>3 DEF Holds
      <4> QED BY <1>2, <2>2, <4>1 DEF Holds, Sees, Context
    <3> QED BY <1>2, <3>1, <3>2 DEF Chatting
  <2> QED BY <1>5, <2>3, <2>4, <2>5 DEF ShardInv, Warm, Chatting
<1> QED BY <1>6, <1>7 DEF PassDone

(* A request begins or is refused: no pass is under way.                   *)
LEMMA RequestInv ==
  ASSUME ShardInv, WarmDone \/ BeginChat \/ PromptTooLong \/ PromptRefused
  PROVE  ShardInv'
<1>1. /\ pass' = pass /\ UNCHANGED <<ranges, state, graph, read, step, stream>>
      /\ phase' \in {"idle", "chat"} /\ prompt' \in Prompts
      /\ indexPos' \in 0 .. MaxSeq /\ generated' \in Nat
      /\ phase' = "chat" => indexPos' = 0 /\ generated' = 0
  BY GgmlAssumption DEF WarmDone, BeginChat, PromptTooLong, PromptRefused, ShardInv, Types
<1>2. pass = NoPass
  BY DEF WarmDone, BeginChat, PromptTooLong, PromptRefused, ShardInv, During
<1>3. Types'
  BY <1>1 DEF ShardInv, Types
<1>4. During' /\ Warm' /\ Chatting'
  BY <1>1, <1>2 DEF During, Warm, Chatting
<1> QED BY <1>3, <1>4 DEF ShardInv

(* A failed pass leaves states of the right shape, whatever they hold, and *)
(* nothing relies on them before the next pass at position 0.              *)
LEMMA GiveUpInv ==
  ASSUME ShardInv, GiveUp, state' \in [Layers -> StateType], graph' \in [Layers -> GraphType]
  PROVE  ShardInv'
<1>1. pass' = NoPass /\ phase' \in {"down", "idle"}
      /\ UNCHANGED <<ranges, step, stream, prompt, indexPos, generated>>
  BY DEF GiveUp
<1>2. pass' \in [n : Nat, position : 0 .. MaxSeq, at : 0 .. Len(ranges) + 1]
  <2>1. Len(ranges) \in Nat
    BY RangeFacts DEF ShardInv
  <2> QED BY <1>1, <2>1, GgmlAssumption DEF NoPass
<1>3. Types'
  BY <1>1, <1>2 DEF ShardInv, Types
<1> QED BY <1>1, <1>3 DEF ShardInv, During, Warm, Chatting

(* A range ran: the frontier moves behind it.                              *)
LEMMA RunRangeInv ==
  ASSUME ShardInv, RunRange
  PROVE  ShardInv'
<1>1. Types /\ During /\ Running /\ Accepted
  BY DEF ShardInv, RunRange
<1>2. /\ state' = Ran /\ graph' = Built /\ read' = Reads
      /\ pass' = [pass EXCEPT !.at = @ + 1]
      /\ UNCHANGED <<ranges, phase, step, stream, prompt, indexPos, generated>>
  BY DEF RunRange, Ran
<1> DEFINE at == pass.at
<1>3. /\ at \in 1 .. Len(ranges) /\ Len(ranges) \in Nat /\ pass.n \in Nat \ {0}
      /\ pass.position \in 0 .. MaxSeq
      /\ ranges[at].first \in Layers /\ ranges[at].last \in Layers
      /\ Frontier = ranges[at].first /\ ranges[at].first <= ranges[at].last
  BY <1>1, RunningFacts, RangeFacts
<1>4. /\ pass'.n = pass.n /\ pass'.position = pass.position /\ pass'.at = at + 1
      /\ pass' \in [n : Nat, position : 0 .. MaxSeq, at : 0 .. Len(ranges) + 1]
  BY <1>1, <1>2, <1>3 DEF Types
<1>5. Frontier' = ranges[at].last + 1
  <2>1. CASE at < Len(ranges)
    <3>1. ranges[at + 1].first = ranges[at].last + 1
      BY <1>1, <1>3, <2>1, RangeFacts
    <3> QED BY <1>2, <1>3, <1>4, <2>1, <3>1 DEF Frontier
  <2>2. CASE at = Len(ranges)
    BY <1>1, <1>2, <1>3, <1>4, <2>2, RangeFacts DEF Frontier
  <2> QED BY <1>3, <2>1, <2>2
<1>6. Types'
  <2>1. Ran \in [Layers -> StateType] /\ Built \in [Layers -> GraphType]
    BY <1>1, RanFacts, BuiltFacts
  <2> QED BY <1>1, <1>2, <1>4, <2>1 DEF Types
<1>7. End \in Nat /\ End <= MaxSeq /\ End = pass.position + pass.n
  BY <1>1, AcceptedFits DEF End
<1>8. \A i \in 1 .. pass'.at - 1 : ranges'[i].last < Frontier'
  <2> SUFFICES ASSUME NEW i \in 1 .. at
               PROVE  ranges[i].last < Frontier'
    BY <1>2, <1>3, <1>4
  <2>1. CASE i = at
    BY <1>3, <1>5, <2>1 DEF Layers
  <2>2. CASE i < at
    <3>1. i \in 1 .. at - 1 /\ i \in 1 .. Len(ranges)
      BY <1>3, <2>2
    <3>2. ranges[i].last < Frontier /\ ranges[i].last \in Layers
      BY <1>1, <3>1, RangeFacts DEF During, Running
    <3> QED BY <1>3, <1>5, <3>2 DEF Layers
  <2> QED BY <1>3, <2>1, <2>2
<1>9. ASSUME NEW l \in Layers, l < Frontier'
      PROVE  /\ Holds(l, pass.position + pass.n)'
             /\ read'[l] = OnlyContext(pass.position + pass.n)'
  <2>1. Ran[l].next = End /\ Sees(Ran[l], l, End) /\ Reads[l] = OnlyContext(End)
    <3>1. CASE l \in InRange(at)
      BY <1>1, <3>1, RanFacts
    <3>2. CASE l \notin InRange(at)
      <4>1. l < Frontier
        BY <1>3, <1>5, <1>9, <3>2 DEF InRange, Layers
      <4>2. Holds(l, End) /\ read[l] = OnlyContext(End)
        BY <1>1, <1>7, <4>1 DEF During, Running
      <4> QED BY <1>1, <3>2, <4>2, RanFacts DEF Holds
    <3> QED BY <3>1, <3>2
  <2>2. pass'.position + pass'.n = End
    BY <1>4, <1>7
  <2> QED BY <1>2, <2>1, <2>2 DEF Holds, Sees, Context, OnlyContext
<1>10. ASSUME NEW l \in Layers, l >= Frontier'
       PROVE  pass.position' = 0 \/ Holds(l, pass.position)'
  <2>1. l >= Frontier /\ l \notin InRange(at)
    BY <1>3, <1>5, <1>10 DEF InRange, Layers
  <2>2. pass.position = 0 \/ Holds(l, pass.position)
    BY <1>1, <2>1 DEF During, Running
  <2>3. Ran[l] = state[l]
    BY <1>1, <2>1, RanFacts
  <2> QED BY <1>2, <1>4, <2>2, <2>3 DEF Holds, Sees, Context
<1>11. pass' # NoPass
  BY <1>3, <1>4 DEF NoPass
<1>12. During'
  <2>1. phase' \in {"warm", "chat"}
    BY <1>1, <1>2 DEF During, Running
  <2>2. pass'.n >= 1 /\ pass'.at >= 1 /\ pass'.position + pass'.n <= MaxSeq
    BY <1>3, <1>4, <1>7
  <2> QED BY <1>8, <1>9, <1>10, <2>1, <2>2 DEF During
<1>13. Warm' /\ Chatting'
  <2>1. pass # NoPass
    BY <1>1 DEF Running
  <2>2. WarmPosition' = WarmPosition /\ DecodeSteps' = DecodeSteps
        /\ WarmTokens(prompt)' = WarmTokens(prompt)
    BY <1>2 DEF WarmPosition, DecodeSteps, WarmTokens
  <2>3. Warm'
    BY <1>2, <1>4, <1>11, <2>1, <2>2 DEF ShardInv, Warm
  <2>4. Chatting'
    BY <1>2, <1>4, <1>11, <2>1 DEF ShardInv, Chatting
  <2> QED BY <2>3, <2>4
<1> QED BY <1>6, <1>12, <1>13 DEF ShardInv

LEMMA FailureInv ==
  ASSUME ShardInv, ReplyLost \/ RangeFails \/ RangeRefused \/ NotReached
  PROVE  ShardInv'
<1>1. Types /\ During /\ Running /\ GiveUp
  BY DEF ShardInv, ReplyLost, RangeFails, RangeRefused, NotReached
<1>2. state \in [Layers -> StateType] /\ graph \in [Layers -> GraphType]
  BY <1>1 DEF Types
<1>3. Accepted => Ran \in [Layers -> StateType] /\ Built \in [Layers -> GraphType]
  BY <1>1, RanFacts, BuiltFacts
<1>4. \A done \in 0 .. Size(pass.at), half \in BOOLEAN : After(done, half) \in [Layers -> StateType]
  BY <1>1, AfterType
<1>5. CASE ReplyLost
  BY <1>1, <1>3, <1>5, GiveUpInv DEF ReplyLost, Ran
<1>6. CASE RangeFails
  BY <1>1, <1>2, <1>3, <1>4, <1>6, GiveUpInv DEF RangeFails
<1>7. CASE RangeRefused \/ NotReached
  BY <1>1, <1>2, <1>7, GiveUpInv DEF RangeRefused, NotReached
<1> QED BY <1>5, <1>6, <1>7

LEMMA StepInv == ShardInv /\ [Next]_vars => ShardInv'
<1> SUFFICES ASSUME ShardInv, [Next]_vars
             PROVE  ShardInv'
  OBVIOUS
<1>1. CASE WarmPass
  BY <1>1, WarmPassInv
<1>2. CASE WarmDone \/ BeginChat \/ PromptTooLong \/ PromptRefused
  BY <1>2, RequestInv
<1>3. CASE NextToken
  BY <1>3, NextTokenInv
<1>4. CASE PassDone
  BY <1>4, PassDoneInv
<1>5. CASE RunRange
  BY <1>5, RunRangeInv
<1>6. CASE ReplyLost \/ RangeFails \/ RangeRefused \/ NotReached
  BY <1>6, FailureInv
<1>7. CASE UNCHANGED vars
  <2>1. Types' /\ WarmPosition' = WarmPosition /\ Frontier' = Frontier
    BY <1>7 DEF ShardInv, Types, vars, WarmPosition, Frontier, WarmTokens, DecodeSteps
  <2>2. \A l, P : Holds(l, P)' = Holds(l, P) /\ OnlyContext(P)' = OnlyContext(P)
    BY <1>7 DEF Holds, Sees, Context, OnlyContext, vars
  <2> QED BY <1>7, <2>1, <2>2
          DEF ShardInv, During, Warm, Chatting, vars, Holds, Sees, Context, OnlyContext,
              WarmTokens, DecodeSteps
<1> QED BY <1>1, <1>2, <1>3, <1>4, <1>5, <1>6, <1>7 DEF Next

(* The states of every layer are exact wherever a pass relies on them.     *)
THEOREM ShardCorrect == Spec => []ShardInv
BY InitInv, StepInv, PTL DEF Spec

(* No position of a layer, a pass or an answer leaves the context.         *)
THEOREM ShardTypes == Spec => []TypeOK
<1>1. ShardInv => TypeOK
  BY DEF ShardInv, Types, TypeOK, StateType
<1> QED BY <1>1, ShardCorrect, PTL

(* Whatever failed half way before, on whatever machine, a computation of  *)
(* a fused range reads its own context and nothing else (Range::forward).  *)
THEOREM StatesExact == Spec => []ExactState
<1>1. ASSUME ShardInv
      PROVE  ExactState
  <2> SUFFICES ASSUME pass # NoPass, NEW i \in 1 .. pass.at - 1, NEW l \in InRange(i)
               PROVE  read[l] = {Context(pass.position + pass.n)}
    BY DEF ExactState
  <2>1. Types /\ During
    BY <1>1 DEF ShardInv
  <2>2. pass.at \in 0 .. Len(ranges) + 1 /\ Len(ranges) \in Nat
    BY <2>1, RangeFacts DEF Types
  <2>3. i \in 1 .. Len(ranges)
    BY <2>2
  <2>4. ranges[i].first \in Layers /\ ranges[i].last \in Layers
    BY <2>1, <2>3, RangeFacts
  <2>5. ranges[i].last < Frontier
    BY <2>1 DEF During
  <2>6. Frontier \in Nat
    <3>1. CASE pass.at <= Len(ranges)
      <4>1. pass.at \in 1 .. Len(ranges)
        BY <2>1, <2>2, <3>1 DEF During
      <4> QED BY <2>1, <3>1, <4>1, RangeFacts, SMTT(30) DEF Frontier, Layers
    <3>2. CASE ~(pass.at <= Len(ranges))
      BY <3>2, GgmlAssumption DEF Frontier
    <3> QED BY <3>1, <3>2
  <2>7. l \in Layers /\ l < Frontier
    BY <2>4, <2>5, <2>6, GgmlAssumption DEF InRange, Layers
  <2> QED BY <2>1, <2>7 DEF During, OnlyContext
<1> QED BY <1>1, ShardCorrect, PTL

(* The position check refuses a pass only when the context is full:        *)
(* neither the states of the last request nor a pass that failed half way  *)
(* blocks a later one (State::check_position).                             *)
THEOREM RefusalMeansFull == Spec => []RefusedOnlyWhenFull
<1>1. ASSUME ShardInv
      PROVE  RefusedOnlyWhenFull
  <2> SUFFICES ASSUME Running, ~Accepted
               PROVE  pass.position + pass.n > MaxSeq
    BY DEF RefusedOnlyWhenFull
  <2>1. Types /\ During
    BY <1>1 DEF ShardInv
  <2>2. PICK l \in InRange(pass.at) : ~CheckPosition(state[l], pass.n, pass.position)
    BY DEF Accepted
  <2>3. l \in Layers /\ l >= Frontier
    BY <2>1, RunningFacts DEF InRange, Layers
  <2>4. pass.position = 0 \/ pass.position = state[l].next
    BY <2>1, <2>3 DEF During, Running, Holds
  <2> QED BY <2>1, <2>2, <2>4, RunningFacts, GgmlAssumption DEF CheckPosition
<1> QED BY <1>1, ShardCorrect, PTL
=============================================================================
