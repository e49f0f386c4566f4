--------------------------- MODULE KvCache_proofs ---------------------------
(***************************************************************************)
(* For every max_seq_len: a cache entry is exact after every forward pass. *)
(***************************************************************************)
EXTENDS KvCache, SequenceTheorems, TLAPS

CacheInv == TypeOK /\ EntryOK /\ ViewIsContext

(* n tokens of the request from position pos are a sequence of rows.       *)
LEMMA TokensType ==
  ASSUME TypeOK, NEW pos \in Nat, NEW n \in Nat
  PROVE  Tokens(pos, n) \in Seq(Row) /\ Len(Tokens(pos, n)) = n
BY DEF TypeOK, Tokens, Row

(* A prefill yields the context, and one more token extends it.            *)
LEMMA ContextGrows ==
  ASSUME TypeOK, NEW n \in Nat
  PROVE  /\ Tokens(0, n) = Context(n)
         /\ Context(n) \in Seq(Row) /\ Len(Context(n)) = n
         /\ Context(n) \o Tokens(n, 1) = Context(n + 1)
<1>1. Tokens(0, n) = Context(n)
  BY DEF Tokens, Context, TypeOK
<1>2. Context(n) \in Seq(Row) /\ Len(Context(n)) = n
  BY <1>1, TokensType
<1>3. Tokens(n, 1) \in Seq(Row) /\ Len(Tokens(n, 1)) = 1 /\ Tokens(n, 1)[1] = <<req, n>>
  BY TokensType DEF Tokens
<1>4. Context(n + 1) \in Seq(Row) /\ Len(Context(n + 1)) = n + 1
  <2>1. Tokens(0, n + 1) = Context(n + 1)
    BY DEF Tokens, Context, TypeOK
  <2> QED BY <2>1, TokensType
<1> DEFINE s == Context(n)
           t == Tokens(n, 1)
           u == Context(n + 1)
<1>5. \A i \in 1 .. n + 1 : u[i] = IF i <= n THEN s[i] ELSE t[1]
  BY <1>3 DEF Context
<1>6. s \in Seq(Row) /\ t \in Seq(Row) /\ u \in Seq(Row) /\ Len(s) = n /\ Len(t) = 1 /\ Len(u) = n + 1
  BY <1>2, <1>3, <1>4
<1> HIDE DEF s, t, u
<1>7. /\ s \o t \in Seq(Row) /\ Len(s \o t) = n + 1
      /\ \A i \in 1 .. n + 1 : (s \o t)[i] = IF i <= n THEN s[i] ELSE t[i - n]
  <2>1. /\ s \o t \in Seq(Row) /\ Len(s \o t) = Len(s) + Len(t)
        /\ \A i \in 1 .. Len(s) + Len(t) :
             (s \o t)[i] = IF i <= Len(s) THEN s[i] ELSE t[i - Len(s)]
    BY <1>6, ConcatProperties
  <2> QED BY <1>6, <2>1
<1>8. \A i \in 1 .. n + 1 : (s \o t)[i] = u[i]
  BY <1>5, <1>7
<1>9. s \o t = u
  BY <1>6, <1>7, <1>8, SeqEqual
<1> QED BY <1>1, <1>2, <1>9 DEF s, t, u

(* A fold from zeros is the tokens alone.                                  *)
LEMMA RecurrentCases ==
  ASSUME TypeOK, NEW pos \in Nat, NEW n \in Nat
  PROVE  Recurrent(pos, n) = IF pos = 0 THEN Tokens(pos, n) ELSE linear \o Tokens(pos, n)
<1>1. Tokens(pos, n) \in Seq(Row)
  BY TokensType
<1>2. <<>> \o Tokens(pos, n) = Tokens(pos, n)
  BY <1>1, ConcatEmptySeq
<1> QED BY <1>2 DEF Recurrent, Folded

(* The storage a decode at position pos writes to: full, and with the rows *)
(* of the entry in front when the entry reaches up to pos.                 *)
LEMMA StorageType ==
  ASSUME TypeOK, NEW pos \in Nat
  PROVE  /\ Storage(pos) \in Seq(Row \cup {Zero}) /\ Len(Storage(pos)) = MaxSeqLen
         /\ Allocated(pos) \in Seq(Row \cup {Zero}) /\ Len(Allocated(pos)) = MaxSeqLen
         /\ \A i \in 1 .. MaxSeqLen : i <= pos /\ i <= Len(kvs) => Storage(pos)[i] = kvs[i]
<1>1. Allocated(pos) \in Seq(Row \cup {Zero}) /\ Len(Allocated(pos)) = MaxSeqLen
  BY SizeAssumption DEF Allocated, TypeOK
<1>2. CASE NeedsAlloc
  BY <1>1, <1>2 DEF Storage, Allocated
<1>3. CASE ~NeedsAlloc
  BY <1>1, <1>3 DEF Storage, NeedsAlloc, TypeOK
<1> QED BY <1>2, <1>3

(* Writing a row at position pos changes that row only.                    *)
LEMMA WrittenType ==
  ASSUME TypeOK, NEW pos \in Nat, pos < MaxSeqLen, NEW row \in Row
  PROVE  /\ Written(pos, row) \in Seq(Row \cup {Zero}) /\ Len(Written(pos, row)) = MaxSeqLen
         /\ Written(pos, row)[pos + 1] = row
         /\ \A i \in 1 .. MaxSeqLen : i # pos + 1 => Written(pos, row)[i] = Storage(pos)[i]
BY StorageType, SizeAssumption DEF Written
(* None is a sequence of rows of any kind.                                 *)
LEMMA NoneType == \A S : <<>> \in Seq(S) /\ Len(<<>>) = 0
OBVIOUS

(* Before the first request nothing is claimed.                            *)
LEMMA InitInv == Init => CacheInv
<1> SUFFICES ASSUME Init
             PROVE  CacheInv
  OBVIOUS
<1>1. /\ kvs \in Seq(Row \cup {Zero}) /\ Len(kvs) = 0
      /\ linear \in Seq(Row) /\ view \in Seq(Row \cup {Zero})
  BY NoneType DEF Init
<1>2. delta \in Row \cup {Zero, <<>>}
  BY Zenon DEF Init
<1>3. req = 0 /\ seen = 0 /\ live = FALSE /\ family \in {"append", "in_place"}
  BY DEF Init
<1>4. TypeOK
  <2>1. Len(kvs) <= MaxSeqLen
    BY <1>1, SizeAssumption
  <2>2. req \in Nat /\ seen \in 0 .. MaxSeqLen
    BY <1>3, SizeAssumption
  <2>3. live \in BOOLEAN
    BY <1>3, Zenon
  <2> QED BY <1>1, <1>2, <1>3, <2>1, <2>2, <2>3, Zenon DEF TypeOK
<1> QED BY <1>3, <1>4 DEF CacheInv, EntryOK, ViewIsContext

(* The first forward pass of a request replaces whatever was there.        *)
LEMMA PrefillInv ==
  ASSUME CacheInv, NEW n \in Nat \ {0}, seen = 0, Forward(n)
  PROVE  CacheInv'
<1>1. ~InPlace(seen, n)
  BY DEF InPlace
<1>2. Tokens(0, n) = Context(n) /\ Context(n) \in Seq(Row) /\ Len(Context(n)) = n
  BY ContextGrows DEF CacheInv
<1>3. kvs' = Context(n) /\ linear' = Context(n) /\ view' = Context(n) /\ seen' = n
  <2>1. Recurrent(seen, n) = Tokens(0, n)
    BY RecurrentCases DEF CacheInv
  <2> QED BY <1>1, <1>2, <2>1 DEF Forward, Entry, Narrowed, process_kv
<1>4. Context(seen)' = Context(n)
  BY <1>3 DEF Context, Forward
<1>5. n <= MaxSeqLen
  BY DEF Forward, RopeOk
<1>6. TypeOK'
  <2>1. kvs' \in Seq(Row \cup {Zero}) /\ view' \in Seq(Row \cup {Zero})
    BY <1>2, <1>3
  <2> QED BY <1>2, <1>3, <1>5, <2>1, SizeAssumption DEF TypeOK, CacheInv, Forward
<1>7. EntryOK' /\ ViewIsContext'
  BY <1>3, <1>4 DEF EntryOK, ViewIsContext
<1> QED BY <1>6, <1>7 DEF CacheInv

(* Position and row of a decoded token.                                    *)
LEMMA DecodeRow ==
  ASSUME CacheInv, seen > 0, RopeOk(seen, 1)
  PROVE  seen \in Nat /\ seen < MaxSeqLen /\ <<req, seen>> \in Row
BY SizeAssumption DEF CacheInv, TypeOK, RopeOk, Row

(* In full storage the rows of the context stay, and the new one follows.  *)
LEMMA WrittenPrefix ==
  ASSUME CacheInv, live, seen > 0, RopeOk(seen, 1)
  PROVE  \A i \in 1 .. seen + 1 : Written(seen, <<req, seen>>)[i] = <<req, i - 1>>
<1>1. seen \in Nat /\ seen < MaxSeqLen /\ <<req, seen>> \in Row
  BY DecodeRow
<1>2. TypeOK /\ MaxSeqLen \in Nat
  BY SizeAssumption DEF CacheInv
<1>3. \A i \in 1 .. seen : i <= Len(kvs) /\ kvs[i] = <<req, i - 1>>
  <2>1. CASE kvs = Context(seen)
    <3>1. Len(kvs) = seen
      BY <1>1, <1>2, <2>1, ContextGrows
    <3> QED BY <1>1, <2>1, <3>1 DEF Context
  <2>2. CASE Len(kvs) = MaxSeqLen /\ \A i \in 1 .. seen : kvs[i] = <<req, i - 1>>
    BY <1>1, <1>2, <2>2
  <2> QED BY <2>1, <2>2 DEF CacheInv, EntryOK
<1>4. \A i \in 1 .. seen : Storage(seen)[i] = kvs[i]
  BY <1>1, <1>2, <1>3, StorageType
<1>5. /\ Written(seen, <<req, seen>>)[seen + 1] = <<req, seen>>
      /\ \A i \in 1 .. seen : Written(seen, <<req, seen>>)[i] = Storage(seen)[i]
  <2>1. /\ Written(seen, <<req, seen>>)[seen + 1] = <<req, seen>>
        /\ \A i \in 1 .. MaxSeqLen :
             i # seen + 1 => Written(seen, <<req, seen>>)[i] = Storage(seen)[i]
    BY <1>1, <1>2, WrittenType
  <2>2. \A i \in 1 .. seen : i \in 1 .. MaxSeqLen /\ i # seen + 1
    BY <1>1, <1>2
  <2> QED BY <2>1, <2>2
<1> SUFFICES ASSUME NEW i \in 1 .. seen + 1
             PROVE  Written(seen, <<req, seen>>)[i] = <<req, i - 1>>
  OBVIOUS
<1>6. CASE i = seen + 1
  BY <1>1, <1>5, <1>6
<1>7. CASE i <= seen
  <2>1. i \in 1 .. seen
    BY <1>1, <1>7
  <2> QED BY <1>3, <1>4, <1>5, <2>1
<1> QED BY <1>1, <1>6, <1>7

(* A decode on either path extends the context by its token.               *)
LEMMA DecodeInv ==
  ASSUME CacheInv, seen > 0, Forward(1)
  PROVE  CacheInv'
<1> DEFINE w == Written(seen, <<req, seen>>)
<1>1. live /\ RopeOk(seen, 1) /\ seen' = seen + 1 /\ req' = req /\ live' = live
  BY DEF Forward
<1>2. seen \in Nat /\ seen < MaxSeqLen /\ <<req, seen>> \in Row
  BY <1>1, DecodeRow
<1>3. TypeOK /\ MaxSeqLen \in Nat
  BY SizeAssumption DEF CacheInv
<1>4. /\ Context(seen) \o Tokens(seen, 1) = Context(seen + 1)
      /\ Context(seen + 1) \in Seq(Row) /\ Len(Context(seen + 1)) = seen + 1
      /\ Len(Context(seen)) = seen
  <2>1. seen + 1 \in Nat
    BY <1>2
  <2> QED BY <1>2, <1>3, <2>1, ContextGrows
<1>5. Context(seen)' = Context(seen + 1)
  BY <1>1 DEF Context
<1>6. linear' = Context(seen + 1)
  <2>1. linear = Context(seen)
    BY <1>1 DEF CacheInv, EntryOK
  <2>2. linear' = linear \o Tokens(seen, 1)
    <3>1. TypeOK /\ seen \in Nat /\ seen # 0
      BY DEF CacheInv, TypeOK
    <3>2. Recurrent(seen, 1) = linear \o Tokens(seen, 1)
      BY <3>1, RecurrentCases
    <3> QED BY <1>2, <3>2 DEF Forward
  <2> QED BY <1>4, <2>1, <2>2
<1>7. CASE InPlace(seen, 1)
  <2>1. w \in Seq(Row \cup {Zero}) /\ Len(w) = MaxSeqLen
    BY <1>2, <1>3, WrittenType
  <2>2. \A i \in 1 .. seen + 1 : w[i] = <<req, i - 1>>
    BY <1>1, WrittenPrefix
  <2>3. kvs' = w /\ view' = SubSeq(w, 1, seen + 1)
    BY <1>7 DEF Forward, Entry, Narrowed
  <2>4. SubSeq(w, 1, seen + 1) = Context(seen + 1)
    <3> HIDE DEF w
    <3>1. /\ SubSeq(w, 1, seen + 1) \in Seq(Row \cup {Zero})
          /\ Len(SubSeq(w, 1, seen + 1)) = seen + 1
          /\ \A i \in 1 .. seen + 1 : SubSeq(w, 1, seen + 1)[i] = w[i]
      BY <1>2, <1>3, <2>1
    <3>2. Context(seen + 1) \in Seq(Row \cup {Zero})
      BY <1>4
    <3>3. \A i \in 1 .. seen + 1 : SubSeq(w, 1, seen + 1)[i] = Context(seen + 1)[i]
      BY <2>2, <3>1 DEF Context
    <3> QED BY <1>4, <3>1, <3>2, <3>3, SeqEqual
  <2>5. view' = Context(seen + 1)
    BY <2>3, <2>4
  <2>6. TypeOK'
    <3>1. view' \in Seq(Row \cup {Zero})
      BY <1>4, <2>5
    <3>2. kvs' \in Seq(Row \cup {Zero}) /\ Len(kvs') <= MaxSeqLen
      BY <1>3, <2>1, <2>3
    <3> QED BY <1>1, <1>2, <1>3, <1>4, <1>6, <3>1, <3>2 DEF TypeOK, Forward
  <2>7. EntryOK'
    <3>1. family' = "in_place"
      BY <1>7 DEF InPlace, Forward
    <3>2. Len(kvs') = MaxSeqLen /\ \A i \in 1 .. seen' : kvs'[i] = <<req', i - 1>>
      BY <1>1, <2>1, <2>2, <2>3
    <3> QED BY <1>5, <1>6, <3>1, <3>2 DEF EntryOK
  <2> QED BY <1>5, <2>5, <2>6, <2>7 DEF CacheInv, ViewIsContext
<1>8. CASE ~InPlace(seen, 1)
  <2>1. family # "in_place"
    BY <1>2, <1>8 DEF InPlace
  <2>2. kvs = Context(seen)
    BY <1>1, <2>1 DEF CacheInv, EntryOK
  <2>3. kvs # <<>>
    BY <1>2, <1>4, <2>2
  <2>4. process_kv(seen, Tokens(seen, 1)) = Context(seen + 1)
    <3>1. process_kv(seen, Tokens(seen, 1)) = KeepLast(kvs \o Tokens(seen, 1), MaxSeqLen)
      BY <1>2, <2>3 DEF process_kv
    <3>2. kvs \o Tokens(seen, 1) = Context(seen + 1)
      BY <1>4, <2>2
    <3>3. ~(Len(Context(seen + 1)) > MaxSeqLen)
      BY <1>2, <1>3, <1>4
    <3>4. KeepLast(Context(seen + 1), MaxSeqLen) = Context(seen + 1)
      BY <3>3 DEF KeepLast
    <3> QED BY <3>1, <3>2, <3>4
  <2>5. kvs' = Context(seen + 1) /\ view' = Context(seen + 1)
    BY <1>8, <2>4 DEF Forward, Entry, Narrowed
  <2>6. TypeOK'
    <3>1. kvs' \in Seq(Row \cup {Zero}) /\ view' \in Seq(Row \cup {Zero})
      BY <1>4, <2>5
    <3>2. Len(kvs') <= MaxSeqLen
      BY <1>2, <1>3, <1>4, <2>5
    <3> QED BY <1>1, <1>2, <1>3, <1>4, <1>6, <3>1, <3>2 DEF TypeOK, Forward
  <2> QED BY <1>5, <1>6, <2>5, <2>6 DEF CacheInv, EntryOK, ViewIsContext
<1> QED BY <1>7, <1>8

(* A pass that fails ends the request: only the types are left to show.    *)
LEMMA FailureInv ==
  ASSUME CacheInv, NEW n \in Nat \ {0}, ForwardFails(n)
  PROVE  CacheInv'
<1>1. TypeOK /\ MaxSeqLen \in Nat /\ seen \in Nat
  BY SizeAssumption DEF CacheInv, TypeOK
<1>2. Tokens(seen, n) \in Seq(Row) /\ Len(Tokens(seen, n)) = n
  BY <1>1, TokensType
<1>3. linear' \in Seq(Row)
  <2>1. linear \in Seq(Row)
    BY <1>1 DEF TypeOK
  <2>2. linear \o Tokens(seen, n) \in Seq(Row)
    BY <1>2, <2>1, ConcatProperties
  <2> QED BY <1>1, <1>2, <2>1, <2>2, RecurrentCases DEF ForwardFails
<1>4. kvs' \in Seq(Row \cup {Zero}) /\ Len(kvs') <= MaxSeqLen
  <2>1. CASE kvs' = kvs \/ kvs' = <<>> \/ kvs' = Allocated(seen)
    <3>1. CASE kvs' = <<>>
      BY <1>1, <3>1, NoneType
    <3>2. CASE kvs' # <<>>
      BY <1>1, <2>1, <3>2, StorageType DEF TypeOK
    <3> QED BY <3>1, <3>2
  <2>2. CASE RopeOk(seen, n) /\ kvs' = Entry(seen, n) /\ InPlace(seen, n)
    <3>1. seen < MaxSeqLen /\ <<req, seen>> \in Row
      BY <1>1, <2>2 DEF RopeOk, TypeOK, Row
    <3> QED BY <1>1, <2>2, <3>1, WrittenType DEF Entry
  <2>3. CASE RopeOk(seen, n) /\ kvs' = Entry(seen, n) /\ ~InPlace(seen, n)
    <3> DEFINE t == Tokens(seen, n)
               a == kvs \o t
    <3>1. kvs' = t \/ kvs' = KeepLast(a, MaxSeqLen)
      BY <2>3 DEF Entry, process_kv
    <3>2. t \in Seq(Row \cup {Zero}) /\ Len(t) <= MaxSeqLen
      BY <1>1, <1>2, <2>3 DEF RopeOk
    <3>3. a \in Seq(Row \cup {Zero})
      BY <1>1, <3>2, ConcatProperties DEF TypeOK
    <3> HIDE DEF t, a
    <3>4. KeepLast(a, MaxSeqLen) \in Seq(Row \cup {Zero})
          /\ Len(KeepLast(a, MaxSeqLen)) <= MaxSeqLen
      BY <1>1, <3>3 DEF KeepLast
    <3> QED BY <3>1, <3>2, <3>4
  <2> QED BY <2>1, <2>2, <2>3 DEF ForwardFails, AfterFailure
<1>5. TypeOK'
  BY <1>1, <1>3, <1>4 DEF ForwardFails, TypeOK
<1>6. EntryOK' /\ ViewIsContext'
  BY DEF ForwardFails, EntryOK, ViewIsContext
<1> QED BY <1>5, <1>6 DEF CacheInv

(* Between requests nothing is claimed, whatever rows are left over.       *)
LEMMA NewRequestInv ==
  ASSUME CacheInv, NewRequest
  PROVE  CacheInv'
<1>1. TypeOK'
  <2>1. TypeOK
    BY DEF CacheInv
  <2>2. kvs' \in Seq(Row \cup {Zero}) /\ Len(kvs') <= MaxSeqLen /\ linear' \in Seq(Row)
    <3>1. CASE kvs' = <<>> /\ linear' = <<>>
      BY <3>1, NoneType, SizeAssumption
    <3>2. CASE UNCHANGED <<kvs, linear>>
      BY <2>1, <3>2 DEF TypeOK
    <3> QED BY <3>1, <3>2 DEF NewRequest
  <2>3. delta' \in Row \cup {Zero, <<>>}
    BY Zenon DEF NewRequest
  <2>4. req' \in Nat /\ seen' = 0 /\ live' = TRUE /\ family' = family /\ view' = view
    BY <2>1 DEF NewRequest, TypeOK
  <2> QED BY <2>1, <2>2, <2>3, <2>4, SizeAssumption DEF TypeOK
<1>2. EntryOK' /\ ViewIsContext'
  BY DEF NewRequest, EntryOK, ViewIsContext
<1> QED BY <1>1, <1>2 DEF CacheInv

(* Validation writes at most the row the next decode will write.           *)
LEMMA ReferenceInv ==
  ASSUME CacheInv, ReferenceDecode
  PROVE  CacheInv'
<1> DEFINE w == Written(seen, <<req, seen>>)
<1>1. live /\ seen > 0 /\ RopeOk(seen, 1) /\ family = "in_place"
  BY DEF ReferenceDecode
<1>2. seen \in Nat /\ seen < MaxSeqLen /\ <<req, seen>> \in Row
  BY <1>1, DecodeRow
<1>3. w \in Seq(Row \cup {Zero}) /\ Len(w) = MaxSeqLen
  BY <1>2, WrittenType DEF CacheInv
<1>4. \A i \in 1 .. seen : w[i] = <<req, i - 1>>
  BY <1>1, <1>2, WrittenPrefix
<1>5. UNCHANGED <<family, linear, req, seen, live, view>> /\ kvs' \in {kvs, w}
  BY DEF ReferenceDecode
<1>6. delta' = w[MaxSeqLen]
  BY DEF ReferenceDecode
<1> HIDE DEF w
<1>7. TypeOK'
  <2>1. w[MaxSeqLen] \in Row \cup {Zero}
    BY <1>3, SizeAssumption
  <2> QED BY <1>3, <1>5, <1>6, <2>1, SizeAssumption DEF CacheInv, TypeOK
<1>8. Context(seen)' = Context(seen)
  BY <1>5 DEF Context
<1>9. EntryOK'
  <2>1. CASE kvs' = kvs
    BY <1>5, <1>8, <2>1 DEF CacheInv, EntryOK
  <2>2. CASE kvs' = w
    <3>1. linear' = Context(seen)'
      BY <1>1, <1>5, <1>8 DEF CacheInv, EntryOK
    <3>2. Len(kvs') = MaxSeqLen /\ \A i \in 1 .. seen' : kvs'[i] = <<req', i - 1>>
      BY <1>3, <1>4, <1>5, <2>2
    <3> QED BY <1>1, <1>5, <3>1, <3>2 DEF EntryOK
  <2> QED BY <1>5, <2>1, <2>2
<1>10. ViewIsContext'
  BY <1>5, <1>8 DEF CacheInv, ViewIsContext
<1> QED BY <1>7, <1>9, <1>10 DEF CacheInv

(* Every step keeps the invariant.                                         *)
LEMMA StepInv == CacheInv /\ [Next]_vars => CacheInv'
<1> SUFFICES ASSUME CacheInv, [Next]_vars
             PROVE  CacheInv'
  OBVIOUS
<1>1. ASSUME NEW n \in 1 .. MaxSeqLen + 1, Forward(n)
      PROVE  CacheInv'
  <2>1. n \in Nat \ {0}
    BY SizeAssumption
  <2>2. CASE seen = 0
    BY <1>1, <2>1, <2>2, PrefillInv
  <2>3. CASE seen # 0
    <3>1. seen > 0 /\ n = 1
      BY <1>1, <2>3, SizeAssumption DEF Forward, CacheInv, TypeOK
    <3> QED BY <1>1, <3>1, DecodeInv
  <2> QED BY <2>2, <2>3
<1>2. ASSUME NEW n \in 1 .. MaxSeqLen + 1, ForwardFails(n)
      PROVE  CacheInv'
  <2>1. n \in Nat \ {0}
    BY SizeAssumption
  <2> QED BY <1>2, <2>1, FailureInv
<1>3. CASE NewRequest
  BY <1>3, NewRequestInv
<1>4. CASE ReferenceDecode
  BY <1>4, ReferenceInv
<1>5. CASE UNCHANGED vars
  <2>1. Context(seen)' = Context(seen)
    BY <1>5 DEF vars, Context
  <2> QED BY <1>5, <2>1 DEF CacheInv, TypeOK, EntryOK, ViewIsContext, vars
<1> QED BY <1>1, <1>2, <1>3, <1>4, <1>5 DEF Next

(* Every reachable cache entry is exact, or full storage with an exact     *)
(* prefix (process_kv, process_kv_decode_in_place).                        *)
THEOREM CacheCorrect == Spec => []CacheInv
BY InitInv, StepInv, PTL DEF Spec

(* No entry, on either path and after any failure, outgrows max_seq_len    *)
(* rows (process_kv, process_kv_decode_in_place).                          *)
THEOREM TypesKept == Spec => []TypeOK
<1>1. CacheInv => TypeOK
  BY DEF CacheInv
<1> QED BY <1>1, CacheCorrect, PTL

(* The part of the invariant about entries, for the states TLC checks.     *)
THEOREM EntriesExact == Spec => []EntryOK
<1>1. CacheInv => EntryOK
  BY DEF CacheInv
<1> QED BY <1>1, CacheCorrect, PTL

(* Attention sees exactly the context of the request, on both paths.       *)
THEOREM ViewsExact == Spec => []ViewIsContext
<1>1. CacheInv => ViewIsContext
  BY DEF CacheInv
<1> QED BY <1>1, CacheCorrect, PTL

(* Linear and full-attention layers never drift apart.                     *)
THEOREM LayersAlwaysAgree == Spec => []LayersAgree
<1>1. CacheInv => LayersAgree
  BY DEF CacheInv, EntryOK, ViewIsContext, LayersAgree
<1> QED BY <1>1, CacheCorrect, PTL
=============================================================================
