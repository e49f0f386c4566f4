------------------------- MODULE DialSession_proofs -------------------------
(***************************************************************************)
(* Type correctness of DialSession, then SessionInv as an inductive        *)
(* invariant of it, for every value of its constants, its consequences,    *)
(* and that the distributed session implements the single machine.         *)
(***************************************************************************)
EXTENDS SessionRefinement, SequenceTheorems, TLAPS

----------------------------------------------------------------------------
(* Typing of the data operators.                                           *)

(* Rows of a hidden state form a sequence of cache rows.                   *)
LEMMA RowsType ==
  ASSUME NEW b \in Block, NEW pos \in Nat, NEW x \in Hidden
  PROVE  Rows(b, pos, x) \in Seq(Row) /\ Len(Rows(b, pos, x)) = x.len
<1> USE LocalAssumption, ShapeAssumption, PlacementAssumption DEF Block
<1>1. \A i \in 1 .. x.len :
        <<x.own, x.req, IF Fits(b, pos, x) THEN x.from + i - 1 ELSE Garbled>> \in Row
  BY SMTT(30) DEF Row, Hidden, Garbled
<1>2. x.len \in Nat
  BY DEF Hidden
<1> QED BY <1>1, <1>2 DEF Rows

(* process_kv turns a cache entry into a cache entry.                      *)
LEMMA ProcessKvType ==
  ASSUME NEW kv \in Seq(Row), NEW b \in Block, NEW pos \in Nat, NEW x \in Hidden
  PROVE  process_kv(kv, b, pos, x) \in Seq(Row)
<1> USE LocalAssumption, ShapeAssumption, PlacementAssumption DEF Block
<1> DEFINE all == kv \o Rows(b, pos, x)
<1>1. Rows(b, pos, x) \in Seq(Row)
  BY RowsType
<1>2. all \in Seq(Row)
  BY <1>1
<1>3. SubSeq(all, Len(all) - MaxSeqLen + 1, Len(all)) \in Seq(Row)
      \/ ~(Len(all) > MaxSeqLen)
  BY <1>2
<1> QED BY <1>1, <1>2, <1>3 DEF process_kv, KeepLast

(* A block maps hidden states to hidden states.                            *)
LEMMA AttendType ==
  ASSUME NEW rows, NEW b \in Block, NEW pos \in Nat, NEW x \in Hidden
  PROVE  Attend(rows, b, pos, x) \in Hidden
<1> USE LocalAssumption, ShapeAssumption, PlacementAssumption DEF Block
<1> DEFINE v == IF Fits(b, pos, x) /\ rows = Context(x.own, x.req, x.from + x.len)
                THEN "clean" ELSE "stale"
<1>1. v \in {"clean", "stale"} /\ b + 1 \in 0 .. NumBlocks
  OBVIOUS
<1> HIDE DEF v
<1>2. [x EXCEPT !.depth = b + 1, !.value = v] \in Hidden
  BY <1>1 DEF Hidden
<1> QED BY <1>2 DEF Attend, v

(* The value of a single machine is a hidden state.                        *)
LEMMA CleanType ==
  ASSUME NEW m \in Master, NEW r \in Nat, NEW from \in Nat, NEW len \in Nat,
         NEW d \in 0 .. NumBlocks
  PROVE  Clean(m, r, from, len, d) \in Hidden
BY ShapeAssumption DEF Clean, Hidden, Block

----------------------------------------------------------------------------
(* Types of messages.                                                      *)
LEMMA MessageTypes ==
  /\ Hello \in Message /\ WorkerInfo \in Message /\ Error \in Message
  /\ \A x \in Hidden : Tensor(x) \in Message
  /\ \A x \in Hidden, pos \in Nat, first, last \in Block :
       Batch(x, pos, first, last) \in Message
  /\ \A msg \in Message : msg.kind = "Tensor" => msg.x \in Hidden
  /\ \A msg \in Message : msg.kind = "Batch" =>
       msg.x \in Hidden /\ msg.index_pos \in Nat /\ msg.first \in Block /\ msg.last \in Block
BY ShapeAssumption DEF Message, Hello, WorkerInfo, Error, Tensor, Batch, Block

(* A cleared cache is a cache.                                             *)
LEMMA EmptyKVType == EmptyKV \in KV
BY ShapeAssumption DEF EmptyKV, KV, Block

(* The initial values have their types.                                    *)
LEMMA TypeInit == Init => TypeOK
<1> USE LocalAssumption, ShapeAssumption, PlacementAssumption DEF Block
<1> SUFFICES ASSUME Init PROVE TypeOK
  OBVIOUS
<1>1. \A m \in Master : Clean(m, 0, 0, 0, 0) \in Hidden
  BY DEF Clean, Hidden
<1>2. job \in [Master -> [Addr -> Job]]
  BY <1>1 DEF Init, Job
<1>3. \A S : <<>> \in Seq(S)
  OBVIOUS
<1> QED BY <1>1, <1>2, <1>3, EmptyKVType DEF Init, TypeOK

(* Updating one entry of a function of naturals.                           *)
LEMMA CounterUpdate ==
  ASSUME NEW f \in [Master -> Nat], NEW g, NEW m \in Master, NEW n \in Nat,
         g = [f EXCEPT ![m] = @ + n] \/ g = f
  PROVE  g \in [Master -> Nat]
<1> USE LocalAssumption, ShapeAssumption, PlacementAssumption DEF Block
<1>1. f[m] + n \in Nat
  OBVIOUS
<1>2. [f EXCEPT ![m] = f[m] + n] \in [Master -> Nat]
  BY <1>1
<1> QED BY <1>2

(* Steps of a master that leave the connections alone.                     *)
LEMMA TypeMaster ==
  ASSUME TypeOK, NEW m \in Master,
         Start(m) \/ BeginChat(m) \/ LoadBlock(m) \/ Loaded(m) \/ NextToken(m)
           \/ PromptFails(m) \/ SampleLimit(m) \/ LocalBlock(m) \/ Sample(m) \/ MasterCrash(m)
  PROVE  TypeOK'
<1> USE LocalAssumption, ShapeAssumption, PlacementAssumption DEF Block
<1> USE DEF gvars, wvars
<1>1. CASE Start(m)
  BY <1>1 DEF TypeOK, Start
<1>2. CASE BeginChat(m)
  BY <1>2, EmptyKVType, SMTT(30) DEF TypeOK, BeginChat
<1>3. CASE LoadBlock(m)
  BY <1>3, SMTT(30) DEF TypeOK, LoadBlock
<1>4. CASE Loaded(m)
  BY <1>4 DEF TypeOK, Loaded
<1>5. CASE NextToken(m)
  <2>1. /\ ntok' \in [Master -> Nat] /\ index_pos' \in [Master -> Nat]
        /\ lkv' \in [Master -> KV]
    <3>1. StartDialog(m)
      BY <1>5 DEF NextToken
    <3>2. CASE generated[m] = 0
      <4>1. PICK n \in Nat : ntok' = [ntok EXCEPT ![m] = n]
        BY <3>1, <3>2 DEF StartDialog
      <4>2. lkv' = [lkv EXCEPT ![m] = EmptyKV] /\ index_pos' = [index_pos EXCEPT ![m] = 0]
        BY <3>1, <3>2 DEF StartDialog
      <4> QED BY <4>1, <4>2, EmptyKVType DEF TypeOK
    <3>3. CASE generated[m] # 0
      BY <3>1, <3>3 DEF TypeOK, StartDialog
    <3> QED BY <3>2, <3>3
  <2> DEFINE offset == ContextOffset(m, ntok'[m])
  <2>2. offset \in Nat /\ ntok'[m] - offset \in Nat
    BY <2>1 DEF ContextOffset
  <2>3. Clean(m, req[m], offset, ntok'[m] - offset, 0) \in Hidden
    BY <2>2, CleanType DEF TypeOK
  <2>4. hid' \in [Master -> Hidden]
    BY <1>5, <2>3 DEF TypeOK, NextToken
  <2> QED BY <1>5, <2>1, <2>4, SMTT(30) DEF TypeOK, NextToken
<1>6. CASE SampleLimit(m)
  BY <1>6 DEF TypeOK, SampleLimit
<1>7. CASE LocalBlock(m)
  <2> DEFINE b    == blk[m]
             pos  == ContextIndex(m)
             rows == process_kv(lkv[m][b], b, pos, hid[m])
  <2>1. /\ b \in Block /\ pos \in Nat /\ hid[m] \in Hidden
        /\ lkv[m][b] \in Seq(Row)
    BY <1>7 DEF TypeOK, LocalBlock, KV, ContextIndex
  <2>2. rows \in Seq(Row) /\ Attend(rows, b, pos, hid[m]) \in Hidden
    BY <2>1, ProcessKvType, AttendType
  <2>3. \A kv \in RowsAfterFailure(lkv[m][b], b, pos, hid[m]) : kv \in Seq(Row)
    BY <2>1, <2>2 DEF RowsAfterFailure
  <2> HIDE DEF rows, pos
  <2>4. \A kv \in Seq(Row) : [lkv EXCEPT ![m][b] = kv] \in [Master -> KV]
    BY <2>1 DEF TypeOK, KV
  <2>5. lkv' \in [Master -> KV] /\ hid' \in [Master -> Hidden]
        /\ blk' \in [Master -> 0 .. NumBlocks]
    <3>1. CASE /\ lkv' = [lkv EXCEPT ![m][b] = rows]
               /\ hid' = [hid EXCEPT ![m] = Attend(rows, b, pos, @)]
               /\ blk' = [blk EXCEPT ![m] = b + 1]
      <4>1. lkv' \in [Master -> KV]
        BY <3>1, <2>2, <2>4
      <4>2. hid' \in [Master -> Hidden]
        BY <3>1, <2>2 DEF TypeOK
      <4>3. blk' \in [Master -> 0 .. NumBlocks]
        BY <3>1, <2>1, SMTT(30) DEF TypeOK
      <4> QED BY <4>1, <4>2, <4>3
    <3>2. CASE /\ \E kv \in RowsAfterFailure(lkv[m][b], b, pos, hid[m]) :
                    lkv' = [lkv EXCEPT ![m][b] = kv]
               /\ UNCHANGED <<hid, blk>>
      <4>1. PICK kv \in Seq(Row) : lkv' = [lkv EXCEPT ![m][b] = kv]
        BY <3>2, <2>3
      <4> QED BY <3>2, <4>1, <2>4 DEF TypeOK
    <3> QED BY <1>7, <3>1, <3>2 DEF LocalBlock, rows, pos
  <2> QED BY <1>7, <2>5 DEF TypeOK, LocalBlock
<1>8. CASE Sample(m)
  <2>1. hid[m].len \in Nat
    BY DEF TypeOK, Hidden
  <2>2. index_pos' \in [Master -> Nat]
    <3>1. index_pos' = [index_pos EXCEPT ![m] = @ + hid[m].len] \/ index_pos' = index_pos
      BY <1>8 DEF Sample
    <3> QED BY <3>1, <2>1, CounterUpdate DEF TypeOK
  <2>3. /\ ntok' \in [Master -> Nat] /\ generated' \in [Master -> Nat]
        /\ index' \in [Master -> Nat]
    <3>1. /\ ntok' = [ntok EXCEPT ![m] = @ + 1] \/ ntok' = ntok
          /\ generated' = [generated EXCEPT ![m] = @ + 1] \/ generated' = generated
          /\ index' = [index EXCEPT ![m] = @ + 1] \/ index' = index
      BY <1>8 DEF Sample
    <3> QED BY <3>1, CounterUpdate DEF TypeOK
  <2> QED BY <1>8, <2>2, <2>3 DEF TypeOK, Sample
<1>9. CASE MasterCrash(m)
  BY <1>9 DEF TypeOK, MasterCrash
<1>10. CASE PromptFails(m)
  BY <1>10, EmptyKVType DEF TypeOK, PromptFails
<1> QED BY <1>1, <1>2, <1>3, <1>4, <1>5, <1>6, <1>7, <1>8, <1>9, <1>10

(* Reading the first message of one queue.                                 *)
LEMMA TailUpdate ==
  ASSUME NEW q \in [Master -> [Addr -> Seq(Message)]], NEW m \in Master, NEW a \in Addr,
         q[m][a] # <<>>
  PROVE  [q EXCEPT ![m][a] = Tail(@)] \in [Master -> [Addr -> Seq(Message)]]
<1> USE LocalAssumption, ShapeAssumption, PlacementAssumption DEF Block
<1>1. Tail(q[m][a]) \in Seq(Message)
  OBVIOUS
<1> QED BY <1>1

(* Steps of a master on one of its connections.                            *)
LEMMA TypeLink ==
  ASSUME TypeOK, NEW m \in Master, NEW a \in Addr, LinkStep(m, a)
  PROVE  TypeOK'
<1> USE LocalAssumption, ShapeAssumption, PlacementAssumption DEF Block
<1> USE DEF gvars, wvars
<1>1. CASE Connect(m, a)
  BY <1>1, MessageTypes, SMTT(30) DEF TypeOK, Connect
<1>2. CASE ConnectRefused(m, a)
  BY <1>2 DEF TypeOK, ConnectRefused
<1>3. CASE Greeted(m, a)
  <2>1. toMaster' \in [Master -> [Addr -> Seq(Message)]]
    BY <1>3, TailUpdate DEF TypeOK, Greeted
  <2>2. blk' \in [Master -> 0 .. NumBlocks]
    BY <1>3, ShapeAssumption, SMTT(30) DEF TypeOK, Greeted
  <2>3. mpc' = [mpc EXCEPT ![m] = "loading"]
    BY <1>3 DEF Greeted
  <2> QED BY <1>3, <2>1, <2>2, <2>3 DEF TypeOK, Greeted
<1>4. CASE GreetingLost(m, a)
  BY <1>4 DEF TypeOK, GreetingLost
<1>5. CASE SendBatch(m, a)
  <2>1. ContextIndex(m) \in Nat
    BY DEF TypeOK, ContextIndex
  <2>2. \A last \in Block : Batch(hid[m], ContextIndex(m), blk[m], last) \in Message
    BY <1>5, <2>1, MessageTypes DEF TypeOK, SendBatch
  <2>3. PICK last \in Block :
          /\ toWorker' = [toWorker EXCEPT ![m][a] =
                            Append(@, Batch(hid[m], ContextIndex(m), blk[m], last))]
          /\ blk' = [blk EXCEPT ![m] = last + 1]
    BY <1>5 DEF SendBatch
  <2>4. toWorker' \in [Master -> [Addr -> Seq(Message)]]
    BY <2>2, <2>3 DEF TypeOK
  <2>5. blk' \in [Master -> 0 .. NumBlocks]
    BY <2>3 DEF TypeOK
  <2> QED BY <1>5, <2>4, <2>5 DEF TypeOK, SendBatch
<1>6. CASE SendFails(m, a)
  BY <1>6 DEF TypeOK, SendFails
<1>7. CASE ReceiveTensor(m, a)
  <2>1. Head(toMaster[m][a]).x \in Hidden
    <3>1. toMaster[m][a] \in Seq(Message) /\ toMaster[m][a] # <<>>
      BY <1>7 DEF TypeOK, ReceiveTensor
    <3>2. Head(toMaster[m][a]) \in Message
      BY <3>1
    <3> QED BY <1>7, <3>2, MessageTypes DEF ReceiveTensor
  <2>2. toMaster' \in [Master -> [Addr -> Seq(Message)]]
    BY <1>7, TailUpdate DEF TypeOK, ReceiveTensor
  <2> QED BY <1>7, <2>1, <2>2 DEF TypeOK, ReceiveTensor
<1>8. CASE ReceiveError(m, a)
  <2>1. toMaster' \in [Master -> [Addr -> Seq(Message)]]
    BY <1>8, TailUpdate DEF TypeOK, ReceiveError
  <2> QED BY <1>8, <2>1 DEF TypeOK, ReceiveError
<1>9. CASE ReceiveEof(m, a)
  BY <1>9 DEF TypeOK, ReceiveEof
<1> QED BY <1>1, <1>2, <1>3, <1>4, <1>5, <1>6, <1>7, <1>8, <1>9 DEF LinkStep

(* Steps of a connection handler.                                          *)
LEMMA TypeHandler ==
  ASSUME TypeOK, NEW m \in Master, NEW a \in Addr, HandlerStep(m, a)
  PROVE  TypeOK'
<1> USE LocalAssumption, ShapeAssumption, PlacementAssumption DEF Block
<1> USE DEF gvars, mvars
<1>1. CASE HandleHello(m, a)
  BY <1>1, MessageTypes, SMTT(30) DEF TypeOK, HandleHello, Reply
<1>0. CASE HelloFails(m, a)
  BY <1>0, EmptyKVType, SMTT(30) DEF TypeOK, HelloFails, Closed
<1>2. CASE ReceiveBatch(m, a)
  <2> DEFINE msg == Head(toWorker[m][a])
  <2>1. msg \in Message /\ msg.kind = "Batch"
    BY <1>2 DEF TypeOK, ReceiveBatch
  <2>2. [x |-> msg.x, index_pos |-> msg.index_pos, next |-> msg.first, last |-> msg.last] \in Job
    BY <2>1, MessageTypes DEF Job
  <2> QED BY <1>2, <2>2, SMTT(30) DEF TypeOK, ReceiveBatch
<1>3. CASE RejectBatch(m, a)
  BY <1>3, EmptyKVType, SMTT(30) DEF TypeOK, RejectBatch, Closed
<1>4. CASE ExecBlock(m, a)
  <2> DEFINE b    == job[m][a].next
             x    == job[m][a].x
             pos  == job[m][a].index_pos
             rows == process_kv(wkv[m][a][b], b, pos, x)
  <2>1. /\ job[m][a] \in Job /\ b \in Block /\ x \in Hidden /\ pos \in Nat
        /\ wkv[m][a] \in KV /\ wkv[m][a][b] \in Seq(Row)
    <3>1. job[m][a] \in Job /\ wkv[m][a] \in KV
      BY DEF TypeOK
    <3>2. b \in Block
      BY <1>4, <3>1 DEF ExecBlock, Job
    <3> QED BY <3>1, <3>2 DEF Job, KV
  <2>2. rows \in Seq(Row) /\ Attend(rows, b, pos, x) \in Hidden
    BY <2>1, ProcessKvType, AttendType
  <2>3. wkv' = [wkv EXCEPT ![m][a][b] = rows]
    BY <1>4 DEF ExecBlock, CacheWith
  <2>4. job' = [job EXCEPT ![m][a].x = Attend(rows, b, pos, x), ![m][a].next = b + 1]
    BY <1>4 DEF ExecBlock
  <2> HIDE DEF rows
  <2>5. wkv' \in [Master -> [Addr -> KV]]
    BY <2>1, <2>2, <2>3 DEF TypeOK, KV
  <2>6. job' \in [Master -> [Addr -> Job]]
    <3>1. b + 1 \in 0 .. NumBlocks
      BY <2>1
    <3>2. \A y \in Hidden, n \in 0 .. NumBlocks :
            [job[m][a] EXCEPT !.x = y, !.next = n] \in Job
      BY <2>1 DEF Job
    <3>3. job' = [job EXCEPT ![m][a] = [@ EXCEPT !.x = Attend(rows, b, pos, x), !.next = b + 1]]
      BY <2>4 DEF TypeOK
    <3> QED BY <2>2, <3>1, <3>2, <3>3 DEF TypeOK
  <2> QED BY <1>4, <2>5, <2>6 DEF TypeOK, ExecBlock
<1>5. CASE ExecFails(m, a)
  <2> DEFINE b    == job[m][a].next
             x    == job[m][a].x
             pos  == job[m][a].index_pos
  <2>1. /\ b \in Block /\ x \in Hidden /\ pos \in Nat
        /\ wkv[m][a] \in KV /\ wkv[m][a][b] \in Seq(Row)
    <3>1. job[m][a] \in Job /\ wkv[m][a] \in KV
      BY DEF TypeOK
    <3>2. b \in Block
      BY <1>5, <3>1 DEF ExecFails, Job
    <3> QED BY <3>1, <3>2 DEF Job, KV
  <2>2. process_kv(wkv[m][a][b], b, pos, x) \in Seq(Row)
    BY <2>1, ProcessKvType
  <2>3. PICK kv : kv \in Seq(Row) /\ wkv' = [wkv EXCEPT ![m][a][b] = kv]
    BY <1>5, <2>1, <2>2 DEF ExecFails, RowsAfterFailure, CacheWith
  <2>4. wkv' \in [Master -> [Addr -> KV]]
    BY <2>1, <2>3 DEF TypeOK, KV
  <2>5. toMaster' \in [Master -> [Addr -> Seq(Message)]]
    BY <1>5, MessageTypes DEF TypeOK, ExecFails, Reply
  <2> QED BY <1>5, <2>4, <2>5 DEF TypeOK, ExecFails
<1>6. CASE SendReply(m, a)
  <2>1. Tensor(job[m][a].x) \in Message
    BY MessageTypes DEF TypeOK, Job
  <2> QED BY <1>6, <2>1, SMTT(30) DEF TypeOK, SendReply, Reply
<1>7. CASE ReplyFails(m, a)
  BY <1>7, EmptyKVType, SMTT(30) DEF TypeOK, ReplyFails, Closed
<1>8. CASE HandlerEof(m, a)
  BY <1>8, EmptyKVType, SMTT(30) DEF TypeOK, HandlerEof, Closed
<1> QED BY <1>0, <1>1, <1>2, <1>3, <1>4, <1>5, <1>6, <1>7, <1>8 DEF HandlerStep

(* Steps of a worker process.                                              *)
LEMMA TypeWorker ==
  ASSUME TypeOK, NEW a \in Addr, WorkerCrash(a) \/ WorkerRestart(a)
  PROVE  TypeOK'
<1> USE LocalAssumption, ShapeAssumption, PlacementAssumption DEF Block
<1> USE DEF gvars, mvars
<1>1. CASE WorkerCrash(a)
  BY <1>1, EmptyKVType, SMTT(30) DEF TypeOK, WorkerCrash
<1>2. CASE WorkerRestart(a)
  BY <1>2 DEF TypeOK, WorkerRestart
<1> QED BY <1>1, <1>2

(* Every step keeps the types.                                             *)
LEMMA TypeNext == TypeOK /\ [Next]_vars => TypeOK'
<1> USE LocalAssumption, ShapeAssumption, PlacementAssumption DEF Block
<1> SUFFICES ASSUME TypeOK, [Next]_vars PROVE TypeOK'
  OBVIOUS
<1>1. CASE Next
  BY <1>1, TypeMaster, TypeLink, TypeHandler, TypeWorker DEF Next, MasterStep
<1>2. CASE UNCHANGED vars
  BY <1>2 DEF TypeOK, vars, mvars, gvars, wvars
<1> QED BY <1>1, <1>2

(* Every variable keeps its type.                                          *)
THEOREM TypeCorrect == Spec => []TypeOK
BY TypeInit, TypeNext, PTL DEF Spec

----------------------------------------------------------------------------
(* What one block does to a cache that is exactly one step behind.         *)

(* The rows of n tokens from position p on.                                *)
NextRows(m, r, p, n) == [i \in 1 .. n |-> <<m, r, p + i - 1>>]

(* Appending the rows of the next tokens extends the context.              *)
LEMMA ContextConcat ==
  ASSUME NEW m \in Master, NEW r \in Nat, NEW p \in Nat, NEW n \in Nat
  PROVE  Context(m, r, p) \o NextRows(m, r, p, n) = Context(m, r, p + n)
<1> DEFINE e(k) == <<m, r, k>>
           s == [i \in 1 .. p |-> e(i - 1)]
           t == [i \in 1 .. n |-> e(p + i - 1)]
           u == [i \in 1 .. p + n |-> e(i - 1)]
<1>0. \A k \in Nat : e(k) \in Row
  BY DEF Row
<1> HIDE DEF e
<1>1. s \in Seq(Row) /\ Len(s) = p /\ \A i \in 1 .. p : s[i] = e(i - 1)
  BY <1>0
<1>2. t \in Seq(Row) /\ Len(t) = n /\ \A i \in 1 .. n : t[i] = e(p + i - 1)
  BY <1>0
<1>3. u \in Seq(Row) /\ Len(u) = p + n /\ \A i \in 1 .. p + n : u[i] = e(i - 1)
  BY <1>0
<1> HIDE DEF s, t, u
<1>4. /\ s \o t \in Seq(Row) /\ Len(s \o t) = p + n
      /\ \A i \in 1 .. p + n : (s \o t)[i] = IF i <= p THEN s[i] ELSE t[i - p]
  <2>1. /\ s \o t \in Seq(Row) /\ Len(s \o t) = Len(s) + Len(t)
        /\ \A i \in 1 .. Len(s) + Len(t) :
             (s \o t)[i] = IF i <= Len(s) THEN s[i] ELSE t[i - Len(s)]
    BY <1>1, <1>2, ConcatProperties
  <2> QED BY <1>1, <1>2, <2>1
<1>5. \A i \in 1 .. p + n : (s \o t)[i] = u[i]
  <2> TAKE i \in 1 .. p + n
  <2>1. CASE i <= p
    BY <2>1, <1>1, <1>3, <1>4
  <2>2. CASE ~(i <= p)
    <3>1. i - p \in 1 .. n /\ p + (i - p) - 1 = i - 1
      BY <2>2
    <3>2. (s \o t)[i] = t[i - p]
      BY <2>2, <1>4
    <3>3. t[i - p] = e(i - 1)
      BY <3>1, <1>2
    <3> QED BY <3>2, <3>3, <1>3
  <2> QED BY <2>1, <2>2
<1>6. s \o t = u
  BY <1>3, <1>4, <1>5, SeqEqual
<1> QED BY <1>6 DEF s, t, u, e, Context, NextRows

(* process_kv and the attention of one block, on an input that fits and a  *)
(* cache that holds the tokens before it.                                  *)
LEMMA BlockExact ==
  ASSUME NEW m \in Master, NEW r \in Nat, NEW pos \in Nat, NEW n \in Nat, NEW b \in Block,
         NEW kv, pos > 0 => kv = Context(m, r, pos),
         RopeOk(pos, Clean(m, r, pos, n, b))
  PROVE  LET x    == Clean(m, r, pos, n, b)
             rows == process_kv(kv, b, pos, x)
         IN  /\ rows = Context(m, r, pos + n)
             /\ Attend(rows, b, pos, x) = Clean(m, r, pos, n, b + 1)
<1> DEFINE x    == Clean(m, r, pos, n, b)
           new  == NextRows(m, r, pos, n)
           rows == process_kv(kv, b, pos, x)
<1>1. /\ x.own = m /\ x.req = r /\ x.from = pos /\ x.len = n /\ Fits(b, pos, x)
  BY DEF Clean, Fits
<1>a. [x EXCEPT !.depth = b + 1, !.value = "clean"] = Clean(m, r, pos, n, b + 1)
  <2>1. [x EXCEPT !.depth = b + 1] = Clean(m, r, pos, n, b + 1)
    BY DEF Clean
  <2>2. [Clean(m, r, pos, n, b + 1) EXCEPT !.value = "clean"] = Clean(m, r, pos, n, b + 1)
    BY DEF Clean
  <2> QED BY <2>1, <2>2
<1>b. pos + n <= MaxSeqLen
  BY <1>1 DEF RopeOk
<1> HIDE DEF x
<1>2. Rows(b, pos, x) = new
  BY <1>1 DEF Rows, NextRows
<1>5. rows = Context(m, r, pos + n)
  <2>1. CASE pos = 0
    <3>1. rows = new
      BY <2>1, <1>2 DEF process_kv
    <3>2. new = Context(m, r, n) /\ pos + n = n
      BY <2>1 DEF Context, NextRows
    <3> QED BY <3>1, <3>2
  <2>2. CASE pos > 0
    <3>1. kv = Context(m, r, pos) /\ Len(Context(m, r, pos)) = pos
      BY <2>2 DEF Context
    <3>2. kv # <<>>
      BY <2>2, <3>1
    <3>3. kv \o new = Context(m, r, pos + n)
      <4>1. Context(m, r, pos) \o new = Context(m, r, pos + n)
        BY ContextConcat
      <4>2. kv = Context(m, r, pos)
        BY <3>1
      <4> HIDE DEF new
      <4> QED BY <4>1, <4>2
    <3>4. Len(Context(m, r, pos + n)) = pos + n
      BY DEF Context
    <3> HIDE DEF new
    <3>5. rows = KeepLast(kv \o new, MaxSeqLen)
      BY <2>2, <3>2, <1>2 DEF process_kv
    <3> QED BY <3>3, <3>4, <3>5, <1>b, ShapeAssumption DEF KeepLast
  <2> QED BY <2>1, <2>2
<1> HIDE DEF rows, new
<1>6. Attend(rows, b, pos, x) = [x EXCEPT !.depth = b + 1, !.value = "clean"]
  BY <1>1, <1>5 DEF Attend
<1> QED BY <1>5, <1>6, <1>a DEF rows, x

----------------------------------------------------------------------------
(* What a step leaves alone.                                               *)
SameCounters(m) ==
  /\ req'[m] = req[m] /\ ntok'[m] = ntok[m] /\ index'[m] = index[m]
  /\ generated'[m] = generated[m] /\ index_pos'[m] = index_pos[m]

SameMaster(m) ==
  /\ SameCounters(m)
  /\ mpc'[m] = mpc[m] /\ blk'[m] = blk[m] /\ hid'[m] = hid[m] /\ lkv'[m] = lkv[m]

SameLink(m, a) ==
  /\ hpc'[m][a] = hpc[m][a] /\ toWorker'[m][a] = toWorker[m][a]
  /\ toMaster'[m][a] = toMaster[m][a] /\ job'[m][a] = job[m][a]
  /\ wkv'[m][a] = wkv[m][a]

(* Rows stay as required while the counters and the rows of reachable      *)
(* blocks do, and no block comes back within reach.                        *)
LEMMA RowsKept ==
  ASSUME NEW m \in Master, NEW f, SameCounters(m), RowsUpTo(m, f),
         \A b \in Block : Reachable(m, b)' =>
           Reachable(m, b) /\ CachedRows(m, b)' = CachedRows(m, b)
  PROVE  RowsUpTo(m, f)'
BY DEF RowsUpTo, SameCounters

(* The expected value depends on the counters only.                        *)
LEMMA SameExpected ==
  ASSUME NEW m \in Master, SameCounters(m)
  PROVE  /\ ContextIndex(m)' = ContextIndex(m)
         /\ \A d : Expected(m, d)' = Expected(m, d)
BY DEF SameCounters, ContextIndex, Expected, Clean

(* A quiet connection that did not change is quiet.                        *)
LEMMA SameQuiet ==
  ASSUME NEW m \in Master, NEW a \in Addr, SameLink(m, a), Quiet(m, a)
  PROVE  Quiet(m, a)'
BY DEF SameLink, Quiet

(* Rows of a master none of whose variables changed.                       *)
LEMMA SameRows ==
  ASSUME NEW m \in Master, NEW f, SameMaster(m), \A a \in Addr : SameLink(m, a),
         RowsUpTo(m, f)
  PROVE  RowsUpTo(m, f)'
<1>1. SameCounters(m)
  BY DEF SameMaster
<1>2. \A b \in Block : Reachable(m, b)' =>
        Reachable(m, b) /\ CachedRows(m, b)' = CachedRows(m, b)
  BY PlacementAssumption DEF SameMaster, SameLink, Reachable, CachedRows
<1> QED BY <1>1, <1>2, RowsKept

(* A connection under way that did not change.                             *)
LEMMA SameBatch ==
  ASSUME NEW m \in Master, NEW a \in Addr, SameCounters(m), blk'[m] = blk[m],
         SameLink(m, a), \A f : RowsUpTo(m, f) => RowsUpTo(m, f)',
         BatchSent(m, a) \/ BatchRuns(m, a) \/ BatchAnswered(m, a)
  PROVE  (BatchSent(m, a) \/ BatchRuns(m, a) \/ BatchAnswered(m, a))'
<1>1. /\ ContextIndex(m)' = ContextIndex(m)
      /\ \A d : Expected(m, d)' = Expected(m, d)
  BY SameExpected
<1>2. CASE BatchSent(m, a)
  <2>1. PICK first \in Block :
          /\ first <= blk[m] - 1
          /\ \A b \in first .. blk[m] - 1 : Owner[b] = a
          /\ toWorker[m][a] =
               <<Batch(Expected(m, first), ContextIndex(m), first, blk[m] - 1)>>
          /\ RowsUpTo(m, first)
    BY <1>2 DEF BatchSent
  <2>2. toWorker'[m][a] =
          <<Batch(Expected(m, first)', ContextIndex(m)', first, blk'[m] - 1)>>
    BY <1>1, <2>1 DEF SameLink
  <2>3. BatchSent(m, a)'
    BY <1>2, <2>1, <2>2 DEF BatchSent, SameLink
  <2> QED BY <2>3
<1>3. CASE BatchRuns(m, a)
  <2>1. BatchRuns(m, a)'
    BY <1>1, <1>3 DEF BatchRuns, SameLink
  <2> QED BY <2>1
<1>4. CASE BatchAnswered(m, a)
  <2>1. BatchAnswered(m, a)'
    BY <1>1, <1>4 DEF BatchAnswered, SameLink
  <2> QED BY <2>1
<1> QED BY <1>2, <1>3, <1>4

(* Steps of other processes do not disturb a master.                       *)
LEMMA Frame ==
  ASSUME NEW m \in Master, MasterInv(m), SameMaster(m), \A a \in Addr : SameLink(m, a)
  PROVE  MasterInv(m)'
<1>1. \A f : RowsUpTo(m, f) => RowsUpTo(m, f)'
  BY SameRows
<1>2. \A a \in Addr : Quiet(m, a) => Quiet(m, a)'
  BY SameQuiet
<1>3. \A n : Connected(m, n) => Connected(m, n)'
  BY PlacementAssumption DEF Connected, SameLink
<1>4. \A a \in Addr : Greeting(m, a) => Greeting(m, a)'
  BY DEF Greeting, SameLink
<1>5. Counters(m) => Counters(m)'
  BY DEF Counters, SameMaster, SameCounters
<1>6. /\ SameCounters(m) /\ mpc'[m] = mpc[m] /\ blk'[m] = blk[m] /\ hid'[m] = hid[m]
      /\ index'[m] = index[m]
  BY DEF SameMaster, SameCounters
<1>7. Expected(m, blk[m])' = Expected(m, blk[m])
  BY <1>6, SameExpected DEF Expected
<1>8. \A a \in Addr : BatchSent(m, a) \/ BatchRuns(m, a) \/ BatchAnswered(m, a)
        => (BatchSent(m, a) \/ BatchRuns(m, a) \/ BatchAnswered(m, a))'
  BY <1>1, <1>6, SameBatch
<1> QED BY <1>1, <1>2, <1>3, <1>4, <1>5, <1>6, <1>7, <1>8 DEF MasterInv

----------------------------------------------------------------------------
(* Steps of the connection handlers.                                       *)

(* A handler works only for a master that greets it or waits for it.       *)
LEMMA HandlerBusy ==
  ASSUME NEW m \in Master, NEW a \in Addr, MasterInv(m), HandlerStep(m, a)
  PROVE  \/ mpc[m] = "crashed"
         \/ mpc[m] = "greeting" /\ a = Owner[blk[m]]
         \/ mpc[m] = "wait" /\ a = Owner[blk[m] - 1]
<1> SUFFICES ASSUME mpc[m] # "crashed", Quiet(m, a)
             PROVE  FALSE
  BY DEF MasterInv
<1>1. /\ toWorker[m][a] = <<>> /\ hpc[m][a] \in {"none", "ready", "closed"}
  BY DEF Quiet
<1> QED BY <1>1 DEF HandlerStep, HandleHello, HelloFails, ReceiveBatch, RejectBatch, ExecBlock,
           ExecFails, SendReply, ReplyFails, HandlerEof

(* All the master needs to know of a step of the handler it waits for.     *)
LEMMA WaitKept ==
  ASSUME NEW m \in Master, NEW a \in Addr, MasterInv(m), UNCHANGED mvars,
         mpc[m] = "wait", a = Owner[blk[m] - 1],
         \A c \in Addr \ {a} : SameLink(m, c), hpc'[m][a] # "none",
         (BatchSent(m, a) \/ BatchRuns(m, a) \/ BatchAnswered(m, a))'
  PROVE  MasterInv(m)'
<1>1. /\ mpc'[m] = "wait" /\ blk'[m] = blk[m] /\ SameCounters(m)
  BY DEF mvars, gvars, SameCounters
<1>2. \A c \in Addr \ {a} : Quiet(m, c)'
  BY SameQuiet DEF MasterInv
<1>3. Connected(m, NumBlocks)'
  BY PlacementAssumption DEF MasterInv, Connected, SameLink
<1>4. Counters(m)'
  BY <1>1 DEF MasterInv, Counters, SameCounters
<1>5. blk[m] > 0 /\ Owner[blk[m] - 1] \in Addr
  BY DEF MasterInv
<1> QED BY <1>1, <1>2, <1>3, <1>4, <1>5 DEF MasterInv

(* Rows while the handler that executes nothing changes its state.         *)
LEMMA HandlerRows ==
  ASSUME NEW m \in Master, NEW a \in Addr, NEW f, UNCHANGED <<mvars, wkv>>,
         \A c \in Addr \ {a} : SameLink(m, c), hpc[m][a] # "closed",
         RowsUpTo(m, f)
  PROVE  RowsUpTo(m, f)'
<1>1. SameCounters(m)
  BY DEF mvars, gvars, SameCounters
<1>2. \A b \in Block : Reachable(m, b)' =>
        Reachable(m, b) /\ CachedRows(m, b)' = CachedRows(m, b)
  BY PlacementAssumption DEF mvars, SameLink, Reachable, CachedRows
<1> QED BY <1>1, <1>2, RowsKept

(* A value that is replaced for one connection only.                       *)
OnlyAt(f, g, m, a) == \A k \in Master, c \in Addr : k # m \/ c # a => g[k][c] = f[k][c]

(* Updating one connection leaves the others alone.                        *)
LEMMA OneUpdate ==
  ASSUME NEW S, NEW f \in [Master -> [Addr -> S]], NEW m \in Master, NEW a \in Addr, NEW v
  PROVE  OnlyAt(f, [f EXCEPT ![m][a] = v], m, a)
BY DEF OnlyAt

(* The other connections of m and all of those of other masters.           *)
LEMMA HandlerFrame ==
  ASSUME TypeOK, NEW m \in Master, NEW a \in Addr, HandlerStep(m, a)
  PROVE  /\ UNCHANGED mvars
         /\ \A c \in Addr \ {a} : SameLink(m, c)
         /\ \A k \in Master \ {m}, c \in Addr : SameLink(k, c)
<1>1. UNCHANGED mvars
  BY DEF HandlerStep, HandleHello, HelloFails, ReceiveBatch, RejectBatch, ExecBlock,
         ExecFails, SendReply, ReplyFails, HandlerEof
<1>2. OnlyAt(hpc, hpc', m, a)
  <2>1. \A v : OnlyAt(hpc, [hpc EXCEPT ![m][a] = v], m, a)
    BY OneUpdate DEF TypeOK
  <2>2. hpc' = hpc \/ \E v : hpc' = [hpc EXCEPT ![m][a] = v]
    BY DEF HandlerStep, HandleHello, HelloFails, ReceiveBatch, RejectBatch, ExecBlock,
           ExecFails, SendReply, ReplyFails, HandlerEof, Closed
  <2>3. CASE hpc' = hpc
    BY <2>3 DEF OnlyAt
  <2>4. CASE \E v : hpc' = [hpc EXCEPT ![m][a] = v]
    BY <2>1, <2>4
  <2> QED BY <2>2, <2>3, <2>4
<1>3. OnlyAt(toWorker, toWorker', m, a)
  <2>1. \A v : OnlyAt(toWorker, [toWorker EXCEPT ![m][a] = v], m, a)
    BY OneUpdate DEF TypeOK
  <2>2. toWorker' = toWorker \/ \E v : toWorker' = [toWorker EXCEPT ![m][a] = v]
    BY DEF HandlerStep, HandleHello, HelloFails, ReceiveBatch, RejectBatch, ExecBlock,
           ExecFails, SendReply, ReplyFails, HandlerEof, Closed
  <2>3. CASE toWorker' = toWorker
    BY <2>3 DEF OnlyAt
  <2>4. CASE \E v : toWorker' = [toWorker EXCEPT ![m][a] = v]
    BY <2>1, <2>4
  <2> QED BY <2>2, <2>3, <2>4
<1>4. OnlyAt(toMaster, toMaster', m, a)
  <2>1. \A v : OnlyAt(toMaster, [toMaster EXCEPT ![m][a] = v], m, a)
    BY OneUpdate DEF TypeOK
  <2>2. toMaster' = toMaster \/ \E v : toMaster' = [toMaster EXCEPT ![m][a] = v]
    BY DEF HandlerStep, HandleHello, HelloFails, ReceiveBatch, RejectBatch, ExecBlock,
           ExecFails, SendReply, ReplyFails, HandlerEof, Reply
  <2>3. CASE toMaster' = toMaster
    BY <2>3 DEF OnlyAt
  <2>4. CASE \E v : toMaster' = [toMaster EXCEPT ![m][a] = v]
    BY <2>1, <2>4
  <2> QED BY <2>2, <2>3, <2>4
<1>5. OnlyAt(job, job', m, a)
  <2>1. \A v : OnlyAt(job, [job EXCEPT ![m][a] = v], m, a)
    BY OneUpdate DEF TypeOK
  <2>2. CASE ExecBlock(m, a)
    <3>1. PICK y, n : job' = [job EXCEPT ![m][a].x = y, ![m][a].next = n]
      BY <2>2 DEF ExecBlock
    <3>2. job' = [job EXCEPT ![m][a] = [@ EXCEPT !.x = y, !.next = n]]
      BY <3>1 DEF TypeOK
    <3> QED BY <2>1, <3>2
  <2>3. CASE job' = job
    BY <2>3 DEF OnlyAt
  <2>4. CASE ReceiveBatch(m, a)
    BY <2>1, <2>4 DEF ReceiveBatch
  <2> QED BY <2>2, <2>3, <2>4 DEF HandlerStep, HandleHello, HelloFails, RejectBatch,
           ExecFails, SendReply, ReplyFails, HandlerEof
<1>6. OnlyAt(wkv, wkv', m, a)
  <2>1. \A v : OnlyAt(wkv, [wkv EXCEPT ![m][a] = v], m, a)
    BY OneUpdate DEF TypeOK
  <2>2. CASE ExecBlock(m, a) \/ ExecFails(m, a)
    <3>1. PICK b, kv : wkv' = [wkv EXCEPT ![m][a][b] = kv]
      BY <2>2 DEF ExecBlock, ExecFails, CacheWith
    <3>2. wkv' = [wkv EXCEPT ![m][a] = [@ EXCEPT ![b] = kv]]
      BY <3>1 DEF TypeOK
    <3> QED BY <2>1, <3>2
  <2>3. CASE wkv' = wkv
    BY <2>3 DEF OnlyAt
  <2>4. CASE Closed(m, a)
    BY <2>1, <2>4 DEF Closed
  <2> QED BY <2>2, <2>3, <2>4 DEF HandlerStep, HandleHello, HelloFails, ReceiveBatch, RejectBatch,
           SendReply, ReplyFails, HandlerEof
<1> QED BY <1>1, <1>2, <1>3, <1>4, <1>5, <1>6 DEF OnlyAt, SameLink

----------------------------------------------------------------------------
(* The rows of block b are completed, the others stay.                     *)
LEMMA RowsAdvance ==
  ASSUME NEW m \in Master, NEW b \in Block, SameCounters(m), RowsUpTo(m, b),
         \A d \in Block : Reachable(m, d)' => Reachable(m, d),
         \A d \in Block \ {b} : CachedRows(m, d)' = CachedRows(m, d),
         CachedRows(m, b)' = Context(m, req[m], ntok[m])
  PROVE  RowsUpTo(m, b + 1)'
<1> SUFFICES ASSUME NEW d \in Block, Reachable(m, d)'
             PROVE  (IF d < b + 1 THEN CachedRows(m, d) = Context(m, req[m], ntok[m])
                     ELSE index[m] > 0 => CachedRows(m, d) = Context(m, req[m], index_pos[m]))'
  BY DEF RowsUpTo
<1>1. /\ req'[m] = req[m] /\ ntok'[m] = ntok[m] /\ index'[m] = index[m]
      /\ index_pos'[m] = index_pos[m] /\ Reachable(m, d)
  BY DEF SameCounters
<1>2. CASE d = b
  <2>1. d < b + 1
    BY <1>2, ShapeAssumption DEF Block
  <2> QED BY <1>1, <1>2, <2>1
<1>3. CASE d # b
  <2>1. d < b + 1 <=> d < b
    BY <1>3, ShapeAssumption DEF Block
  <2>2. IF d < b THEN CachedRows(m, d) = Context(m, req[m], ntok[m])
        ELSE index[m] > 0 => CachedRows(m, d) = Context(m, req[m], index_pos[m])
    BY <1>1 DEF RowsUpTo
  <2> QED BY <1>1, <1>3, <2>1, <2>2
<1> QED BY <1>2, <1>3

(* The block that is next in a step gets the input and the rows it needs.  *)
LEMMA NextBlock ==
  ASSUME TypeOK, NEW m \in Master, NEW b \in Block, Counters(m), mpc[m] # "step",
         RowsUpTo(m, b), Reachable(m, b), RopeOk(ContextIndex(m), Expected(m, b))
  PROVE  LET rows == process_kv(CachedRows(m, b), b, ContextIndex(m), Expected(m, b))
         IN  /\ rows = Context(m, req[m], ntok[m])
             /\ Attend(rows, b, ContextIndex(m), Expected(m, b)) = Expected(m, b + 1)
<1>1. /\ req[m] \in Nat /\ ContextIndex(m) \in Nat
      /\ ntok[m] - ContextIndex(m) \in Nat
      /\ ContextIndex(m) + (ntok[m] - ContextIndex(m)) = ntok[m]
      /\ ContextIndex(m) > 0 => index[m] > 0 /\ ContextIndex(m) = index_pos[m]
  BY DEF TypeOK, Counters, ContextIndex
<1>2. ~(b < b)
  BY ShapeAssumption DEF Block
<1>3. ContextIndex(m) > 0 => CachedRows(m, b) = Context(m, req[m], ContextIndex(m))
  BY <1>1, <1>2 DEF RowsUpTo
<1> QED BY <1>1, <1>3, BlockExact DEF Expected

(* While a batch is executed the rows of one more block are completed.     *)
LEMMA ExecBlockInv ==
  ASSUME TypeOK, NEW m \in Master, NEW a \in Addr, BatchRuns(m, a), Counters(m),
         mpc[m] = "wait", UNCHANGED mvars, ExecBlock(m, a)
  PROVE  BatchRuns(m, a)'
<1>1. PICK b \in Block : b = job[m][a].next
  <2>1. job[m][a] \in Job
    BY DEF TypeOK
  <2>2. job[m][a].next <= job[m][a].last
    BY DEF ExecBlock
  <2> QED BY <2>1, <2>2, ShapeAssumption DEF Job, Block
<1>2. /\ hpc[m][a] = "exec" /\ toWorker[m][a] = <<>> /\ toMaster[m][a] = <<>>
      /\ job[m][a].last = blk[m] - 1 /\ b <= job[m][a].last
      /\ \A c \in b .. blk[m] - 1 : Owner[c] = a
      /\ job[m][a].x = Expected(m, b) /\ job[m][a].index_pos = ContextIndex(m)
      /\ RowsUpTo(m, b)
  BY <1>1 DEF BatchRuns, ExecBlock
<1>3. job[m][a] \in Job /\ blk[m] \in 0 .. NumBlocks /\ wkv[m][a] \in KV /\ b < blk[m]
  BY <1>2, ShapeAssumption DEF TypeOK, Block
<1>4. Owner[b] = a /\ a # Local /\ Reachable(m, b) /\ CachedRows(m, b) = wkv[m][a][b]
  BY <1>2, <1>3, LocalAssumption, ShapeAssumption DEF Block, Reachable, CachedRows
<1> DEFINE rows == process_kv(wkv[m][a][b], b, ContextIndex(m), Expected(m, b))
<1>5. /\ RopeOk(ContextIndex(m), Expected(m, b))
      /\ wkv' = [wkv EXCEPT ![m][a][b] = rows]
      /\ job' = [job EXCEPT ![m][a].x = Attend(rows, b, ContextIndex(m), Expected(m, b)),
                            ![m][a].next = b + 1]
      /\ UNCHANGED <<hpc, toWorker, toMaster>>
  BY <1>1, <1>2 DEF ExecBlock, CacheWith
<1>6. /\ rows = Context(m, req[m], ntok[m])
      /\ Attend(rows, b, ContextIndex(m), Expected(m, b)) = Expected(m, b + 1)
  BY <1>2, <1>4, <1>5, NextBlock
<1> HIDE DEF rows
<1>7. /\ job'[m][a].x = Expected(m, b + 1) /\ job'[m][a].next = b + 1
      /\ job'[m][a].last = job[m][a].last /\ job'[m][a].index_pos = job[m][a].index_pos
  <2>1. job' = [job EXCEPT ![m][a] = [@ EXCEPT !.x = Attend(rows, b, ContextIndex(m), Expected(m, b)),
                                               !.next = b + 1]]
    BY <1>5 DEF TypeOK
  <2>2. job'[m][a] = [job[m][a] EXCEPT !.x = Expected(m, b + 1), !.next = b + 1]
    BY <1>6, <2>1 DEF TypeOK
  <2> QED BY <1>3, <2>2 DEF Job
<1>8. /\ wkv'[m][a][b] = Context(m, req[m], ntok[m])
      /\ \A c \in Addr, d \in Block : c # a \/ d # b => wkv'[m][c][d] = wkv[m][c][d]
  BY <1>3, <1>5, <1>6 DEF TypeOK, KV
<1>9. SameCounters(m) /\ blk'[m] = blk[m] /\ lkv' = lkv
  BY DEF mvars, gvars, SameCounters
<1>10. RowsUpTo(m, b + 1)'
  <2>1. \A d \in Block : Reachable(m, d)' => Reachable(m, d)
    BY <1>5 DEF Reachable
  <2>2. \A d \in Block \ {b} : CachedRows(m, d)' = CachedRows(m, d)
    BY <1>8, <1>9, PlacementAssumption DEF CachedRows
  <2>3. CachedRows(m, b)' = Context(m, req[m], ntok[m])
    BY <1>4, <1>8 DEF CachedRows
  <2> QED BY <1>2, <1>9, <2>1, <2>2, <2>3, RowsAdvance
<1>11. /\ ContextIndex(m)' = ContextIndex(m) /\ Expected(m, b + 1)' = Expected(m, b + 1)
  BY <1>9, SameExpected
<1>12. /\ b + 1 <= blk[m] /\ \A c \in b + 1 .. blk[m] - 1 : Owner[c] = a
  BY <1>2, <1>3, ShapeAssumption DEF Block
<1> QED BY <1>2, <1>5, <1>7, <1>9, <1>10, <1>11, <1>12 DEF BatchRuns

(* Each step of the handler a master waits for moves its batch on.         *)
LEMMA WaitStep ==
  ASSUME TypeOK, NEW m \in Master, NEW a \in Addr, MasterInv(m), HandlerStep(m, a),
         mpc[m] = "wait", a = Owner[blk[m] - 1]
  PROVE  MasterInv(m)'
<1>1. /\ UNCHANGED mvars /\ mpc'[m] = "wait" /\ blk'[m] = blk[m] /\ SameCounters(m)
      /\ \A c \in Addr \ {a} : SameLink(m, c)
  BY HandlerFrame DEF mvars, gvars, SameCounters
<1>2. BatchSent(m, a) \/ BatchRuns(m, a) \/ BatchAnswered(m, a)
  BY DEF MasterInv
<1>3. /\ ContextIndex(m)' = ContextIndex(m) /\ \A d : Expected(m, d)' = Expected(m, d)
  BY <1>1, SameExpected
<1>4. SUFFICES (BatchSent(m, a) \/ BatchRuns(m, a) \/ BatchAnswered(m, a))' /\ hpc'[m][a] # "none"
  BY <1>1, WaitKept
<1>5. /\ hpc[m][a] \in {"none", "hello", "ready", "exec", "closed"}
      /\ toWorker[m][a] \in Seq(Message) /\ toMaster[m][a] \in Seq(Message)
      /\ blk[m] \in 0 .. NumBlocks
  BY DEF TypeOK
<1>a. CASE HandleHello(m, a) \/ HelloFails(m, a)
  BY <1>a, <1>2 DEF HandleHello, HelloFails, BatchSent, BatchRuns, BatchAnswered
<1>b. CASE ReceiveBatch(m, a)
  <2>1. BatchSent(m, a)
    BY <1>b, <1>2 DEF ReceiveBatch, BatchRuns, BatchAnswered
  <2>2. PICK first \in Block :
          /\ first <= blk[m] - 1
          /\ \A b \in first .. blk[m] - 1 : Owner[b] = a
          /\ toWorker[m][a] =
               <<Batch(Expected(m, first), ContextIndex(m), first, blk[m] - 1)>>
          /\ RowsUpTo(m, first)
    BY <2>1 DEF BatchSent
  <2>3. Head(toWorker[m][a]) = Batch(Expected(m, first), ContextIndex(m), first, blk[m] - 1)
        /\ Tail(toWorker[m][a]) = <<>>
    BY <2>2
  <2>4. /\ job'[m][a] = [x |-> Expected(m, first), index_pos |-> ContextIndex(m),
                         next |-> first, last |-> blk[m] - 1]
        /\ toWorker'[m][a] = <<>> /\ hpc'[m][a] = "exec" /\ toMaster'[m][a] = <<>>
    BY <1>b, <2>1, <2>3 DEF ReceiveBatch, BatchSent, TypeOK, Batch
  <2>5. RowsUpTo(m, first)'
    BY <1>1, <1>b, <2>2, HandlerRows DEF ReceiveBatch
  <2>6. job'[m][a].next = first
    BY <2>4
  <2>7. BatchRuns(m, a)'
    BY <1>1, <1>3, <1>5, <2>2, <2>4, <2>5, <2>6, ShapeAssumption DEF BatchRuns, Block
  <2> QED BY <2>4, <2>7
<1>c. CASE RejectBatch(m, a) \/ ReplyFails(m, a)
  <2>1. toMaster[m][a] = <<>>
    BY <1>c, <1>2 DEF RejectBatch, ReplyFails, BatchSent, BatchRuns, BatchAnswered
  <2>2. /\ hpc'[m][a] = "closed" /\ toWorker'[m][a] = <<>> /\ toMaster'[m][a] = <<>>
    BY <1>c, <2>1 DEF RejectBatch, ReplyFails, Closed, TypeOK
  <2> QED BY <2>2 DEF BatchAnswered
<1>d. CASE ExecBlock(m, a)
  <2>1. BatchRuns(m, a)
    BY <1>d, <1>2 DEF ExecBlock, BatchSent, BatchAnswered
  <2>2. BatchRuns(m, a)'
    BY <1>1, <1>d, <2>1, ExecBlockInv DEF MasterInv
  <2> QED BY <2>2 DEF BatchRuns
<1>e. CASE ExecFails(m, a)
  <2>1. BatchRuns(m, a)
    BY <1>e, <1>2 DEF ExecFails, BatchSent, BatchAnswered
  <2>2. /\ hpc' = [hpc EXCEPT ![m][a] = "ready"] /\ toWorker' = toWorker
        /\ toMaster' = [toMaster EXCEPT ![m][a] = Append(@, Error)]
    BY <1>e, mpc[m] = "wait" DEF ExecFails, Reply
  <2>3. toWorker[m][a] = <<>> /\ toMaster[m][a] = <<>>
    BY <2>1 DEF BatchRuns
  <2>4. hpc'[m][a] = "ready" /\ toWorker'[m][a] = <<>> /\ toMaster'[m][a] = <<Error>>
    BY <2>2, <2>3 DEF TypeOK
  <2> QED BY <2>4 DEF BatchAnswered
<1>f. CASE SendReply(m, a)
  <2>1. BatchRuns(m, a)
    BY <1>f, <1>2 DEF SendReply, BatchSent, BatchAnswered
  <2>2. job[m][a].next = blk[m] /\ job[m][a].x = Expected(m, blk[m]) /\ RowsUpTo(m, blk[m])
    <3>1. job[m][a] \in Job
      BY DEF TypeOK
    <3>2. job[m][a].next = blk[m]
      <4>1. job[m][a].next \in Int /\ blk[m] \in Int
        BY <1>5, <3>1, ShapeAssumption DEF Job
      <4>2. job[m][a].next > blk[m] - 1 /\ job[m][a].next <= blk[m]
        BY <1>f, <2>1 DEF SendReply, BatchRuns
      <4> QED BY <4>1, <4>2
    <3> QED BY <2>1, <3>2 DEF BatchRuns
  <2>3. /\ hpc'[m][a] = "ready" /\ toWorker'[m][a] = <<>>
        /\ toMaster'[m][a] = <<Tensor(Expected(m, blk[m]))>>
    BY <1>f, <2>1, <2>2 DEF SendReply, Reply, BatchRuns, TypeOK
  <2>4. RowsUpTo(m, blk[m])'
    <3>1. \A f : RowsUpTo(m, f) => RowsUpTo(m, f)'
      BY <1>1, <1>f, HandlerRows DEF SendReply
    <3> QED BY <1>1, <2>2, <3>1 DEF RowsUpTo
  <2>5. toMaster'[m][a] = <<Tensor(Expected(m, blk[m])')>>
    BY <1>1, <2>3 DEF Expected, SameCounters, ContextIndex
  <2> QED BY <2>3, <2>4, <2>5 DEF BatchAnswered
<1>g. CASE HandlerEof(m, a)
  BY <1>g DEF HandlerEof
<1> QED BY <1>a, <1>b, <1>c, <1>d, <1>e, <1>f, <1>g DEF HandlerStep

(* Every handler step keeps the invariant of every master.                 *)
LEMMA HandlerInv ==
  ASSUME TypeOK, SessionInv, NEW m \in Master, NEW a \in Addr, HandlerStep(m, a)
  PROVE  SessionInv'
<1>1. /\ UNCHANGED mvars
      /\ \A c \in Addr \ {a} : SameLink(m, c)
      /\ \A k \in Master \ {m}, c \in Addr : SameLink(k, c)
  BY HandlerFrame
<1>2. ASSUME NEW k \in Master \ {m} PROVE MasterInv(k)'
  <2>1. SameMaster(k) /\ MasterInv(k)
    BY <1>1 DEF SameMaster, SameCounters, mvars, gvars, SessionInv
  <2> QED BY <1>1, <2>1, Frame
<1>3. MasterInv(m)'
  <2>1. CASE mpc[m] = "crashed"
    <3>1. mpc'[m] = "crashed"
      BY <1>1, <2>1 DEF mvars
    <3> QED BY <3>1 DEF MasterInv
  <2>2. CASE mpc[m] = "greeting" /\ a = Owner[blk[m]]
    <3>1. /\ mpc'[m] = "greeting" /\ blk'[m] = blk[m] /\ blk[m] < NumBlocks
      BY <1>1, <2>2 DEF mvars, SessionInv, MasterInv
    <3>2. Greeting(m, a) /\ Connected(m, blk[m])
          /\ \A c \in Addr \ {a} : Quiet(m, c)
      BY <2>2 DEF SessionInv, MasterInv
    <3>3. HandleHello(m, a) \/ HelloFails(m, a)
      BY <2>2, <3>2 DEF HandlerStep, ReceiveBatch, RejectBatch, ExecBlock,
             ExecFails, SendReply, ReplyFails, HandlerEof, Greeting
    <3>4. /\ toWorker[m][a] = <<Hello>> /\ toMaster[m][a] = <<>>
      BY <3>2, <3>3 DEF HandleHello, HelloFails, Greeting
    <3>5. /\ toWorker'[m][a] = <<>>
          /\ \/ toMaster'[m][a] = <<WorkerInfo>> /\ hpc'[m][a] = "ready"
             \/ toMaster'[m][a] = <<>> /\ hpc'[m][a] = "closed"
      <4>1. CASE HandleHello(m, a)
        BY <2>2, <3>4, <4>1 DEF HandleHello, Reply, TypeOK
      <4>2. CASE HelloFails(m, a)
        BY <3>4, <4>2 DEF HelloFails, Closed, mvars, TypeOK
      <4> QED BY <3>3, <4>1, <4>2
    <3>6. Greeting(m, a)'
      BY <3>5 DEF Greeting
    <3>7. \A c \in Addr \ {a} : Quiet(m, c)'
      BY <1>1, <3>2, SameQuiet
    <3>8. Connected(m, blk[m])'
      BY <1>1, <3>1, <3>2, <3>5, PlacementAssumption DEF Connected, SameLink
    <3> QED BY <2>2, <3>1, <3>6, <3>7, <3>8 DEF MasterInv
  <2>3. CASE mpc[m] = "wait" /\ a = Owner[blk[m] - 1]
    BY <2>3, WaitStep DEF SessionInv
  <2> QED BY <2>1, <2>2, <2>3, HandlerBusy DEF SessionInv
<1> QED BY <1>2, <1>3 DEF SessionInv

----------------------------------------------------------------------------
(* Steps of worker processes.                                              *)

(* The blocks of a worker that died are out of reach, the others stay.     *)
LEMMA CrashRows ==
  ASSUME TypeOK, NEW m \in Master, NEW a \in Addr, NEW f, WorkerCrash(a), RowsUpTo(m, f),
         Connected(m, NumBlocks)
  PROVE  RowsUpTo(m, f)'
<1>1. SameCounters(m)
  BY DEF WorkerCrash, mvars, gvars, SameCounters
<1>2. ASSUME NEW b \in Block, Reachable(m, b)'
      PROVE  Reachable(m, b) /\ CachedRows(m, b)' = CachedRows(m, b)
  <2>1. CASE Owner[b] = Local
    BY <2>1 DEF Reachable, CachedRows, WorkerCrash, mvars
  <2>2. CASE Owner[b] = a /\ a # Local
    <3>1. hpc[m][a] # "none"
      BY <2>2, ShapeAssumption DEF Connected, Block
    <3>2. hpc'[m][a] = "closed"
      BY <3>1 DEF WorkerCrash, TypeOK
    <3> QED BY <1>2, <2>2, <3>2 DEF Reachable
  <2>3. CASE Owner[b] \in Addr \ {a} /\ Owner[b] # Local
    BY <1>2, <2>3 DEF Reachable, CachedRows, WorkerCrash, TypeOK
  <2> QED BY <2>1, <2>2, <2>3, PlacementAssumption
<1> QED BY <1>1, <1>2, RowsKept

(* What a worker crash does to one of its connections.                     *)
LEMMA CrashLink ==
  ASSUME TypeOK, NEW m \in Master, NEW a \in Addr, WorkerCrash(a)
  PROVE  /\ UNCHANGED mvars /\ SameCounters(m) /\ blk'[m] = blk[m] /\ mpc'[m] = mpc[m]
         /\ \A c \in Addr \ {a} : SameLink(m, c)
         /\ hpc'[m][a] = IF hpc[m][a] = "none" THEN "none" ELSE "closed"
         /\ toWorker'[m][a] = <<>>
         /\ toMaster'[m][a] \in {<<>>, toMaster[m][a]}
<1>1. UNCHANGED mvars /\ SameCounters(m) /\ blk'[m] = blk[m] /\ mpc'[m] = mpc[m]
  BY DEF WorkerCrash, mvars, gvars, SameCounters
<1>2. PICK lost \in SUBSET Master :
        toMaster' = [k \in Master |-> [toMaster[k] EXCEPT ![a] = IF k \in lost THEN <<>> ELSE @]]
  BY DEF WorkerCrash
<1>3. /\ toMaster'[m][a] \in {<<>>, toMaster[m][a]}
      /\ \A c \in Addr \ {a} : toMaster'[m][c] = toMaster[m][c]
  BY <1>2 DEF TypeOK
<1>4. /\ hpc'[m][a] = IF hpc[m][a] = "none" THEN "none" ELSE "closed"
      /\ toWorker'[m][a] = <<>>
      /\ \A c \in Addr \ {a} : hpc'[m][c] = hpc[m][c] /\ toWorker'[m][c] = toWorker[m][c]
                               /\ job'[m][c] = job[m][c] /\ wkv'[m][c] = wkv[m][c]
  BY DEF WorkerCrash, TypeOK
<1> QED BY <1>1, <1>3, <1>4 DEF SameLink

(* A worker crash keeps the invariant of every master.                     *)
LEMMA CrashInv ==
  ASSUME TypeOK, SessionInv, NEW a \in Addr, WorkerCrash(a), NEW m \in Master
  PROVE  MasterInv(m)'
<1>1. /\ UNCHANGED mvars /\ SameCounters(m) /\ blk'[m] = blk[m] /\ mpc'[m] = mpc[m]
      /\ \A c \in Addr \ {a} : SameLink(m, c)
      /\ hpc'[m][a] = IF hpc[m][a] = "none" THEN "none" ELSE "closed"
      /\ toWorker'[m][a] = <<>>
      /\ toMaster'[m][a] \in {<<>>, toMaster[m][a]}
  BY CrashLink
<1>2. MasterInv(m)
  BY DEF SessionInv
<1>3. \A c \in Addr : Quiet(m, c) => Quiet(m, c)'
  <2>1. ASSUME NEW c \in Addr \ {a}, Quiet(m, c) PROVE Quiet(m, c)'
    BY <1>1, <2>1, SameQuiet
  <2>2. Quiet(m, a) => Quiet(m, a)'
    BY <1>1 DEF Quiet
  <2> QED BY <2>1, <2>2
<1>4. \A n : Connected(m, n) => Connected(m, n)'
  BY <1>1, PlacementAssumption DEF Connected, SameLink
<1>5. Counters(m) => Counters(m)'
  BY <1>1 DEF Counters, SameCounters
<1>6. Connected(m, NumBlocks) => \A f : RowsUpTo(m, f) => RowsUpTo(m, f)'
  BY CrashRows
<1>7. /\ hid'[m] = hid[m] /\ index'[m] = index[m] /\ Expected(m, blk[m])' = Expected(m, blk[m])
  BY <1>1, SameExpected DEF mvars, gvars, Expected
<1>8. Owner[blk[m]] \in Addr /\ Greeting(m, Owner[blk[m]]) => Greeting(m, Owner[blk[m]])'
  <2> DEFINE c == Owner[blk[m]]
  <2> SUFFICES ASSUME c \in Addr, Greeting(m, c) PROVE Greeting(m, Owner[blk[m]])'
    OBVIOUS
  <2>1. c' = c
    BY <1>1
  <2>2. CASE c = a
    BY <1>1, <2>1, <2>2 DEF Greeting
  <2>3. CASE c # a
    BY <1>1, <2>1, <2>3, ZenonT(30) DEF Greeting, SameLink
  <2> QED BY <2>2, <2>3
<1>9. ASSUME mpc[m] = "wait", NEW c \in Addr, c = Owner[blk[m] - 1]
      PROVE  (BatchSent(m, c) \/ BatchRuns(m, c) \/ BatchAnswered(m, c))'
  <2>1. BatchSent(m, c) \/ BatchRuns(m, c) \/ BatchAnswered(m, c)
    BY <1>2, <1>9 DEF MasterInv
  <2>2. \A f : RowsUpTo(m, f) => RowsUpTo(m, f)'
    BY <1>2, <1>6, <1>9 DEF MasterInv
  <2>3. CASE c # a
    BY <1>1, <2>1, <2>2, <2>3, SameBatch
  <2>4. CASE c = a
    <3>1. hpc'[m][a] = "closed"
      BY <1>1, <2>1, <2>4 DEF BatchSent, BatchRuns, BatchAnswered
    <3>2. CASE toMaster'[m][a] = <<>>
      BY <1>1, <2>4, <3>1, <3>2 DEF BatchAnswered
    <3>3. CASE toMaster'[m][a] = toMaster[m][a] /\ toMaster[m][a] # <<>>
      <4>1. CASE toMaster[m][a] = <<Error>>
        BY <1>1, <2>4, <3>1, <3>3, <4>1 DEF BatchAnswered
      <4>2. CASE toMaster[m][a] = <<Tensor(Expected(m, blk[m]))>> /\ RowsUpTo(m, blk[m])
        <5>1. RowsUpTo(m, blk[m])'
          BY <1>1, <2>2, <4>2 DEF RowsUpTo
        <5>2. toMaster'[m][a] = <<Tensor(Expected(m, blk[m])')>>
          BY <1>7, <3>3, <4>2
        <5> QED BY <1>1, <2>4, <3>1, <5>1, <5>2 DEF BatchAnswered
      <4> QED BY <2>1, <2>4, <3>3, <4>1, <4>2 DEF BatchSent, BatchRuns, BatchAnswered
    <3> QED BY <1>1, <3>2, <3>3
  <2> QED BY <2>3, <2>4
<1>10. RowsUpTo(m, blk[m]) /\ Connected(m, NumBlocks) => RowsUpTo(m, blk[m])'
  BY <1>1, <1>6 DEF RowsUpTo
<1>11. RowsUpTo(m, 0) /\ Connected(m, NumBlocks) => RowsUpTo(m, 0)'
  BY <1>6
<1> QED BY <1>1, <1>2, <1>3, <1>4, <1>5, <1>7, <1>8, <1>9, <1>10, <1>11 DEF MasterInv

(* Steps of a worker process keep the invariant of every master.           *)
LEMMA WorkerInv ==
  ASSUME TypeOK, SessionInv, NEW a \in Addr, WorkerCrash(a) \/ WorkerRestart(a)
  PROVE  SessionInv'
<1>1. CASE WorkerCrash(a)
  BY <1>1, CrashInv DEF SessionInv
<1>2. CASE WorkerRestart(a)
  <2>1. ASSUME NEW m \in Master PROVE MasterInv(m)'
    <3>1. SameMaster(m) /\ \A c \in Addr : SameLink(m, c)
      BY <1>2 DEF WorkerRestart, mvars, gvars, SameMaster, SameCounters, SameLink
    <3> QED BY <3>1, Frame DEF SessionInv
  <2> QED BY <2>1 DEF SessionInv
<1> QED BY <1>1, <1>2

----------------------------------------------------------------------------
(* Steps of a master.  Other masters do not notice.                        *)
LEMMA MasterFrame ==
  ASSUME TypeOK, NEW m \in Master, NEW k \in Master \ {m},
         Start(m) \/ BeginChat(m) \/ MasterCrash(m) \/ MasterStep(m)
  PROVE  SameMaster(k) /\ \A c \in Addr : SameLink(k, c)
<1> USE DEF gvars, wvars, mvars, SameMaster, SameCounters, SameLink, TypeOK
<1>1. CASE Start(m)
  BY <1>1 DEF Start
<1>2. CASE BeginChat(m)
  BY <1>2 DEF BeginChat
<1>3. CASE MasterCrash(m)
  BY <1>3 DEF MasterCrash
<1>4. CASE LoadBlock(m)
  BY <1>4 DEF LoadBlock
<1>5. CASE Loaded(m)
  BY <1>5 DEF Loaded
<1>6. CASE NextToken(m)
  BY <1>6 DEF NextToken, StartDialog
<1>7. CASE SampleLimit(m) \/ PromptFails(m)
  BY <1>7 DEF SampleLimit, PromptFails
<1>8. CASE LocalBlock(m)
  <2>1. lkv'[k] = lkv[k]
    BY <1>8 DEF LocalBlock
  <2>2. hid'[k] = hid[k] /\ blk'[k] = blk[k] /\ mpc'[k] = mpc[k]
    BY <1>8 DEF LocalBlock
  <2> QED BY <1>8, <2>1, <2>2 DEF LocalBlock
<1>9. CASE Sample(m)
  BY <1>9 DEF Sample
<1>10. ASSUME NEW a \in Addr, LinkStep(m, a)
       PROVE  SameMaster(k) /\ \A c \in Addr : SameLink(k, c)
  <2>1. CASE Connect(m, a)
    BY <2>1 DEF Connect
  <2>2. CASE ConnectRefused(m, a) \/ GreetingLost(m, a) \/ SendFails(m, a) \/ ReceiveEof(m, a)
    BY <2>2 DEF ConnectRefused, GreetingLost, SendFails, ReceiveEof
  <2>3. CASE Greeted(m, a)
    BY <2>3 DEF Greeted
  <2>4. CASE SendBatch(m, a)
    BY <2>4 DEF SendBatch
  <2>5. CASE ReceiveTensor(m, a)
    BY <2>5, SMTT(30) DEF ReceiveTensor
  <2>6. CASE ReceiveError(m, a)
    BY <2>6 DEF ReceiveError
  <2> QED BY <1>10, <2>1, <2>2, <2>3, <2>4, <2>5, <2>6 DEF LinkStep
<1> QED BY <1>1, <1>2, <1>3, <1>4, <1>5, <1>6, <1>7, <1>8, <1>9, <1>10 DEF MasterStep

(* Loading and greeting.                                                   *)
LEMMA LoadingInv ==
  ASSUME TypeOK, NEW m \in Master, MasterInv(m),
         Start(m) \/ LoadBlock(m) \/ Loaded(m)
  PROVE  MasterInv(m)'
<1>1. /\ mpc[m] \in {"off", "loading"}
      /\ \A c \in Addr : SameLink(m, c) /\ Quiet(m, c)
  BY DEF Start, LoadBlock, Loaded, MasterInv, SameLink, wvars
<1>2. \A c \in Addr : Quiet(m, c)'
  BY <1>1, SameQuiet
<1>3. \A n : Connected(m, n) => Connected(m, n)'
  BY <1>1, PlacementAssumption DEF Connected, SameLink
<1>4. CASE Start(m)
  <2>1. mpc'[m] = "loading" /\ blk'[m] = 0
    BY <1>4 DEF Start, TypeOK
  <2>2. Connected(m, 0)'
    BY ShapeAssumption DEF Connected, Block
  <2>3. Connected(m, blk[m])'
    BY <2>1, <2>2 DEF Connected
  <2> QED BY <1>2, <2>1, <2>3 DEF MasterInv
<1>5. CASE LoadBlock(m)
  <2>1. mpc[m] = "loading" /\ mpc'[m] = "loading" /\ blk'[m] = blk[m] + 1
        /\ Connected(m, blk[m]) /\ blk[m] \in 0 .. NumBlocks
    BY <1>5 DEF LoadBlock, TypeOK, MasterInv
  <2>2. Owner[blk[m]] # Local => hpc'[m][Owner[blk[m]]] # "none"
    BY <1>5 DEF LoadBlock, wvars
  <2>3. Connected(m, blk[m])'
    <3> SUFFICES ASSUME NEW b \in Block, b < blk[m] + 1, Owner[b] # Local
                 PROVE  hpc'[m][Owner[b]] # "none"
      BY <2>1 DEF Connected
    <3>1. b = blk[m] \/ b < blk[m]
      BY <2>1, ShapeAssumption DEF Block
    <3> QED BY <1>5, <2>1, <2>2, <3>1 DEF Connected, LoadBlock, wvars
  <2> QED BY <1>2, <2>1, <2>3 DEF MasterInv
<1>6. CASE Loaded(m)
  <2>1. mpc'[m] = "idle" /\ Connected(m, NumBlocks)
    BY <1>6 DEF Loaded, TypeOK, MasterInv
  <2> QED BY <1>2, <1>3, <2>1 DEF MasterInv
<1> QED BY <1>4, <1>5, <1>6

(* The greeting succeeds or the master gives up loading.                   *)
LEMMA GreetInv ==
  ASSUME TypeOK, NEW m \in Master, MasterInv(m), NEW a \in Addr,
         Connect(m, a) \/ Greeted(m, a)
  PROVE  MasterInv(m)'
<1>1. CASE Connect(m, a)
  <2>1. /\ mpc'[m] = "greeting" /\ blk'[m] = blk[m] /\ blk[m] < NumBlocks
        /\ Owner[blk[m]] = a /\ \A c \in Addr : Quiet(m, c)
        /\ Connected(m, blk[m])
    BY <1>1 DEF Connect, TypeOK, MasterInv
  <2>2. /\ hpc'[m][a] = "hello" /\ toWorker'[m][a] = <<Hello>> /\ toMaster'[m][a] = <<>>
    <3>1. toWorker[m][a] = <<>> /\ toMaster[m][a] = <<>>
      BY <2>1 DEF Quiet
    <3>2. toWorker'[m][a] = Append(<<>>, Hello)
      BY <1>1, <3>1 DEF Connect, TypeOK
    <3>3. hpc'[m][a] = "hello" /\ toMaster'[m][a] = <<>>
      BY <1>1, <3>1 DEF Connect, TypeOK
    <3> QED BY <3>2, <3>3
  <2>3. \A c \in Addr \ {a} : SameLink(m, c)
    BY <1>1 DEF Connect, SameLink, TypeOK
  <2>4. \A c \in Addr \ {a} : Quiet(m, c)'
    BY <2>1, <2>3, SameQuiet
  <2>5. Connected(m, blk[m])'
    BY <2>1, <2>2, <2>3, PlacementAssumption DEF Connected, SameLink
  <2>6. Greeting(m, a)'
    BY <2>2 DEF Greeting
  <2> QED BY <2>1, <2>4, <2>5, <2>6 DEF MasterInv
<1>2. CASE Greeted(m, a)
  <2>1. /\ mpc[m] = "greeting" /\ mpc'[m] = "loading" /\ blk'[m] = blk[m] + 1
        /\ blk[m] \in 0 .. NumBlocks /\ Owner[blk[m]] = a
        /\ Greeting(m, a) /\ \A c \in Addr \ {a} : Quiet(m, c)
        /\ Connected(m, blk[m])
    BY <1>2 DEF Greeted, TypeOK, MasterInv
  <2>2. /\ toWorker[m][a] = <<>> /\ toMaster[m][a] = <<WorkerInfo>>
        /\ hpc[m][a] \in {"ready", "closed"}
    BY <1>2, <2>1 DEF Greeted, Greeting
  <2>3. /\ toWorker'[m][a] = <<>> /\ toMaster'[m][a] = <<>>
        /\ hpc'[m][a] \in {"ready", "closed"}
    BY <1>2, <2>2 DEF Greeted, TypeOK
  <2>4. \A c \in Addr \ {a} : SameLink(m, c)
    BY <1>2 DEF Greeted, SameLink, TypeOK
  <2>5. \A c \in Addr : Quiet(m, c)'
    <3>1. ASSUME NEW c \in Addr \ {a} PROVE Quiet(m, c)'
      BY <2>1, <2>4, SameQuiet
    <3>2. Quiet(m, a)'
      BY <2>3 DEF Quiet
    <3> QED BY <3>1, <3>2
  <2>6. Connected(m, blk[m])'
    <3> SUFFICES ASSUME NEW b \in Block, b < blk[m] + 1, Owner[b] # Local
                 PROVE  hpc'[m][Owner[b]] # "none"
      BY <2>1 DEF Connected
    <3>1. b = blk[m] \/ b < blk[m]
      BY <2>1, ShapeAssumption DEF Block
    <3> QED BY <2>1, <2>3, <2>4, <3>1, PlacementAssumption DEF Connected, SameLink
  <2> QED BY <2>1, <2>5, <2>6 DEF MasterInv
<1> QED BY <1>1, <1>2

(* Between requests, and steps that end one.                               *)
LEMMA ToIdle ==
  ASSUME NEW m \in Master, mpc'[m] = "idle", \A a \in Addr : Quiet(m, a)',
         Connected(m, NumBlocks)'
  PROVE  MasterInv(m)'
BY DEF MasterInv

(* The master gives a request up without touching its connections.         *)
LEMMA GiveUpInv ==
  ASSUME TypeOK, NEW m \in Master, MasterInv(m), mpc[m] \in {"step", "forward"},
         mpc'[m] = "idle", UNCHANGED wvars
  PROVE  MasterInv(m)'
<1>1. \A a \in Addr : Quiet(m, a)'
  BY DEF MasterInv, Quiet, wvars
<1>2. Connected(m, NumBlocks)'
  BY DEF MasterInv, Connected, wvars
<1> QED BY <1>1, <1>2, ToIdle

(* A new chat request starts from cleared counters.                        *)
LEMMA BeginInv ==
  ASSUME TypeOK, NEW m \in Master, MasterInv(m), BeginChat(m)
  PROVE  MasterInv(m)'
<1>1. /\ mpc[m] = "idle" /\ mpc'[m] = "step" /\ index'[m] = 0 /\ generated'[m] = 0
      /\ UNCHANGED wvars
  BY DEF BeginChat, TypeOK
<1>2. \A a \in Addr : Quiet(m, a)'
  BY <1>1 DEF MasterInv, Quiet, wvars
<1>3. Connected(m, NumBlocks)'
  BY <1>1 DEF MasterInv, Connected, wvars
<1>4. Counters(m)'
  BY <1>1 DEF Counters
<1> QED BY <1>1, <1>2, <1>3, <1>4 DEF MasterInv

(* A step of next_token sets up the input of block 0.                      *)
LEMMA NextTokenInv ==
  ASSUME TypeOK, NEW m \in Master, MasterInv(m), NextToken(m)
  PROVE  MasterInv(m)'
<1>1. /\ mpc[m] = "step" /\ mpc'[m] = "forward" /\ blk'[m] = 0
      /\ UNCHANGED <<req, index, generated, wvars>>
      /\ index[m] \in Nat /\ generated[m] = index[m]
  BY DEF NextToken, TypeOK, MasterInv, Counters
<1>2. \A a \in Addr : Quiet(m, a)'
  BY <1>1 DEF MasterInv, Quiet, wvars
<1>3. Connected(m, NumBlocks)'
  BY <1>1 DEF MasterInv, Connected, wvars
<1> DEFINE offset == ContextOffset(m, ntok'[m])
<1>4. hid'[m] = Clean(m, req[m], offset, ntok'[m] - offset, 0)
  BY DEF NextToken, TypeOK
<1>5. CASE index[m] = 0
  <2>1. index_pos'[m] = 0
    BY <1>1, <1>5 DEF NextToken, StartDialog, TypeOK
  <2>2. Counters(m)' /\ ContextIndex(m)' = 0
    BY <1>1, <1>5, <2>1 DEF Counters, ContextIndex
  <2>3. offset = 0
    BY <1>5 DEF ContextOffset
  <2>4. hid'[m] = Expected(m, 0)'
    BY <1>1, <1>4, <2>2, <2>3 DEF Expected
  <2>5. RowsUpTo(m, 0)'
    BY <1>1, <1>5, ShapeAssumption DEF RowsUpTo, Block
  <2>6. (hid[m] = Expected(m, blk[m]) /\ RowsUpTo(m, blk[m]))'
    BY <1>1, <2>4, <2>5 DEF Expected, RowsUpTo
  <2> QED BY <1>1, <1>2, <1>3, <2>2, <2>6 DEF MasterInv
<1>6. CASE index[m] > 0
  <2>1. UNCHANGED <<ntok, lkv, index_pos>>
    BY <1>1, <1>6 DEF NextToken, StartDialog
  <2>2. ntok[m] = index_pos[m] + 1 /\ RowsUpTo(m, 0) /\ index_pos[m] \in Nat
    BY <1>1, <1>6 DEF MasterInv, Counters, TypeOK
  <2>3. Counters(m)' /\ ContextIndex(m)' = index_pos[m]
    BY <1>1, <1>6, <2>1, <2>2 DEF Counters, ContextIndex
  <2>4. offset = index_pos[m]
    BY <1>6, <2>1, <2>2 DEF ContextOffset
  <2>5. hid'[m] = Expected(m, 0)'
    BY <1>1, <1>4, <2>1, <2>3, <2>4 DEF Expected
  <2>6. RowsUpTo(m, 0)'
    <3>1. SameCounters(m)
      BY <1>1, <2>1 DEF SameCounters
    <3>2. \A b \in Block : Reachable(m, b)' =>
            Reachable(m, b) /\ CachedRows(m, b)' = CachedRows(m, b)
      BY <1>1, <2>1 DEF wvars, Reachable, CachedRows
    <3> QED BY <2>2, <3>1, <3>2, RowsKept
  <2>7. (hid[m] = Expected(m, blk[m]) /\ RowsUpTo(m, blk[m]))'
    BY <1>1, <2>5, <2>6 DEF Expected, RowsUpTo
  <2> QED BY <1>1, <1>2, <1>3, <2>3, <2>7 DEF MasterInv
<1> QED BY <1>1, <1>5, <1>6

(* A local block, when it succeeds.                                        *)
LEMMA LocalBlockInv ==
  ASSUME TypeOK, NEW m \in Master, MasterInv(m), LocalBlock(m)
  PROVE  MasterInv(m)'
<1>1. CASE mpc'[m] = "idle"
  BY <1>1, GiveUpInv DEF LocalBlock
<1>2. CASE mpc'[m] # "idle"
  <2>1. PICK b \in Block : b = blk[m]
    BY ShapeAssumption DEF LocalBlock, TypeOK, Block
  <2>2. /\ mpc[m] = "forward" /\ Owner[b] = Local
        /\ hid[m] = Expected(m, b) /\ RowsUpTo(m, b) /\ Counters(m)
        /\ Connected(m, NumBlocks) /\ \A a \in Addr : Quiet(m, a)
    BY <2>1 DEF LocalBlock, MasterInv
  <2> DEFINE rows == process_kv(lkv[m][b], b, ContextIndex(m), Expected(m, b))
  <2>3. /\ RopeOk(ContextIndex(m), Expected(m, b))
        /\ lkv' = [lkv EXCEPT ![m][b] = rows]
        /\ hid' = [hid EXCEPT ![m] = Attend(rows, b, ContextIndex(m), Expected(m, b))]
        /\ blk' = [blk EXCEPT ![m] = b + 1]
        /\ UNCHANGED <<mpc, gvars, wvars>>
    BY <1>2, <2>1, <2>2 DEF LocalBlock, TypeOK
  <2>4. Reachable(m, b) /\ CachedRows(m, b) = lkv[m][b]
    BY <2>2 DEF Reachable, CachedRows
  <2>5. /\ rows = Context(m, req[m], ntok[m])
        /\ Attend(rows, b, ContextIndex(m), Expected(m, b)) = Expected(m, b + 1)
    BY <2>2, <2>3, <2>4, NextBlock
  <2> HIDE DEF rows
  <2>6. SameCounters(m) /\ mpc'[m] = "forward" /\ blk'[m] = b + 1
    BY <2>2, <2>3 DEF gvars, SameCounters, TypeOK
  <2>7. /\ lkv'[m][b] = Context(m, req[m], ntok[m])
        /\ \A d \in Block \ {b} : lkv'[m][d] = lkv[m][d]
    BY <2>3, <2>5 DEF TypeOK, KV
  <2>8. RowsUpTo(m, b + 1)'
    <3>1. \A d \in Block : Reachable(m, d)' => Reachable(m, d)
      BY <2>3 DEF Reachable, wvars
    <3>2. \A d \in Block \ {b} : CachedRows(m, d)' = CachedRows(m, d)
      BY <2>3, <2>7 DEF CachedRows, wvars
    <3>3. CachedRows(m, b)' = Context(m, req[m], ntok[m])
      BY <2>2, <2>7 DEF CachedRows
    <3> QED BY <2>2, <2>6, <3>1, <3>2, <3>3, RowsAdvance
  <2>9. hid'[m] = Expected(m, b + 1)'
    <3>1. hid'[m] = Expected(m, b + 1)
      BY <2>3, <2>5 DEF TypeOK
    <3> QED BY <2>6, <3>1, SameExpected
  <2>10. (hid[m] = Expected(m, blk[m]) /\ RowsUpTo(m, blk[m]))'
    BY <2>6, <2>8, <2>9 DEF Expected, RowsUpTo
  <2>11. Counters(m)' /\ Connected(m, NumBlocks)' /\ \A a \in Addr : Quiet(m, a)'
    BY <2>2, <2>3, <2>6 DEF Counters, SameCounters, Connected, Quiet, wvars
  <2> QED BY <2>6, <2>10, <2>11 DEF MasterInv
<1> QED BY <1>1, <1>2

(* A batch leaves for the worker that owns its blocks.                     *)
LEMMA SendBatchInv ==
  ASSUME TypeOK, NEW m \in Master, MasterInv(m), NEW a \in Addr, SendBatch(m, a)
  PROVE  MasterInv(m)'
<1>0. PICK first \in Block : first = blk[m]
  BY ShapeAssumption DEF SendBatch, TypeOK, Block
<1>1. PICK last \in Block :
        /\ first = blk[m] /\ GroupOf(first, last)
        /\ toWorker' = [toWorker EXCEPT ![m][a] =
                          Append(@, Batch(hid[m], ContextIndex(m), first, last))]
        /\ blk' = [blk EXCEPT ![m] = last + 1]
  BY <1>0 DEF SendBatch
<1>2. /\ mpc[m] = "forward" /\ Owner[first] = a
      /\ hid[m] = Expected(m, first) /\ RowsUpTo(m, first) /\ Counters(m)
      /\ Connected(m, NumBlocks) /\ \A c \in Addr : Quiet(m, c)
  BY <1>1 DEF SendBatch, MasterInv
<1>3. /\ mpc'[m] = "wait" /\ blk'[m] = last + 1 /\ blk'[m] - 1 = last /\ first <= last
      /\ UNCHANGED <<gvars, hid, lkv, hpc, toMaster, job, wkv>>
  BY <1>1, ShapeAssumption DEF SendBatch, TypeOK, GroupOf, Block
<1>4. \A b \in first .. last : Owner[b] = a
  BY <1>1, <1>2 DEF GroupOf
<1>5. /\ toMaster[m][a] = <<>> /\ toWorker[m][a] = <<>> /\ hpc[m][a] = "ready"
  <2>1. toMaster[m][a] = <<>> /\ toWorker[m][a] = <<>> /\ hpc[m][a] \in {"none", "ready", "closed"}
    BY <1>2 DEF Quiet
  <2>2. hpc[m][a] # "closed"
    BY DEF SendBatch
  <2>3. hpc[m][a] # "none"
    BY <1>2, LocalAssumption, ShapeAssumption DEF Connected, Block
  <2> QED BY <2>1, <2>2, <2>3
<1>6. SameCounters(m)
  BY <1>3 DEF gvars, SameCounters
<1>7. toWorker'[m][a] = <<Batch(Expected(m, first)', ContextIndex(m)', first, blk'[m] - 1)>>
  <2>1. toWorker'[m][a] = Append(<<>>, Batch(Expected(m, first), ContextIndex(m), first, last))
    BY <1>1, <1>2, <1>5 DEF TypeOK
  <2>2. toWorker'[m][a] = <<Batch(Expected(m, first), ContextIndex(m), first, last)>>
    BY <2>1
  <2> QED BY <1>3, <1>6, <2>2, SameExpected
<1>8. RowsUpTo(m, first)'
  BY <1>2, <1>3, <1>6, RowsKept DEF Reachable, CachedRows
<1>9. BatchSent(m, a)'
  BY <1>3, <1>4, <1>5, <1>7, <1>8 DEF BatchSent
<1>10. \A c \in Addr \ {a} : Quiet(m, c)'
  BY <1>1, <1>2, <1>3 DEF Quiet, TypeOK
<1>11. Counters(m)' /\ Connected(m, NumBlocks)'
  BY <1>2, <1>3, <1>6 DEF Counters, SameCounters, Connected
<1>12. Owner[blk'[m] - 1] = a /\ blk'[m] > 0
  BY <1>3, <1>4, ShapeAssumption DEF Block
<1> QED BY <1>3, <1>9, <1>10, <1>11, <1>12 DEF MasterInv

(* A reply, an error or the end of the stream ends the wait.               *)
LEMMA ReceiveInv ==
  ASSUME TypeOK, NEW m \in Master, MasterInv(m), NEW a \in Addr,
         ReceiveTensor(m, a) \/ ReceiveError(m, a) \/ ReceiveEof(m, a)
  PROVE  MasterInv(m)'
<1>1. /\ mpc[m] = "wait" /\ Owner[blk[m] - 1] = a
      /\ \A c \in Addr \ {a} : Quiet(m, c) /\ SameLink(m, c)
      /\ Counters(m) /\ Connected(m, NumBlocks)
      /\ UNCHANGED <<gvars, blk, lkv, hpc, toWorker, job, wkv>>
  <2>1. mpc[m] = "wait" /\ Owner[blk[m] - 1] = a
    BY DEF ReceiveTensor, ReceiveError, ReceiveEof
  <2>2. UNCHANGED <<gvars, blk, lkv, hpc, toWorker, job, wkv>>
    BY DEF ReceiveTensor, ReceiveError, ReceiveEof, wvars
  <2>3. toMaster' = [toMaster EXCEPT ![m][a] = Tail(@)] \/ toMaster' = toMaster
    BY DEF ReceiveTensor, ReceiveError, ReceiveEof, wvars
  <2>4. \A c \in Addr \ {a} : SameLink(m, c)
    BY <2>2, <2>3 DEF SameLink, TypeOK
  <2> QED BY <2>1, <2>2, <2>4 DEF MasterInv
<1>2. BatchAnswered(m, a)
  <2>1. toMaster[m][a] # <<>> \/ hpc[m][a] = "closed"
    BY DEF ReceiveTensor, ReceiveError, ReceiveEof
  <2> QED BY <1>1, <2>1 DEF MasterInv, BatchSent, BatchRuns
<1>3. toMaster'[m][a] = <<>>
  <2>1. CASE ReceiveEof(m, a)
    BY <2>1 DEF ReceiveEof, wvars
  <2>2. CASE ReceiveTensor(m, a) \/ ReceiveError(m, a)
    <3>1. toMaster'[m][a] = Tail(toMaster[m][a]) /\ toMaster[m][a] # <<>>
      <4>1. toMaster' = [toMaster EXCEPT ![m][a] = Tail(@)] /\ toMaster[m][a] # <<>>
        BY <2>2 DEF ReceiveTensor, ReceiveError
      <4> QED BY <4>1 DEF TypeOK
    <3>2. PICK msg : toMaster[m][a] = <<msg>>
      BY <1>2, <3>1 DEF BatchAnswered
    <3> QED BY <3>1, <3>2
  <2> QED BY <2>1, <2>2
<1>4. \A c \in Addr : Quiet(m, c)'
  <2>1. ASSUME NEW c \in Addr \ {a} PROVE Quiet(m, c)'
    BY <1>1, SameQuiet
  <2>2. Quiet(m, a)'
    BY <1>1, <1>2, <1>3 DEF Quiet, BatchAnswered
  <2> QED BY <2>1, <2>2
<1>5. Connected(m, NumBlocks)'
  BY <1>1 DEF Connected
<1>6. CASE mpc'[m] = "idle"
  BY <1>4, <1>5, <1>6, ToIdle
<1>7. CASE mpc'[m] # "idle"
  <2>1. ReceiveTensor(m, a)
    BY <1>7 DEF ReceiveError, ReceiveEof, TypeOK
  <2>2. mpc'[m] = "forward" /\ hid'[m] = Head(toMaster[m][a]).x
        /\ toMaster[m][a] # <<>> /\ Head(toMaster[m][a]).kind = "Tensor"
    BY <1>7, <2>1 DEF ReceiveTensor, TypeOK
  <2>3. toMaster[m][a] = <<Tensor(Expected(m, blk[m]))>> /\ RowsUpTo(m, blk[m])
    BY <1>2, <2>2 DEF BatchAnswered, Error
  <2>4. hid'[m] = Expected(m, blk[m])
    BY <2>2, <2>3 DEF Tensor
  <2>5. SameCounters(m) /\ blk'[m] = blk[m]
    BY <1>1 DEF gvars, SameCounters
  <2>6. hid'[m] = Expected(m, blk[m])'
    BY <2>4, <2>5, SameExpected DEF Expected
  <2>7. RowsUpTo(m, blk[m])'
    <3>1. \A f : RowsUpTo(m, f) => RowsUpTo(m, f)'
      BY <1>1, <2>5, RowsKept DEF Reachable, CachedRows
    <3> QED BY <2>3, <2>5, <3>1 DEF RowsUpTo
  <2>8. Counters(m)'
    BY <1>1, <2>2, <2>5 DEF Counters, SameCounters
  <2> QED BY <1>4, <1>5, <2>2, <2>6, <2>7, <2>8 DEF MasterInv
<1> QED BY <1>6, <1>7

(* After the last block the step is committed: index_pos catches up.       *)
LEMMA SampleInv ==
  ASSUME TypeOK, NEW m \in Master, MasterInv(m), Sample(m)
  PROVE  MasterInv(m)'
<1>1. /\ mpc[m] = "forward" /\ blk[m] = NumBlocks /\ hid[m] = Expected(m, NumBlocks)
      /\ RowsUpTo(m, NumBlocks) /\ Counters(m)
      /\ Connected(m, NumBlocks) /\ \A a \in Addr : Quiet(m, a)
      /\ UNCHANGED <<req, blk, hid, lkv, wvars>>
  BY DEF Sample, MasterInv
<1>2. CASE mpc'[m] = "idle"
  BY <1>1, <1>2, GiveUpInv
<1>3. CASE mpc'[m] # "idle"
  <2>1. /\ index_pos' = [index_pos EXCEPT ![m] = @ + hid[m].len]
        /\ generated' = [generated EXCEPT ![m] = @ + 1]
        /\ ntok' = [ntok EXCEPT ![m] = @ + 1]
        /\ mpc' = [mpc EXCEPT ![m] = "step"]
        /\ index' = [index EXCEPT ![m] = @ + 1]
    BY <1>3 DEF Sample, TypeOK
  <2>2. hid[m].len = ntok[m] - ContextIndex(m)
    BY <1>1 DEF Expected, Clean
  <2>3. /\ index_pos[m] \in Nat /\ ntok[m] \in Nat /\ index[m] \in Nat /\ generated[m] = index[m]
        /\ ContextIndex(m) = index_pos[m]
    BY <1>1 DEF TypeOK, Counters, ContextIndex
  <2>4. /\ index_pos'[m] = ntok[m] /\ ntok'[m] = ntok[m] + 1 /\ index'[m] = index[m] + 1
        /\ generated'[m] = index'[m] /\ mpc'[m] = "step" /\ index'[m] > 0
    BY <2>1, <2>2, <2>3 DEF TypeOK
  <2>5. Counters(m)'
    BY <2>4 DEF Counters
  <2>6. RowsUpTo(m, 0)'
    <3> SUFFICES ASSUME NEW b \in Block, Reachable(m, b)'
                 PROVE  (IF b < 0 THEN CachedRows(m, b) = Context(m, req[m], ntok[m])
                         ELSE index[m] > 0 =>
                                CachedRows(m, b) = Context(m, req[m], index_pos[m]))'
      BY DEF RowsUpTo
    <3>1. Reachable(m, b) /\ CachedRows(m, b)' = CachedRows(m, b)
      BY <1>1 DEF Reachable, CachedRows, wvars
    <3>2. b < NumBlocks /\ ~(b < 0)
      BY ShapeAssumption DEF Block
    <3>3. CachedRows(m, b) = Context(m, req[m], ntok[m])
      BY <1>1, <3>1, <3>2 DEF RowsUpTo
    <3> QED BY <1>1, <2>4, <3>1, <3>2, <3>3
  <2>7. Connected(m, NumBlocks)' /\ \A a \in Addr : Quiet(m, a)'
    BY <1>1 DEF Connected, Quiet, wvars
  <2> QED BY <2>4, <2>5, <2>6, <2>7 DEF MasterInv
<1> QED BY <1>2, <1>3

(* Nothing is required of the connections of a dead master.                *)
LEMMA ToCrashed ==
  ASSUME NEW m \in Master, mpc'[m] = "crashed"
  PROVE  MasterInv(m)'
BY DEF MasterInv

(* Every step of a master keeps the invariant of every master.             *)
LEMMA MasterStepInv ==
  ASSUME TypeOK, SessionInv, NEW m \in Master,
         Start(m) \/ BeginChat(m) \/ MasterCrash(m) \/ MasterStep(m)
  PROVE  SessionInv'
<1>1. ASSUME NEW k \in Master \ {m} PROVE MasterInv(k)'
  <2>1. SameMaster(k) /\ \A c \in Addr : SameLink(k, c)
    BY MasterFrame
  <2> QED BY <2>1, Frame DEF SessionInv
<1>2. MasterInv(m)'
  <2>1. MasterInv(m)
    BY DEF SessionInv
  <2>2. CASE Start(m) \/ LoadBlock(m) \/ Loaded(m)
    BY <2>1, <2>2, LoadingInv
  <2>3. CASE BeginChat(m)
    BY <2>1, <2>3, BeginInv
  <2>4. CASE MasterCrash(m)
    BY <2>4, ToCrashed DEF MasterCrash, TypeOK
  <2>5. CASE NextToken(m)
    BY <2>1, <2>5, NextTokenInv
  <2>6. CASE SampleLimit(m) \/ PromptFails(m)
    <3>1. mpc[m] = "step" /\ mpc'[m] = "idle" /\ UNCHANGED wvars
      BY <2>6 DEF SampleLimit, PromptFails, wvars, TypeOK
    <3> QED BY <2>1, <3>1, GiveUpInv
  <2>7. CASE LocalBlock(m)
    BY <2>1, <2>7, LocalBlockInv
  <2>8. CASE Sample(m)
    BY <2>1, <2>8, SampleInv
  <2>9. ASSUME NEW a \in Addr, LinkStep(m, a) PROVE MasterInv(m)'
    <3>1. CASE Connect(m, a) \/ Greeted(m, a)
      BY <2>1, <3>1, GreetInv
    <3>2. CASE ConnectRefused(m, a) \/ GreetingLost(m, a)
      BY <3>2, ToCrashed DEF ConnectRefused, GreetingLost, TypeOK
    <3>3. CASE SendBatch(m, a)
      BY <2>1, <3>3, SendBatchInv
    <3>4. CASE SendFails(m, a)
      <4>1. mpc[m] = "forward" /\ mpc'[m] = "idle" /\ UNCHANGED wvars
        BY <3>4 DEF SendFails, TypeOK
      <4> QED BY <2>1, <4>1, GiveUpInv
    <3>5. CASE ReceiveTensor(m, a) \/ ReceiveError(m, a) \/ ReceiveEof(m, a)
      BY <2>1, <3>5, ReceiveInv
    <3> QED BY <2>9, <3>1, <3>2, <3>3, <3>4, <3>5 DEF LinkStep
  <2> QED BY <2>2, <2>3, <2>4, <2>5, <2>6, <2>7, <2>8, <2>9 DEF MasterStep
<1> QED BY <1>1, <1>2 DEF SessionInv

----------------------------------------------------------------------------
(* The invariant holds before anything is connected.                       *)
LEMMA SessionInit == Init => SessionInv
<1> SUFFICES ASSUME Init, NEW m \in Master PROVE MasterInv(m)
  BY DEF SessionInv
<1>1. mpc[m] = "off" /\ \A a \in Addr : Quiet(m, a)
  BY DEF Init, Quiet
<1> QED BY <1>1 DEF MasterInv

(* Every step keeps the invariant.                                         *)
LEMMA SessionNext == TypeOK /\ SessionInv /\ [Next]_vars => SessionInv'
<1> SUFFICES ASSUME TypeOK, SessionInv, [Next]_vars PROVE SessionInv'
  OBVIOUS
<1>1. ASSUME NEW m \in Master, Start(m) \/ BeginChat(m) \/ MasterCrash(m) \/ MasterStep(m)
      PROVE  SessionInv'
  BY <1>1, MasterStepInv
<1>2. ASSUME NEW m \in Master, NEW a \in Addr, HandlerStep(m, a) PROVE SessionInv'
  BY <1>2, HandlerInv
<1>3. ASSUME NEW a \in Addr, WorkerCrash(a) \/ WorkerRestart(a) PROVE SessionInv'
  BY <1>3, WorkerInv
<1>4. CASE UNCHANGED vars
  <2>1. ASSUME NEW m \in Master PROVE MasterInv(m)'
    <3>1. SameMaster(m) /\ \A c \in Addr : SameLink(m, c)
      BY <1>4 DEF vars, wvars, mvars, gvars, SameMaster, SameCounters, SameLink
    <3> QED BY <3>1, Frame DEF SessionInv
  <2> QED BY <2>1 DEF SessionInv
<1> QED BY <1>1, <1>2, <1>3, <1>4 DEF Next

(* At most one batch of a master is under way, its hidden state is the one *)
(* a single machine has there, and every cache within reach is up to date  *)
(* or one step behind: in every deployment, with any number of masters,    *)
(* workers, blocks and tokens, whatever fails or crashes.                  *)
THEOREM SessionCorrect == Spec => [](TypeOK /\ SessionInv)
<1>1. Init => TypeOK /\ SessionInv
  BY TypeInit, SessionInit
<1>2. TypeOK /\ SessionInv /\ [Next]_vars => (TypeOK /\ SessionInv)'
  BY TypeNext, SessionNext
<1> QED BY <1>1, <1>2, PTL DEF Spec

(* A token is sampled from what a single machine would have computed.      *)
THEOREM LogitsExact == Spec => []ExactLogits
<1>1. TypeOK /\ SessionInv => ExactLogits
  <2> SUFFICES ASSUME TypeOK, SessionInv, NEW m \in Master,
                      mpc[m] = "forward", blk[m] = NumBlocks
               PROVE  /\ hid[m].from + hid[m].len = ntok[m]
                      /\ hid[m] = Clean(m, req[m], hid[m].from, hid[m].len, NumBlocks)
    BY DEF ExactLogits
  <2>1. hid[m] = Clean(m, req[m], ContextIndex(m), ntok[m] - ContextIndex(m), NumBlocks)
    BY DEF SessionInv, MasterInv, Expected
  <2>2. hid[m].from = ContextIndex(m) /\ hid[m].len = ntok[m] - ContextIndex(m)
    BY <2>1 DEF Clean
  <2>3. ContextIndex(m) \in Nat /\ ntok[m] \in Nat
    BY DEF ContextIndex, TypeOK
  <2> QED BY <2>1, <2>2, <2>3
<1> QED BY <1>1, SessionCorrect, PTL

(* Between two tokens the shards of the cache agree on the context.        *)
THEOREM ShardsAlwaysAgree == Spec => []ShardsAgree
<1>1. SessionInv => ShardsAgree
  <2> SUFFICES ASSUME SessionInv, NEW m \in Master, mpc[m] = "step", index[m] > 0,
                      NEW b \in Block, Reachable(m, b)
               PROVE  CachedRows(m, b) = Context(m, req[m], index_pos[m])
    BY DEF ShardsAgree
  <2>1. ~(b < 0)
    BY ShapeAssumption DEF Block
  <2> QED BY <2>1 DEF SessionInv, MasterInv, RowsUpTo
<1> QED BY <1>1, SessionCorrect, PTL

(* Outside an exchange nothing is left on any connection.                  *)
THEOREM AlwaysQuiet == Spec => []QuietBetweenRequests
<1>1. SessionInv => QuietBetweenRequests
  BY DEF SessionInv, MasterInv, Quiet, QuietBetweenRequests
<1> QED BY <1>1, SessionCorrect, PTL

(* The reply at the head of the stream answers the batch just written.     *)
THEOREM RepliesMatch == Spec => []ReplyMatchesRequest
<1>1. TypeOK /\ SessionInv => ReplyMatchesRequest
  <2> SUFFICES ASSUME TypeOK, SessionInv, NEW m \in Master, NEW a \in Addr,
                      mpc[m] = "wait", Owner[blk[m] - 1] = a, toMaster[m][a] # <<>>
               PROVE  LET reply == Head(toMaster[m][a])
                      IN  /\ Tail(toMaster[m][a]) = <<>>
                          /\ reply.kind \in {"Tensor", "Error"}
                          /\ reply.kind = "Tensor" =>
                               /\ reply.x.own = m /\ reply.x.req = req[m]
                               /\ reply.x.from + reply.x.len = ntok[m]
                               /\ reply.x.depth = blk[m]
    BY DEF ReplyMatchesRequest
  <2>1. \/ toMaster[m][a] = <<Tensor(Expected(m, blk[m]))>>
        \/ toMaster[m][a] = <<Error>>
    BY DEF SessionInv, MasterInv, BatchSent, BatchRuns, BatchAnswered
  <2>2. CASE toMaster[m][a] = <<Error>>
    BY <2>2 DEF Error
  <2>3. CASE toMaster[m][a] = <<Tensor(Expected(m, blk[m]))>>
    <3>1. /\ Tail(toMaster[m][a]) = <<>> /\ Head(toMaster[m][a]).kind = "Tensor"
          /\ Head(toMaster[m][a]).x = Expected(m, blk[m])
      BY <2>3 DEF Tensor
    <3>2. ContextIndex(m) \in Nat /\ ntok[m] \in Nat
      BY DEF ContextIndex, TypeOK
    <3> QED BY <3>1, <3>2 DEF Expected, Clean
  <2> QED BY <2>1, <2>2, <2>3
<1> QED BY <1>1, SessionCorrect, PTL

-----------------------------------------------------------------------------
(* The single machine.                                                     *)

(* Tokens are there when and only when a step of next_token has begun.     *)
PromptInv ==
  \A m \in Master :
    /\ mpc[m] = "step" /\ generated[m] = 0 => ntok[m] = 0
    /\ mpc[m] \in {"forward", "wait"} => ntok[m] > 0

phases == [m \in Master |-> Phase(m)]
lgts   == [m \in Master |-> Logits(m)]

(* A record of logits is not the absence of logits.                        *)
LEMMA LogitsNotNone ==
  ASSUME NEW a, NEW b, NEW c, NEW d
  PROVE  [own |-> a, req |-> b, tokens |-> c, value |-> d] # NoLogits
<1>1. "req" \in DOMAIN [own |-> a, req |-> b, tokens |-> c, value |-> d]
  OBVIOUS
<1>2. "req" \notin DOMAIN NoLogits
  BY DEF NoLogits
<1> QED BY <1>1, <1>2

(* A step that concerns master m only changes the images of m only.        *)
LEMMA ImageUpdate ==
  ASSUME NEW m \in Master,
         \A k \in Master \ {m} : mpc'[k] = mpc[k] /\ blk'[k] = blk[k] /\ hid'[k] = hid[k]
  PROVE  /\ phases' = [phases EXCEPT ![m] = Phase(m)']
         /\ lgts' = [lgts EXCEPT ![m] = Logits(m)']
<1>1. \A k \in Master \ {m} : Phase(k)' = Phase(k) /\ Logits(k)' = Logits(k)
  BY DEF Phase, Logits
<1>2. phases' = [k \in Master |-> Phase(k)'] /\ lgts' = [k \in Master |-> Logits(k)']
  BY DEF phases, lgts
<1>3. phases = [k \in Master |-> Phase(k)] /\ lgts = [k \in Master |-> Logits(k)]
  BY DEF phases, lgts
<1> QED BY <1>1, <1>2, <1>3

(* Steps the single machine does not see.                                  *)
LEMMA Stutter ==
  ASSUME NEW m \in Master,
         \A k \in Master \ {m} : mpc'[k] = mpc[k] /\ blk'[k] = blk[k] /\ hid'[k] = hid[k],
         Phase(m)' = Phase(m), Logits(m)' = Logits(m), UNCHANGED <<req, ntok, generated>>
  PROVE  UNCHANGED SM!avars
<1>1. phases' = phases /\ lgts' = lgts
  <2>1. phases[m] = Phase(m) /\ lgts[m] = Logits(m)
    BY DEF phases, lgts
  <2>2. /\ phases' = [phases EXCEPT ![m] = phases[m]]
        /\ lgts' = [lgts EXCEPT ![m] = lgts[m]]
    BY <2>1, ImageUpdate
  <2>3. [phases EXCEPT ![m] = phases[m]] = phases
    BY DEF phases
  <2>4. [lgts EXCEPT ![m] = lgts[m]] = lgts
    BY DEF lgts
  <2> QED BY <2>2, <2>3, <2>4
<1> QED BY <1>1 DEF SM!avars, phases, lgts

(* A request that ends without a token, for whatever reason.               *)
LEMMA EndStep ==
  ASSUME NEW m \in Master,
         \A k \in Master \ {m} : mpc'[k] = mpc[k] /\ blk'[k] = blk[k] /\ hid'[k] = hid[k],
         mpc[m] \in {"step", "forward", "wait"}, mpc'[m] = "idle",
         UNCHANGED <<req, ntok, generated>>
  PROVE  SM!End(m)
<1>1. Phase(m) = "busy" /\ Phase(m)' = "idle" /\ Logits(m)' = NoLogits
  BY DEF Phase, Logits
<1> QED BY <1>1, ImageUpdate DEF SM!End, phases, lgts

(* A master dies.                                                          *)
LEMMA DieStep ==
  ASSUME NEW m \in Master,
         \A k \in Master \ {m} : mpc'[k] = mpc[k] /\ blk'[k] = blk[k] /\ hid'[k] = hid[k],
         mpc[m] # "crashed", mpc'[m] = "crashed", UNCHANGED <<req, ntok, generated>>
  PROVE  SM!Die(m)
<1>1. Phase(m) # "dead" /\ Phase(m)' = "dead" /\ Logits(m)' = NoLogits
  BY DEF Phase, Logits
<1> QED BY <1>1, ImageUpdate DEF SM!Die, phases, lgts

(* A block or a reply moves the hidden state on: an invisible step, or the *)
(* logits are there, and SessionInv says that they are exact.              *)
LEMMA ForwardStep ==
  ASSUME NEW m \in Master,
         \A k \in Master \ {m} : mpc'[k] = mpc[k] /\ blk'[k] = blk[k] /\ hid'[k] = hid[k],
         TypeOK, TypeOK', SessionInv', PromptInv,
         mpc[m] \in {"forward", "wait"}, mpc'[m] = "forward",
         mpc[m] = "forward" => blk[m] < NumBlocks,
         UNCHANGED <<req, ntok, generated>>
  PROVE  SM!Compute(m) \/ UNCHANGED SM!avars
<1>1. Phase(m) = "busy" /\ Phase(m)' = "busy" /\ Logits(m) = NoLogits
  <2>1. mpc[m] = "forward" => blk[m] # NumBlocks
    BY ShapeAssumption DEF TypeOK
  <2> QED BY <2>1 DEF Phase, Logits
<1>2. CASE blk'[m] # NumBlocks
  BY <1>1, <1>2, Stutter DEF Logits
<1>3. CASE blk'[m] = NumBlocks
  <2>1. hid'[m] = Expected(m, blk[m])'
    BY DEF SessionInv, MasterInv
  <2>2. hid'[m] = [own |-> m, req |-> req[m], from |-> ContextIndex(m)',
                   len |-> ntok[m] - ContextIndex(m)', depth |-> blk'[m], value |-> "clean"]
    BY <2>1 DEF Expected, Clean
  <2>3. ContextIndex(m)' \in Int /\ ntok[m] \in Int
    BY DEF TypeOK, ContextIndex
  <2>4. Logits(m)' = [own |-> m, req |-> req[m], tokens |-> ntok[m], value |-> "clean"]
    BY <1>3, <2>2, <2>3 DEF Logits
  <2>5. ntok[m] > 0
    BY DEF PromptInv
  <2>6. phases' = phases
    <3>1. phases[m] = "busy" /\ phases' = [phases EXCEPT ![m] = "busy"]
      BY <1>1, ImageUpdate DEF phases
    <3> QED BY <3>1 DEF phases
  <2>7. lgts' = [lgts EXCEPT ![m] = Logits(m)']
    BY ImageUpdate
  <2> QED BY <1>1, <2>4, <2>5, <2>6, <2>7 DEF SM!Compute, SM!Exact, phases, lgts
<1> QED BY <1>2, <1>3

(* Between two steps of next_token nothing of a prompt is left over.       *)
LEMMA PromptInit == Init => PromptInv
  BY DEF Init, PromptInv

(* In a step the prompt is there, or the tokens of the steps before.       *)
LEMMA NextTokenTokens ==
  ASSUME TypeOK, SessionInv, NEW m \in Master, NextToken(m)
  PROVE  /\ ntok' = [ntok EXCEPT ![m] = ntok'[m]] /\ ntok'[m] > 0
         /\ generated[m] = 0 => ntok'[m] \in PromptLens
         /\ generated[m] # 0 => ntok' = ntok
<1>1. CASE generated[m] = 0
  <2>1. PICK n \in PromptLens : ntok' = [ntok EXCEPT ![m] = n]
    BY <1>1 DEF NextToken, StartDialog
  <2>2. n > 0 /\ ntok'[m] = n
    BY <2>1, ShapeAssumption DEF TypeOK
  <2> QED BY <1>1, <2>1, <2>2
<1>2. CASE generated[m] # 0
  <2>1. ntok' = ntok
    BY <1>2 DEF NextToken, StartDialog
  <2>2. Counters(m)
    BY DEF SessionInv, MasterInv, NextToken
  <2>3. index[m] > 0 /\ ntok[m] = index_pos[m] + 1
    BY <1>2, <2>2 DEF Counters, TypeOK
  <2>4. ntok[m] > 0
    BY <2>3 DEF TypeOK
  <2>5. [ntok EXCEPT ![m] = ntok[m]] = ntok
    BY DEF TypeOK
  <2> QED BY <1>2, <2>1, <2>4, <2>5
<1> QED BY <1>1, <1>2

(* Every step keeps PromptInv.                                             *)
LEMMA PromptNext ==
  ASSUME TypeOK, SessionInv, PromptInv, [Next]_vars
  PROVE  PromptInv'
<1> USE DEF gvars, mvars, wvars
<1>1. CASE UNCHANGED vars
  BY <1>1 DEF vars, PromptInv
<1>2. ASSUME NEW m \in Master, Start(m) \/ BeginChat(m) \/ MasterCrash(m)
      PROVE  PromptInv'
  <2>1. CASE Start(m)
    BY <2>1 DEF Start, PromptInv, TypeOK
  <2>2. CASE BeginChat(m)
    BY <2>2 DEF BeginChat, PromptInv, TypeOK
  <2>3. CASE MasterCrash(m)
    BY <2>3 DEF MasterCrash, PromptInv, TypeOK
  <2> QED BY <1>2, <2>1, <2>2, <2>3
<1>3. ASSUME NEW m \in Master, MasterStep(m)
      PROVE  PromptInv'
  <2>1. CASE LoadBlock(m)
    BY <2>1 DEF LoadBlock, PromptInv
  <2>2. CASE Loaded(m)
    BY <2>2 DEF Loaded, PromptInv, TypeOK
  <2>3. CASE NextToken(m)
    <3>1. /\ mpc' = [mpc EXCEPT ![m] = "forward"] /\ generated' = generated
          /\ ntok' = [ntok EXCEPT ![m] = ntok'[m]] /\ ntok'[m] > 0
      BY <2>3, NextTokenTokens DEF NextToken
    <3>2. \A k \in Master \ {m} : mpc'[k] = mpc[k] /\ ntok'[k] = ntok[k] /\ generated'[k] = generated[k]
      BY <3>1 DEF TypeOK
    <3>3. mpc'[m] = "forward"
      BY <3>1 DEF TypeOK
    <3> QED BY <3>1, <3>2, <3>3 DEF PromptInv
  <2>4. CASE PromptFails(m)
    BY <2>4 DEF PromptFails, PromptInv, TypeOK
  <2>5. CASE SampleLimit(m)
    BY <2>5 DEF SampleLimit, PromptInv, TypeOK
  <2>6. CASE LocalBlock(m)
    <3>1. mpc' = mpc \/ mpc' = [mpc EXCEPT ![m] = "idle"]
      BY <2>6 DEF LocalBlock
    <3>2. UNCHANGED <<ntok, generated>>
      BY <2>6 DEF LocalBlock
    <3> QED BY <3>1, <3>2 DEF PromptInv, TypeOK
  <2>7. CASE Sample(m)
    <3>1. CASE generated' = [generated EXCEPT ![m] = @ + 1]
      <4>1. /\ ntok' = [ntok EXCEPT ![m] = @ + 1]
            /\ mpc' = [mpc EXCEPT ![m] = "idle"] \/ mpc' = [mpc EXCEPT ![m] = "step"]
        BY <2>7, <3>1 DEF Sample, TypeOK
      <4> QED BY <3>1, <4>1 DEF PromptInv, TypeOK
    <3>2. CASE mpc' = [mpc EXCEPT ![m] = "idle"] /\ UNCHANGED <<generated, ntok>>
      BY <3>2 DEF PromptInv, TypeOK
    <3> QED BY <2>7, <3>1, <3>2 DEF Sample
  <2>8. ASSUME NEW a \in Addr, LinkStep(m, a)
        PROVE  PromptInv'
    <3>1. UNCHANGED <<ntok, generated>>
      BY <2>8 DEF LinkStep, Connect, ConnectRefused, Greeted, GreetingLost, SendBatch, SendFails,
                  ReceiveTensor, ReceiveError, ReceiveEof
    <3>2. \/ \E p \in {"greeting", "crashed", "loading", "idle"} : mpc' = [mpc EXCEPT ![m] = p]
          \/ mpc[m] \in {"forward", "wait"}
             /\ \E p \in {"forward", "wait"} : mpc' = [mpc EXCEPT ![m] = p]
      BY <2>8 DEF LinkStep, Connect, ConnectRefused, Greeted, GreetingLost, SendBatch, SendFails,
                  ReceiveTensor, ReceiveError, ReceiveEof
    <3> QED BY <3>1, <3>2 DEF PromptInv, TypeOK
  <2> QED BY <1>3, <2>1, <2>2, <2>3, <2>4, <2>5, <2>6, <2>7, <2>8 DEF MasterStep
<1>4. ASSUME NEW m \in Master, NEW a \in Addr, HandlerStep(m, a)
      PROVE  UNCHANGED mvars
  BY <1>4 DEF HandlerStep, HandleHello, HelloFails, ReceiveBatch, RejectBatch, ExecBlock, ExecFails,
              SendReply, ReplyFails, HandlerEof
<1>5. ASSUME NEW a \in Addr, WorkerCrash(a) \/ WorkerRestart(a)
      PROVE  UNCHANGED mvars
  BY <1>5 DEF WorkerCrash, WorkerRestart
<1>6. UNCHANGED mvars => PromptInv'
  BY DEF PromptInv
<1> QED BY <1>1, <1>2, <1>3, <1>4, <1>5, <1>6 DEF Next

(* The loading phase, requests that begin and masters that die.            *)
LEMMA RefineUser ==
  ASSUME TypeOK, NEW m \in Master, Start(m) \/ BeginChat(m) \/ MasterCrash(m)
  PROVE  [SM!Next]_SM!avars
<1> USE DEF gvars, wvars
<1>1. CASE Start(m)
  <2>1. \A k \in Master \ {m} : mpc'[k] = mpc[k] /\ blk'[k] = blk[k] /\ hid'[k] = hid[k]
    BY <1>1 DEF Start, TypeOK
  <2>2. mpc[m] = "off" /\ mpc'[m] = "loading" /\ UNCHANGED <<req, ntok, generated>>
    BY <1>1 DEF Start, TypeOK
  <2>3. Phase(m)' = Phase(m) /\ Logits(m)' = Logits(m)
    BY <2>2 DEF Phase, Logits
  <2> QED BY <2>1, <2>2, <2>3, Stutter
<1>2. CASE BeginChat(m)
  <2>1. \A k \in Master \ {m} : mpc'[k] = mpc[k] /\ blk'[k] = blk[k] /\ hid'[k] = hid[k]
    BY <1>2 DEF BeginChat, TypeOK
  <2>2. mpc[m] = "idle" /\ mpc'[m] = "step"
    BY <1>2 DEF BeginChat, TypeOK
  <2>3. Phase(m) = "idle" /\ Phase(m)' = "busy" /\ Logits(m) = NoLogits /\ Logits(m)' = NoLogits
    BY <2>2 DEF Phase, Logits
  <2>4. lgts' = lgts
    <3>1. lgts' = [lgts EXCEPT ![m] = NoLogits] /\ lgts[m] = NoLogits
      BY <2>1, <2>3, ImageUpdate DEF lgts
    <3> QED BY <3>1 DEF lgts
  <2>5. SM!Begin(m)
    BY <1>2, <2>1, <2>3, <2>4, ImageUpdate DEF SM!Begin, phases, lgts, BeginChat
  <2> QED BY <2>5 DEF SM!Next
<1>3. CASE MasterCrash(m)
  <2>1. \A k \in Master \ {m} : mpc'[k] = mpc[k] /\ blk'[k] = blk[k] /\ hid'[k] = hid[k]
    BY <1>3 DEF MasterCrash, TypeOK
  <2>2. mpc[m] # "crashed" /\ mpc'[m] = "crashed" /\ UNCHANGED <<req, ntok, generated>>
    BY <1>3 DEF MasterCrash, TypeOK
  <2> QED BY <2>1, <2>2, DieStep DEF SM!Next
<1> QED BY <1>1, <1>2, <1>3

(* The steps of next_token that involve no worker.                         *)
LEMMA RefineStep ==
  ASSUME TypeOK, TypeOK', SessionInv, SessionInv', PromptInv, NEW m \in Master,
         \/ LoadBlock(m) \/ Loaded(m)
         \/ NextToken(m) \/ PromptFails(m) \/ SampleLimit(m) \/ LocalBlock(m) \/ Sample(m)
  PROVE  [SM!Next]_SM!avars
<1> USE DEF gvars, wvars
<1>1. \A k \in Master \ {m} : mpc'[k] = mpc[k] /\ blk'[k] = blk[k] /\ hid'[k] = hid[k]
  <2>1. /\ mpc' = mpc \/ \E p : mpc' = [mpc EXCEPT ![m] = p]
        /\ blk' = blk \/ \E p : blk' = [blk EXCEPT ![m] = p]
        /\ hid' = hid \/ \E p : hid' = [hid EXCEPT ![m] = p]
    BY DEF LoadBlock, Loaded, NextToken, PromptFails, SampleLimit, LocalBlock, Sample
  <2> QED BY <2>1 DEF TypeOK
<1>2. CASE LoadBlock(m)
  <2>1. mpc[m] = "loading" /\ mpc'[m] = "loading" /\ UNCHANGED <<req, ntok, generated>>
    BY <1>2 DEF LoadBlock
  <2>2. Phase(m)' = Phase(m) /\ Logits(m)' = Logits(m)
    BY <2>1 DEF Phase, Logits
  <2> QED BY <1>1, <2>1, <2>2, Stutter
<1>3. CASE Loaded(m)
  <2>1. mpc[m] = "loading" /\ mpc'[m] = "idle"
    BY <1>3 DEF Loaded, TypeOK
  <2>2. Phase(m) = "down" /\ Phase(m)' = "idle" /\ Logits(m) = NoLogits /\ Logits(m)' = NoLogits
    BY <2>1 DEF Phase, Logits
  <2>3. lgts' = lgts
    <3>1. lgts' = [lgts EXCEPT ![m] = NoLogits] /\ lgts[m] = NoLogits
      BY <1>1, <2>2, ImageUpdate DEF lgts
    <3> QED BY <3>1 DEF lgts
  <2>4. SM!Load(m)
    BY <1>1, <1>3, <2>2, <2>3, ImageUpdate DEF SM!Load, phases, lgts, Loaded
  <2> QED BY <2>4 DEF SM!Next
<1>4. CASE NextToken(m)
  <2>1. mpc[m] = "step" /\ mpc'[m] = "forward" /\ blk'[m] = 0 /\ UNCHANGED <<req, generated>>
    BY <1>4 DEF NextToken, TypeOK
  <2>2. Phase(m) = "busy" /\ Phase(m)' = "busy" /\ Logits(m) = NoLogits /\ Logits(m)' = NoLogits
    BY <2>1, ShapeAssumption DEF Phase, Logits
  <2>3. phases' = phases /\ lgts' = lgts
    <3>1. /\ phases' = [phases EXCEPT ![m] = "busy"] /\ phases[m] = "busy"
          /\ lgts' = [lgts EXCEPT ![m] = NoLogits] /\ lgts[m] = NoLogits
      BY <1>1, <2>2, ImageUpdate DEF phases, lgts
    <3> QED BY <3>1 DEF phases, lgts
  <2>4. CASE generated[m] = 0
    <3>1. ntok[m] = 0 /\ generated[m] < SampleLen
      <4>1. Counters(m) /\ index[m] < SampleLen
        BY <1>4 DEF NextToken, SessionInv, MasterInv
      <4> QED BY <2>1, <2>4, <4>1 DEF PromptInv, Counters
    <3>2. \E n \in PromptLens : ntok' = [ntok EXCEPT ![m] = n]
      BY <1>4, <2>4 DEF NextToken, StartDialog
    <3>3. SM!Prompt(m)
      BY <2>1, <2>2, <2>3, <3>1, <3>2 DEF SM!Prompt, phases, lgts
    <3> QED BY <3>3 DEF SM!Next
  <2>5. CASE generated[m] # 0
    BY <1>4, <2>1, <2>3, <2>5, NextTokenTokens DEF SM!avars, phases, lgts
  <2> QED BY <2>4, <2>5
<1>5. CASE PromptFails(m)
  <2>1. mpc[m] = "step" /\ mpc'[m] = "idle" /\ UNCHANGED <<req, generated>>
    BY <1>5 DEF PromptFails, TypeOK
  <2>2. ntok' = ntok
    <3>1. ntok[m] = 0 /\ ntok' = [ntok EXCEPT ![m] = 0]
      BY <1>5 DEF PromptFails, PromptInv
    <3> QED BY <3>1 DEF TypeOK
  <2> QED BY <1>1, <2>1, <2>2, EndStep DEF SM!Next
<1>6. CASE SampleLimit(m)
  <2>1. mpc[m] = "step" /\ mpc'[m] = "idle" /\ UNCHANGED <<req, ntok, generated>>
    BY <1>6 DEF SampleLimit, TypeOK
  <2> QED BY <1>1, <2>1, EndStep DEF SM!Next
<1>7. CASE LocalBlock(m)
  <2>1. mpc[m] = "forward" /\ blk[m] < NumBlocks /\ UNCHANGED <<req, ntok, generated>>
    BY <1>7 DEF LocalBlock
  <2>2. mpc'[m] = "forward" \/ mpc'[m] = "idle"
    BY <1>7, <2>1 DEF LocalBlock, TypeOK
  <2> QED BY <1>1, <2>1, <2>2, ForwardStep, EndStep DEF SM!Next
<1>8. CASE Sample(m)
  <2>1. mpc[m] = "forward" /\ blk[m] = NumBlocks
    BY <1>8 DEF Sample
  <2>2. Phase(m) = "busy" /\ Logits(m) # NoLogits
    BY <2>1, LogitsNotNone DEF Phase, Logits
  <2>3. CASE generated' = [generated EXCEPT ![m] = @ + 1]
    <3>1. /\ ntok' = [ntok EXCEPT ![m] = @ + 1] /\ req' = req
          /\ mpc'[m] = "idle" \/ mpc'[m] = "step"
      BY <1>8, <2>3 DEF Sample, TypeOK
    <3>2. (Phase(m)' = "idle" \/ Phase(m)' = "busy") /\ Logits(m)' = NoLogits
      BY <3>1 DEF Phase, Logits
    <3>3. phases' = phases \/ phases' = [phases EXCEPT ![m] = "idle"]
      <4>1. phases' = [phases EXCEPT ![m] = Phase(m)'] /\ phases[m] = "busy"
        BY <1>1, <2>2, ImageUpdate DEF phases
      <4>2. [phases EXCEPT ![m] = phases[m]] = phases
        BY DEF phases
      <4> QED BY <3>2, <4>1, <4>2
    <3>4. lgts' = [lgts EXCEPT ![m] = NoLogits]
      BY <1>1, <3>2, ImageUpdate
    <3>5. SM!Sample(m)
      BY <2>2, <2>3, <3>1, <3>3, <3>4 DEF SM!Sample, phases, lgts
    <3> QED BY <3>5 DEF SM!Next
  <2>4. CASE mpc' = [mpc EXCEPT ![m] = "idle"] /\ UNCHANGED <<generated, ntok>>
    <3>1. mpc'[m] = "idle" /\ req' = req
      BY <1>8, <2>4 DEF Sample, TypeOK
    <3> QED BY <1>1, <2>1, <2>4, <3>1, EndStep DEF SM!Next
  <2> QED BY <1>8, <2>3, <2>4 DEF Sample
<1> QED BY <1>2, <1>3, <1>4, <1>5, <1>6, <1>7, <1>8

(* The steps of a master on one of its connections.                        *)
LEMMA RefineLink ==
  ASSUME TypeOK, TypeOK', SessionInv, SessionInv', PromptInv,
         NEW m \in Master, NEW a \in Addr, LinkStep(m, a)
  PROVE  [SM!Next]_SM!avars
<1> USE DEF gvars, wvars
<1>1. \A k \in Master \ {m} : mpc'[k] = mpc[k] /\ blk'[k] = blk[k] /\ hid'[k] = hid[k]
  <2>1. /\ mpc' = mpc \/ \E p : mpc' = [mpc EXCEPT ![m] = p]
        /\ blk' = blk \/ \E p : blk' = [blk EXCEPT ![m] = p]
        /\ hid' = hid \/ \E p : hid' = [hid EXCEPT ![m] = p]
    BY DEF LinkStep, Connect, ConnectRefused, Greeted, GreetingLost, SendBatch, SendFails,
           ReceiveTensor, ReceiveError, ReceiveEof
  <2> QED BY <2>1 DEF TypeOK
<1>2. UNCHANGED <<req, ntok, generated>>
  BY DEF LinkStep, Connect, ConnectRefused, Greeted, GreetingLost, SendBatch, SendFails,
         ReceiveTensor, ReceiveError, ReceiveEof
<1>3. \/ mpc[m] \in {"loading", "greeting"} /\ mpc'[m] \in {"loading", "greeting", "crashed"}
      \/ mpc[m] \in {"forward", "wait"} /\ mpc'[m] = "idle"
      \/ mpc[m] = "forward" /\ mpc'[m] = "wait" /\ blk[m] < NumBlocks
      \/ mpc[m] = "wait" /\ mpc'[m] = "forward"
  BY DEF LinkStep, Connect, ConnectRefused, Greeted, GreetingLost, SendBatch, SendFails,
         ReceiveTensor, ReceiveError, ReceiveEof, TypeOK
<1>4. CASE mpc[m] \in {"loading", "greeting"} /\ mpc'[m] \in {"loading", "greeting"}
  <2>1. Phase(m)' = Phase(m) /\ Logits(m)' = Logits(m)
    BY <1>4 DEF Phase, Logits
  <2> QED BY <1>1, <1>2, <2>1, Stutter
<1>5. CASE mpc[m] \in {"loading", "greeting"} /\ mpc'[m] = "crashed"
  BY <1>1, <1>2, <1>5, DieStep DEF SM!Next
<1>6. CASE mpc[m] \in {"forward", "wait"} /\ mpc'[m] = "idle"
  BY <1>1, <1>2, <1>6, EndStep DEF SM!Next
<1>7. CASE mpc[m] = "forward" /\ mpc'[m] = "wait" /\ blk[m] < NumBlocks
  <2>1. blk[m] # NumBlocks
    BY <1>7, ShapeAssumption DEF TypeOK
  <2>2. Phase(m)' = Phase(m) /\ Logits(m)' = Logits(m)
    BY <1>7, <2>1 DEF Phase, Logits
  <2> QED BY <1>1, <1>2, <2>2, Stutter
<1>8. CASE mpc[m] = "wait" /\ mpc'[m] = "forward"
  BY <1>1, <1>2, <1>8, ForwardStep DEF SM!Next
<1> QED BY <1>3, <1>4, <1>5, <1>6, <1>7, <1>8

(* Every step of the session is one of the single machine, or invisible.   *)
LEMMA RefineNext ==
  ASSUME TypeOK, TypeOK', SessionInv, SessionInv', PromptInv, [Next]_vars
  PROVE  [SM!Next]_SM!avars
<1>1. UNCHANGED mvars => UNCHANGED SM!avars
  BY DEF mvars, gvars, SM!avars, Phase, Logits
<1>2. CASE UNCHANGED vars
  BY <1>1, <1>2 DEF vars
<1>3. ASSUME NEW m \in Master, MasterStep(m)
      PROVE  [SM!Next]_SM!avars
  BY <1>3, RefineStep, RefineLink DEF MasterStep
<1>4. ASSUME NEW m \in Master, NEW a \in Addr, HandlerStep(m, a)
      PROVE  UNCHANGED mvars
  BY <1>4 DEF HandlerStep, HandleHello, HelloFails, ReceiveBatch, RejectBatch, ExecBlock, ExecFails,
              SendReply, ReplyFails, HandlerEof
<1>5. ASSUME NEW a \in Addr, WorkerCrash(a) \/ WorkerRestart(a)
      PROVE  UNCHANGED mvars
  BY <1>5 DEF WorkerCrash, WorkerRestart
<1> QED BY <1>1, <1>2, <1>3, <1>4, <1>5, RefineUser DEF Next

(* Before anything is loaded the single machine is down.                   *)
LEMMA RefineInit == Init => SM!Init
  BY DEF Init, SM!Init, Phase, Logits

(* One machine, seen from the user of a master: for any number of masters, *)
(* workers, blocks and tokens the session implements SingleMachine.        *)
THEOREM SessionRefines == Spec => ImplementsSingleMachine
<1>1. Init => PromptInv
  BY PromptInit
<1>2. TypeOK /\ SessionInv /\ PromptInv /\ [Next]_vars => PromptInv'
  BY PromptNext
<1>3. TypeOK /\ TypeOK' /\ SessionInv /\ SessionInv' /\ PromptInv /\ [Next]_vars
      => [SM!Next]_SM!avars
  BY RefineNext
<1> QED BY <1>1, <1>2, <1>3, RefineInit, SessionCorrect, PTL
        DEF Spec, ImplementsSingleMachine, SM!Spec

=============================================================================
