---------------------------- MODULE DialSession ----------------------------
(***************************************************************************)
(* The inference path of DIAL: master processes that generate tokens by    *)
(* sending hidden states through transformer blocks, some of them local,   *)
(* the others served by workers over one persistent TCP connection per     *)
(* (master process, worker address).  A worker runs one handler task per   *)
(* connection, with a KV cache of that connection's own.                   *)
(*                                                                         *)
(* Tensors are abstracted to what they were computed from: which master's  *)
(* request, which token positions, how many blocks were applied, and       *)
(* whether the value equals the one a single machine would compute.        *)
(***************************************************************************)
EXTENDS Integers, Sequences

CONSTANTS
  Master,       \* master processes; a restarted master is another element
  Addr,         \* worker addresses (topology hosts)
  Local,        \* owner of the blocks the topology gives to no node
  NumBlocks,    \* num_hidden_layers
  Owner,        \* Owner[b]: the address that serves block b, or Local
  Hosted,       \* Hosted[a]: the blocks the worker at a has loaded
  Encoding,     \* Encoding[a]: the request form negotiated with a
  MaxSeqLen,    \* config.max_seq_len
  SampleLen,    \* args.sample_len
  PromptLens,   \* token counts a dialog prompt may have
  MaxRequests   \* bound: chat requests per master process

Block == 0 .. NumBlocks - 1

ASSUME LocalAssumption == Local \notin Addr
ASSUME ShapeAssumption ==
  /\ NumBlocks \in Nat \ {0}
  /\ MaxSeqLen \in Nat /\ SampleLen \in Nat /\ MaxRequests \in Nat
  /\ PromptLens \subseteq Nat \ {0}
ASSUME PlacementAssumption ==
  /\ Owner \in [Block -> Addr \cup {Local}]
  /\ Hosted \in [Addr -> SUBSET Block]
  /\ Encoding \in [Addr -> {"batch", "compact", "range"}]

VARIABLES
  mpc,        \* master: off, loading, greeting, idle, step, forward, wait, crashed
  req,        \* number of chat requests begun
  ntok,       \* tokens.len()
  index,      \* loop variable of Master::generate
  generated,  \* Generator::generated_tokens
  index_pos,  \* LLama::index_pos
  blk,        \* block_idx of the forward loop (of the load loop while loading)
  hid,        \* the hidden state x of the forward loop
  lkv,        \* lkv[m][b]: KV rows of block b in the master's own cache
  up,         \* up[a]: the worker process at a is accepting
  hpc,        \* handler of a connection: none, hello, ready, exec, closed
  toWorker,   \* bytes in flight, one queue of messages per direction
  toMaster,
  job,        \* batch the handler executes: x, index_pos, next and last block
  wkv         \* wkv[m][a][b]: KV rows of block b in the connection's cache

gvars == <<req, ntok, index, generated, index_pos>>
mvars == <<mpc, gvars, blk, hid, lkv>>
wvars == <<up, hpc, toWorker, toMaster, job, wkv>>
vars  == <<mvars, wvars>>

----------------------------------------------------------------------------
(* Data.  A KV row records the master, the request and the token position  *)
(* it was computed from; Garbled stands for a row computed from a wrong    *)
(* input.                                                                  *)
Garbled == -1
Row     == Master \X Nat \X (Nat \cup {Garbled})
KV      == [Block -> Seq(Row)]

\* Variant: clear() drops the slots themselves instead of emptying them.
EmptyKV_NoSlots == [b \in {} |-> <<>>]

EmptyKV == [b \in Block |-> <<>>]

Hidden == [own : Master, req : Nat, from : Nat, len : Nat,
           depth : 0 .. NumBlocks, value : {"clean", "stale"}]

(* What a single machine computes after d blocks from `len` tokens at      *)
(* positions from, from + 1, ... of request r of master m.                 *)
Clean(m, r, from, len, d) ==
  [own |-> m, req |-> r, from |-> from, len |-> len, depth |-> d, value |-> "clean"]

(* The rows a KV cache must hold when n tokens of the request were seen.   *)
Context(m, r, n) == [i \in 1 .. n |-> <<m, r, i - 1>>]

Hello      == [kind |-> "Hello"]
WorkerInfo == [kind |-> "WorkerInfo"]
Error      == [kind |-> "Error"]
Tensor(x)  == [kind |-> "Tensor", x |-> x]
Batch(x, pos, first, last) ==
  [kind |-> "Batch", x |-> x, index_pos |-> pos, first |-> first, last |-> last]

----------------------------------------------------------------------------
(* One transformer block on hidden state x, as models/llama3 computes it.  *)

(* Input, block and rotary position fit together.                          *)
Fits(b, pos, x) == x.value = "clean" /\ x.depth = b /\ pos = x.from

Rows(b, pos, x) ==
  [i \in 1 .. x.len |->
     <<x.own, x.req, IF Fits(b, pos, x) THEN x.from + i - 1 ELSE Garbled>>]

KeepLast(s, n) == IF Len(s) > n THEN SubSeq(s, Len(s) - n + 1, Len(s)) ELSE s

\* Variant: no special case for position 0, the entry only ever grows.
process_kv_Appends(kv, b, pos, x) == KeepLast(kv \o Rows(b, pos, x), MaxSeqLen)

process_kv(kv, b, pos, x) ==
  IF pos = 0 THEN Rows(b, pos, x)
  ELSE IF kv = <<>> THEN Rows(b, pos, x)
  ELSE KeepLast(kv \o Rows(b, pos, x), MaxSeqLen)

(* cosine and sine narrow a table of max_seq_len rows.                     *)
RopeOk(pos, x) == pos + x.len <= MaxSeqLen

(* mask(seq_len) is seq_len by seq_len and must broadcast over the keys.   *)
MaskOk(rows, x) == x.len = 1 \/ Len(rows) = x.len

Attend(rows, b, pos, x) ==
  [x EXCEPT !.depth = b + 1,
            !.value = IF Fits(b, pos, x) /\ rows = Context(x.own, x.req, x.from + x.len)
                      THEN "clean" ELSE "stale"]

(* A block may fail before or after it updated its cache entry.            *)
RowsAfterFailure(kv, b, pos, x) ==
  {kv} \cup (IF RopeOk(pos, x) THEN {process_kv(kv, b, pos, x)} ELSE {})

----------------------------------------------------------------------------
(* Master: loading.  ClientPool opens one connection per distinct address. *)
Start(m) ==
  /\ mpc[m] = "off"
  /\ mpc' = [mpc EXCEPT ![m] = "loading"]
  /\ blk' = [blk EXCEPT ![m] = 0]
  /\ UNCHANGED <<gvars, hid, lkv, wvars>>

(* A local block, or one more view of a pooled connection.                 *)
LoadBlock(m) ==
  /\ mpc[m] = "loading" /\ blk[m] < NumBlocks
  /\ Owner[blk[m]] # Local => hpc[m][Owner[blk[m]]] # "none"
  /\ blk' = [blk EXCEPT ![m] = @ + 1]
  /\ UNCHANGED <<mpc, gvars, hid, lkv, wvars>>

Connect(m, a) ==
  /\ mpc[m] = "loading" /\ blk[m] < NumBlocks
  /\ Owner[blk[m]] = a /\ hpc[m][a] = "none"
  /\ up[a]
  /\ mpc' = [mpc EXCEPT ![m] = "greeting"]
  /\ hpc' = [hpc EXCEPT ![m][a] = "hello"]
  /\ toWorker' = [toWorker EXCEPT ![m][a] = Append(@, Hello)]
  /\ UNCHANGED <<gvars, blk, hid, lkv, up, toMaster, job, wkv>>

ConnectRefused(m, a) ==
  /\ mpc[m] = "loading" /\ blk[m] < NumBlocks
  /\ Owner[blk[m]] = a /\ hpc[m][a] = "none"
  /\ ~up[a]
  /\ mpc' = [mpc EXCEPT ![m] = "crashed"]
  /\ UNCHANGED <<gvars, blk, hid, lkv, wvars>>

Greeted(m, a) ==
  /\ mpc[m] = "greeting" /\ blk[m] < NumBlocks /\ Owner[blk[m]] = a
  /\ toMaster[m][a] # <<>> /\ Head(toMaster[m][a]).kind = "WorkerInfo"
  /\ toMaster' = [toMaster EXCEPT ![m][a] = Tail(@)]
  /\ mpc' = [mpc EXCEPT ![m] = "loading"]
  /\ blk' = [blk EXCEPT ![m] = @ + 1]
  /\ UNCHANGED <<gvars, hid, lkv, up, hpc, toWorker, job, wkv>>

GreetingLost(m, a) ==
  /\ mpc[m] = "greeting" /\ blk[m] < NumBlocks /\ Owner[blk[m]] = a
  /\ toMaster[m][a] = <<>> /\ hpc[m][a] = "closed"
  /\ mpc' = [mpc EXCEPT ![m] = "crashed"]
  /\ UNCHANGED <<gvars, blk, hid, lkv, wvars>>

Loaded(m) ==
  /\ mpc[m] = "loading" /\ blk[m] = NumBlocks
  /\ mpc' = [mpc EXCEPT ![m] = "idle"]
  /\ UNCHANGED <<gvars, blk, hid, lkv, wvars>>

----------------------------------------------------------------------------
(* Master: one chat request, under the write lock of the API state.        *)
\* Variant: reset() forgets generated, so no prompt is prefilled.
BeginChat_KeepsGenerated(m) ==
  /\ mpc[m] = "idle" /\ req[m] < MaxRequests
  /\ mpc' = [mpc EXCEPT ![m] = "step"]
  /\ req' = [req EXCEPT ![m] = @ + 1]
  /\ ntok' = [ntok EXCEPT ![m] = 0]
  /\ index' = [index EXCEPT ![m] = 0]
  /\ index_pos' = [index_pos EXCEPT ![m] = 0]
  /\ lkv' = [lkv EXCEPT ![m] = EmptyKV]
  /\ UNCHANGED <<generated, blk, hid, wvars>>

BeginChat(m) ==
  /\ mpc[m] = "idle" /\ req[m] < MaxRequests
  /\ mpc' = [mpc EXCEPT ![m] = "step"]
  /\ req' = [req EXCEPT ![m] = @ + 1]
  /\ ntok' = [ntok EXCEPT ![m] = 0]
  /\ index' = [index EXCEPT ![m] = 0]
  /\ generated' = [generated EXCEPT ![m] = 0]
  /\ index_pos' = [index_pos EXCEPT ![m] = 0]
  /\ lkv' = [lkv EXCEPT ![m] = EmptyKV]
  /\ UNCHANGED <<blk, hid, wvars>>

(* Tokens and cache after start_dialog_prompt, which next_token calls when *)
(* nothing was generated yet.                                              *)
StartDialog(m) ==
  IF generated[m] = 0
  THEN /\ \E n \in PromptLens : ntok' = [ntok EXCEPT ![m] = n]
       /\ lkv' = [lkv EXCEPT ![m] = EmptyKV]
       /\ index_pos' = [index_pos EXCEPT ![m] = 0]
  ELSE UNCHANGED <<ntok, lkv, index_pos>>

(* context_offset and context_index of next_token: the last token only,    *)
(* once something was generated.                                           *)
ContextOffset(m, tokens) == IF index[m] = 0 \/ tokens = 0 THEN 0 ELSE tokens - 1

\* Variant: the number of generated tokens is taken for the position.
ContextIndex_Generated(m) == generated[m]

ContextIndex(m) == IF index[m] > 0 THEN index_pos[m] ELSE 0

NextToken(m) ==
  /\ mpc[m] = "step" /\ index[m] < SampleLen
  /\ StartDialog(m)
  /\ LET offset == ContextOffset(m, ntok'[m])
     IN  hid' = [hid EXCEPT ![m] = Clean(m, req[m], offset, ntok'[m] - offset, 0)]
  /\ blk' = [blk EXCEPT ![m] = 0]
  /\ mpc' = [mpc EXCEPT ![m] = "forward"]
  /\ UNCHANGED <<req, index, generated, wvars>>

(* The dialog cannot be encoded or tokenized; tokens and cache are cleared *)
(* by then.                                                                *)
PromptFails(m) ==
  /\ mpc[m] = "step" /\ index[m] < SampleLen /\ generated[m] = 0
  /\ ntok' = [ntok EXCEPT ![m] = 0]
  /\ lkv' = [lkv EXCEPT ![m] = EmptyKV]
  /\ index_pos' = [index_pos EXCEPT ![m] = 0]
  /\ mpc' = [mpc EXCEPT ![m] = "idle"]
  /\ UNCHANGED <<req, index, generated, blk, hid, wvars>>

SampleLimit(m) ==
  /\ mpc[m] = "step" /\ index[m] = SampleLen
  /\ mpc' = [mpc EXCEPT ![m] = "idle"]
  /\ UNCHANGED <<gvars, blk, hid, lkv, wvars>>

LocalBlock(m) ==
  /\ mpc[m] = "forward" /\ blk[m] < NumBlocks /\ Owner[blk[m]] = Local
  /\ LET b    == blk[m]
         pos  == ContextIndex(m)
         rows == process_kv(lkv[m][b], b, pos, hid[m])
     IN  \/ /\ RopeOk(pos, hid[m]) /\ MaskOk(rows, hid[m])
            /\ lkv' = [lkv EXCEPT ![m][b] = rows]
            /\ hid' = [hid EXCEPT ![m] = Attend(rows, b, pos, @)]
            /\ blk' = [blk EXCEPT ![m] = b + 1]
            /\ UNCHANGED mpc
         \/ /\ \E kv \in RowsAfterFailure(lkv[m][b], b, pos, hid[m]) :
                 lkv' = [lkv EXCEPT ![m][b] = kv]
            /\ mpc' = [mpc EXCEPT ![m] = "idle"]
            /\ UNCHANGED <<hid, blk>>
  /\ UNCHANGED <<gvars, wvars>>

(* first .. last are all the contiguous blocks with the owner of first.    *)
GroupOf(first, last) ==
  /\ last \in first .. NumBlocks - 1
  /\ \A b \in first .. last : Owner[b] = Owner[first]
  /\ last + 1 < NumBlocks => Owner[last + 1] # Owner[first]

SendBatch(m, a) ==
  /\ mpc[m] = "forward" /\ blk[m] < NumBlocks /\ Owner[blk[m]] = a
  /\ hpc[m][a] # "closed"
  /\ \E last \in Block :
       /\ GroupOf(blk[m], last)
       /\ toWorker' = [toWorker EXCEPT ![m][a] =
                         Append(@, Batch(hid[m], ContextIndex(m), blk[m], last))]
       /\ blk' = [blk EXCEPT ![m] = last + 1]
  /\ mpc' = [mpc EXCEPT ![m] = "wait"]
  /\ UNCHANGED <<gvars, hid, lkv, up, hpc, toMaster, job, wkv>>

(* The message is too large and nothing is written, the write fails, or    *)
(* the read that follows it meets the end of the stream.                   *)
SendFails(m, a) ==
  /\ mpc[m] = "forward" /\ blk[m] < NumBlocks /\ Owner[blk[m]] = a
  /\ mpc' = [mpc EXCEPT ![m] = "idle"]
  /\ UNCHANGED <<gvars, blk, hid, lkv, wvars>>

ReceiveTensor(m, a) ==
  /\ mpc[m] = "wait" /\ Owner[blk[m] - 1] = a
  /\ toMaster[m][a] # <<>> /\ Head(toMaster[m][a]).kind = "Tensor"
  /\ \/ /\ hid' = [hid EXCEPT ![m] = Head(toMaster[m][a]).x]
        /\ mpc' = [mpc EXCEPT ![m] = "forward"]
     \/ /\ mpc' = [mpc EXCEPT ![m] = "idle"]      \* to_tensor fails
        /\ UNCHANGED hid
  /\ toMaster' = [toMaster EXCEPT ![m][a] = Tail(@)]
  /\ UNCHANGED <<gvars, blk, lkv, up, hpc, toWorker, job, wkv>>

\* Variant: the master stops waiting but keeps the connection.
ReceiveError_GivesUp(m, a) ==
  /\ mpc[m] = "wait" /\ Owner[blk[m] - 1] = a
  /\ mpc' = [mpc EXCEPT ![m] = "idle"]
  /\ UNCHANGED <<gvars, blk, hid, lkv, wvars>>

ReceiveError(m, a) ==
  /\ mpc[m] = "wait" /\ Owner[blk[m] - 1] = a
  /\ toMaster[m][a] # <<>> /\ Head(toMaster[m][a]).kind = "Error"
  /\ toMaster' = [toMaster EXCEPT ![m][a] = Tail(@)]
  /\ mpc' = [mpc EXCEPT ![m] = "idle"]
  /\ UNCHANGED <<gvars, blk, hid, lkv, up, hpc, toWorker, job, wkv>>

ReceiveEof(m, a) ==
  /\ mpc[m] = "wait" /\ Owner[blk[m] - 1] = a
  /\ toMaster[m][a] = <<>> /\ hpc[m][a] = "closed"
  /\ mpc' = [mpc EXCEPT ![m] = "idle"]
  /\ UNCHANGED <<gvars, blk, hid, lkv, wvars>>

(* Output head and sampling; the end-of-stream token ends the request, and *)
(* so does an error before or after index_pos was advanced.                *)
Sample(m) ==
  /\ mpc[m] = "forward" /\ blk[m] = NumBlocks
  /\ \/ /\ index_pos' = [index_pos EXCEPT ![m] = @ + hid[m].len]
        /\ generated' = [generated EXCEPT ![m] = @ + 1]
        /\ ntok' = [ntok EXCEPT ![m] = @ + 1]
        /\ \/ mpc' = [mpc EXCEPT ![m] = "idle"] /\ UNCHANGED index
           \/ /\ mpc' = [mpc EXCEPT ![m] = "step"]
              /\ index' = [index EXCEPT ![m] = @ + 1]
     \/ /\ \/ index_pos' = [index_pos EXCEPT ![m] = @ + hid[m].len]
           \/ UNCHANGED index_pos
        /\ mpc' = [mpc EXCEPT ![m] = "idle"]
        /\ UNCHANGED <<generated, ntok, index>>
  /\ UNCHANGED <<req, blk, hid, lkv, wvars>>

(* The process dies; what it wrote may still reach the worker.             *)
MasterCrash(m) ==
  /\ mpc[m] \notin {"off", "crashed"}
  /\ mpc' = [mpc EXCEPT ![m] = "crashed"]
  /\ toMaster' = [toMaster EXCEPT ![m] = [a \in Addr |-> <<>>]]
  /\ UNCHANGED <<gvars, blk, hid, lkv, up, hpc, toWorker, job, wkv>>

----------------------------------------------------------------------------
(* Worker: handle_master_client, one task per connection.                  *)

(* The handler returns: the socket and the connection's context go away.   *)
Closed(m, a) ==
  /\ hpc' = [hpc EXCEPT ![m][a] = "closed"]
  /\ toWorker' = [toWorker EXCEPT ![m][a] = <<>>]
  /\ wkv' = [wkv EXCEPT ![m][a] = EmptyKV]

\* Variant: an error is logged and not sent.
Reply_LogsErrors(m, a, msg) ==
  toMaster' = [toMaster EXCEPT ![m][a] =
                 IF mpc[m] = "crashed" \/ msg = Error THEN @ ELSE Append(@, msg)]

Reply(m, a, msg) ==
  toMaster' = [toMaster EXCEPT ![m][a] = IF mpc[m] = "crashed" THEN @ ELSE Append(@, msg)]

HandleHello(m, a) ==
  /\ hpc[m][a] = "hello" /\ toWorker[m][a] # <<>>
  /\ toWorker' = [toWorker EXCEPT ![m][a] = Tail(@)]
  /\ Reply(m, a, WorkerInfo)
  /\ hpc' = [hpc EXCEPT ![m][a] = "ready"]
  /\ UNCHANGED <<mvars, up, job, wkv>>

(* The first message cannot be read, or the answer not written: the        *)
(* handler returns.                                                        *)
HelloFails(m, a) ==
  /\ hpc[m][a] = "hello" /\ toWorker[m][a] # <<>>
  /\ Closed(m, a)
  /\ UNCHANGED <<mvars, up, toMaster, job>>

\* Variant: the handlers of a worker share the cache of the base context.
CacheWith_Shared(m, a, b, rows) == [k \in Master |-> [wkv[k] EXCEPT ![a][b] = rows]]

(* Every connection writes to the cache its own get_client_context made.   *)
CacheWith(m, a, b, rows) == [wkv EXCEPT ![m][a][b] = rows]

(* expand_compact_range_batch looks every block up before anything runs;   *)
(* the other two forms carry or derive names and are looked up on the way. *)
Expands(a, msg) == Encoding[a] = "range" => msg.first .. msg.last \subseteq Hosted[a]

ReceiveBatch(m, a) ==
  /\ hpc[m][a] = "ready" /\ toWorker[m][a] # <<>>
  /\ LET msg == Head(toWorker[m][a])
     IN  /\ msg.kind = "Batch" /\ Expands(a, msg)
         /\ job' = [job EXCEPT ![m][a] = [x |-> msg.x, index_pos |-> msg.index_pos,
                                          next |-> msg.first, last |-> msg.last]]
  /\ toWorker' = [toWorker EXCEPT ![m][a] = Tail(@)]
  /\ hpc' = [hpc EXCEPT ![m][a] = "exec"]
  /\ UNCHANGED <<mvars, up, toMaster, wkv>>

(* Expansion or tensor decoding fails: the `?` operator leaves the handler *)
(* without an Error message.                                               *)
RejectBatch(m, a) ==
  /\ hpc[m][a] = "ready" /\ toWorker[m][a] # <<>>
  /\ Closed(m, a)
  /\ UNCHANGED <<mvars, up, toMaster, job>>

ExecBlock(m, a) ==
  /\ hpc[m][a] = "exec" /\ job[m][a].next <= job[m][a].last
  /\ job[m][a].next \in Hosted[a]
  /\ LET b    == job[m][a].next
         x    == job[m][a].x
         pos  == job[m][a].index_pos
         rows == process_kv(wkv[m][a][b], b, pos, x)
     IN  /\ RopeOk(pos, x) /\ MaskOk(rows, x)
         /\ wkv' = CacheWith(m, a, b, rows)
         /\ job' = [job EXCEPT ![m][a].x = Attend(rows, b, pos, x),
                               ![m][a].next = b + 1]
  /\ UNCHANGED <<mvars, up, hpc, toWorker, toMaster>>

\* Variant: without `continue` the Error message is followed by a Tensor.
ExecFails_NoContinue(m, a) ==
  /\ hpc[m][a] = "exec" /\ job[m][a].next <= job[m][a].last
  /\ Reply(m, a, Error)
  /\ job' = [job EXCEPT ![m][a].next = job[m][a].last + 1]
  /\ UNCHANGED <<mvars, up, hpc, toWorker, wkv>>

(* A missing layer, or a block that fails: the rest of the batch is        *)
(* skipped and the connection goes on after an Error message.              *)
ExecFails(m, a) ==
  /\ hpc[m][a] = "exec" /\ job[m][a].next <= job[m][a].last
  /\ LET b == job[m][a].next
     IN  \E kv \in IF b \in Hosted[a]
                   THEN RowsAfterFailure(wkv[m][a][b], b, job[m][a].index_pos, job[m][a].x)
                   ELSE {wkv[m][a][b]} :
           wkv' = CacheWith(m, a, b, kv)
  /\ Reply(m, a, Error)
  /\ hpc' = [hpc EXCEPT ![m][a] = "ready"]
  /\ UNCHANGED <<mvars, up, toWorker, job>>

SendReply(m, a) ==
  /\ hpc[m][a] = "exec" /\ job[m][a].next > job[m][a].last
  /\ Reply(m, a, Tensor(job[m][a].x))
  /\ hpc' = [hpc EXCEPT ![m][a] = "ready"]
  /\ UNCHANGED <<mvars, up, toWorker, job, wkv>>

(* Output head, encoding or the write fails: again `?`.                    *)
ReplyFails(m, a) ==
  /\ hpc[m][a] = "exec" /\ job[m][a].next > job[m][a].last
  /\ Closed(m, a)
  /\ UNCHANGED <<mvars, up, toMaster, job>>

HandlerEof(m, a) ==
  /\ mpc[m] = "crashed" /\ hpc[m][a] \in {"hello", "ready"} /\ toWorker[m][a] = <<>>
  /\ Closed(m, a)
  /\ UNCHANGED <<mvars, up, toMaster, job>>

(* The worker process dies with all its connections; replies already       *)
(* written to the network may or may not arrive.                           *)
WorkerCrash(a) ==
  /\ up[a]
  /\ up' = [up EXCEPT ![a] = FALSE]
  /\ hpc' = [m \in Master |-> [hpc[m] EXCEPT ![a] = IF @ = "none" THEN @ ELSE "closed"]]
  /\ toWorker' = [m \in Master |-> [toWorker[m] EXCEPT ![a] = <<>>]]
  /\ \E lost \in SUBSET Master :
       toMaster' = [m \in Master |-> [toMaster[m] EXCEPT ![a] = IF m \in lost THEN <<>> ELSE @]]
  /\ wkv' = [m \in Master |-> [wkv[m] EXCEPT ![a] = EmptyKV]]
  /\ UNCHANGED <<mvars, job>>

WorkerRestart(a) ==
  /\ ~up[a]
  /\ up' = [up EXCEPT ![a] = TRUE]
  /\ UNCHANGED <<mvars, hpc, toWorker, toMaster, job, wkv>>

----------------------------------------------------------------------------
Init ==
  /\ mpc = [m \in Master |-> "off"]
  /\ req = [m \in Master |-> 0]
  /\ ntok = [m \in Master |-> 0]
  /\ index = [m \in Master |-> 0]
  /\ generated = [m \in Master |-> 0]
  /\ index_pos = [m \in Master |-> 0]
  /\ blk = [m \in Master |-> 0]
  /\ hid = [m \in Master |-> Clean(m, 0, 0, 0, 0)]
  /\ lkv = [m \in Master |-> EmptyKV]
  /\ up = [a \in Addr |-> TRUE]
  /\ hpc = [m \in Master |-> [a \in Addr |-> "none"]]
  /\ toWorker = [m \in Master |-> [a \in Addr |-> <<>>]]
  /\ toMaster = [m \in Master |-> [a \in Addr |-> <<>>]]
  /\ job = [m \in Master |-> [a \in Addr |->
              [x |-> Clean(m, 0, 0, 0, 0), index_pos |-> 0, next |-> 0, last |-> 0]]]
  /\ wkv = [m \in Master |-> [a \in Addr |-> EmptyKV]]

LinkStep(m, a) ==
  \/ Connect(m, a) \/ ConnectRefused(m, a)
  \/ Greeted(m, a) \/ GreetingLost(m, a)
  \/ SendBatch(m, a) \/ SendFails(m, a)
  \/ ReceiveTensor(m, a) \/ ReceiveError(m, a) \/ ReceiveEof(m, a)

MasterStep(m) ==
  \/ LoadBlock(m) \/ Loaded(m)
  \/ NextToken(m) \/ PromptFails(m) \/ SampleLimit(m) \/ LocalBlock(m) \/ Sample(m)
  \/ \E a \in Addr : LinkStep(m, a)

HandlerStep(m, a) ==
  \/ HandleHello(m, a) \/ HelloFails(m, a) \/ ReceiveBatch(m, a) \/ RejectBatch(m, a)
  \/ ExecBlock(m, a) \/ ExecFails(m, a)
  \/ SendReply(m, a) \/ ReplyFails(m, a) \/ HandlerEof(m, a)

Next ==
  \/ \E m \in Master :
       \/ Start(m) \/ BeginChat(m) \/ MasterCrash(m)
       \/ MasterStep(m)
       \/ \E a \in Addr : HandlerStep(m, a)
  \/ \E a \in Addr : WorkerCrash(a) \/ WorkerRestart(a)

Spec == Init /\ [][Next]_vars

(* A master in a request and a handler task that can run are polled again  *)
(* by the tokio scheduler; users, crashes and restarts owe nothing.        *)
Fairness ==
  /\ \A m \in Master : WF_vars(MasterStep(m))
  /\ \A m \in Master, a \in Addr : WF_vars(HandlerStep(m, a))

FairSpec == Spec /\ Fairness

----------------------------------------------------------------------------
Message == {Hello, WorkerInfo, Error} \cup [kind : {"Tensor"}, x : Hidden]
           \cup [kind : {"Batch"}, x : Hidden, index_pos : Nat, first : Block, last : Block]

Job == [x : Hidden, index_pos : Nat, next : 0 .. NumBlocks, last : Block]

(* Types of all variables (fields of Master, LLama, Cache, ClientConnection *)
(* and the locals of handle_master_client).                                *)
TypeOK ==
  /\ mpc \in [Master -> {"off", "loading", "greeting", "idle", "step", "forward",
                         "wait", "crashed"}]
  /\ req \in [Master -> Nat]
  /\ ntok \in [Master -> Nat]
  /\ index \in [Master -> Nat]
  /\ generated \in [Master -> Nat]
  /\ index_pos \in [Master -> Nat]
  /\ blk \in [Master -> 0 .. NumBlocks]
  /\ hid \in [Master -> Hidden]
  /\ lkv \in [Master -> KV]
  /\ up \in [Addr -> BOOLEAN]
  /\ hpc \in [Master -> [Addr -> {"none", "hello", "ready", "exec", "closed"}]]
  /\ toWorker \in [Master -> [Addr -> Seq(Message)]]
  /\ toMaster \in [Master -> [Addr -> Seq(Message)]]
  /\ job \in [Master -> [Addr -> Job]]
  /\ wkv \in [Master -> [Addr -> KV]]

(* The logits a token is sampled from are those of a single machine that   *)
(* saw exactly the tokens of this request so far: no row of an earlier     *)
(* request, of another master or of an abandoned batch ever enters the     *)
(* attention of any block on any worker (LLama::forward, process_kv).      *)
ExactLogits ==
  \A m \in Master :
    mpc[m] = "forward" /\ blk[m] = NumBlocks =>
      /\ hid[m].from + hid[m].len = ntok[m]
      /\ hid[m] = Clean(m, req[m], hid[m].from, hid[m].len, NumBlocks)

(* A tensor the master is about to read answers the batch it just wrote:   *)
(* Client::request pairs requests and responses only by their order on the *)
(* stream, so one reply too many or too few would shift all later ones.    *)
ReplyMatchesRequest ==
  \A m \in Master, a \in Addr :
    mpc[m] = "wait" /\ Owner[blk[m] - 1] = a /\ toMaster[m][a] # <<>> =>
      LET reply == Head(toMaster[m][a])
      IN  /\ Tail(toMaster[m][a]) = <<>>
          /\ reply.kind \in {"Tensor", "Error"}
          /\ reply.kind = "Tensor" =>
               /\ reply.x.own = m /\ reply.x.req = req[m]
               /\ reply.x.from + reply.x.len = ntok[m]
               /\ reply.x.depth = blk[m]

(* Whenever the master is not waiting for a reply its connections are      *)
(* quiet: nothing is under way in either direction and no handler is still *)
(* working for it, also after an Error reply or a failed local block       *)
(* (worker.rs `continue`, Client::request under the connection mutex).     *)
QuietBetweenRequests ==
  \A m \in Master, a \in Addr :
    mpc[m] \notin {"greeting", "wait", "crashed"} =>
      /\ toWorker[m][a] = <<>> /\ toMaster[m][a] = <<>>
      /\ hpc[m][a] \in {"none", "ready", "closed"}

(* Rows of block b, wherever it is served.                                 *)
CachedRows(m, b) == IF Owner[b] = Local THEN lkv[m][b] ELSE wkv[m][Owner[b]][b]
Reachable(m, b)  == Owner[b] = Local \/ hpc[m][Owner[b]] # "closed"

(* Between two tokens all shards of the distributed cache agree: every     *)
(* block that can still be reached holds one row per committed token of    *)
(* this request, in order, and no other row.                               *)
ShardsAgree ==
  \A m \in Master : mpc[m] = "step" /\ index[m] > 0 =>
    \A b \in Block : Reachable(m, b) => CachedRows(m, b) = Context(m, req[m], index_pos[m])

(***************************************************************************)
(* The inductive invariant behind ExactLogits, ShardsAgree,                *)
(* ReplyMatchesRequest and QuietBetweenRequests.                           *)
(***************************************************************************)

(* The value the forward loop of m must carry after d blocks.              *)
Expected(m, d) == Clean(m, req[m], ContextIndex(m), ntok[m] - ContextIndex(m), d)

(* Blocks below f have seen all tokens, the others those before this step. *)
RowsUpTo(m, f) ==
  \A b \in Block : Reachable(m, b) =>
    IF b < f THEN CachedRows(m, b) = Context(m, req[m], ntok[m])
    ELSE index[m] > 0 => CachedRows(m, b) = Context(m, req[m], index_pos[m])

Counters(m) ==
  /\ generated[m] = index[m]
  /\ index[m] > 0 => ntok[m] = index_pos[m] + 1
  /\ index[m] = 0 /\ mpc[m] # "step" => index_pos[m] = 0

Quiet(m, a) ==
  /\ toWorker[m][a] = <<>> /\ toMaster[m][a] = <<>>
  /\ hpc[m][a] \in {"none", "ready", "closed"}

Greeting(m, a) ==
  \/ toWorker[m][a] = <<Hello>> /\ toMaster[m][a] = <<>> /\ hpc[m][a] = "hello"
  \/ /\ toWorker[m][a] = <<>> /\ hpc[m][a] \in {"ready", "closed"}
     /\ toMaster[m][a] = <<WorkerInfo>>
  \/ toWorker[m][a] = <<>> /\ toMaster[m][a] = <<>> /\ hpc[m][a] = "closed"

(* The batch that ends with block blk[m] - 1 travels, runs, or is answered. *)
BatchSent(m, a) ==
  /\ hpc[m][a] = "ready" /\ toMaster[m][a] = <<>>
  /\ \E first \in Block :
       /\ first <= blk[m] - 1
       /\ \A b \in first .. blk[m] - 1 : Owner[b] = a
       /\ toWorker[m][a] =
            <<Batch(Expected(m, first), ContextIndex(m), first, blk[m] - 1)>>
       /\ RowsUpTo(m, first)

BatchRuns(m, a) ==
  /\ hpc[m][a] = "exec" /\ toWorker[m][a] = <<>> /\ toMaster[m][a] = <<>>
  /\ job[m][a].last = blk[m] - 1 /\ job[m][a].next <= blk[m]
  /\ \A b \in job[m][a].next .. blk[m] - 1 : Owner[b] = a
  /\ job[m][a].x = Expected(m, job[m][a].next)
  /\ job[m][a].index_pos = ContextIndex(m)
  /\ RowsUpTo(m, job[m][a].next)

BatchAnswered(m, a) ==
  /\ hpc[m][a] \in {"ready", "closed"} /\ toWorker[m][a] = <<>>
  /\ \/ toMaster[m][a] = <<Tensor(Expected(m, blk[m]))>> /\ RowsUpTo(m, blk[m])
     \/ toMaster[m][a] = <<Error>>
     \/ toMaster[m][a] = <<>> /\ hpc[m][a] = "closed"

Connected(m, n) ==
  \A b \in Block : b < n /\ Owner[b] # Local => hpc[m][Owner[b]] # "none"

MasterInv(m) ==
  /\ mpc[m] \notin {"greeting", "wait", "crashed"} => \A a \in Addr : Quiet(m, a)
  /\ mpc[m] \in {"loading", "greeting"} => Connected(m, blk[m])
  /\ mpc[m] \in {"idle", "step", "forward", "wait"} => Connected(m, NumBlocks)
  /\ mpc[m] = "greeting" =>
       /\ blk[m] < NumBlocks /\ Owner[blk[m]] \in Addr
       /\ Greeting(m, Owner[blk[m]])
       /\ \A a \in Addr \ {Owner[blk[m]]} : Quiet(m, a)
  /\ mpc[m] \in {"step", "forward", "wait"} => Counters(m)
  /\ mpc[m] = "step" /\ index[m] > 0 => RowsUpTo(m, 0)
  /\ mpc[m] = "forward" => hid[m] = Expected(m, blk[m]) /\ RowsUpTo(m, blk[m])
  /\ mpc[m] = "wait" =>
       /\ blk[m] > 0 /\ Owner[blk[m] - 1] \in Addr
       /\ LET a == Owner[blk[m] - 1]
          IN  BatchSent(m, a) \/ BatchRuns(m, a) \/ BatchAnswered(m, a)
       /\ \A a \in Addr \ {Owner[blk[m] - 1]} : Quiet(m, a)

(* At any moment at most one batch of a master is under way, its hidden    *)
(* state is the one a single machine would have there, and every reachable *)
(* cache is exactly one step behind or up to date.                         *)
SessionInv == \A m \in Master : MasterInv(m)

(* A chat request always comes to an end (answer, error, or the death of   *)
(* the master), whatever workers crash meanwhile: the API write lock is    *)
(* released again.                                                         *)
RequestEnds ==
  \A m \in Master :
    mpc[m] \in {"step", "forward", "wait"} ~> mpc[m] \in {"idle", "crashed"}

(* What message.rs and worker.rs promise: a failure on a running worker is *)
(* reported by an Error message on a connection that goes on, so a master  *)
(* never meets the end of the stream of a worker that did not die.         *)
NoSilentClose ==
  [][\A m \in Master, a \in Addr :
       /\ mpc[m] = "wait" /\ hpc[m][a] # "closed" /\ up'[a]
       => hpc'[m][a] # "closed"]_vars
============================================================================
