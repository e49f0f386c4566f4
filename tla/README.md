# Verification of the DIAL distributed inference engine

DIAL runs a large language model on several machines. A *master* owns the
tokenizer, the embedding, the output head and the blocks no other node serves;
*workers* serve the remaining transformer blocks over TCP. Every generated token
is one pass of a hidden state through all blocks, in order, across machines, and
every block keeps the key/value rows of the tokens it has seen. The output is
right only if all those caches, which live in different processes and survive
from one chat request to the next, stay in step. That is the core of the system
and of this project.

## 1. Inventory

Paths are below `src/dial-core/src` unless they start with `src/`.

| component | source | state | operations |
|---|---|---|---|
| Llama generator | `models/llama3/llama.rs`, `spm/master.rs` | tokens, history, `index_pos`, `generated`, own KV cache, list of blocks | `load`, `reset`, `next_token` (`start_dialog_prompt`, `forward`), `Master::generate` |
| Client, pool | `spm/client.rs` | one stream per worker address behind a mutex, negotiated request form | `client_for_layer`, `Client::new`, `request`, `forward_batch`, `probe_worker` |
| Worker handler | `spm/worker.rs` | loaded blocks (shared), per-connection context with its own cache | accept, handshake, read op, expand compact forms, execute, reply, `Error`, close |
| KV cache | `models/llama3/cache.rs`, `attention.rs`, `transformer.rs` | rows per block, rotary tables, masks | `process_kv`, `process_kv_decode_in_place`, `clear`, `as_new`, GGML reuse |
| Protocol | `spm/proto/message.rs` | transfer limiter slot | framing, size limit, bandwidth limiter |
| HTTP API | `spm/api/mod.rs` | `RwLock<Master>`, profile of the process | chat (streaming or not), topology status |
| Topology, layer specs | `spm/topology.rs`, `spm/worker.rs` 380-470 | node map | range expansion, owner lookup |
| Planner | `spm/planner.rs` | none (pure) | DP over contiguous layer segments, validation, costs |
| Qwen3.8 and GGML | `models/qwen3_8/`, `src/backends/qwen38_ggml/` | GGML states and ranges, positions, recurrent states | fused range forward, reset, reuse |
| Qwen3-VL | `models/qwen3_vl/` | text decode mode, shadow prefill, remote head, vision cache, NPU caches | `start_dialog_prompt`, `forward_blocks_from`, `forward_embeds`, `next_token` |
| Front ends, tools | `src/dial-cli`, `src/web_chat`, `src/tools`, `src/vendor` | - | start-up, page, benchmarks, bindings |

How they interact: the API handler takes the write lock of the master and calls
`generate`; `next_token` calls the blocks one by one, a remote group of blocks is
one request on the connection of its worker; the worker runs one task per
connection, with a cache made on the first operation; nothing is ever reconnected.

What is hard: several masters share a worker; caches survive requests; a batch
may fail half way; errors take five different ways out of the handler; a worker
may die and come back empty; replies are matched to requests by order alone;
positions, token lists and counters are advanced at different moments.

What makes each part correct: the session, that sampled logits are those of one
machine and that requests end; the cache, that both update paths keep the same
window; GGML shards, that a failed or rejected batch leaves positions that the
next request recovers from; the API, that the lock is released and counts are
right; the planner, that the plan covers every layer once, respects memory and
has the least cost, and that all processes find the same one; the limiter, that bytes never exceed the rate; Qwen3-VL,
that exactly one component owns the context at a time.

## 2. Modules

* `DialSession` models a master, its connections and the handlers of its workers.
  Tensors are abstracted to *what they were computed from*: a hidden state is
  `[own, req, from, len, depth, value]` (whose request, which token positions,
  how many blocks were applied, and whether the value is the one a single machine
  would have); a KV row is `<<master, request, position>>`, or `Garbled` in the
  third place when it came from a wrong input. `Attend` yields a clean value only
  if input, block and rotary position fit together and the cache holds exactly
  the rows of the tokens up to here, so every mistake in cache handling, routing,
  positions or message order becomes a `"stale"` value.
* `SingleMachine` is what a master promises: one machine that prefills, computes
  logits and samples. `SessionRefinement` maps the state of `DialSession` to it:
  the logits are the hidden state that has left the last block, everything between
  (local blocks, batches, handlers, crashes of workers) is a stutter.
* `MCDialSession` gives two deployments to TLC.
* `DialSession_proofs` proves type correctness, the invariant and the refinement.
* `KvCache` looks inside what the session takes for granted on the Qwen models: one
  cache entry of a full-attention layer and one of a Gated DeltaNet layer. The Llama
  path appends a row per token; the Qwen path migrates the entry once into storage
  of `max_seq_len` rows, writes row `index_pos` and shows attention a prefix; the
  linear layer folds tokens into a state. `Forward` is one pass (prefill at
  position 0, then single tokens), `ForwardFails` leaves any intermediate state of
  an update, `NewRequest` clears the cache (master) or not (connection of a
  worker), `ReferenceDecode` is the pass of the NPU validation on a clone that
  shares preallocated storage. A pass runs both layers, because layers of both
  kinds alternate in Qwen3.8. `KvCache_proofs` holds its theorems, `MCKvCache` its
  zero row.

| variable | code |
|---|---|
| `mpc`, `blk`, `hid` | program counter, `block_idx` and `x` of `LLama::load` / `forward` |
| `req` | history variable: number of chat requests begun |
| `ntok`, `index`, `generated`, `index_pos` | `tokens.len()`, loop variable of `generate`, fields of `LLama` |
| `lkv`, `wkv` | `Cache::kvs` of the master and of each connection's `WorkerContext` |
| `up`, `hpc`, `job` | worker process, program counter and locals of `handle_master_client` |
| `toWorker`, `toMaster` | the two directions of the TCP stream |

| actions | code |
|---|---|
| `Start` `LoadBlock` `Connect` `ConnectRefused` `Greeted` `GreetingLost` `Loaded` | `LLama::load`, `ClientPool::client_for_layer`, `Client::new` |
| `BeginChat` | `chat` under the write lock, `Master::reset`, `add_message` |
| `NextToken` `PromptFails` `SampleLimit` `Sample` | `Master::generate`, `LLama::next_token`, `start_dialog_prompt` |
| `LocalBlock` `SendBatch` `SendFails` | loop of `LLama::forward`, `Client::forward_batch`, `request` |
| `ReceiveTensor` `ReceiveError` `ReceiveEof` | second half of `request`, `forward_request` |
| `HandleHello` `HelloFails` `ReceiveBatch` `RejectBatch` `ExecBlock` `ExecFails` `SendReply` `ReplyFails` `HandlerEof` | `handle_master_client` |
| `MasterCrash` `WorkerCrash` `WorkerRestart` | processes dying and being started again; a restarted master is another element of `Master` |

Any block may fail at any time, before or after it updated its cache entry; a
crash of a worker may lose or deliver the replies already sent.

The other modules, each of them a part the session takes for granted:

* `TextDecode`: a Qwen3-VL generator over its layers, one dialog after the other.
  A pass is routed (`route`) to the NPU runner, which is validated first
  (`validate`, `decode`), to NPU `prefill`, or to the software `blocks`, where every
  layer is the master's, a shadow's or a worker's. Rows are abstracted to a length
  and the number of leading rows that are right; the hidden state to whether it is
  right, how deep it is and what kind it is. `Reset`/`StartPrompt`/`NextToken` are
  `reset`, `start_dialog_prompt` and `next_token`; `LoadRunner` is
  `ensure_text_rknn_loaded`; `BucketFallback`, `ChooseNpuDecode` and `ChooseOther` the
  head of `forward_embeds`; `Validation*` are `validate_text_rknn_prefix_once` with
  `shrink_last_chunk`; a validation that passes loads the runner again, which may fail
  (`ValidationReloadFails`). A comparison is right or wrong: the thresholds of the strict
  and the relaxed gate are data, and what the relaxed one compares is the run `kv_delta`.
  `NpuDecode*`, `NpuPrefill*` the calls of the
  runner; `LocalLayer`, `RemoteLayer` `forward_blocks_from`; `Finish` the output head.
  `TextDecode_proofs` proves its safety properties.
* `RknnKv`: what the runner keeps for one decode chunk, as flat buffers: the rows in
  cache layout and the padded copy in the layout of the NPU tensor. `RunChunk` is
  `run_chunk` with either form of presents, a selected bucket, and any number of
  layers updated before a failure; `SyncFromCache`, `Prefill` and `Clear` refill it.
  A cell is the (head, position, dimension) it was computed for, so the layout
  conversions are modelled by the index arithmetic they do. The layout of a tensor
  is inferred from its shape as the code does, which needs heads # head_dim.
  `RknnKv_proofs` proves its properties.
* `RknnChunks`: `TextRknnRunner::load` over a directory of chunk files: grouping by
  range, the ranking of ranges and of candidates, loading one range after the other
  until a gap, prefill chunks, then `shrink_last_chunk`. A file is
  [stage, first, last, class, bucket, name, buckets, open, add]; `MaxUsize` bounds buckets.
  A file that names no buckets is `open` to any shape and takes those of the environment
  or the built-in ones (`Defaults`), or serves none (`Serves`). An environment list of
  zeros only is left out.
  `RknnChunks_proofs` proves its properties.
* `Planner`: `plan_with_algorithm`, run by every process for itself: validation, the
  table `dp` from [end, mask, last device] to a label, extended in the order of the
  loops (`Extend`), and the winner (`Choose`). Bit masks are sets, ordered by the
  highest device in which two of them differ (`Lower`), which is the order of their
  values (`MaskOrder` in `MCPlacement`). `Layouts` is the reference definition: all
  placements there are, given by their devices and the ends of their segments. `Placement` extends it from the plan, or a topology
  file, to running blocks: `GetTopology` is `Context::from_args`, `StartWorker` what
  `Worker::new` loads (`NodesFor` its name, `Loadable` if all of it exists), `StartMaster`
  the owner lookup of the loader, which connects to each owner and so fails for a node
  with the master's own address, `RunLocal` and `RunRemote` one pass with its grouped
  requests: `Request` is what is sent in the three forms, `Asked` what the worker makes of
  each, `Unnamed` what it cannot name in the range form. `MCPlacement`
  has the profiles and files, `Placement_proofs` the theorems about both modules.
* `GgmlShard`: the device states of Qwen3.8. A range of layers is one graph;
  `RunRange` is `Range::forward` (position check, reset at position 0, computation,
  positions moved; a kept graph is used again only where `GraphFits`), `RangeFails` stops it after any number of layers and, in a
  linear layer, between its two states, `ReplyLost` loses the answer of a worker
  that did compute. `WarmPass` to `PassDone` are the generator, `PromptRefused` its
  error path for a prompt that does not fit. `GgmlShard_proofs` proves its properties.
* `TransferLimiter`: slots of the bandwidth limit. The clock is read before the
  mutex (`ReadClock`), the slot taken under it (`Reserve`), the chunk written when
  its time has come (`WriteChunk`); `level` is a leaky bucket that measures what was
  written above the limit. `ApiMaster` extends it with the HTTP handlers: the fair
  `RwLock` is `holder` and `queue`; a chat goes from `Post` through one of
  `ResetFails`, `RefuseMessage`, `StartGenerate` (each the whole stretch of code
  without an await) to chunks written and tokens sampled, and `Finish` or `Fail`
  drops the lock; `ClientLeaves` closes a stream; a view copies the topology under
  the lock (`ReadTopology`) and probes workers (`Connect`, `SendHello`, `Info`,
  `Offline`). `out` is what the client received. `ApiMaster_proofs` has the theorems
  about both modules.

## 3. Runs

| run | question | deployment |
|---|---|---|
| `session_split` | is every sampled token exact, do shards agree, are replies matched, is the invariant of the proof true, does every request end, is the session a refinement of `SingleMachine` | one master, `w1` serves blocks 0 and 2 (range form) around local block 1, `w2` block 3 (compact form); 3 tokens of context, 2 requests |
| `session_shared` | do two masters disturb each other on one worker | blocks 0-1 on `w1` (plain batch form), block 2 local; symmetric masters |
| `kv_cache` | do both decode paths show attention, and fold into linear states, exactly the tokens of the request | `max_seq_len` 4, 3 requests |
| `kv_delta` | is the row the NPU validation compares that of the last token (violated, see findings) | as `kv_cache` |
| `rknn_kv` | does the NPU read exactly the context, in whatever bucket and layout | 2 heads, 3 dimensions, 2 layers, 3 buckets, 6 rows |
| `rknn_chunks` | which chunk files end up loaded, and what positions they serve | all directories of up to 5 of 11 files, any of them broken, two without buckets of their own; 2 default buckets |
| `text_decode` | who holds the rows when a token is sampled; is anything given up or refused without a cause; do requests end | 3 layers in up to 3 chunks, bucket of 2, 5 positions, 4 tokens, 3 dialogs, 20 deployments |
| `text_headless` | is a token ever sampled from a hidden state (violated, see findings) | a worker's layer inside the NPU prefix, no fault |
| `plan_deploy` | is the plan the optimum, do the processes agree, does a pass run every layer once where its weights are | 3 devices, 4 layers, 12 profiles, 7 files and none, 3 request forms |
| `ggml` | does a range compute from the tokens of its own request only, and accept every pass that fits | 3 layers, ranges of every kind, a bucket of 2 |
| `api` | does every client get its own answer; does everything accepted end; is the rate kept | 2 chats, a view of one worker, 2 tokens |
| `session_silent_close` | does a failure on a living worker always reach the master as `Error` (violated, see findings) | as `session_split` |

Bounds: `MaxRequests` and `SampleLen` bound the counters; `MaxSeqLen = 3` with
prompts of one or two tokens lets a request reach the end of the rotary table on
a local block, on the first worker and on the second. Two segments on one worker
around a local block make one token need two exchanges on the same connection;
two requests are enough for every stale row, because a request starts by
replacing what the one before left behind. In `KvCache` four positions hold a
prompt, the migration, a write into the migrated storage and the last row; three
requests allow a failed one between two others. In `TextDecode` three layers give
a prefix, a middle and a tail; a bucket of two rows is outgrown by a prompt of two
and a decode; the third dialog starts on what a failure in the second one left.
Four layers and three devices of `Planner` allow two placements that tie with
different device sets, and segments in the middle; costs are small so that ties
happen. `GgmlShard` bounds the passes at position 0 (`MaxStreams`): warm-up, a failed
request and one after it. `MaxLen` in `RknnKv` outgrows two buckets, `MaxFiles` in
`RknnChunks` allows a better file and its substitute. In `ApiMaster` a message is two
chunks at most and every chunk takes one unit of time, `Past` merges moments more
than one unit ago; the rate bound is reached exactly, so it is not slack.
Runs do not check deadlock: a master process that crashed or used up its requests
really stops, and a plan or an answer is final.

Fairness: a master in a request and a handler that can run are polled again by
the tokio scheduler (weak fairness per master and per connection). Users, crashes
and restarts get none. In `TextDecode` a request is one future that is polled until it
ends (weak fairness of its work, none of its failures). In `ApiMaster` every task and
timer is polled, time passes, and the workers of a chat answer or close; a probed
worker gets no fairness. The network delivers: a host that vanishes without closing
its streams would block `request` for ever, as the code has no timeout there.

## 4. Proofs

For every number of masters, workers, blocks and tokens, and every placement:

* `TypeCorrect`: `Spec => []TypeOK`.
* `SessionCorrect`: `Spec => [](TypeOK /\ SessionInv)`. `SessionInv` is needed
  because `ExactLogits` alone is not inductive: it speaks of the moment before
  sampling only. The invariant says what holds on the way there. In state
  `forward` the hidden state is the expected one and the blocks already passed
  have one row per token, the others one step less (`RowsUpTo`); in `wait` the
  batch is sent, running or answered, and nothing else is under way; otherwise
  all connections are quiet. Between `step`s the counters are tied together.
  `BlockExact` is the central lemma: a block fed the expected value over a cache
  that is one step behind yields the expected value and the full context. The
  steps of other processes are dealt with once (`Frame`); after a crash the
  blocks of the worker are no longer `Reachable`, and never become so again.
* `LogitsExact`, `ShardsAlwaysAgree`, `AlwaysQuiet`, `RepliesMatch` follow.

* `SessionRefines`: `Spec => ImplementsSingleMachine`. The invariant supplies what
  the mapping needs: the hidden state after the last block is the exact one, and
  the counters are tied. Only sampling, prompts, begin and end of a request, and
  the step that completes the last block are visible; one lemma per action says
  which step of the single machine it is.
* `CacheCorrect`, from it `EntriesExact`, `ViewsExact`, `LayersAlwaysAgree` and
  `TypesKept` for `KvCache`, every `max_seq_len`: an entry is the context itself, or
  full storage with the context as prefix (`EntryOK`). The invariant must say both,
  because the view alone does not determine what the next decode will migrate.

* `ShardCorrect`, from it `StatesExact`, `RefusalMeansFull` and `ShardTypes` for
  `GgmlShard`, every number of layers, cut into ranges, context and bucket. `ExactState`
  speaks of the layers that computed; what they computed from was left by the passes
  before, some of which failed. So the invariant follows the `Frontier` of the pass: a
  layer behind it holds the tokens up to the end of the pass, one before it those up
  to its beginning, unless the pass is at position 0 and resets it (`During`). Between
  two passes all layers hold the position of the generator (`Warm`, `Chatting`), which
  is why the position check refuses only what does not fit.

* `ChunksCorrect`, from it `ChunkTypes`, `ChunksCover`, `BestFilesChosen` and
  `BoundExact` for `RknnChunks`, every directory and whichever files do not load.
  Loaded chunks are a chain from layer 0 (`Chain`), each of them the best but for bad
  files (`Won`). That a file is the best when it is taken depends on what was removed
  from `left` and `cands` before, so `Picking` says that no file further on is
  touched, that the range under way was picked for a file better than all that start
  there, and that what is missing from `cands` did not load. The foremost of a
  finite set exists because the ranking is a lexicographic order of naturals.

* `RowsKept`, `FedKept`, `InStep` and `TypesKept` for `RknnKv`, every number of heads,
  dimensions, layers and rows, any buckets and formats. A buffer is its cells: each
  place of either layout is that of one (head, position, dimension) and each such
  triple has its place (`CachePlaces`, `CacheCells`, `NhwcPlaces`, `NhwcCells`, from
  the digits of a number in a mixed radix), so two buffers that agree in every cell
  are the same (`SameBuffer`) and reading a native tensor back undoes writing it
  (`ReadBack`). The rows alone are not inductive: the next native copy may be patched
  instead of rebuilt, so the invariant keeps both copies of a layer (`Exact`), also
  one that holds a bucket no longer in use. After an update that stopped half way it
  says only that no layer is ahead of the first, which is what makes the bucket picked
  by the first large enough for all (`Types`); the rest comes back with the next fill.
  - Hypothesis `OwnRows` of `RowsKept` and `FedKept`: the chunk returns `past_len + 1`
    rows, or the model has one key head. Without it they are false (section 5).

* `ApiCorrect`, from it `AnswersAreOwn` and `RateIsKept` for `ApiMaster` and
  `TransferLimiter`, any number of clients, views and workers. What a client has
  received is a prefix of its own answer (`Own`), because while it is served the
  generator and the profile are its own (`Served`), because a chat is served exactly
  when it holds the lock (`Lock`). For the rate `level` alone is not inductive: a
  writer that read the clock long ago still may write in a burst. `Burst` says that
  since some moment, t ago, what was written and what is owed up to any later moment
  is at most the slots in between and one chunk of each writer that was late then;
  only the chat under the lock can be one of those besides the probes (`LateChats`).

* For `TextDecode`, every number of layers, chunks, workers, tokens and buckets:
  `DecodeTypes`, `OnlyValidatedChunks` and `GivenUpForGood` hold in every deployment
  (`Base`: what a runner may be in each state of the flags). `Reloaded` adds that a dialog
  which passed the validation has its runner or goes without, unless the reload failed.
  `EveryTokenExact`, `SoundRunnerIsKept` and `NoChoiceFails` have hypotheses on the
  deployment.
  - `EveryTokenExact`: `RowsKept` says where the rows of each layer are that make the
    next token right: in the runner if it decodes, else in the place that computes the
    layer, at least as many as are `Due` there in the pass under way. A switch is safe
    only if the place it switches to can take them over, hence `Offered` (a runner that
    may still start finds all rows of a layer or none), `Homes` (there are no rows on
    the master for layers that are not its own) and `FreshPrompt`. All of this is
    given up once a token came from a hidden state (`Lost`).
  - Hypothesis `HandsOver`: a shadow's prompt is promoted, and a prompt on the NPU is
    one of a master that has all layers and decodes some of them in software. Without
    it the theorem is false, and so would the code be (section 5).
  - `SoundRunnerIsKept`: while nothing failed the runner has all its chunks (`Whole`),
    the validation finds what it compares (`Ready`), and a dialog that is lost without
    a failure never comes to a comparison (`Unlucky`). Same hypothesis.
  - `NoChoiceFails`: the output head is dropped only where a worker answers in its
    place (`Heads`). Hypothesis `KeepsHead`: where the last layer is a worker's that
    answers with logits or a token, the NPU serves only layers of the master. If it
    served that last layer, the head that was dropped after the prompt would be missing.

* For `Planner` and `Placement`, every profile with at most 12 devices (as the code
  has it), every number of layers, any topology files, names and request forms. The
  deployment does not disturb the searches (`PlansAlone`), so what holds of `PlanSpec`
  holds of `Spec`.
  - `SearchCorrect`: every label is a tiling of its state by segments that fit, with their score
    (`LabelsHold`). `Tiles` would be inductive, but the next theorem needs the fit and the
    score of the same labels.
  - `PlanIsBest`: a label that was extended is final (`InOrder`: whatever is still pending
    ends no earlier, and extensions end later), so what `Extend` compared stays true at
    the end of the search (`Extensions`): no state is worse than a final label and one
    more segment. Given any layout, its first segment is no better than the label of
    that state (`Singles`), and so on to its last (`LayoutReached`); sum and maximum are
    monotone (`Joined`), which is all the argument needs of the three algorithms. The
    table keeps the least score of a state, whatever its `ttft`.
  - `PlansAgree`: two searches that run at different times cannot be compared step by step.
    So the state of a search is a point on its `Trace`, the sequence of steps a process
    would make from the first labels; a step is determined by the cache limit and what
    came before, because the order of the states is total (`Before`), two traces agree
    as far as both go, and both end where nothing is pending (`TraceEnds`).
  - `EachLayerRunsOnce`: a group of blocks on one address is an interval (`GroupEnd`), and what
    the worker counts on from its first block is that interval (`PassOK`).
  - `NoneRefused`: with `PlansAgree`, a process that is running has the topology of the others
    (`Told`), so each owner the master found has loaded its layers (`OwnersLoaded`).

What a sum or a fold over data computes is proved by smallest counterexample
(`Smallest`) where the induction theorems of the library cannot be used.

Assumptions: those the modules state on their constants (sizes are positive, a
cut of the layers is gapless, the last layers of successive chunks increase, views
and workers are finitely many, no process is a client and a view, a topology file
is finite and a deployment has a process with the role of the master), and the
three hypotheses above. `Covered` in `MCTextDecode` says that the deployments of the run
`text_decode` satisfy the two on deployments, and `rknn_kv` runs with
`LongPresents = FALSE`, so runs and theorems speak of the same.

Only model-checked: liveness (`RequestEnds`, `Answered`), which is beyond the prover.
Every invariant a passing run checks is stated by a theorem.

## 5. Findings

`session_silent_close`: `worker.rs` 721-723 and `proto/message.rs` 272-273 promise
that the master gets an `Error` message when a tensor cannot be decoded; the `?`
there leaves the handler, the connection is dropped, and the master only sees the
end of the stream, on a connection it never opens again.

`kv_delta`: the NPU prefix validation of Qwen3-VL decodes a token on a clone of the
cache and takes the last row of the cloned tensor for the row of that token
(`qwen3_vl.rs` 1571-1577). The decode has migrated the entry to `max_seq_len` rows,
so the last row is zero padding, and the relaxed gate compares the NPU with zeros.

`text_headless`: when the NPU prefix contains a layer of a worker, the rows of that
layer are not in the master's cache, the validation ends in an error, and the branch
for it (`qwen3_vl.rs` 2243-2269) returns the output of `ln_f` without the output head.
Nothing is disabled, whatever the log line says, so every token of the dialog is
sampled from a hidden state.

Seen while modelling, and not run:

* What `HandsOver` excludes is real. After a prompt on the NPU, `sync_to_cache`
  (`qwen3_vl.rs` 2388) hands the rows of all layers to the master's cache and to nobody
  else: a worker behind the NPU prefix, or in `cpu-only` mode any worker, never saw the
  prompt, allocates zeros (`cache.rs` 202-222) and attends to them without an error,
  although `src/dial-core/src/lib.rs` 248-258 and `src/README.md` 415-416 describe both
  combinations. When the decode chunks cover all layers the rows are handed to no cache
  at all (2377-2384), but the validation of the next token computes its reference on it
  (1488-1496): with one chunk a good NPU is given up for the process at the second token
  (1664-1666). TLC finds both, without a fault, in `MCTextDecode` with
  `Worker(Prefill(Prefix, "deepstack", 3), {0, 1}, "hidden")` (violates `ExactOutput`) and
  with `Prefill(Chunks(Plain, <<2>>), "deepstack", 3)` (violates `SoundNpuIsKept`).
* With `QWEN3VL_SHADOW_PREFILL_PROMOTE_DECODE=0` a prompt of several tokens fills the shadow
  blocks, and decoding goes on in blocks that never saw it. Where the NPU covers the layer
  of a worker that answers with logits, the head is dropped after the prompt and the first
  token from the NPU is refused (`KeepsHead` excludes it).
* `RknnKv` with `LongPresents = TRUE` violates `RowsExact`: a chunk may return more
  rows than `past_len + 1`, and `replace_cache_layout_full` (`text_rknn.rs` 329-331)
  takes a flat prefix of them, which is right for one head only;
  `run_prefill_chunk` (2713-2716) truncates head by head.
* The largest bucket is the maximum over the chunks, so a position may pass the guard
  of `forward_embeds` and fail in a chunk with smaller buckets, which disables the NPU
  for the process. A decode chunk whose range ends behind the last layer is not refused.
* `run_prefill_chunk` fails on an empty list of deepstack additions that
  `forward_prefill` (2757-2768) lets through; `SoundNpuIsKept` excludes the case by name.
* After an error of the validation the runner keeps its rows, and a later fallback
  copies them over newer rows of the software cache. `ExactOutput` does not speak of
  dialogs that already took a token from a hidden state.
* Processes with different `--kv-cache-max-len` plan with different memory
  (`planner.rs` 394-398) and may place layers differently: `PlannersAgree` asks for
  equal limits, `Served` for a consistent set-up.
* The token count of a plain answer counts callbacks (`api/mod.rs` 435): two more than
  "Number of tokens emitted before EOS or the configured sample limit" (line 55), and
  one more than that in a stream with a command line prompt, which `generate` sends
  first. `reload_required` (336) does not notice a worker that was removed from the
  file. `generated - 1` (`master.rs` 98) underflows when the sample length is 0.

## 6. Not modelled, and the plan

See `PROJECT.json` for every component. Abstracted in the session: numbers in
tensors, sampling, text, logging, metrics, remote sampling. The future of a chat
request is taken to run to its end, in `DialSession` and in `ApiMaster`; if the HTTP
server dropped it between writing and reading, the reply would stay in the stream.
A token's text is taken to be non-empty (a stream sends nothing for empty text).
`KvCache` leaves out masks (more than one token only passes at position 0, which is
the guard of `Forward`), and batches larger than one, which no caller makes.
`TextDecode` takes the embedding of a prompt, with or without images, as given; the
vision encoder, its cache and the prompt text are outside. Framing errors of the
protocol (peers with the same size limit never meet one), numeric kernels, the other NPU runtimes and weight loading are outside too.

Done: the session and its refinement, the cache, the NPU runner and its use, the
planner and the placement it leads to, GGML ranges, the HTTP handlers and the limiter.

Proved: the safety of the session and its refinement, `KvCache`, `GgmlShard`,
`RknnChunks`, `RknnKv`, `ApiMaster` with `TransferLimiter`, `TextDecode`, and `Placement`
with `Planner`. No safety property is left to the runs alone.

What could come next: the conditions under which a host that vanishes is noticed, should
`request` get a timeout; the vision encoder and its cache.
