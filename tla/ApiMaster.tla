------------------------------- MODULE ApiMaster -------------------------------
(***************************************************************************)
(* The HTTP side of a master (spm/api/mod.rs, spm/master.rs).  All the     *)
(* handlers share one Master behind a fair reader-writer lock.  A chat     *)
(* request, streamed or not, holds the write lock from the reset to its    *)
(* last metric; a topology view holds the read lock while it copies the    *)
(* loaded topology, then probes every worker of the file on a connection   *)
(* of its own.  The profile of remote requests belongs to the process.     *)
(***************************************************************************)
EXTENDS TransferLimiter, SequencesExt

CONSTANTS
  Chat, View,   \* requests for a completion and for the topology
  Worker,
  Nobody,       \* holds the lock when it is free
  Asks,         \* what the chats ask: chat -> [stream, messages], a message being good or not
  ArgsPrompt,   \* the pieces generate streams first: none when args.prompt is empty
  SampleLen,
  HelloChunks, PrefillChunks, DecodeChunks   \* chunks of a message

Probe == View \X Worker

ASSUME ApiAssumption ==
  /\ Writer = Chat \cup Probe /\ Nobody \notin Chat /\ Chat \cap View = {}
  /\ IsFiniteSet(View) /\ IsFiniteSet(Worker)
  /\ SampleLen \in Nat \ {0} /\ ArgsPrompt \in Seq(STRING) /\ Len(ArgsPrompt) <= 1
  /\ \A a \in Asks, c \in Chat : a[c].stream \in BOOLEAN /\ a[c].messages \in Seq(BOOLEAN)
  /\ {HelloChunks, PrefillChunks, DecodeChunks} \subseteq Nat \ {0}

VARIABLES
  ask, chat,     \* chat -> its request; "new", "queued", "writing", "waiting", "ending", "done"
  view,          \* view -> "new", "queued", "probing", "done"
  probe,         \* probe -> "none", "connect", "writing", "waiting", "online", "offline"
  left,          \* writer -> chunks of its message not yet written
  holder, queue, \* of the RwLock: the chat that writes; who waits, oldest first
  model,         \* [history, generated] of the generator
  profile,       \* remote_requests of the distributed profile
  resp, out,     \* chat -> text so far; what its client was sent
  gone           \* chats whose client closed the stream

chatVars == <<ask, chat, model, profile, resp, out, gone>>
viewVars == <<view, probe>>
lockVars == <<holder, queue>>
vars == <<limiterVars, chatVars, viewVars, lockVars, left>>

-----------------------------------------------------------------------------
\* Messages and tokens.

Message(c, i) == <<c, i>>
Messages(c) == [i \in DOMAIN ask[c].messages |-> Message(c, i)]
BadMessages(c) == {i \in DOMAIN ask[c].messages : ~ask[c].messages[i]}

Token(history, n) == <<history, n>>

Failed(status) == [kind |-> "error", status |-> status]
Metrics(n) == [kind |-> "metrics", remote |-> n]
Answer(text, n) == [kind |-> "answer", text |-> text, remote |-> n]
DoneMark == [kind |-> "[DONE]"]
Piece(t) == [kind |-> "piece", text |-> t]
Pieces(text) == [i \in DOMAIN text |-> Piece(text[i])]

(* The counters of the process, reset_distributed_profile.                 *)
NoProfile == 0
Counted(requests) == requests + 1

(* A send to a channel whose receiver is gone is an ignored error.         *)
Sent(c, events) == IF c \in gone THEN out ELSE [out EXCEPT ![c] = @ \o events]

Init ==
  /\ LimiterInit
  /\ ask \in Asks /\ chat = [c \in Chat |-> "new"]
  /\ view = [v \in View |-> "new"] /\ probe = [p \in Probe |-> "none"]
  /\ left = [w \in Writer |-> 0]
  /\ holder = Nobody /\ queue = <<>>
  /\ model = [history |-> <<>>, generated |-> 0] /\ profile = NoProfile
  /\ resp = [c \in Chat |-> <<>>] /\ out = [c \in Chat |-> <<>>] /\ gone = {}

-----------------------------------------------------------------------------
\* Chats.

Post(c) ==
  /\ chat[c] = "new"
  /\ chat' = [chat EXCEPT ![c] = "queued"]
  /\ queue' = Append(queue, c)
  /\ UNCHANGED <<ask, model, profile, resp, out, gone, viewVars, holder, left, limiterVars>>

Turn(who) == holder = Nobody /\ queue # <<>> /\ Head(queue) = who

(* The handler returns with an error, and drops the lock.                  *)
Fail(c, status) ==
  /\ chat' = [chat EXCEPT ![c] = "done"] /\ holder' = Nobody
  /\ out' = Sent(c, IF ask[c].stream THEN <<Failed(status), DoneMark>> ELSE <<Failed(status)>>)

\* Variant: the history outlives the request.
Reset_KeepsHistory(m) == [m EXCEPT !.generated = 0]

Reset(m) == [history |-> <<>>, generated |-> 0]

(* The profile is reset before the model, whose reset may fail half way.   *)
ResetFails(c) ==
  /\ Turn(c) /\ queue' = Tail(queue)
  /\ profile' = NoProfile /\ model' \in {model, Reset(model)}
  /\ Fail(c, 500)
  /\ UNCHANGED <<ask, resp, gone, viewVars, left, limiterVars>>

(* The messages before a bad one are added.                                *)
RefuseMessage(c) ==
  /\ Turn(c) /\ queue' = Tail(queue)
  /\ profile' = NoProfile
  /\ \E i \in BadMessages(c) :
       /\ \A j \in BadMessages(c) : i <= j
       /\ model' = [Reset(model) EXCEPT !.history = @ \o SubSeq(Messages(c), 1, i - 1)]
  /\ Fail(c, 400)
  /\ UNCHANGED <<ask, resp, gone, viewVars, left, limiterVars>>

(* Text for the caller of generate; a stream has nothing for empty text.   *)
Stream(c, text) ==
  /\ resp' = [resp EXCEPT ![c] = @ \o text]
  /\ out' = IF ask[c].stream THEN Sent(c, Pieces(text)) ELSE out

StartGenerate(c) ==
  /\ Turn(c) /\ queue' = Tail(queue)
  /\ BadMessages(c) = {}
  /\ holder' = c /\ profile' = NoProfile
  /\ model' = [Reset(model) EXCEPT !.history = @ \o Messages(c)]
  /\ Stream(c, ArgsPrompt)
  /\ chat' = [chat EXCEPT ![c] = "writing"] /\ left' = [left EXCEPT ![c] = PrefillChunks]
  /\ UNCHANGED <<ask, gone, viewVars, limiterVars>>

(* The request of next_token is written chunk by chunk.                    *)
SendChunk(c) ==
  /\ chat[c] = "writing" /\ WriteChunk(c)
  /\ left' = [left EXCEPT ![c] = @ - 1]
  /\ chat' = [chat EXCEPT ![c] = IF left[c] = 1 THEN "waiting" ELSE @]
  /\ UNCHANGED <<ask, model, profile, resp, out, gone, viewVars, lockVars>>

(* A Tensor comes back, is counted, and a token is sampled from it.        *)
Sampled == [model EXCEPT !.generated = @ + 1]
TokenSampled(c) ==
  /\ chat[c] = "waiting"
  /\ profile' = Counted(profile) /\ model' = Sampled

NextToken(c) ==
  /\ TokenSampled(c)
  /\ Stream(c, <<Token(model.history, Sampled.generated)>>)
  /\ IF Sampled.generated < SampleLen
     THEN chat' = [chat EXCEPT ![c] = "writing"] /\ left' = [left EXCEPT ![c] = DecodeChunks]
     ELSE chat' = [chat EXCEPT ![c] = "ending"] /\ left' = left
  /\ UNCHANGED <<ask, gone, viewVars, lockVars, limiterVars>>

EndOfStream(c) ==
  /\ TokenSampled(c)
  /\ chat' = [chat EXCEPT ![c] = "ending"]
  /\ UNCHANGED <<ask, resp, out, gone, viewVars, lockVars, left, limiterVars>>

(* The metrics are read under the lock, which is dropped with the handler. *)
Finish(c) ==
  /\ chat[c] = "ending"
  /\ out' = Sent(c, IF ask[c].stream THEN <<Metrics(profile), DoneMark>>
                    ELSE <<Answer(resp[c], profile)>>)
  /\ chat' = [chat EXCEPT ![c] = "done"] /\ holder' = Nobody
  /\ UNCHANGED <<ask, model, profile, resp, gone, viewVars, queue, left, limiterVars>>

(* The worker answers with an error, or its connection ends.               *)
GenerationFails(c) ==
  /\ chat[c] \in {"writing", "waiting"}
  /\ Fail(c, 500)
  /\ left' = [left EXCEPT ![c] = 0]
  /\ Dropped(c)
  /\ UNCHANGED <<ask, model, profile, resp, gone, viewVars, queue>>

(* The client of a stream closes it; the task goes on.                     *)
ClientLeaves(c) ==
  /\ ask[c].stream /\ chat[c] \notin {"new", "done"} /\ c \notin gone
  /\ gone' = gone \cup {c}
  /\ UNCHANGED <<ask, chat, model, profile, resp, out, viewVars, lockVars, left, limiterVars>>

-----------------------------------------------------------------------------
\* Topology views.

Get(v) ==
  /\ view[v] = "new"
  /\ view' = [view EXCEPT ![v] = "queued"]
  /\ queue' = Append(queue, v)
  /\ UNCHANGED <<probe, chatVars, holder, left, limiterVars>>

(* The lock is held for the copy only.  The file may not load.             *)
ReadTopology(v) ==
  /\ Turn(v) /\ queue' = Tail(queue)
  /\ \/ \E configured \in SUBSET Worker :
          /\ view' = [view EXCEPT ![v] = "probing"]
          /\ probe' = [p \in Probe |-> IF p[1] = v /\ p[2] \in configured
                                       THEN "connect" ELSE probe[p]]
     \/ view' = [view EXCEPT ![v] = "done"] /\ UNCHANGED probe
  /\ UNCHANGED <<chatVars, holder, left, limiterVars>>

Connect(p) ==
  /\ probe[p] = "connect"
  /\ probe' = [probe EXCEPT ![p] = "writing"]
  /\ left' = [left EXCEPT ![p] = HelloChunks]
  /\ UNCHANGED <<view, chatVars, lockVars, limiterVars>>

SendHello(p) ==
  /\ probe[p] = "writing" /\ WriteChunk(p)
  /\ left' = [left EXCEPT ![p] = @ - 1]
  /\ probe' = [probe EXCEPT ![p] = IF left[p] = 1 THEN "waiting" ELSE @]
  /\ UNCHANGED <<view, chatVars, lockVars>>

(* WorkerInfo; only a request of the model counts in the profile.          *)
Info(p) ==
  /\ probe[p] = "waiting"
  /\ probe' = [probe EXCEPT ![p] = "online"]
  /\ UNCHANGED <<view, chatVars, lockVars, left, limiterVars>>

(* Where 900 ms may find the future, which is dropped there; it ends there *)
(* too without a connection, on a failed write or with another answer.     *)
\* Variant: the timeout covers the connection only.
MayExpire_Connect == {"connect"}

MayExpire == {"connect", "writing", "waiting"}

Offline(p) ==
  /\ probe[p] \in MayExpire
  /\ probe' = [probe EXCEPT ![p] = "offline"]
  /\ left' = [left EXCEPT ![p] = 0]
  /\ Dropped(p)
  /\ UNCHANGED <<view, chatVars, lockVars>>

(* The probes are awaited one after the other.                             *)
AnswerView(v) ==
  /\ view[v] = "probing"
  /\ \A w \in Worker : probe[<<v, w>>] \in {"none", "online", "offline"}
  /\ view' = [view EXCEPT ![v] = "done"]
  /\ UNCHANGED <<probe, chatVars, lockVars, left, limiterVars>>

-----------------------------------------------------------------------------
Writing(w) == IF w \in Chat THEN chat[w] = "writing" ELSE probe[w] = "writing"

WaitForSlot(w) ==
  /\ Writing(w)
  /\ ReadClock(w) \/ Reserve(w)
  /\ UNCHANGED <<chatVars, viewVars, lockVars, left>>

TimePasses == Tick /\ UNCHANGED <<chatVars, viewVars, lockVars, left>>

ChatStep(c) ==
  \/ ResetFails(c) \/ RefuseMessage(c) \/ StartGenerate(c)
  \/ WaitForSlot(c) \/ SendChunk(c)
  \/ NextToken(c) \/ EndOfStream(c) \/ Finish(c) \/ GenerationFails(c)
ViewStep(v) == ReadTopology(v) \/ AnswerView(v)
ProbeStep(p) == Connect(p) \/ WaitForSlot(p) \/ SendHello(p)

Next ==
  \/ \E c \in Chat : Post(c) \/ ChatStep(c) \/ ClientLeaves(c)
  \/ \E v \in View : Get(v) \/ ViewStep(v)
  \/ \E p \in Probe : ProbeStep(p) \/ Info(p) \/ Offline(p)
  \/ TimePasses

Spec == Init /\ [][Next]_vars

(* The runtime runs every task and timer, and the workers of a chat answer *)
(* or close; a probed worker may say nothing for ever.                     *)
Fairness ==
  /\ \A c \in Chat : WF_vars(ChatStep(c))
  /\ \A v \in View : WF_vars(ViewStep(v))
  /\ \A p \in Probe : WF_vars(ProbeStep(p)) /\ WF_vars(Offline(p))
  /\ WF_vars(TimePasses)
FairSpec == Spec /\ Fairness

-----------------------------------------------------------------------------
\* Properties.

Text(c, n) == ArgsPrompt \o [i \in 1 .. n |-> Token(Messages(c), i)]

(* Replies counted for n tokens: one more when an end-of-stream token ends *)
(* the text.                                                               *)
Replies(n) == IF n = SampleLen THEN n ELSE n + 1

Streams(c) ==
  {<<Failed(s), DoneMark>> : s \in {400, 500}}
  \cup {Pieces(Text(c, n)) \o <<Failed(500), DoneMark>> : n \in 0 .. SampleLen}
  \cup {Pieces(Text(c, n)) \o <<Metrics(Replies(n)), DoneMark>> : n \in 0 .. SampleLen}
Answers(c) ==
  {<<Failed(s)>> : s \in {400, 500}}
  \cup {<<Answer(Text(c, n), Replies(n))>> : n \in 0 .. SampleLen}

(* Whatever the other requests did before and do meanwhile (failed half    *)
(* way, refused after some of their messages were added, streamed on for a *)
(* client that left, probed workers), a client is answered from its own    *)
(* messages alone: the tokens of its own dialog in order, the number of    *)
(* remote requests that is its own, one end, and nothing after it.         *)
OwnAnswer ==
  \A c \in Chat :
    LET whole == IF ask[c].stream THEN Streams(c) ELSE Answers(c) IN
    /\ \E s \in whole : IsPrefix(out[c], s)
    /\ chat[c] = "done" /\ c \notin gone => out[c] \in whole
    /\ BadMessages(c) # {} => \A i \in DOMAIN out[c] : out[c][i].kind \in {"error", "[DONE]"}

(* Every request that was accepted ends: a chat behind one whose client    *)
(* left, whose messages were refused or whose generation failed gets the   *)
(* lock, and a view is answered although a probed worker never speaks.     *)
Answered ==
  /\ \A c \in Chat : chat[c] = "queued" ~> chat[c] = "done"
  /\ \A v \in View : view[v] = "queued" ~> view[v] = "done"

(* The process keeps to its transfer limit: over any stretch of time it    *)
(* writes no more than the limit allows, and one chunk for each writer     *)
(* that was late and one more.  Chats write one at a time.                 *)
WithinRate == level <= Cardinality(Probe) + 2
=============================================================================
