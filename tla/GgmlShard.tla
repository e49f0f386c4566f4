------------------------------ MODULE GgmlShard ------------------------------
(***************************************************************************)
(* The device state of a Qwen3.8 model on the GGML backend.  Every layer   *)
(* of a connection has a State: KV rows for a full attention layer, a      *)
(* convolution window and a recurrent state for a linear one, and the next *)
(* position it expects.  The layers are computed in ranges: a fused shard  *)
(* is one graph over consecutive layers, a layer that is not fused a range *)
(* of its own.  Ranges run in order, on the master or on workers, and      *)
(* nothing but a pass at position 0 tells a State that a request is new.   *)
(***************************************************************************)
EXTENDS Integers, Sequences

CONSTANTS
  NL,          \* layers
  Linear,      \* layers with a recurrent state
  Splits,      \* the ways the layers are cut into ranges, sequences of [first, last]
  MaxSeq,      \* max_seq
  Bucket,      \* positions an attention graph grows by (256 in the adapter)
  Prompts,     \* prompt lengths
  MaxStreams   \* bound: passes at position 0

Layers == 1 .. NL

ASSUME GgmlAssumption ==
  /\ NL \in Nat \ {0} /\ Linear \subseteq Layers
  /\ MaxSeq \in Nat \ {0} /\ Bucket \in Nat \ {0} /\ MaxStreams \in Nat
  /\ Prompts \subseteq Nat \ {0}
  /\ \A r \in Splits : /\ r \in Seq([first : Layers, last : Layers]) /\ r # <<>>
                       /\ r[1].first = 1 /\ r[Len(r)].last = NL
                       /\ \A i \in 1 .. Len(r) : r[i].first <= r[i].last
                       /\ \A i \in 2 .. Len(r) : r[i].first = r[i - 1].last + 1

VARIABLES
  ranges,     \* how this deployment cuts the layers
  state,      \* layer -> [next, rows, conv, rec]
  graph,      \* first layer of a range -> lengths its two graphs were built for
  read,       \* layer -> what its last computation saw
  phase,      \* "warm", "idle", "chat", "down"
  step,       \* warm-up passes done
  stream,     \* passes at position 0 so far
  prompt,     \* tokens of the prompt
  indexPos, generated,
  pass        \* the pass under way: [n, position, at], or NoPass

vars == <<ranges, state, graph, read, phase, step, stream, prompt, indexPos, generated, pass>>

Capacity == ((MaxSeq + Bucket - 1) \div Bucket) * Bucket
AtMost(a, b) == IF a < b THEN a ELSE b
Zero == <<>>

(* The tokens from one pass at position 0 to the next are a context.       *)
Context(n) == [i \in 1 .. n |-> <<stream, i - 1>>]
New(n, position) == [i \in 1 .. n |-> <<stream, position + i - 1>>]

NoPass == [n |-> 0, position |-> 0, at |-> 0]
Fresh == [next |-> 0, rows |-> [i \in 1 .. Capacity |-> Zero], conv |-> <<>>, rec |-> <<>>]
NoGraph == [decode |-> 0, prefill |-> <<0, 0>>]

InRange(i) == ranges[i].first .. ranges[i].last

\* Variant: the length of the context is not checked.
CheckPosition_NoLimit(s, n, position) == position = 0 \/ position = s.next

CheckPosition(s, n, position) ==
  /\ position <= MaxSeq - n
  /\ position = 0 \/ position = s.next

\* Variant: the position is set back and the buffer is not cleared.
ResetIfNew_KeepsBuffer(s, position) == IF position = 0 THEN [s EXCEPT !.next = 0] ELSE s

ResetIfNew(s, position) == IF position = 0 THEN Fresh ELSE s

ActiveLength(n, position) ==
  AtMost(Capacity, ((position + n + Bucket - 1) \div Bucket) * Bucket)

(* One decode and one prefill graph are kept; the one in the slot is run   *)
(* again if it has the shape of the pass, and replaced otherwise.          *)
GraphFits(g, n, length) == IF n = 1 THEN g.decode = length ELSE g.prefill = <<n, length>>
GraphFor(g, n, length) ==
  IF GraphFits(g, n, length) THEN g
  ELSE IF n = 1 THEN [g EXCEPT !.decode = length]
  ELSE [g EXCEPT !.prefill = <<n, length>>]
LengthOf(g, n) == IF n = 1 THEN g.decode ELSE g.prefill[2]

(* What the graph writes into the buffers of a layer, and what it reads.   *)
(* Half stands for a computation that stopped between the two copies.      *)
Computed(l, s, n, position, half) ==
  IF l \in Linear
  THEN [s EXCEPT !.conv = @ \o New(n, position),
                 !.rec = IF half THEN @ ELSE @ \o New(n, position)]
  ELSE [s EXCEPT !.rows = [i \in 1 .. Capacity |->
          IF i - 1 \in position .. position + n - 1 THEN <<stream, i - 1>> ELSE s.rows[i]]]

Seen(l, s, n, position, length) ==
  IF l \in Linear THEN {s.conv \o New(n, position), s.rec \o New(n, position)}
  ELSE {SubSeq(Computed(l, s, n, position, FALSE).rows, 1, AtMost(length, position + n))}

Accepted == \A l \in InRange(pass.at) : CheckPosition(state[l], pass.n, pass.position)

(* States after done layers of the range were computed, the next one half. *)
After(done, half) ==
  [l \in Layers |->
    IF l \notin InRange(pass.at) THEN state[l]
    ELSE LET s == ResetIfNew(state[l], pass.position)  k == l - ranges[pass.at].first IN
         IF k < done THEN Computed(l, s, pass.n, pass.position, FALSE)
         ELSE IF k = done /\ half THEN Computed(l, s, pass.n, pass.position, TRUE)
         ELSE s]

\* Variant: only the first layer of the range moves its position.
Committed_First(st) ==
  [l \in Layers |-> IF l = ranges[pass.at].first
                    THEN [st[l] EXCEPT !.next = pass.position + pass.n] ELSE st[l]]

(* Positions move only when the output was copied.                         *)
Committed(st) ==
  [l \in Layers |-> IF l \in InRange(pass.at)
                    THEN [st[l] EXCEPT !.next = pass.position + pass.n] ELSE st[l]]

Size(i) == ranges[i].last - ranges[i].first + 1
Built == [graph EXCEPT ![ranges[pass.at].first] =
            GraphFor(@, pass.n, ActiveLength(pass.n, pass.position))]
Reads ==
  [l \in Layers |->
    IF l \notin InRange(pass.at) THEN read[l]
    ELSE Seen(l, ResetIfNew(state[l], pass.position), pass.n, pass.position,
              LengthOf(Built[ranges[pass.at].first], pass.n))]

----------------------------------------------------------------------------
(* The master                                                              *)

DecodeSteps == AtMost(MaxSeq - 1, 3)
WarmTokens(p) == AtMost(p, MaxSeq - DecodeSteps)

StartPass(n, position) ==
  /\ position = 0 => stream < MaxStreams
  /\ pass' = [n |-> n, position |-> position, at |-> 1]
  /\ stream' = IF position = 0 THEN stream + 1 ELSE stream

Init ==
  /\ ranges \in Splits
  /\ state = [l \in Layers |-> Fresh]
  /\ graph = [l \in Layers |-> NoGraph]
  /\ read = [l \in Layers |-> {}]
  /\ phase = "warm" /\ step = 0 /\ stream = 0
  /\ prompt \in Prompts
  /\ indexPos = 0 /\ generated = 0 /\ pass = NoPass

(* warmup_ggml: the same prefill twice, then up to three decode steps.     *)
WarmPass ==
  /\ phase = "warm" /\ pass = NoPass /\ step < 2 + DecodeSteps
  /\ IF step < 2 THEN StartPass(WarmTokens(prompt), 0)
     ELSE StartPass(1, WarmTokens(prompt) + step - 2)
  /\ UNCHANGED <<ranges, state, graph, read, phase, step, prompt, indexPos, generated>>

(* Warm-up is over, or DIAL_GGML_WARMUP=0: reuse_ggml_for_new_request      *)
(* leaves the states as they are.                                          *)
WarmDone ==
  /\ phase = "warm" /\ pass = NoPass /\ step \in {0, 2 + DecodeSteps}
  /\ phase' = "idle"
  /\ UNCHANGED <<ranges, state, graph, read, step, stream, prompt, indexPos, generated, pass>>

BeginChat ==
  /\ phase = "idle" /\ phase' = "chat"
  /\ prompt' \in Prompts
  /\ indexPos' = 0 /\ generated' = 0
  /\ UNCHANGED <<ranges, state, graph, read, step, stream, pass>>

(* start_dialog: the prompt alone is longer than the context.              *)
PromptTooLong ==
  /\ phase = "chat" /\ pass = NoPass /\ generated = 0 /\ prompt > MaxSeq
  /\ phase' = "idle"
  /\ UNCHANGED <<ranges, state, graph, read, step, stream, prompt, indexPos, generated, pass>>

(* prompt: no message, or a part of one that is not text.                  *)
PromptRefused ==
  /\ phase = "chat" /\ pass = NoPass /\ generated = 0
  /\ phase' = "idle"
  /\ UNCHANGED <<ranges, state, graph, read, step, stream, prompt, indexPos, generated, pass>>

NextToken ==
  /\ phase = "chat" /\ pass = NoPass
  /\ IF generated = 0 THEN prompt <= MaxSeq /\ StartPass(prompt, 0)
     ELSE StartPass(1, indexPos)
  /\ UNCHANGED <<ranges, state, graph, read, phase, step, prompt, indexPos, generated>>

(* Every range is through: a warm-up pass samples nothing, and after an    *)
(* error of the sampler the position has moved but there is no token.      *)
PassDone ==
  /\ pass # NoPass /\ pass.at = Len(ranges) + 1
  /\ pass' = NoPass
  /\ \/ /\ phase = "warm" /\ step' = step + 1
        /\ UNCHANGED <<phase, indexPos, generated>>
     \/ /\ phase = "chat" /\ indexPos' = indexPos + pass.n
        /\ \/ generated' = generated + 1 /\ phase' \in {"chat", "idle"}
           \/ phase' = "idle" /\ UNCHANGED generated
        /\ UNCHANGED step
  /\ UNCHANGED <<ranges, state, graph, read, stream, prompt>>

(* An error anywhere ends start-up, or the answer.                         *)
GiveUp ==
  /\ pass' = NoPass
  /\ phase' = IF phase = "warm" THEN "down" ELSE "idle"
  /\ UNCHANGED <<ranges, step, stream, prompt, indexPos, generated>>

----------------------------------------------------------------------------
(* The ranges                                                              *)

Running == pass # NoPass /\ pass.at <= Len(ranges)

RunRange ==
  /\ Running /\ Accepted
  /\ state' = Committed(After(Size(pass.at), FALSE))
  /\ graph' = Built /\ read' = Reads
  /\ pass' = [pass EXCEPT !.at = @ + 1]
  /\ UNCHANGED <<ranges, phase, step, stream, prompt, indexPos, generated>>

(* The reply of a worker is lost after its range was committed.            *)
ReplyLost ==
  /\ Running /\ Accepted
  /\ state' = Committed(After(Size(pass.at), FALSE))
  /\ graph' = Built /\ read' = Reads
  /\ GiveUp

(* Building the graph, a computation in it or the copy of the output fails.*)
RangeFails ==
  /\ Running /\ Accepted
  /\ \E done \in 0 .. Size(pass.at), half \in BOOLEAN : state' = After(done, half)
  /\ graph' \in {graph, Built} /\ UNCHANGED read
  /\ GiveUp

RangeRefused ==
  /\ Running /\ ~Accepted
  /\ UNCHANGED <<state, graph, read>>
  /\ GiveUp

(* The connection is gone, or the embedding fails.                         *)
NotReached ==
  /\ Running
  /\ UNCHANGED <<state, graph, read>>
  /\ GiveUp

Next ==
  \/ WarmPass \/ WarmDone \/ BeginChat \/ PromptTooLong \/ PromptRefused \/ NextToken \/ PassDone
  \/ RunRange \/ ReplyLost \/ RangeFails \/ RangeRefused \/ NotReached

Spec == Init /\ [][Next]_vars

----------------------------------------------------------------------------
(* Properties                                                              *)

TypeOK ==
  /\ ranges \in Splits
  /\ \A l \in Layers : state[l].next \in 0 .. MaxSeq
  /\ phase \in {"warm", "idle", "chat", "down"}
  /\ pass.n \in Nat /\ pass.position \in 0 .. MaxSeq /\ pass.at \in 0 .. Len(ranges) + 1
  /\ indexPos \in 0 .. MaxSeq

(* Whatever failed half way before, on whatever machine, a computation     *)
(* sees the tokens of the pass's own context from position 0 on and        *)
(* nothing else: no row, window or recurrent state of the warm-up, of an   *)
(* earlier request or of a pass that was given up, and no missing one.     *)
ExactState ==
  pass # NoPass =>
    \A i \in 1 .. pass.at - 1 : \A l \in InRange(i) :
      read[l] = {Context(pass.position + pass.n)}

(* The position check of the adapter never refuses a pass of a running     *)
(* answer: it fires only when the context is full.  Reusing the states of  *)
(* the last request and failing half way never blocks a later request.     *)
RefusedOnlyWhenFull ==
  (Running /\ ~Accepted) => pass.position + pass.n > MaxSeq
=============================================================================
