--------------------------- MODULE SingleMachine ---------------------------
(***************************************************************************)
(* What a DIAL master promises to its user, whatever machines its blocks   *)
(* run on: it behaves as one machine that holds the whole model.  A chat   *)
(* request prefills a prompt and then alternates between computing the     *)
(* logits of the tokens so far and sampling the next token; it may be      *)
(* given up at any time, and so may the machine.                           *)
(***************************************************************************)
EXTENDS Integers

CONSTANTS Master, SampleLen, PromptLens, MaxRequests, NoLogits

VARIABLES
  phase,    \* down, idle, busy, dead
  request,  \* number of the current or last request
  tokens,   \* tokens of the request so far, prompt included
  sampled,  \* how many of them were sampled
  logits    \* what the next token will be sampled from, or NoLogits

avars == <<phase, request, tokens, sampled, logits>>

(* The logits after exactly these tokens of this request, computed by a    *)
(* model none of whose values was stale.                                   *)
Exact(m) == [own |-> m, req |-> request[m], tokens |-> tokens[m], value |-> "clean"]

Init ==
  /\ phase = [m \in Master |-> "down"]
  /\ request = [m \in Master |-> 0]
  /\ tokens = [m \in Master |-> 0]
  /\ sampled = [m \in Master |-> 0]
  /\ logits = [m \in Master |-> NoLogits]

Load(m) ==
  /\ phase[m] = "down"
  /\ phase' = [phase EXCEPT ![m] = "idle"]
  /\ UNCHANGED <<request, tokens, sampled, logits>>

Begin(m) ==
  /\ phase[m] = "idle" /\ request[m] < MaxRequests
  /\ phase' = [phase EXCEPT ![m] = "busy"]
  /\ request' = [request EXCEPT ![m] = @ + 1]
  /\ tokens' = [tokens EXCEPT ![m] = 0]
  /\ sampled' = [sampled EXCEPT ![m] = 0]
  /\ UNCHANGED logits

Prompt(m) ==
  /\ phase[m] = "busy" /\ tokens[m] = 0 /\ sampled[m] < SampleLen
  /\ \E n \in PromptLens : tokens' = [tokens EXCEPT ![m] = n]
  /\ UNCHANGED <<phase, request, sampled, logits>>

Compute(m) ==
  /\ phase[m] = "busy" /\ tokens[m] > 0 /\ logits[m] = NoLogits
  /\ logits' = [logits EXCEPT ![m] = Exact(m)]
  /\ UNCHANGED <<phase, request, tokens, sampled>>

(* The next token; the request may end with it.                            *)
Sample(m) ==
  /\ phase[m] = "busy" /\ logits[m] # NoLogits
  /\ tokens' = [tokens EXCEPT ![m] = @ + 1]
  /\ sampled' = [sampled EXCEPT ![m] = @ + 1]
  /\ logits' = [logits EXCEPT ![m] = NoLogits]
  /\ phase' \in {phase, [phase EXCEPT ![m] = "idle"]}
  /\ UNCHANGED request

End(m) ==
  /\ phase[m] = "busy"
  /\ phase' = [phase EXCEPT ![m] = "idle"]
  /\ logits' = [logits EXCEPT ![m] = NoLogits]
  /\ UNCHANGED <<request, tokens, sampled>>

Die(m) ==
  /\ phase[m] # "dead"
  /\ phase' = [phase EXCEPT ![m] = "dead"]
  /\ logits' = [logits EXCEPT ![m] = NoLogits]
  /\ UNCHANGED <<request, tokens, sampled>>

Next ==
  \E m \in Master :
    Load(m) \/ Begin(m) \/ Prompt(m) \/ Compute(m) \/ Sample(m) \/ End(m) \/ Die(m)

Spec == Init /\ [][Next]_avars
=============================================================================
