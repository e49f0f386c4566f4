------------------------- MODULE SessionRefinement -------------------------
(***************************************************************************)
(* A DIAL master and its workers implement one machine.                    *)
(***************************************************************************)
EXTENDS DialSession

NoLogits == [own |-> "none"]

(* The logits exist once the hidden state has left the last block.         *)
Logits(m) ==
  IF mpc[m] = "forward" /\ blk[m] = NumBlocks
  THEN [own |-> hid[m].own, req |-> hid[m].req,
        tokens |-> hid[m].from + hid[m].len, value |-> hid[m].value]
  ELSE NoLogits

Phase(m) ==
  IF mpc[m] \in {"off", "loading", "greeting"} THEN "down"
  ELSE IF mpc[m] = "idle" THEN "idle"
  ELSE IF mpc[m] = "crashed" THEN "dead"
  ELSE "busy"

SM == INSTANCE SingleMachine WITH
        phase   <- [m \in Master |-> Phase(m)],
        request <- req,
        tokens  <- ntok,
        sampled <- generated,
        logits  <- [m \in Master |-> Logits(m)]

(* The distributed session implements the single machine: every step of a  *)
(* master, a worker or the network is a step the single machine could take *)
(* or is invisible (LLama::next_token and all it calls, across machines).  *)
ImplementsSingleMachine == SM!Spec
=============================================================================
