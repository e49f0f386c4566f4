---------------------------- MODULE TransferLimiter ----------------------------
(***************************************************************************)
(* The transfer limiter of a process (proto/message.rs).  A message is     *)
(* written in chunks, and before each chunk its writer reserves a slot: it *)
(* reads the clock, then, under the limiter's mutex, takes the first free  *)
(* moment, and sleeps until then.  One limiter serves all the writers of   *)
(* the process, the ones of requests and the ones of topology probes.      *)
(*                                                                         *)
(* Times are relative to the present, which is 0, and Tick moves them all; *)
(* a chunk takes one unit.  Past is a bound: moments before -Past are one.    *)
(***************************************************************************)
EXTENDS Integers

CONSTANTS
  Writer,   \* who writes to a connection
  Past      \* bound: how far back a moment is remembered

ASSUME PastAssumption == Past \in Nat \ {0}

VARIABLES
  limited,  \* a limit is configured in the environment of the process
  next,     \* next_write_at
  wait,     \* writer -> where it is in wait_for_slot
  level     \* chunks written faster than the limit, so far

limiterVars == <<limited, next, wait, level>>

Later(a, b) == IF a > b THEN a ELSE b
Idle == [step |-> "idle", at |-> 0]

LimiterInit ==
  /\ limited \in BOOLEAN
  /\ next = 0
  /\ wait = [w \in Writer |-> Idle]
  /\ level = 0

(* The clock is read before the mutex is taken.                            *)
ReadClock(w) ==
  /\ limited /\ wait[w].step = "idle"
  /\ wait' = [wait EXCEPT ![w] = [step |-> "came", at |-> 0]]
  /\ UNCHANGED <<limited, next, level>>

\* Variant: a writer sleeps only when its own clock tells it to.
FirstFree_Seen(seen) == seen

FirstFree(seen) == Later(next, seen)

Reserve(w) ==
  /\ wait[w].step = "came"
  /\ LET until == FirstFree(wait[w].at) IN
     /\ next' = until + 1
     /\ wait' = [wait EXCEPT ![w] = [step |-> "sleeps", at |-> until]]
  /\ UNCHANGED <<limited, level>>

(* The chunk of w goes out; without a limit it goes out at once.           *)
WriteChunk(w) ==
  /\ limited => wait[w].step = "sleeps" /\ wait[w].at <= 0
  /\ wait' = [wait EXCEPT ![w] = Idle]
  /\ level' = IF limited THEN level + 1 ELSE level
  /\ UNCHANGED <<limited, next>>

(* w is dropped; a slot it reserved stays reserved.                        *)
Dropped(w) ==
  /\ wait' = [wait EXCEPT ![w] = Idle]
  /\ UNCHANGED <<limited, next, level>>

Tick ==
  /\ next' = Later(next - 1, -Past)
  /\ wait' = [w \in Writer |-> IF wait[w].step = "idle" THEN Idle
                               ELSE [wait[w] EXCEPT !.at = Later(@ - 1, -Past)]]
  /\ level' = Later(level - 1, 0)
  /\ UNCHANGED limited
=============================================================================
