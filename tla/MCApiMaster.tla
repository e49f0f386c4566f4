---------------------------- MODULE MCApiMaster ----------------------------
(* A chat that is streamed and one that is not, each with a second message *)
(* that may be refused, and a view that probes one worker.                 *)
EXTENDS ApiMaster

CONSTANTS c1, c2
Asked(s, m) == [stream |-> s, messages |-> m]
Good == <<TRUE>>
Bad == <<TRUE, FALSE>>
SmallAsks ==
  { [c \in Chat |-> IF c = c1 THEN Asked(TRUE, m1) ELSE Asked(FALSE, m2)] :
      <<m1, m2>> \in {<<Good, Good>>, <<Good, Bad>>, <<Bad, Good>>} }
SmallWriter == Chat \cup Probe
SomePrompt == <<"args.prompt">>
=============================================================================
