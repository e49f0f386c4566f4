-------------------------- MODULE MCDialSession --------------------------
(***************************************************************************)
(* Small deployments of DialSession for TLC.                               *)
(***************************************************************************)
EXTENDS SessionRefinement, TLC

\* w1 serves two segments around a local block, w2 the block after them.
OwnerSplit  == 0 :> "w1" @@ 1 :> Local @@ 2 :> "w1" @@ 3 :> "w2"
HostedSplit == "w1" :> {0, 2} @@ "w2" :> {3}
EncSplit    == "w1" :> "range" @@ "w2" :> "compact"

\* Two masters share one worker, which has not loaded block 2.
OwnerShared  == 0 :> "w1" @@ 1 :> "w1" @@ 2 :> Local
HostedShared == "w1" :> {0, 1}
EncShared    == "w1" :> "batch"

Symmetry == Permutations(Master)
==========================================================================
