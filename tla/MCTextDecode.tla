---------------------------- MODULE MCTextDecode ----------------------------
(* Three layers, chunks of one layer each, prompts of up to two tokens and *)
(* five positions: a dialog outgrows a bucket of two rows.                *)
EXTENDS TextDecode

Plain == [mode |-> "auto", prefillArg |-> FALSE, ends |-> <<>>, broken |-> {},
          prefill |-> "none", adds |-> 0, local |-> 0 .. 2, shadow |-> FALSE,
          promote |-> TRUE, output |-> "hidden"]
Chunks(d, ends) == [d EXCEPT !.ends = ends]
Prefix == Chunks(Plain, <<0, 1>>)
Full == Chunks(Plain, <<0, 1, 2>>)
Prefill(d, kind, adds) == [d EXCEPT !.prefillArg = TRUE, !.prefill = kind, !.adds = adds]
Worker(d, local, output) == [d EXCEPT !.local = local, !.output = output]

(* Deployments the documents describe: NPU prefix with a software or a     *)
(* distributed tail, with and without a worker's output head, the whole    *)
(* NPU, prefill on the NPU with a software tail, shadow prefill, workers.  *)
Documented ==
  { Prefix, Worker(Prefix, {0, 1}, "hidden"),
    Worker([Prefix EXCEPT !.mode = "npu-cpu", !.broken = {2}], {0, 1}, "logits"),
    Worker([Prefix EXCEPT !.broken = {2}], {0, 1}, "token"),
    Full, [Full EXCEPT !.mode = "full-npu"], [Full EXCEPT !.broken = {2, 3}],
    [Prefix EXCEPT !.mode = "full-npu"],
    [Prefill(Prefix, "deepstack", 3) EXCEPT !.mode = "cpu-only"],
    Prefill(Prefix, "deepstack", 3),
    Prefill(Prefix, "plain", 0),
    [Plain EXCEPT !.shadow = TRUE],
    Worker([Plain EXCEPT !.shadow = TRUE], {0, 2}, "hidden"),
    Worker(Plain, {1}, "logits") }

(* An NPU prefix that covers the layer of a worker.                        *)
RemoteInPrefix == {Worker(Prefix, {0, 2}, "hidden"), Worker(Full, {0, 1}, "hidden")}

(* Prefill chunks with additions, and a model that has them for one layer. *)
FewAdditions == {Prefill(Prefix, "deepstack", 1)}

(* Deployments with a chunk that never computes the right thing.           *)
BadFirstChunk ==
  {[Prefix EXCEPT !.broken = {1}], [Full EXCEPT !.mode = "full-npu", !.broken = {3}],
   Worker([Prefix EXCEPT !.broken = {1}], {0, 1}, "logits")}
Anything == Documented \cup RemoteInPrefix \cup BadFirstChunk \cup FewAdditions

(* The theorems about tokens and refusals are about deployments like these. *)
ASSUME Covered == \A d \in Anything : HandsOver(d) /\ KeepsHead(d)
=============================================================================
