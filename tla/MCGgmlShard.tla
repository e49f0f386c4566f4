----------------------------- MODULE MCGgmlShard -----------------------------
EXTENDS GgmlShard

\* Three layers: one fused shard, a shard and a single layer, no fused shard.
SmallSplits ==
  { <<[first |-> 1, last |-> 3]>>,
    <<[first |-> 1, last |-> 2], [first |-> 3, last |-> 3]>>,
    <<[first |-> 1, last |-> 1], [first |-> 2, last |-> 3]>>,
    <<[first |-> 1, last |-> 1], [first |-> 2, last |-> 2], [first |-> 3, last |-> 3]>> }
=============================================================================
