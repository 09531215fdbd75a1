-------------------------- MODULE MCShardExchange --------------------------
(* Model-checking instances of ShardExchange: three layers, or a command    *)
(* cut in three shares, over two or three shards, on the node as it is.     *)
EXTENDS ShardExchange

TwoCuts == [i \in 0..2 |-> <<0, 2, 3>>[i + 1]]
ThreeCuts == [i \in 0..3 |-> <<0, 2, 2, 3>>[i + 1]]     \* shard 1 is empty

Two(topology, workload) ==
    [shards |-> 2, cut |-> TwoCuts, topology |-> topology,
     workload |-> workload]

Pipelined ==
    [shards |-> 3, cut |-> ThreeCuts, topology |-> "pipeline",
     workload |-> "model"]

\* One run of each topology.
AllTopologies == {Pipelined, Two("parallel", "model"), Two("reduce", "model")}

Commands == {Two("reduce", "command")}
=============================================================================
