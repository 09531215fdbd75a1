----------------------------- MODULE MCLlmData -----------------------------
(* Model-checking instances of ShardWeights, TensorFormat and KvCache.  The  *)
(* three share nothing: a behaviour has tasks to load, a tensor to send or   *)
(* generations to cache.                                                     *)
EXTENDS ShardWeights, TensorFormat, KvCache, TLC

VARIABLE part

MCModels == [layout : {"single", "sharded"}, tied : BOOLEAN]

Plan(a, c, src, d, r) == [assigned |-> a, cut |-> c, source |-> src,
                          sharedDir |-> d, sameRev |-> r]
Unassigned == Plan({}, 1, "hub", FALSE, TRUE)
MCPlans ==
    {Plan({0, 1}, c, "hub", d, r) : c \in {0, 1, 3}, d \in BOOLEAN, r \in BOOLEAN}
       \cup {Plan({0, 1}, 1, "local", TRUE, TRUE), Unassigned}

\* 3 stands for what is no number of the dtype.
Leaves  == {<<"leaf", v>> : v \in 1..3}
Lists(S) == {List(s) : s \in UNION {[1..n -> S] : n \in 0..2}}
Vectors == Lists(Leaves)
\* Matrices, ragged ones included, and stacks of some matrices.
Matrices == Lists(Vectors \cup Leaves)
Stacks == Lists({List(<<>>), List(<<List(<<>>), List(<<>>)>>),
                 List(<<List(<<<<"leaf", 1>>>>), List(<<<<"leaf", 2>>>>)>>),
                 List(<<List(<<<<"leaf", 1>>, <<"leaf", 2>>>>)>>),
                 List(<<List(<<<<"leaf", 1>>, <<"leaf", 2>>>>),
                        List(<<<<"leaf", 2>>, <<"leaf", 1>>>>)>>)})
MCSamples == Vectors \cup Matrices \cup Stacks

CONSTANTS r1, r2, w1, w2

TwoRuns == {r1, r2}
MCWorkers == {w1, w2}

\* Runs and threads are interchangeable, and every property is an invariant.
TwoRunSymmetry == Permutations(TwoRuns) \cup Permutations(MCWorkers)

\* What is not the part at hand stays as it begins.
MCInit ==
    /\ part \in {"weights", "tensor", "cache"}
    /\ Init /\ TensorInit /\ KvInit
    /\ plan = Unassigned <=> part # "weights"
    /\ data = NoData <=> part # "tensor"
    /\ part = "cache" => model = [layout |-> "single", tied |-> FALSE]

MCVars == <<part, vars, tensorVars, kvVars>>

MCNext ==
    \/ part = "weights" /\ Next /\ UNCHANGED <<part, tensorVars, kvVars>>
    \/ part = "tensor" /\ TensorNext /\ UNCHANGED <<part, vars, kvVars>>
    \/ part = "cache" /\ KvNext /\ UNCHANGED <<part, vars, tensorVars>>
    \/ part # "cache" /\ UNCHANGED MCVars   \* loads and transfers end

MCSpec == MCInit /\ [][MCNext]_MCVars

MCTensorSpec == MCInit /\ part = "tensor" /\ [][MCNext]_MCVars
=============================================================================
