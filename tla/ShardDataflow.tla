--------------------------- MODULE ShardDataflow ---------------------------
(***************************************************************************)
(* What a sharded run promises at the server's exchange, without polls,    *)
(* time-outs, attempts or threads: the output of each task appears once,   *)
(* when what it is computed from is there, is computed from exactly that,  *)
(* and never changes; a task returns only when its output is there, as     *)
(* often as it is issued.  ShardExchange implements it.                    *)
(***************************************************************************)
EXTENDS Integers, Sequences, SequencesExt

CONSTANTS
    Jobs,       \* the sharded runs considered
    Echoes(_)   \* does this job's worker echo its input?

VARIABLES
    job,
    outputs,    \* what has appeared, by task
    returned    \* the tasks that have returned and not been issued again

dataVars == <<job, outputs, returned>>

Final   == job.shards
Shares == 0..(Final - 1)
Parts  == IF job.topology = "reduce" THEN Shares \cup {Final} ELSE Shares

\* The tasks whose outputs task i is computed from.
Sources(i) ==
    IF i = Final THEN Shares
    ELSE IF job.topology = "pipeline" /\ i > 0 THEN {i - 1} ELSE {}

\* The layers of share i.
Share(i) ==
    IF Echoes(job) THEN << >>
    ELSE [k \in 1..(job.cut[i + 1] - job.cut[i]) |-> job.cut[i] + k - 1]

\* What task i makes of its sources: the merge puts them one after the other,
\* a shard applies its layers.
Output(i) ==
    IF i = Final THEN FlattenSeq([k \in 1..Final |-> outputs[k - 1]])
    ELSE (IF Sources(i) = {} THEN << >> ELSE outputs[i - 1]) \o Share(i)

DataInit ==
    /\ job \in Jobs
    /\ outputs = << >>
    /\ returned = {}

\* The output appears; the answer that says so may be lost.
Appear(i) ==
    /\ i \notin DOMAIN outputs
    /\ Sources(i) \subseteq DOMAIN outputs
    /\ outputs' = [j \in DOMAIN outputs \cup {i} |->
                     IF j = i THEN Output(i) ELSE outputs[j]]
    /\ returned' \in {returned, returned \cup {i}}
    /\ UNCHANGED job

\* A task whose output was there before returns.
Return(i) ==
    /\ i \in DOMAIN outputs
    /\ returned' = returned \cup {i}
    /\ UNCHANGED <<job, outputs>>

\* It is issued again.
Recall(i) ==
    /\ i \in returned
    /\ returned' = returned \ {i}
    /\ UNCHANGED <<job, outputs>>

DataNext == \E i \in Parts : Appear(i) \/ Return(i) \/ Recall(i)

DataSpec == DataInit /\ [][DataNext]_dataVars
=============================================================================
