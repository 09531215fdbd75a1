--------------------------- MODULE ShardExchange ---------------------------
(***************************************************************************)
(* The shard tasks of one run on one node: threads of the executor pool    *)
(* poll the server's exchange for the input of their shard, compute, and   *)
(* post the output back (data_worker.py, pipeline_worker.py), where it     *)
(* becomes the input of the next shard or of the merge.  The exchange and  *)
(* the coordinator that issues the tasks are external.                     *)
(*                                                                         *)
(* A value is abstracted to the sequence of layers applied to produce it,  *)
(* in order: the toy model applies one function per layer (and a command   *)
(* shard stands for the layers of its share), so a sharded run is right    *)
(* when its output went through every layer once and in order.             *)
(*                                                                         *)
(* Where a shard task is:                                                  *)
(*   queued   at the coordinator, or in the pool without a thread          *)
(*   test     the while condition of _poll_for_input                       *)
(*   get      the poll is on its way    sleep   between two polls          *)
(*   compute  the input is there        post    inside _post_output        *)
(*   done     execute_shard returned    failed  it raised                  *)
(***************************************************************************)
EXTENDS Integers, Sequences, FiniteSets, SequencesExt

CONSTANTS
    Jobs,           \* the sharded runs considered: the number of shards (the
                    \* merge not counted), where they are cut, the topology
                    \* and the workload
    HasExecutor,    \* was DataShardWorker given an executor?  The node gives
                    \* it none (node.py:208).
    Slots,          \* threads of the executor pool
    PollTimeout,    \* poll_timeout_seconds, in ticks of the clock
    MaxFaults,      \* bound on failed exchanges and computations
    MaxReissues     \* bound on tasks the coordinator issues again

ASSUME ShardExchangeAssumption ==
    /\ \A j \in Jobs :
         /\ j.shards \in Nat \ {0}
         /\ j.cut \in [0..j.shards -> Nat]
         /\ j.cut[0] = 0
         /\ \A i \in 0..(j.shards - 1) : j.cut[i] <= j.cut[i + 1]
         /\ j.topology \in {"pipeline", "parallel", "reduce"}
         /\ j.workload \in {"model", "command"}
    /\ HasExecutor \in BOOLEAN
    /\ Slots \in Nat \ {0}
    /\ PollTimeout \in Nat
    /\ MaxFaults \in Nat
    /\ MaxReissues \in Nat

Attempts == 3   \* of _post_output

\* Every shard index some job has.
Indices == UNION {0..j.shards : j \in Jobs}

VARIABLES
    job,        \* the sharded run at hand
    pc,         \* where each task is
    elapsed,    \* ticks since the task began to poll
    value,      \* the input, then the output, the task's thread holds
    attempt,    \* posts of the output that have not succeeded
    why,        \* what made the task fail
    exchange,   \* the outputs the server has, by task
    faults, reissues

vars == <<job, pc, elapsed, value, attempt, why, exchange, faults, reissues>>

Shards == 0..(job.shards - 1)
Merge == job.shards
Tasks == IF job.topology = "reduce" THEN Shards \cup {Merge} ELSE Shards
Cut == job.cut      \* shard i computes layers Cut[i] .. Cut[i + 1] - 1
Depth == Cut[job.shards]

Polling == {"test", "get", "sleep"}
Busy == {i \in Tasks : pc[i] \in Polling \cup {"compute", "post"}}

Layer == 0..(Depth - 1)

\* Layers a, ..., b - 1.
Layers(a, b) == [k \in 1..(b - a) |-> a + k - 1]

TypeOK ==
    /\ job \in Jobs
    /\ pc \in [Tasks -> Polling \cup {"queued", "compute", "post", "done",
                                      "failed"}]
    /\ elapsed \in [Tasks -> 0..PollTimeout]
    /\ \A i \in Tasks :
         IF i = Merge /\ (pc[i] = "compute" \/ why[i] = "compute")
         THEN value[i] \in Seq(Seq(Layer)) ELSE value[i] \in Seq(Layer)
    /\ attempt \in [Tasks -> 0..(Attempts - 1)]
    /\ why \in [Tasks -> {"none", "timeout", "answer", "compute", "post"}]
    /\ DOMAIN exchange \subseteq Tasks
    /\ \A i \in DOMAIN exchange : exchange[i] \in Seq(Layer)
    /\ faults \in 0..MaxFaults
    /\ reissues \in 0..MaxReissues

Init ==
    /\ job \in Jobs
    /\ pc = [i \in Tasks |-> "queued"]
    /\ elapsed = [i \in Tasks |-> 0]
    /\ value = [i \in Tasks |-> << >>]
    /\ attempt = [i \in Tasks |-> 0]
    /\ why = [i \in Tasks |-> "none"]
    /\ exchange = << >>
    /\ faults = 0
    /\ reissues = 0

Goto(i, p) == pc' = [pc EXCEPT ![i] = p]

Fail(i, cause) == Goto(i, "failed") /\ why' = [why EXCEPT ![i] = cause]

Fault == faults < MaxFaults /\ faults' = faults + 1

-----------------------------------------------------------------------------
(* The exchange and the coordinator. *)

\* The data endpoint answers 200 for this task.
InputReady(i) ==
    CASE i = Merge -> Shards \subseteq DOMAIN exchange
      [] job.topology = "pipeline" /\ i > 0 -> i - 1 \in DOMAIN exchange
      [] OTHER -> TRUE

\* What it answers with: for the merge, the list of the shards' outputs.
Input(i) ==
    CASE i = Merge -> [k \in 1..job.shards |-> exchange[k - 1]]
      [] job.topology = "pipeline" /\ i > 0 -> exchange[i - 1]
      [] OTHER -> << >>

\* The server stores a posted output, over an earlier one of the same task.
Stored(i) ==
    [j \in DOMAIN exchange \cup {i} |->
        IF j = i THEN value[i] ELSE exchange[j]]

\* The task is handed to this node and a thread takes it, in any order.
Take(i) ==
    /\ pc[i] = "queued"
    /\ Cardinality(Busy) < Slots
    /\ Goto(i, "test")
    /\ elapsed' = [elapsed EXCEPT ![i] = 0]
    /\ value' = [value EXCEPT ![i] = << >>]
    /\ attempt' = [attempt EXCEPT ![i] = 0]
    /\ why' = [why EXCEPT ![i] = "none"]
    /\ UNCHANGED <<job, exchange, faults, reissues>>

\* A task that failed, or whose report never arrived, is issued again.
Reissue(i) ==
    /\ pc[i] \in {"done", "failed"}
    /\ reissues < MaxReissues
    /\ reissues' = reissues + 1
    /\ Goto(i, "queued")
    /\ UNCHANGED <<job, elapsed, value, attempt, why, exchange, faults>>

\* Time passes for every thread that is polling.
Tick ==
    /\ \E i \in Tasks : pc[i] \in Polling /\ elapsed[i] < PollTimeout
    /\ elapsed' = [i \in Tasks |->
                     IF pc[i] \in Polling /\ elapsed[i] < PollTimeout
                     THEN elapsed[i] + 1 ELSE elapsed[i]]
    /\ UNCHANGED <<job, pc, value, attempt, why, exchange, faults, reissues>>

-----------------------------------------------------------------------------
(* One shard task on a thread of the pool. *)

\* The while condition: a poll that was sent before the deadline counts even
\* if it is answered after it.
PollTest(i) ==
    /\ pc[i] = "test"
    /\ elapsed[i] < PollTimeout
    /\ Goto(i, "get")
    /\ UNCHANGED <<job, elapsed, value, attempt, why, exchange, faults,
                   reissues>>

PollTimesOut(i) ==
    /\ pc[i] = "test"
    /\ elapsed[i] >= PollTimeout
    /\ Fail(i, "timeout")
    /\ UNCHANGED <<job, elapsed, value, attempt, exchange, faults, reissues>>

PollReady(i) ==
    /\ pc[i] = "get"
    /\ InputReady(i)
    /\ value' = [value EXCEPT ![i] = Input(i)]
    /\ Goto(i, "compute")
    /\ UNCHANGED <<job, elapsed, attempt, why, exchange, faults, reissues>>

\* Mutant: the deadline is computed anew for every poll.
PollRestartsDeadline(i) ==
    /\ pc[i] = "get"
    /\ ~InputReady(i)
    /\ Goto(i, "sleep")
    /\ elapsed' = [elapsed EXCEPT ![i] = 0]
    /\ UNCHANGED <<job, value, attempt, why, exchange, faults, reissues>>

PollNotReady(i) ==
    /\ pc[i] = "get"
    /\ ~InputReady(i)
    /\ Goto(i, "sleep")
    /\ UNCHANGED <<job, elapsed, value, attempt, why, exchange, faults,
                   reissues>>

\* Mutant: the failed GET is taken for an answer without input.
PollFailsEmpty(i) ==
    /\ pc[i] = "get"
    /\ Fault
    /\ Goto(i, "compute")
    /\ UNCHANGED <<job, elapsed, value, attempt, why, exchange, reissues>>

\* The exception of the GET is logged and the thread sleeps, as for an answer
\* that is not 200.
PollFails(i) ==
    /\ pc[i] = "get"
    /\ Fault
    /\ Goto(i, "sleep")
    /\ UNCHANGED <<job, elapsed, value, attempt, why, exchange, reissues>>

\* A 200 whose body does not parse raises outside the try block.
PollUnreadable(i) ==
    /\ pc[i] = "get"
    /\ Fault
    /\ Fail(i, "answer")
    /\ UNCHANGED <<job, elapsed, value, attempt, exchange, reissues>>

Wake(i) ==
    /\ pc[i] = "sleep"
    /\ Goto(i, "test")
    /\ UNCHANGED <<job, elapsed, value, attempt, why, exchange, faults,
                   reissues>>

\* Mutant: the end layer is taken as inclusive.
RunLayersInclusive(i, v) == v \o Layers(Cut[i], Cut[i + 1] + 1)

\* _run_layers: the layers start .. end - 1, in order, over the input.
RunLayers(i, v) == v \o Layers(Cut[i], Cut[i + 1])

\* A command shard without an executor to run it echoes its input.
Echo(j) == j.workload = "command" /\ ~HasExecutor

\* _compute_shard
ComputeShard(i, v) == IF Echo(job) THEN v ELSE RunLayers(i, v)

\* _compute_merge of a list of lists: their concatenation.
ComputeMerge(outputs) == FlattenSeq(outputs)

Compute(i) ==
    /\ pc[i] = "compute"
    /\ value' = [value EXCEPT ![i] =
                   IF i = Merge THEN ComputeMerge(@) ELSE ComputeShard(i, @)]
    /\ Goto(i, "post")
    /\ UNCHANGED <<job, elapsed, attempt, why, exchange, faults, reissues>>

ComputeRaises(i) ==
    /\ pc[i] = "compute"
    /\ Fault
    /\ Fail(i, "compute")
    /\ UNCHANGED <<job, elapsed, value, attempt, exchange, reissues>>

PostOk(i) ==
    /\ pc[i] = "post"
    /\ exchange' = Stored(i)
    /\ Goto(i, "done")
    /\ UNCHANGED <<job, elapsed, value, attempt, why, faults, reissues>>

\* Mutant: the third attempt is never made.
NextAttemptOneShort(i) ==
    IF attempt[i] + 1 < Attempts - 1
    THEN attempt' = [attempt EXCEPT ![i] = @ + 1] /\ UNCHANGED <<pc, why>>
    ELSE Fail(i, "post") /\ UNCHANGED attempt

\* Mutant: the loop falls through without raising.
NextAttemptFallsThrough(i) ==
    IF attempt[i] + 1 < Attempts
    THEN attempt' = [attempt EXCEPT ![i] = @ + 1] /\ UNCHANGED <<pc, why>>
    ELSE Goto(i, "done") /\ UNCHANGED <<job, attempt, why>>

\* After an unsuccessful post: try again, or raise after the third.
NextAttempt(i) ==
    IF attempt[i] + 1 < Attempts
    THEN attempt' = [attempt EXCEPT ![i] = @ + 1] /\ UNCHANGED <<pc, why>>
    ELSE Fail(i, "post") /\ UNCHANGED attempt

\* The post raises or is answered with an error; when its answer was lost the
\* server has stored the output all the same.
PostFails(i) ==
    /\ pc[i] = "post"
    /\ Fault
    /\ exchange' \in {exchange, Stored(i)}
    /\ NextAttempt(i)
    /\ UNCHANGED <<job, elapsed, value, reissues>>

-----------------------------------------------------------------------------
Worker(i) ==
    \/ PollTest(i) \/ PollTimesOut(i) \/ PollReady(i) \/ PollNotReady(i)
    \/ PollFails(i) \/ PollUnreadable(i) \/ Wake(i)
    \/ Compute(i) \/ ComputeRaises(i) \/ PostOk(i) \/ PostFails(i)

\* Every task has returned or raised and will not be issued again.
Terminated ==
    /\ \A i \in Tasks : pc[i] \in {"done", "failed"}
    /\ UNCHANGED vars

Next ==
    \/ \E i \in Tasks : Take(i) \/ Reissue(i) \/ Worker(i)
    \/ Tick
    \/ Terminated

Spec == Init /\ [][Next]_vars

(* The threads are scheduled by the OS, every request has a timeout, a     *)
(* free thread takes a submitted task, and time passes.                    *)
FairSpec ==
    /\ Spec
    /\ WF_vars(Tick)
    /\ \A i \in Indices : WF_vars(i \in Tasks /\ (Take(i) \/ Worker(i)))

-----------------------------------------------------------------------------
(* Properties. *)

\* What a task must post: all layers up to the end of its shard in a
\* pipeline, those of its own shard otherwise, and all of them for the merge.
Expected(i) ==
    CASE i = Merge -> Layers(0, Depth)
      [] job.topology = "pipeline" -> Layers(0, Cut[i + 1])
      [] OTHER -> Layers(Cut[i], Cut[i + 1])

\* Whatever is posted, in whatever order the shards ran, however often a post
\* or a whole task was repeated, is what the unsharded model, or the whole
\* command, computes (data_worker.py:131, pipeline_worker.py; for commands the
\* release notes at README.md:157).
ComposesInOrder == \A i \in DOMAIN exchange : exchange[i] = Expected(i)

\* A task that returns normally has its output at the server.
ReportedIsPosted ==
    \A i \in Tasks :
        pc[i] = "done" => i \in DOMAIN exchange /\ exchange[i] = value[i]

Dataflow == INSTANCE ShardDataflow WITH
                Echoes <- Echo,
                outputs <- exchange,
                returned <- {i \in Tasks : pc[i] = "done"}

\* Threads, polls and repeated posts implement the dataflow: an output appears
\* once, after those it is computed from and computed from just those, and no
\* late or repeated post of any task changes it.
ImplementsDataflow == Dataflow!DataSpec

\* A failed post takes three faults: one or two of them anywhere, lost polls
\* included, never cost a computed output.
TransientFaultsAbsorbed ==
    \A i \in Tasks : why[i] = "post" => faults >= 3

\* No shard keeps its slot for ever, although a shard may wait for an input
\* whose own shard is queued behind it: whatever is issued again, the time
\* comes when every task has returned or raised.
ShardsSettle == []<>(\A i \in Tasks : pc[i] \in {"done", "failed"})
=============================================================================
