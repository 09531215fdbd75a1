----------------------------- MODULE NodeTasks -----------------------------
(***************************************************************************)
(* The task path of ComputeNode (node.py): the main thread registers,      *)
(* polls and submits; the threads of the executor pool execute and report; *)
(* any thread or a signal handler may call stop(), and the embedding       *)
(* program may call set_executor() at any time.  The pool coordinator is   *)
(* external: it holds the queued tasks and records the verdicts.           *)
(*                                                                         *)
(* A task's stage says where it is:                                        *)
(*   queued     at the coordinator                                         *)
(*   missed     assigned in a pull answer that never reached the node      *)
(*   pending    submitted to the executor pool, no thread has it yet       *)
(*   running    a pool thread is inside executor.execute                   *)
(*   reporting  that thread is inside _report_result                       *)
(*   acked      the report was answered 2xx, the counter not yet updated   *)
(*   finished   the thread has decremented _tasks_in_flight and returned   *)
(*   aborted    _report_result raised out of _execute_task                 *)
(***************************************************************************)
EXTENDS Integers, FiniteSets

CONSTANTS
    Tasks,          \* tasks the coordinator may assign to this node
    MaxConcurrent,  \* config.max_concurrent_tasks
    MaxFaults,      \* bound on failed HTTP exchanges in a behaviour
    Pipeline        \* enable_pipeline and use_http: wrap the executor

ASSUME NodeTasksAssumption ==
    /\ IsFiniteSet(Tasks)
    /\ MaxConcurrent \in Nat \ {0}
    /\ MaxFaults \in Nat
    /\ Pipeline \in BOOLEAN

VARIABLES
    mainPc,     \* where the main thread is in run()
    stopEvent,  \* _stop_event
    client,     \* _http_client: "none", "open" or "closed"
    executor,   \* _executor: "none", "base" (the user's) or "aware" (wrapped)
    inFlight,   \* _tasks_in_flight
    stage,      \* where each task is
    chosen,     \* the executor _execute_task read for each task
    verdict,    \* the TaskResult each task's thread has built
    recorded,   \* the verdict the coordinator has recorded (external)
    faults      \* failed HTTP exchanges so far

control == <<mainPc, stopEvent, client>>
work == <<inFlight, stage, chosen, verdict, recorded>>
vars == <<mainPc, stopEvent, client, executor, inFlight, stage, chosen,
          verdict, recorded, faults>>

MainPcs == {"start", "register", "loop", "guard", "pull", "wait", "drain",
            "close", "ended", "rejected"}
Stages == {"queued", "missed", "pending", "running", "reporting", "acked",
           "finished", "aborted"}
Executors == {"none", "base", "aware"}
Verdicts == {"ok", "error"}

InStage(S) == {t \in Tasks : stage[t] \in S}

\* Tasks a pool thread is working on, and tasks the pool still has to finish.
Busy == InStage({"running", "reporting", "acked"})
Unfinished == InStage({"pending", "running", "reporting", "acked"})

\* Tasks whose slot has been taken and not given back.
SlotHolders == InStage({"pending", "running", "reporting", "acked", "aborted"})

TypeOK ==
    /\ mainPc \in MainPcs
    /\ stopEvent \in BOOLEAN
    /\ client \in {"none", "open", "closed"}
    /\ executor \in Executors
    /\ inFlight \in Nat
    /\ stage \in [Tasks -> Stages]
    /\ chosen \in [Tasks -> Executors \cup {"unread"}]
    /\ verdict \in [Tasks -> Verdicts \cup {"none"}]
    /\ recorded \in [Tasks -> Verdicts \cup {"none"}]
    /\ faults \in 0..MaxFaults

Init ==
    /\ mainPc = "start"
    /\ stopEvent = FALSE
    /\ client = "none"
    /\ executor \in {"none", "base"}
    /\ inFlight = 0
    /\ stage = [t \in Tasks |-> "queued"]
    /\ chosen = [t \in Tasks |-> "unread"]
    /\ verdict = [t \in Tasks |-> "none"]
    /\ recorded = [t \in Tasks |-> "none"]
    /\ faults = 0

\* One HTTP exchange fails; MaxFaults bounds how many do.
Fault == faults < MaxFaults /\ faults' = faults + 1

-----------------------------------------------------------------------------
(* The embedding program and the signal handlers. *)

Stop ==
    /\ stopEvent' = TRUE
    /\ UNCHANGED <<mainPc, client, executor, work, faults>>

SetExecutor ==
    /\ executor' = "base"
    /\ UNCHANGED <<control, work, faults>>

-----------------------------------------------------------------------------
(* The main thread. *)

\* _connect_and_register up to the registration call: the client is created
\* and the executor wrapped.
Connect ==
    /\ mainPc = "start"
    /\ mainPc' = "register"
    /\ client' = "open"
    /\ executor' = IF Pipeline THEN "aware" ELSE executor
    /\ UNCHANGED <<stopEvent, work, faults>>

RegisterAccepted ==
    /\ mainPc = "register"
    /\ mainPc' = "loop"
    /\ UNCHANGED <<stopEvent, client, executor, work, faults>>

\* Rejected, or the call failed: run() raises before its try block, so
\* neither _stop nor the heartbeat thread runs.
RegisterFailed ==
    /\ mainPc = "register"
    /\ mainPc' = "rejected"
    /\ UNCHANGED <<stopEvent, client, executor, work, faults>>

\* The while condition; leaving the loop enters finally, hence _stop.
LoopTest ==
    /\ mainPc = "loop"
    /\ mainPc' = IF stopEvent THEN "drain" ELSE "guard"
    /\ UNCHANGED <<stopEvent, client, executor, work, faults>>

\* Mutant: an off-by-one that keeps one more task than there are slots.
PollGuardTooLate ==
    /\ mainPc = "guard"
    /\ mainPc' = IF inFlight > MaxConcurrent THEN "wait" ELSE "pull"
    /\ UNCHANGED <<stopEvent, client, executor, work, faults>>

\* Mutant: an off-by-one that keeps the last slot empty.
PollGuardTooEarly ==
    /\ mainPc = "guard"
    /\ mainPc' = IF inFlight >= MaxConcurrent - 1 THEN "wait" ELSE "pull"
    /\ UNCHANGED <<stopEvent, client, executor, work, faults>>

\* The early return of _poll_once.  _tasks_in_flight is read without _lock.
PollGuard ==
    /\ mainPc = "guard"
    /\ mainPc' = IF inFlight >= MaxConcurrent THEN "wait" ELSE "pull"
    /\ UNCHANGED <<stopEvent, client, executor, work, faults>>

\* The pull is answered with a task: count it and submit it to the pool.
PullTask(t) ==
    /\ mainPc = "pull"
    /\ stage[t] = "queued"
    /\ mainPc' = "wait"
    /\ inFlight' = inFlight + 1
    /\ stage' = [stage EXCEPT ![t] = "pending"]
    /\ UNCHANGED <<stopEvent, client, executor, chosen, verdict, recorded,
                   faults>>

PullEmpty ==
    /\ mainPc = "pull"
    /\ InStage({"queued"}) = {}
    /\ mainPc' = "wait"
    /\ UNCHANGED <<stopEvent, client, executor, work, faults>>

\* The pull request fails before the coordinator acts on it.
PullFailed ==
    /\ mainPc = "pull"
    /\ Fault
    /\ mainPc' = "wait"
    /\ UNCHANGED <<stopEvent, client, executor, work>>

\* The coordinator assigns a task and the answer is lost.
PullAnswerLost(t) ==
    /\ mainPc = "pull"
    /\ stage[t] = "queued"
    /\ Fault
    /\ mainPc' = "wait"
    /\ stage' = [stage EXCEPT ![t] = "missed"]
    /\ UNCHANGED <<stopEvent, client, executor, inFlight, chosen, verdict,
                   recorded>>

\* _session_poll_once (modelled in Sessions) and the interruptible wait.
Wait ==
    /\ mainPc = "wait"
    /\ mainPc' = "loop"
    /\ UNCHANGED <<stopEvent, client, executor, work, faults>>

\* Mutant: shutdown(wait=False).
DrainedWithoutWaiting ==
    /\ mainPc = "drain"
    /\ mainPc' = "close"
    /\ UNCHANGED <<stopEvent, client, executor, work, faults>>

\* Mutant: shutdown waits for the counter to come back to zero.
DrainedOnCounter ==
    /\ mainPc = "drain"
    /\ inFlight = 0
    /\ mainPc' = "close"
    /\ UNCHANGED <<stopEvent, client, executor, work, faults>>

\* _exec_pool.shutdown(wait=True) returns once the pool has nothing left: it
\* runs what is still pending, since cancel_futures is not given.
Drained ==
    /\ mainPc = "drain"
    /\ Unfinished = {}
    /\ mainPc' = "close"
    /\ UNCHANGED <<stopEvent, client, executor, work, faults>>

CloseClient ==
    /\ mainPc = "close"
    /\ mainPc' = "ended"
    /\ client' = "closed"
    /\ UNCHANGED <<stopEvent, executor, work, faults>>

-----------------------------------------------------------------------------
(* The threads of the executor pool: at most MaxConcurrent of them. *)

\* Mutant: the threads stop taking tasks once stop() was called.
BeginUnlessStopped(t) ==
    /\ stage[t] = "pending"
    /\ ~stopEvent
    /\ Cardinality(Busy) < MaxConcurrent
    /\ stage' = [stage EXCEPT ![t] = "running"]
    /\ chosen' = [chosen EXCEPT ![t] = executor]
    /\ UNCHANGED <<control, executor, inFlight, verdict, recorded, faults>>

\* A free thread takes a submitted task and reads self._executor.
Begin(t) ==
    /\ stage[t] = "pending"
    /\ Cardinality(Busy) < MaxConcurrent
    /\ stage' = [stage EXCEPT ![t] = "running"]
    /\ chosen' = [chosen EXCEPT ![t] = executor]
    /\ UNCHANGED <<control, executor, inFlight, verdict, recorded, faults>>

\* The executor returns or raises; without one the result is an error.
Execute(t) ==
    /\ stage[t] = "running"
    /\ stage' = [stage EXCEPT ![t] = "reporting"]
    /\ \E v \in Verdicts :
         /\ chosen[t] = "none" => v = "error"
         /\ verdict' = [verdict EXCEPT ![t] = v]
    /\ UNCHANGED <<control, executor, inFlight, chosen, recorded, faults>>

\* Mutant: without raise_for_status an error answer counts as a report.
ReportUnchecked(t) ==
    /\ stage[t] = "reporting"
    /\ client = "open"
    /\ stage' = [stage EXCEPT ![t] = "acked"]
    /\ \/ recorded' = [recorded EXCEPT ![t] = verdict[t]]
       \/ UNCHANGED recorded
    /\ UNCHANGED <<control, executor, inFlight, chosen, verdict, faults>>

\* The report reaches the coordinator and its 2xx answer reaches the node.
ReportAcked(t) ==
    /\ stage[t] = "reporting"
    /\ client = "open"
    /\ stage' = [stage EXCEPT ![t] = "acked"]
    /\ recorded' = [recorded EXCEPT ![t] = verdict[t]]
    /\ UNCHANGED <<control, executor, inFlight, chosen, verdict, faults>>

\* The post raises (or raise_for_status does): the exception leaves
\* _execute_task before the decrement and dies in the discarded future.
\* The coordinator may have recorded the verdict all the same.
ReportRaised(t) ==
    /\ stage[t] = "reporting"
    /\ client = "closed" \/ faults < MaxFaults
    /\ faults' = IF client = "closed" THEN faults ELSE faults + 1
    /\ stage' = [stage EXCEPT ![t] = "aborted"]
    /\ \/ UNCHANGED recorded
       \/ /\ client = "open"
          /\ recorded' = [recorded EXCEPT ![t] = verdict[t]]
    /\ UNCHANGED <<control, executor, inFlight, chosen, verdict>>

\* Mutant: the decrement is forgotten.
GiveBackNothing(t) ==
    /\ stage[t] = "acked"
    /\ stage' = [stage EXCEPT ![t] = "finished"]
    /\ UNCHANGED <<control, executor, inFlight, chosen, verdict, recorded,
                   faults>>

\* The locked decrement that ends _execute_task.
GiveBackSlot(t) ==
    /\ stage[t] = "acked"
    /\ stage' = [stage EXCEPT ![t] = "finished"]
    /\ inFlight' = inFlight - 1
    /\ UNCHANGED <<control, executor, chosen, verdict, recorded, faults>>

-----------------------------------------------------------------------------
Main ==
    \/ Connect \/ RegisterAccepted \/ RegisterFailed
    \/ LoopTest \/ PollGuard
    \/ \E t \in Tasks : PullTask(t) \/ PullAnswerLost(t)
    \/ PullEmpty \/ PullFailed \/ Wait \/ Drained \/ CloseClient

Thread(t) ==
    Begin(t) \/ Execute(t) \/ ReportAcked(t) \/ ReportRaised(t)
    \/ GiveBackSlot(t)

\* run() has returned or raised and every pool thread is idle.
Terminated ==
    /\ mainPc \in {"ended", "rejected"}
    /\ Unfinished = {}
    /\ UNCHANGED vars

Next ==
    \/ Main \/ Stop \/ SetExecutor
    \/ \E t \in Tasks : Thread(t)
    \/ Terminated

Spec == Init /\ [][Next]_vars

(* The main thread and the pool threads are scheduled by the OS, and every *)
(* executor bounds its own run (subprocess timeouts, poll timeouts), so a  *)
(* step that stays enabled is taken.  stop() and set_executor() are the    *)
(* embedding program's choice and get no fairness.                         *)
Fairness == WF_vars(Main) /\ \A t \in Tasks : WF_vars(Thread(t))

FairSpec == Spec /\ Fairness

-----------------------------------------------------------------------------
(* Properties. *)

\* The counter _tasks_in_flight, incremented by the main thread and
\* decremented by the pool threads, is exactly the number of tasks whose
\* slot was taken and not given back, those whose report raised included.
SlotsAccounted == inFlight = Cardinality(SlotHolders)

\* The node never holds more tasks than it advertised, although
\* max_concurrent_tasks is tested before the pull and the counter is only
\* raised after its answer; hence a submitted task always finds a free thread.
CapacityRespected == Cardinality(SlotHolders) <= MaxConcurrent

\* _stop closes the HTTP client only when no task is left to report on it.
ClientOutlivesTasks == client = "closed" => Unfinished = {}

\* What the coordinator and the node together make of a task.
TaskStatus ==
    [t \in Tasks |->
        IF recorded[t] # "none" THEN recorded[t]
        ELSE IF stage[t] = "queued" THEN "queued"
        ELSE IF stage[t] \in {"missed", "aborted"} THEN "lost"
        ELSE "held"]

Pool == INSTANCE TaskPool WITH
            Capacity <- MaxConcurrent,
            status <- TaskStatus,
            connected <- (client # "closed")

\* The threads, the counter and the lossy reports implement the task pool's
\* contract: bounded holding, one verdict per task, disconnect holding none.
ImplementsTaskPool == Pool!PoolSpec

\* Every task the node has pulled is run to the end of _execute_task, also
\* when stop() arrives first.
PulledTasksSettle ==
    \A t \in Tasks :
        stage[t] = "pending" ~> stage[t] \in {"finished", "aborted"}

\* stop() makes run() return, whatever was lost before.
StopCompletes == (stopEvent /\ mainPc # "start") ~>
                    mainPc \in {"ended", "rejected"}

\* A node that is polling and not stopped goes on pulling: no queued task
\* waits for ever.
QueuedTasksArePulled ==
    \A t \in Tasks :
        (mainPc = "loop" /\ stage[t] = "queued")
            ~> (stage[t] # "queued" \/ stopEvent)
=============================================================================
