-------------------------- MODULE NodeTasks_proofs --------------------------
(***************************************************************************)
(* Proofs about NodeTasks, for every set of tasks, every                   *)
(* max_concurrent_tasks and every number of failed exchanges: the          *)
(* inductive invariant Inv, the safety properties it implies and the       *)
(* refinement of TaskPool.                                                 *)
(***************************************************************************)
EXTENDS NodeTasks, FiniteSetTheorems, TLAPS

\* Between the early return of _poll_once and the pull's answer nothing can
\* take the free slot: only the main thread raises the counter.
PullHasRoom == mainPc = "pull" => Cardinality(SlotHolders) < MaxConcurrent

\* The HTTP client lives from _connect_and_register to the end of _stop.
ClientMatchesPc ==
    /\ client = "none" <=> mainPc = "start"
    /\ client = "closed" <=> mainPc = "ended"

\* Once shutdown(wait=True) has returned, nothing is submitted any more.
DrainedIsEmpty == mainPc \in {"close", "ended"} => Unfinished = {}

\* No task is at the node before run() polls or when registration failed.
NothingBeforePolling ==
    mainPc \in {"start", "register", "rejected"} => Unfinished = {}

\* A verdict exists once the executor is done with the task, and it is
\* recorded exactly when a report got through.
VerdictsFollowStages ==
    \A t \in Tasks :
        /\ stage[t] \in {"reporting", "acked", "finished"} =>
             verdict[t] \in Verdicts
        /\ stage[t] \in {"acked", "finished"} => recorded[t] \in Verdicts
        /\ stage[t] \in {"queued", "missed", "pending", "running", "reporting"}
             => recorded[t] = "none"

Inv ==
    /\ TypeOK
    /\ SlotsAccounted
    /\ CapacityRespected
    /\ PullHasRoom
    /\ ClientMatchesPc
    /\ DrainedIsEmpty
    /\ NothingBeforePolling
    /\ VerdictsFollowStages

-----------------------------------------------------------------------------
(* The set whose size _tasks_in_flight counts. *)

\* The slot holders form a finite set, so counting them makes sense.
LEMMA SlotHoldersFinite ==
    /\ IsFiniteSet(SlotHolders)
    /\ Cardinality(SlotHolders) \in Nat
  <1>1. SlotHolders \subseteq Tasks
    BY DEF SlotHolders, InStage
  <1>2. IsFiniteSet(SlotHolders)
    BY <1>1, FS_Subset, NodeTasksAssumption
  <1> QED
    BY <1>2, FS_CardinalityType

\* Moving a task into a slot-holding stage from outside adds one holder.
LEMMA TakeSlot ==
    ASSUME TypeOK, NEW t \in Tasks, stage[t] = "queued",
           stage' = [stage EXCEPT ![t] = "pending"]
    PROVE  Cardinality(SlotHolders') = Cardinality(SlotHolders) + 1
  <1>1. SlotHolders' = SlotHolders \cup {t}
    BY DEF SlotHolders, InStage, TypeOK
  <1>2. t \notin SlotHolders
    BY DEF SlotHolders, InStage
  <1> QED
    BY <1>1, <1>2, SlotHoldersFinite, FS_AddElement

\* Moving a task out of the slot-holding stages removes one holder.
LEMMA FreeSlot ==
    ASSUME TypeOK, NEW t \in Tasks, stage[t] = "acked",
           stage' = [stage EXCEPT ![t] = "finished"]
    PROVE  /\ Cardinality(SlotHolders') = Cardinality(SlotHolders) - 1
           /\ Cardinality(SlotHolders) > 0
  <1>1. SlotHolders' = SlotHolders \ {t}
    BY DEF SlotHolders, InStage, TypeOK
  <1>2. t \in SlotHolders
    BY DEF SlotHolders, InStage
  <1>3. Cardinality(SlotHolders') = Cardinality(SlotHolders) - 1
    BY <1>1, <1>2, SlotHoldersFinite, FS_RemoveElement
  <1>4. Cardinality(SlotHolders) # 0
    BY <1>2, SlotHoldersFinite, FS_EmptySet
  <1> QED
    BY <1>3, <1>4, SlotHoldersFinite

\* Moving a task between two slot-holding stages, or between two others,
\* leaves the holders alone.
LEMMA KeepSlot ==
    ASSUME TypeOK, NEW t \in Tasks, NEW s \in Stages,
           LET holding == {"pending", "running", "reporting", "acked",
                           "aborted"}
           IN  stage[t] \in holding <=> s \in holding,
           stage' = [stage EXCEPT ![t] = s]
    PROVE  SlotHolders' = SlotHolders
  BY DEF SlotHolders, InStage, TypeOK

-----------------------------------------------------------------------------
(* The inductive invariant. *)

LEMMA InitInv == Init => Inv
  <1> SUFFICES ASSUME Init PROVE Inv
    OBVIOUS
  <1>1. SlotHolders = {} /\ Unfinished = {}
    BY DEF Init, SlotHolders, Unfinished, InStage
  <1>2. Cardinality(SlotHolders) = 0
    BY <1>1, FS_EmptySet
  <1>3. TypeOK
    <2>1. stage \in [Tasks -> Stages]
      BY DEF Init, Stages
    <2>2. /\ chosen \in [Tasks -> Executors \cup {"unread"}]
          /\ verdict \in [Tasks -> Verdicts \cup {"none"}]
          /\ recorded \in [Tasks -> Verdicts \cup {"none"}]
      BY DEF Init
    <2>3. faults \in 0..MaxFaults
      BY NodeTasksAssumption DEF Init
    <2>4. stopEvent \in BOOLEAN
      BY DEF Init
    <2>5. /\ mainPc \in MainPcs
          /\ client \in {"none", "open", "closed"}
          /\ executor \in Executors
          /\ inFlight \in Nat
      BY DEF Init, MainPcs, Executors
    <2> QED
      BY <2>1, <2>2, <2>3, <2>4, <2>5 DEF TypeOK
  <1>4. SlotsAccounted /\ CapacityRespected /\ PullHasRoom
    BY <1>2, NodeTasksAssumption
    DEF Init, SlotsAccounted, CapacityRespected, PullHasRoom
  <1>5. ClientMatchesPc /\ DrainedIsEmpty /\ NothingBeforePolling
    BY <1>1 DEF Init, ClientMatchesPc, DrainedIsEmpty, NothingBeforePolling
  <1>6. VerdictsFollowStages
    BY DEF Init, VerdictsFollowStages
  <1> QED
    BY <1>3, <1>4, <1>5, <1>6 DEF Inv

LEMMA TypeStep == TypeOK /\ SlotsAccounted /\ [Next]_vars => TypeOK'
  <1> SUFFICES ASSUME TypeOK, SlotsAccounted, [Next]_vars PROVE TypeOK'
    OBVIOUS
  <1> USE NodeTasksAssumption
          DEF TypeOK, MainPcs, Stages, Executors, Verdicts, control, work
  <1>1. CASE Main
    BY <1>1 DEF Main, Connect, RegisterAccepted, RegisterFailed, LoopTest,
       PollGuard, PullTask, PullAnswerLost, PullEmpty, PullFailed, Wait,
       Drained, CloseClient, Fault
  <1>2. CASE Stop \/ SetExecutor \/ Terminated \/ UNCHANGED vars
    BY <1>2 DEF Stop, SetExecutor, Terminated, vars
  <1>3. ASSUME NEW t \in Tasks, Begin(t) \/ Execute(t) \/ ReportAcked(t)
        PROVE  TypeOK'
    BY <1>3 DEF Begin, Execute, ReportAcked
  <1>4. ASSUME NEW t \in Tasks, ReportRaised(t)
        PROVE  TypeOK'
    BY <1>4 DEF ReportRaised
  <1>5. ASSUME NEW t \in Tasks, GiveBackSlot(t)
        PROVE  TypeOK'
    <2>1. inFlight > 0
      BY <1>5, FreeSlot DEF GiveBackSlot, SlotsAccounted
    <2> QED
      BY <1>5, <2>1 DEF GiveBackSlot
  <1> QED
    BY <1>1, <1>2, <1>3, <1>4, <1>5 DEF Next, Thread

\* Counting: the three conjuncts about the number of slot holders.
LEMMA SlotStep ==
    ASSUME Inv, [Next]_vars
    PROVE  SlotsAccounted' /\ CapacityRespected' /\ PullHasRoom'
  <1> USE NodeTasksAssumption, SlotHoldersFinite
  <1> DEFINE Goal == SlotsAccounted' /\ CapacityRespected' /\ PullHasRoom'
  <1>1. CASE UNCHANGED <<stage, inFlight>> /\ (mainPc' # "pull" \/ mainPc' = mainPc)
    <2>1. SlotHolders' = SlotHolders
      BY <1>1 DEF SlotHolders, InStage
    <2> QED
      BY <1>1, <2>1 DEF Inv, SlotsAccounted, CapacityRespected, PullHasRoom
  <1>2. CASE PollGuard
    <2>1. SlotHolders' = SlotHolders
      BY <1>2 DEF PollGuard, work, SlotHolders, InStage
    <2> QED
      BY <1>2, <2>1
      DEF PollGuard, work, Inv, SlotsAccounted, CapacityRespected, PullHasRoom
  <1>3. ASSUME NEW t \in Tasks, PullTask(t)
        PROVE  Goal
    <2>1. Cardinality(SlotHolders') = Cardinality(SlotHolders) + 1
      BY <1>3, TakeSlot DEF PullTask, Inv
    <2>2. Cardinality(SlotHolders) < MaxConcurrent
      BY <1>3 DEF PullTask, Inv, PullHasRoom
    <2> QED
      BY <1>3, <2>1, <2>2
      DEF PullTask, Inv, SlotsAccounted, CapacityRespected, PullHasRoom
  <1>4. ASSUME NEW t \in Tasks, PullAnswerLost(t)
        PROVE  Goal
    <2>1. SlotHolders' = SlotHolders
      BY <1>4, KeepSlot DEF PullAnswerLost, Inv, Stages
    <2> QED
      BY <1>4, <2>1
      DEF PullAnswerLost, Inv, SlotsAccounted, CapacityRespected, PullHasRoom
  <1>5. ASSUME NEW t \in Tasks,
               Begin(t) \/ Execute(t) \/ ReportAcked(t) \/ ReportRaised(t)
        PROVE  Goal
    <2>1. SlotHolders' = SlotHolders
      BY <1>5, KeepSlot
      DEF Begin, Execute, ReportAcked, ReportRaised, Inv, Stages
    <2>2. UNCHANGED <<inFlight, mainPc>>
      BY <1>5 DEF Begin, Execute, ReportAcked, ReportRaised, control
    <2> QED
      BY <2>1, <2>2 DEF Inv, SlotsAccounted, CapacityRespected, PullHasRoom
  <1>6. ASSUME NEW t \in Tasks, GiveBackSlot(t)
        PROVE  Goal
    <2>1. /\ Cardinality(SlotHolders') = Cardinality(SlotHolders) - 1
          /\ Cardinality(SlotHolders) > 0
      BY <1>6, FreeSlot DEF GiveBackSlot, Inv
    <2> QED
      BY <1>6, <2>1
      DEF GiveBackSlot, control, Inv, SlotsAccounted, CapacityRespected,
          PullHasRoom
  <1>7. CASE Connect \/ RegisterAccepted \/ RegisterFailed \/ LoopTest
             \/ PullEmpty \/ PullFailed \/ Wait \/ Drained \/ CloseClient
             \/ Stop \/ SetExecutor \/ Terminated \/ UNCHANGED vars
    BY <1>7, <1>1
    DEF Connect, RegisterAccepted, RegisterFailed, LoopTest, PullEmpty,
        PullFailed, Wait, Drained, CloseClient, Stop, SetExecutor,
        Terminated, vars, work, control
  <1> QED
    BY <1>2, <1>3, <1>4, <1>5, <1>6, <1>7 DEF Next, Main, Thread

\* The life of the client and of the executor pool.
LEMMA LifecycleStep ==
    ASSUME Inv, [Next]_vars
    PROVE  ClientMatchesPc' /\ DrainedIsEmpty' /\ NothingBeforePolling'
  <1> USE DEF ClientMatchesPc, DrainedIsEmpty, NothingBeforePolling
  <1> DEFINE Goal == ClientMatchesPc' /\ DrainedIsEmpty' /\ NothingBeforePolling'
  <1>1. CASE Main
    <2>1. CASE \E t \in Tasks : PullTask(t) \/ PullAnswerLost(t)
      BY <2>1 DEF PullTask, PullAnswerLost, Inv
    <2>2. CASE ~ \E t \in Tasks : PullTask(t) \/ PullAnswerLost(t)
      <3>1. UNCHANGED stage
        BY <1>1, <2>2 DEF Main, Connect, RegisterAccepted, RegisterFailed,
           LoopTest, PollGuard, PullEmpty, PullFailed, Wait, Drained,
           CloseClient, work
      <3>2. Unfinished' = Unfinished
        BY <3>1 DEF Unfinished, InStage
      <3> QED
        BY <1>1, <2>2, <3>2 DEF Main, Connect, RegisterAccepted,
           RegisterFailed, LoopTest, PollGuard, PullEmpty, PullFailed, Wait,
           Drained, CloseClient, Inv
    <2> QED
      BY <2>1, <2>2
  <1>2. CASE Stop \/ SetExecutor \/ Terminated \/ UNCHANGED vars
    <2>1. UNCHANGED <<mainPc, client, stage>>
      BY <1>2 DEF Stop, SetExecutor, Terminated, vars, control, work
    <2>2. Unfinished' = Unfinished
      BY <2>1 DEF Unfinished, InStage
    <2> QED
      BY <2>1, <2>2 DEF Inv
  <1>3. ASSUME NEW t \in Tasks, Thread(t)
        PROVE  Goal
    <2>1. UNCHANGED <<mainPc, client>>
      BY <1>3 DEF Thread, Begin, Execute, ReportAcked, ReportRaised,
         GiveBackSlot, control
    <2>2. t \in Unfinished
      BY <1>3 DEF Thread, Begin, Execute, ReportAcked, ReportRaised,
         GiveBackSlot, Unfinished, InStage
    <2>3. mainPc \notin {"close", "ended", "start", "register", "rejected"}
      BY <2>2 DEF Inv
    <2> QED
      BY <2>1, <2>3 DEF Inv
  <1> QED
    BY <1>1, <1>2, <1>3 DEF Next

\* Verdicts are built before they are reported, and recorded by reports only.
LEMMA VerdictStep ==
    ASSUME Inv, [Next]_vars
    PROVE  VerdictsFollowStages'
  <1> USE DEF VerdictsFollowStages, Verdicts
  <1>1. CASE UNCHANGED <<stage, verdict, recorded>>
    BY <1>1 DEF Inv
  <1>2. ASSUME NEW t \in Tasks, PullTask(t) \/ PullAnswerLost(t) \/ Begin(t)
        PROVE  VerdictsFollowStages'
    BY <1>2 DEF PullTask, PullAnswerLost, Begin, Inv, TypeOK
  <1>3. ASSUME NEW t \in Tasks, Execute(t)
        PROVE  VerdictsFollowStages'
    BY <1>3 DEF Execute, Inv, TypeOK
  <1>4. ASSUME NEW t \in Tasks, ReportAcked(t) \/ ReportRaised(t)
        PROVE  VerdictsFollowStages'
    BY <1>4 DEF ReportAcked, ReportRaised, Inv, TypeOK
  <1>5. ASSUME NEW t \in Tasks, GiveBackSlot(t)
        PROVE  VerdictsFollowStages'
    BY <1>5 DEF GiveBackSlot, Inv, TypeOK
  <1> QED
    BY <1>1, <1>2, <1>3, <1>4, <1>5
    DEF Next, Main, Thread, Connect, RegisterAccepted, RegisterFailed,
        LoopTest, PollGuard, PullEmpty, PullFailed, Wait, Drained,
        CloseClient, Stop, SetExecutor, Terminated, vars, work

LEMMA InvStep == Inv /\ [Next]_vars => Inv'
  <1> SUFFICES ASSUME Inv, [Next]_vars PROVE Inv'
    OBVIOUS
  <1>1. TypeOK'
    BY TypeStep DEF Inv
  <1>2. SlotsAccounted' /\ CapacityRespected' /\ PullHasRoom'
    BY SlotStep
  <1>3. ClientMatchesPc' /\ DrainedIsEmpty' /\ NothingBeforePolling'
    BY LifecycleStep
  <1>4. VerdictsFollowStages'
    BY VerdictStep
  <1> QED
    BY <1>1, <1>2, <1>3, <1>4 DEF Inv

\* The strengthened invariant of the task path of node.py.
THEOREM Invariance == Spec => []Inv
  <1> QED
    BY InitInv, InvStep, PTL DEF Spec

\* Every variable of the task path keeps its type; in particular
\* _tasks_in_flight never becomes negative.
THEOREM TypeCorrect == Spec => []TypeOK
  <1>1. Inv => TypeOK
    BY DEF Inv
  <1> QED
    BY <1>1, Invariance, PTL

\* _tasks_in_flight is the number of tasks that hold a slot.
THEOREM SlotsAlwaysAccounted == Spec => []SlotsAccounted
  <1>1. Inv => SlotsAccounted
    BY DEF Inv
  <1> QED
    BY <1>1, Invariance, PTL

\* The node never exceeds max_concurrent_tasks.
THEOREM CapacityAlwaysRespected == Spec => []CapacityRespected
  <1>1. Inv => CapacityRespected
    BY DEF Inv
  <1> QED
    BY <1>1, Invariance, PTL

\* No task is left to report when the HTTP client is closed.
THEOREM ClientAlwaysOutlivesTasks == Spec => []ClientOutlivesTasks
  <1>1. Inv => ClientOutlivesTasks
    BY DEF Inv, ClientMatchesPc, DrainedIsEmpty, ClientOutlivesTasks
  <1> QED
    BY <1>1, Invariance, PTL

-----------------------------------------------------------------------------
(* NodeTasks implements TaskPool. *)

\* What the pool sees as held is at most what holds a slot at the node.
LEMMA HeldAreSlotHolders ==
    ASSUME Inv
    PROVE  /\ IsFiniteSet(Pool!Held)
           /\ Cardinality(Pool!Held) <= Cardinality(SlotHolders)
  <1>1. Pool!Held \subseteq SlotHolders
    BY DEF Pool!Held, TaskStatus, SlotHolders, InStage, Inv, TypeOK, Stages,
       VerdictsFollowStages, Verdicts
  <1> QED
    BY <1>1, SlotHoldersFinite, FS_Subset

LEMMA RefinesInit == Init => Pool!PoolInit
  BY DEF Init, Pool!PoolInit, TaskStatus

LEMMA RefinesStep ==
    ASSUME Inv, [Next]_vars
    PROVE  [Pool!PoolNext]_(Pool!poolVars)
  <1> DEFINE Goal == [Pool!PoolNext]_(Pool!poolVars)
  <1> USE DEF Pool!PoolNext, Pool!poolVars
  <1>1. ASSUME UNCHANGED TaskStatus, client' # "closed" <=> client # "closed"
        PROVE  Goal
    BY <1>1
  <1>2. ASSUME NEW t \in Tasks, PullTask(t)
        PROVE  Goal
    <2>1. Cardinality(Pool!Held) < MaxConcurrent
      BY <1>2, HeldAreSlotHolders, SlotHoldersFinite, NodeTasksAssumption,
         FS_CardinalityType
      DEF PullTask, Inv, PullHasRoom
    <2>2. TaskStatus[t] = "queued" /\ client # "closed" /\ client' = client
      BY <1>2
      DEF PullTask, TaskStatus, Inv, VerdictsFollowStages, ClientMatchesPc
    <2>3. TaskStatus' = [TaskStatus EXCEPT ![t] = "held"]
      BY <1>2
      DEF PullTask, TaskStatus, Inv, TypeOK, VerdictsFollowStages
    <2>4. (client # "closed")' = (client # "closed")
      BY <2>2
    <2>5. Pool!Cardinality(Pool!Held) = Cardinality(Pool!Held)
      BY Zenon DEF Pool!Cardinality, Cardinality
    <2>6. Pool!Hand(t)
      BY <2>1, <2>2, <2>3, <2>4, <2>5 DEF Pool!Hand
    <2> QED
      BY <2>6
  <1>3. ASSUME NEW t \in Tasks, PullAnswerLost(t)
        PROVE  Goal
    <2>1. TaskStatus[t] = "queued" /\ client # "closed" /\ client' = client
      BY <1>3
      DEF PullAnswerLost, TaskStatus, Inv, VerdictsFollowStages,
          ClientMatchesPc
    <2>2. TaskStatus' = [TaskStatus EXCEPT ![t] = "lost"]
      BY <1>3
      DEF PullAnswerLost, TaskStatus, Inv, TypeOK, VerdictsFollowStages
    <2>3. Pool!Lose(t)
      BY <2>1, <2>2 DEF Pool!Lose
    <2> QED
      BY <2>3
  <1>4. ASSUME NEW t \in Tasks, stage[t] = "reporting",
               recorded' = [recorded EXCEPT ![t] = verdict[t]],
               \E s \in {"acked", "aborted"} :
                   stage' = [stage EXCEPT ![t] = s],
               client # "closed", client' = client
        PROVE  Goal
    <2>1. TaskStatus[t] = "held" /\ verdict[t] \in Verdicts
      BY <1>4 DEF TaskStatus, Inv, VerdictsFollowStages
    <2>2. TaskStatus' = [TaskStatus EXCEPT ![t] = verdict[t]]
      BY <1>4, <2>1 DEF TaskStatus, Inv, TypeOK, Verdicts
    <2>3. Pool!Settle(t)
      BY <1>4, <2>1, <2>2 DEF Pool!Settle, Pool!Verdicts, Verdicts
    <2> QED
      BY <2>3
  <1>5. ASSUME NEW t \in Tasks, ReportAcked(t)
        PROVE  Goal
    BY <1>5, <1>4 DEF ReportAcked, control
  <1>6. ASSUME NEW t \in Tasks, ReportRaised(t)
        PROVE  Goal
    <2>1. client # "closed" /\ client' = client
      <3>1. t \in Unfinished
        BY <1>6 DEF ReportRaised, Unfinished, InStage
      <3> QED
        BY <1>6, <3>1
        DEF ReportRaised, control, Inv, ClientMatchesPc, DrainedIsEmpty
    <2>2. CASE recorded' = [recorded EXCEPT ![t] = verdict[t]]
      BY <1>6, <2>1, <2>2, <1>4 DEF ReportRaised
    <2>3. CASE UNCHANGED recorded
      <3>1. TaskStatus[t] = "held"
        BY <1>6 DEF ReportRaised, TaskStatus, Inv, VerdictsFollowStages
      <3>2. TaskStatus' = [TaskStatus EXCEPT ![t] = "lost"]
        BY <1>6, <2>3
        DEF ReportRaised, TaskStatus, Inv, TypeOK, VerdictsFollowStages
      <3>3. Pool!Lose(t)
        BY <2>1, <3>1, <3>2 DEF Pool!Lose
      <3> QED
        BY <3>3
    <2> QED
      BY <1>6, <2>2, <2>3 DEF ReportRaised
  <1>7. ASSUME NEW t \in Tasks, Begin(t) \/ Execute(t) \/ GiveBackSlot(t)
        PROVE  Goal
    <2>1. UNCHANGED TaskStatus
      BY <1>7
      DEF Begin, Execute, GiveBackSlot, TaskStatus, Inv, TypeOK,
          VerdictsFollowStages, Verdicts
    <2>2. client' = client
      BY <1>7 DEF Begin, Execute, GiveBackSlot, control
    <2> QED
      BY <2>1, <2>2, <1>1
  <1>8. CASE CloseClient
    <2>1. Unfinished = {}
      BY <1>8 DEF CloseClient, Inv, DrainedIsEmpty
    <2>2. Pool!Held = {}
      BY <2>1
      DEF Pool!Held, TaskStatus, Unfinished, InStage, Inv, TypeOK, Stages,
          VerdictsFollowStages, Verdicts
    <2>3. UNCHANGED TaskStatus
      BY <1>8 DEF CloseClient, work, TaskStatus
    <2>4. client # "closed" /\ client' = "closed"
      BY <1>8 DEF CloseClient, Inv, ClientMatchesPc
    <2>5. Pool!Disconnect
      BY <2>2, <2>3, <2>4 DEF Pool!Disconnect
    <2> QED
      BY <2>5
  <1>9. CASE Connect \/ RegisterAccepted \/ RegisterFailed \/ LoopTest
             \/ PollGuard \/ PullEmpty \/ PullFailed \/ Wait \/ Drained
             \/ Stop \/ SetExecutor \/ Terminated \/ UNCHANGED vars
    <2>1. UNCHANGED TaskStatus
      BY <1>9
      DEF Connect, RegisterAccepted, RegisterFailed, LoopTest, PollGuard,
          PullEmpty, PullFailed, Wait, Drained, Stop, SetExecutor,
          Terminated, vars, work, TaskStatus
    <2>2. client' # "closed" <=> client # "closed"
      BY <1>9
      DEF Connect, RegisterAccepted, RegisterFailed, LoopTest, PollGuard,
          PullEmpty, PullFailed, Wait, Drained, Stop, SetExecutor,
          Terminated, vars, control, Inv, ClientMatchesPc
    <2> QED
      BY <2>1, <2>2, <1>1
  <1> QED
    BY <1>2, <1>3, <1>5, <1>6, <1>7, <1>8, <1>9 DEF Next, Main, Thread

\* The task path of node.py keeps the pool's contract: it holds at most the
\* advertised number of tasks, settles each at most once, leaves holding none.
THEOREM TaskPoolImplemented == Spec => ImplementsTaskPool
  <1>1. Inv /\ [Next]_vars => [Pool!PoolNext]_(Pool!poolVars)
    BY RefinesStep
  <1> QED
    BY <1>1, RefinesInit, Invariance, PTL
    DEF Spec, ImplementsTaskPool, Pool!PoolSpec
=============================================================================
