------------------------ MODULE TaskExecutors_proofs ------------------------
(***************************************************************************)
(* Type correctness and the two safety invariants of TaskExecutors, for    *)
(* any tasks, payloads, ways to start the node and changes of the daemon.  *)
(*                                                                         *)
(* What has to be known besides them: that a task's destination is fixed   *)
(* once anything has been started for it (Sent), because the choice of     *)
(* executors is made before the first task runs (Decided); where its       *)
(* command can be at each step of the executing thread (Placed); and that  *)
(* a daemon that is down has no running containers (DownIsEmpty).          *)
(***************************************************************************)
EXTENDS TaskExecutors, TLAPS

Decided(t) == task[t].pc # "queued" => mainPc = "run"

Sent(t) ==
    /\ task[t].place = "host" => Destination(t) = "shell"
    /\ (task[t].place = "container" \/ task[t].pc \in {"asking", "attached"})
          => Destination(t) = "docker"

Placed(t) ==
    /\ task[t].pc \in {"queued", "asking"} =>
          /\ task[t].place = "none"
          /\ task[t].work = "none"
    /\ task[t].pc = "shell" =>
          /\ task[t].place = "host"
          /\ task[t].work \in {"running", "gone"}
    /\ task[t].pc = "attached" =>
          /\ task[t].place = "container"
          /\ task[t].work \in {"running", "exited", "gone"}
    /\ task[t].work \in {"running", "exited", "created"} => task[t].place # "none"

DownIsEmpty(t) ==
    daemon = "down" /\ task[t].place = "container" => task[t].work # "running"

Honest(t) ==
    task[t].pc = "done" /\ task[t].work \in {"created", "running"} =>
       \/ task[t].outcome = "late"
       \/ task[t].place = "host" /\ payload[t].command = "detaching"

TaskInv(t) ==
    /\ Decided(t)
    /\ Sent(t)
    /\ Placed(t)
    /\ DownIsEmpty(t)
    /\ Honest(t)

Inv == TypeOK /\ \A t \in Tasks : TaskInv(t)

-----------------------------------------------------------------------------

\* The destination of a task depends on its payload and the start-up alone.
LEMMA DestinationFixed ==
    ASSUME NEW t \in Tasks, UNCHANGED <<setup, payload, hasDocker>>
    PROVE  Destination(t)' = Destination(t)
BY DEF Destination, Route, Engine, AutoEngine

\* A step that changes nothing but the record of one task keeps Inv if the
\* new record satisfies its part.
LEMMA OneTask ==
    ASSUME Inv, UNCHANGED Others, NEW t \in Tasks,
           NEW r \in TaskRecord,
           r.pc = "done" <=> r.verdict # "none",
           task' = [task EXCEPT ![t] = r],
           TaskInv(t)'
    PROVE  Inv'
<1>1. TypeOK'
  BY DEF Inv, TypeOK, Others
<1>2. ASSUME NEW u \in Tasks, u # t
      PROVE  TaskInv(u)'
  <2>1. task'[u] = task[u]
    BY <1>2 DEF Inv, TypeOK
  <2>2. Destination(u)' = Destination(u)
    BY DestinationFixed DEF Others
  <2> QED
    BY <2>1, <2>2, <1>2 DEF Inv, TaskInv, Decided, Sent, Placed, DownIsEmpty,
       Honest, Others
<1> QED
  BY <1>1, <1>2 DEF Inv

-----------------------------------------------------------------------------

LEMMA InitInv == Init => Inv
<1> SUFFICES ASSUME Init PROVE Inv
  OBVIOUS
<1> DEFINE fresh == [pc |-> "queued", place |-> "none", work |-> "none",
                     outcome |-> "none", verdict |-> "none"]
<1>1. fresh \in TaskRecord
  BY DEF TaskRecord
<1>2. task = [t \in Tasks |-> fresh]
  BY DEF Init
<1>3. TypeOK
  <2>1. 0 \in 0..MaxDaemonChanges
    BY TaskExecutorsAssumption
  <2>2. hasDocker \in BOOLEAN
    BY DEF Init
  <2>3. task \in [Tasks -> TaskRecord]
    BY <1>1, <1>2
  <2>4. \A t \in Tasks : task[t].pc = "done" <=> task[t].verdict # "none"
    BY <1>2
  <2> QED
    BY <2>1, <2>2, <2>3, <2>4 DEF Init, TypeOK
<1>4. ASSUME NEW t \in Tasks PROVE TaskInv(t)
  BY <1>2 DEF TaskInv, Decided, Sent, Placed, DownIsEmpty, Honest
<1> QED
  BY <1>3, <1>4 DEF Inv

-----------------------------------------------------------------------------
(* One lemma per kind of step. *)

\* Start-up starts nothing: every task is still queued.
LEMMA MainKeeps == Inv /\ Main => Inv'
<1> SUFFICES ASSUME Inv, Main PROVE Inv'
  OBVIOUS
<1>1. UNCHANGED <<setup, payload, daemon, changes, task>> /\ mainPc # "run"
  BY DEF Main, MaybeAutostartDocker, EnsureDockerRunning, PollDaemon,
     ResolveExecutor
<1>2. TypeOK'
  <2>1. hasDocker' \in BOOLEAN
    BY DEF Inv, TypeOK, Main, MaybeAutostartDocker, EnsureDockerRunning,
           PollDaemon, ResolveExecutor
  <2>2. mainPc' \in {"autostart", "launch", "polling", "resolve", "run", "raised"}
    BY DEF Inv, TypeOK, Main, MaybeAutostartDocker, EnsureDockerRunning,
           PollDaemon, ResolveExecutor
  <2> QED
    BY <1>1, <2>1, <2>2 DEF Inv, TypeOK
<1>3. ASSUME NEW t \in Tasks PROVE TaskInv(t)'
  <2>1. task[t].pc = "queued"
    BY <1>1 DEF Inv, TaskInv, Decided
  <2> QED
    BY <1>1, <2>1 DEF Inv, TaskInv, Decided, Sent, Placed, DownIsEmpty, Honest
<1> QED
  BY <1>2, <1>3 DEF Inv

\* A daemon that stops takes the running containers with it.
LEMMA DaemonKeeps == Inv /\ DaemonChanges => Inv'
<1> SUFFICES ASSUME Inv, DaemonChanges PROVE Inv'
  OBVIOUS
<1>1. UNCHANGED <<setup, payload, mainPc, hasDocker>>
  BY DEF DaemonChanges
<1>2. PICK d \in {"up", "down", "hung"} :
         /\ daemon' = d
         /\ task' = [t \in Tasks |->
                       IF /\ d = "down"
                          /\ task[t].place = "container"
                          /\ task[t].work = "running"
                       THEN [task[t] EXCEPT !.work = "exited"]
                       ELSE task[t]]
  BY DEF DaemonChanges
<1>3. ASSUME NEW t \in Tasks
      PROVE  /\ task'[t] \in TaskRecord
             /\ task'[t].pc = task[t].pc
             /\ task'[t].place = task[t].place
             /\ task'[t].outcome = task[t].outcome
             /\ task'[t].verdict = task[t].verdict
             /\ \/ task'[t].work = task[t].work
                \/ /\ task[t].place = "container"
                   /\ task[t].work = "running"
                   /\ task'[t].work = "exited"
             /\ d = "down" /\ task[t].place = "container"
                   => task'[t].work # "running"
  <2>1. task[t] \in TaskRecord
    BY DEF Inv, TypeOK
  <2> QED
    BY <1>2, <2>1 DEF TaskRecord
<1>4. TypeOK'
  <2>1. changes' \in 0..MaxDaemonChanges
    BY TaskExecutorsAssumption DEF Inv, TypeOK, DaemonChanges
  <2>2. task' \in [Tasks -> TaskRecord]
    BY <1>2, <1>3
  <2>3. \A t \in Tasks : task'[t].pc = "done" <=> task'[t].verdict # "none"
    BY <1>3 DEF Inv, TypeOK
  <2> QED
    BY <1>1, <1>2, <2>1, <2>2, <2>3 DEF Inv, TypeOK
<1>5. ASSUME NEW t \in Tasks PROVE TaskInv(t)'
  <2>1. Destination(t)' = Destination(t)
    BY <1>1, DestinationFixed
  <2>2. TaskInv(t)
    BY DEF Inv
  <2> QED
    BY <1>1, <1>2, <1>3, <2>1, <2>2
    DEF TaskInv, Decided, Sent, Placed, DownIsEmpty, Honest
<1> QED
  BY <1>4, <1>5 DEF Inv

\* A thread that raises, refuses or has its task done elsewhere.
LEMMA EndsKeep ==
    ASSUME Inv, NEW t \in Tasks,
           Refuse(t) \/ RunElsewhere(t) \/ SpawnShellFails(t) \/ CliMissing(t)
    PROVE  Inv'
<1>1. task[t] \in TaskRecord /\ TaskInv(t) /\ task \in [Tasks -> TaskRecord]
  BY DEF Inv, TypeOK
<1>2. mainPc = "run" /\ task[t].pc = "queued" /\ UNCHANGED Others
  BY DEF Refuse, RunElsewhere, SpawnShellFails, CliMissing, At
<1>3. PICK v \in {"success", "failed"} :
         \/ task' = [task EXCEPT ![t].pc = "done", ![t].verdict = v]
         \/ task' = [task EXCEPT ![t].pc = "done", ![t].outcome = "other",
                                 ![t].verdict = v]
  BY DEF Refuse, RunElsewhere, SpawnShellFails, CliMissing
<1>4. PICK r \in TaskRecord :
         /\ task' = [task EXCEPT ![t] = r]
         /\ r.pc = "done" /\ r.verdict = v
         /\ r.place = "none" /\ r.work = "none"
  <2> DEFINE p == [task[t] EXCEPT !.pc = "done", !.verdict = v]
             q == [task[t] EXCEPT !.pc = "done", !.outcome = "other",
                                  !.verdict = v]
  <2>1. task[t].place = "none" /\ task[t].work = "none"
    BY <1>1, <1>2 DEF TaskInv, Placed
  <2>2. /\ p \in TaskRecord /\ p.pc = "done" /\ p.verdict = v
        /\ p.place = "none" /\ p.work = "none"
    BY <1>1, <2>1 DEF TaskRecord
  <2>3. /\ q \in TaskRecord /\ q.pc = "done" /\ q.verdict = v
        /\ q.place = "none" /\ q.work = "none"
    BY <1>1, <2>1 DEF TaskRecord
  <2>4. task' = [task EXCEPT ![t] = p] \/ task' = [task EXCEPT ![t] = q]
    BY <1>1, <1>3
  <2> QED
    BY <2>2, <2>3, <2>4
<1>5. task'[t] = r
  BY <1>1, <1>4
<1>6. TaskInv(t)'
  BY <1>2, <1>4, <1>5 DEF TaskInv, Decided, Sent, Placed, DownIsEmpty, Honest,
     Others
<1> QED
  BY <1>2, <1>4, <1>6, OneTask

\* A subprocess is started where the destination says.
LEMMA SpawnKeeps ==
    ASSUME Inv, NEW t \in Tasks, SpawnShell(t) \/ SpawnDocker(t)
    PROVE  Inv'
<1>1. task[t] \in TaskRecord /\ TaskInv(t) /\ task \in [Tasks -> TaskRecord]
      /\ (task[t].pc = "done" <=> task[t].verdict # "none")
  BY DEF Inv, TypeOK
<1>2. mainPc = "run" /\ task[t].pc = "queued" /\ UNCHANGED Others
  BY DEF SpawnShell, SpawnDocker, At
<1>3. Destination(t)' = Destination(t)
  BY <1>2, DestinationFixed DEF Others
<1>4. task[t].place = "none" /\ task[t].work = "none" /\ task[t].verdict = "none"
  BY <1>1, <1>2 DEF TaskInv, Placed
<1>5. CASE SpawnShell(t)
  <2> DEFINE r == [task[t] EXCEPT !.pc = "shell", !.place = "host",
                                  !.work = "running"]
  <2>1. r \in TaskRecord /\ task' = [task EXCEPT ![t] = r] /\ task'[t] = r
    BY <1>1, <1>5 DEF SpawnShell, TaskRecord
  <2>2. /\ r.pc = "shell" /\ r.place = "host" /\ r.work = "running"
        /\ r.verdict = "none"
    BY <1>1, <1>4 DEF TaskRecord
  <2>3. Destination(t) = "shell"
    BY <1>5 DEF SpawnShell, At
  <2> HIDE DEF r
  <2>4. TaskInv(t)'
    BY <1>2, <1>3, <2>1, <2>2, <2>3
    DEF TaskInv, Decided, Sent, Placed, DownIsEmpty, Honest, Others
  <2> QED
    BY <1>2, <2>1, <2>2, <2>4, OneTask
<1>6. CASE SpawnDocker(t)
  <2> DEFINE r == [task[t] EXCEPT !.pc = "asking"]
  <2>1. r \in TaskRecord /\ task' = [task EXCEPT ![t] = r] /\ task'[t] = r
    BY <1>1, <1>6 DEF SpawnDocker, TaskRecord
  <2>2. /\ r.pc = "asking" /\ r.place = "none" /\ r.work = "none"
        /\ r.verdict = "none"
    BY <1>1, <1>4 DEF TaskRecord
  <2>3. Destination(t) = "docker"
    BY <1>6 DEF SpawnDocker, At
  <2> HIDE DEF r
  <2>4. TaskInv(t)'
    BY <1>2, <1>3, <2>1, <2>2, <2>3
    DEF TaskInv, Decided, Sent, Placed, DownIsEmpty, Honest, Others
  <2> QED
    BY <1>2, <2>1, <2>2, <2>4, OneTask
<1> QED
  BY <1>5, <1>6

\* The command goes on by itself: its container starts, it ends, the daemon
\* removes what is left.
LEMMA WorkKeeps ==
    ASSUME Inv, NEW t \in Tasks,
           ContainerStarts(t) \/ ContainerRemoved(t) \/ WorkEnds(t)
    PROVE  Inv'
<1>1. task[t] \in TaskRecord /\ TaskInv(t) /\ task \in [Tasks -> TaskRecord]
      /\ (task[t].pc = "done" <=> task[t].verdict # "none")
  BY DEF Inv, TypeOK
<1>2. UNCHANGED Others
  BY DEF ContainerStarts, ContainerRemoved, WorkEnds
<1>3. Destination(t)' = Destination(t)
  BY <1>2, DestinationFixed DEF Others
<1>4. CASE ContainerStarts(t)
  <2> DEFINE r == [task[t] EXCEPT !.pc = "attached", !.place = "container",
                                  !.work = "running"]
  <2>1. r \in TaskRecord /\ task' = [task EXCEPT ![t] = r] /\ task'[t] = r
    BY <1>1, <1>4 DEF ContainerStarts, TaskRecord
  <2>2. /\ r.pc = "attached" /\ r.place = "container" /\ r.work = "running"
        /\ r.verdict = task[t].verdict
        /\ task[t].pc = "asking" /\ daemon = "up"
    BY <1>1, <1>4 DEF TaskRecord, ContainerStarts
  <2> HIDE DEF r
  <2>3. r.verdict = "none"
    BY <1>1, <2>2
  <2>4. TaskInv(t)'
    BY <1>1, <1>2, <1>3, <2>1, <2>2, <2>3
    DEF TaskInv, Decided, Sent, Placed, DownIsEmpty, Honest, Others
  <2> QED
    BY <1>2, <2>1, <2>2, <2>3, <2>4, OneTask
<1>5. CASE ContainerRemoved(t) \/ WorkEnds(t)
  <2>1. PICK w \in {"exited", "gone"} :
           /\ task' = [task EXCEPT ![t].work = w]
           /\ task[t].work \in {"running", "exited"}
           /\ task[t].place = "host" => w = "gone"
    BY <1>5 DEF ContainerRemoved, WorkEnds
  <2> DEFINE r == [task[t] EXCEPT !.work = w]
  <2>2. r \in TaskRecord /\ task' = [task EXCEPT ![t] = r] /\ task'[t] = r
    BY <1>1, <2>1 DEF TaskRecord
  <2>3. /\ r.work = w /\ r.pc = task[t].pc /\ r.place = task[t].place
        /\ r.verdict = task[t].verdict
        /\ r.outcome = task[t].outcome
    BY <1>1 DEF TaskRecord
  <2> HIDE DEF r
  <2>4. TaskInv(t)'
    BY <1>1, <1>2, <1>3, <2>1, <2>2, <2>3
    DEF TaskInv, Decided, Sent, Placed, DownIsEmpty, Honest, Others
  <2> QED
    BY <1>1, <1>2, <2>2, <2>3, <2>4, OneTask
<1> QED
  BY <1>4, <1>5

\* What Return does to the record of its task.
LEMMA ReturnRecord ==
    ASSUME NEW t \in Tasks, task \in [Tasks -> TaskRecord],
           NEW o \in {"zero", "other", "late"},
           NEW w \in {"none", "running", "exited", "gone"}, Return(t, o, w)
    PROVE  \E r \in TaskRecord :
             /\ task' = [task EXCEPT ![t] = r]
             /\ r.pc = "done" /\ r.verdict \in {"success", "failed"}
             /\ r.outcome = o /\ r.work = w /\ r.place = task[t].place
<1>1. PICK v \in {"success", "failed"} :
         task' = [task EXCEPT ![t].pc = "done", ![t].outcome = o,
                              ![t].work = w, ![t].verdict = v]
  BY DEF Return
<1> DEFINE r == [task[t] EXCEPT !.pc = "done", !.outcome = o, !.work = w,
                                !.verdict = v]
<1>0. task[t] \in TaskRecord
  OBVIOUS
<1>2. r \in TaskRecord /\ task' = [task EXCEPT ![t] = r]
  BY <1>0, <1>1 DEF TaskRecord
<1>3. /\ r.pc = "done" /\ r.outcome = o /\ r.work = w /\ r.verdict = v
      /\ r.place = task[t].place
  BY <1>0 DEF TaskRecord
<1> HIDE DEF r
<1> QED
  BY <1>2, <1>3

\* execute() comes back: with the end of the shell, of the container or of the
\* daemon, or at its timeout.
LEMMA ReturnKeeps ==
    ASSUME Inv, NEW t \in Tasks,
           ShellReturns(t) \/ ShellTimesOut(t) \/ CliReturns(t) \/ CliTimesOut(t)
    PROVE  Inv'
<1>1. task[t] \in TaskRecord /\ TaskInv(t) /\ task \in [Tasks -> TaskRecord]
  BY DEF Inv, TypeOK
<1>2. UNCHANGED Others
  BY DEF ShellReturns, ShellTimesOut, CliReturns, CliTimesOut
<1>3. Destination(t)' = Destination(t)
  BY <1>2, DestinationFixed DEF Others
<1>4. PICK r \in TaskRecord :
         /\ task' = [task EXCEPT ![t] = r]
         /\ r.pc = "done" /\ r.verdict \in {"success", "failed"}
         /\ r.work \in {"created", "running"} =>
               \/ r.outcome = "late"
               \/ r.place = "host" /\ payload[t].command = "detaching"
         /\ r.work # "none" => r.place # "none" \/ r.work = "gone"
         /\ r.place # task[t].place =>
               r.place = "container" /\ task[t].pc = "asking"
         /\ r.work = "running" /\ r.place = "container" => daemon # "down"
  <2>1. CASE ShellReturns(t) \/ ShellTimesOut(t)
    <3>1. PICK o \in {"zero", "other", "late"}, w \in {"running", "gone"} :
             /\ Return(t, o, w)
             /\ w = "running" => o = "late" \/ payload[t].command = "detaching"
      <4>1. task[t].work \in {"running", "gone"}
        BY <1>1, <2>1 DEF TaskInv, Placed, ShellReturns, ShellTimesOut
      <4>2. CASE ShellReturns(t)
        BY <4>1, <4>2 DEF ShellReturns
      <4>3. CASE ShellTimesOut(t)
        BY <4>3 DEF ShellTimesOut
      <4> QED
        BY <2>1, <4>2, <4>3
    <3>2. task[t].place = "host"
      BY <1>1, <2>1 DEF TaskInv, Placed, ShellReturns, ShellTimesOut
    <3> QED
      BY <1>1, <3>1, <3>2, ReturnRecord
  <2>2. CASE task[t].pc = "attached" /\ (CliReturns(t) \/ CliTimesOut(t))
    <3>1. PICK o \in {"zero", "other", "late"}, w \in {"running", "exited", "gone"} :
             /\ Return(t, o, w)
             /\ w = task[t].work
             /\ o = "late" \/ w = "gone" \/ daemon = "down"
      <4>1. task[t].work \in {"running", "exited", "gone"}
        BY <1>1, <2>2 DEF TaskInv, Placed
      <4>2. CASE CliReturns(t)
        BY <2>2, <4>1, <4>2 DEF CliReturns
      <4>3. CASE CliTimesOut(t)
        BY <2>2, <4>1, <4>3 DEF CliTimesOut
      <4> QED
        BY <2>2, <4>2, <4>3
    <3>2. /\ task[t].place = "container"
          /\ daemon = "down" => task[t].work # "running"
      BY <1>1, <2>2 DEF TaskInv, Placed, DownIsEmpty
    <3> QED
      BY <1>1, <3>1, <3>2, ReturnRecord
  <2>3. CASE task[t].pc = "asking" /\ CliReturns(t)
    <3>1. Return(t, "other", "none")
      BY <2>3 DEF CliReturns
    <3>2. task[t].place = "none"
      BY <1>1, <2>3 DEF TaskInv, Placed
    <3> QED
      BY <1>1, <3>1, <3>2, ReturnRecord
  <2>4. CASE task[t].pc = "asking" /\ CliTimesOut(t)
    <3>1. PICK w \in {"none", "created", "running"} :
             /\ daemon = "down" => w = "none"
             /\ task' = [task EXCEPT
                           ![t].pc = "done", ![t].outcome = "late",
                           ![t].work = w, ![t].verdict = "success",
                           ![t].place = IF w = "none" THEN "none"
                                        ELSE "container"]
      BY <2>4 DEF CliTimesOut
    <3>2. task[t].place = "none"
      BY <1>1, <2>4 DEF TaskInv, Placed
    <3> DEFINE p == IF w = "none" THEN "none" ELSE "container"
               r == [task[t] EXCEPT !.pc = "done", !.outcome = "late",
                                    !.work = w, !.verdict = "success",
                                    !.place = p]
    <3>3. r \in TaskRecord /\ task' = [task EXCEPT ![t] = r]
      BY <1>1, <3>1 DEF TaskRecord
    <3>4. /\ r.pc = "done" /\ r.work = w /\ r.verdict = "success"
          /\ r.outcome = "late" /\ r.place = p
      BY <1>1 DEF TaskRecord
    <3> HIDE DEF r
    <3> QED
      BY <2>4, <3>1, <3>2, <3>3, <3>4
  <2> QED
    BY <2>1, <2>2, <2>3, <2>4 DEF CliReturns, CliTimesOut
<1>5. task'[t] = r
  BY <1>1, <1>4
<1>6. task[t].pc # "queued"
  BY DEF ShellReturns, ShellTimesOut, CliReturns, CliTimesOut
<1>7. TaskInv(t)'
  BY <1>1, <1>2, <1>3, <1>4, <1>5, <1>6
  DEF TaskInv, Decided, Sent, Placed, DownIsEmpty, Honest, Others
<1> QED
  BY <1>2, <1>4, <1>7, OneTask

LEMMA StepKeeps == Inv /\ [Next]_vars => Inv'
<1> SUFFICES ASSUME Inv, [Next]_vars PROVE Inv'
  OBVIOUS
<1>1. CASE Main
  BY <1>1, MainKeeps
<1>2. CASE DaemonChanges
  BY <1>2, DaemonKeeps
<1>3. ASSUME NEW t \in Tasks, Thread(t) PROVE Inv'
  BY <1>3, EndsKeep, SpawnKeeps, ReturnKeeps DEF Thread
<1>4. ASSUME NEW t \in Tasks, Container(t) \/ WorkEnds(t) PROVE Inv'
  BY <1>4, WorkKeeps DEF Container
<1>5. CASE UNCHANGED vars
  BY <1>5 DEF vars, Inv, TypeOK, TaskInv, Decided, Sent, Placed, DownIsEmpty,
              Honest, Destination, Route, Engine, AutoEngine
<1> QED
  BY <1>1, <1>2, <1>3, <1>4, <1>5 DEF Next

\* A command that runs was sent there by its payload: what the destination of
\* a task says about its payload, for every way to start the node.
LEMMA InItsPlace == Inv => WorkRunsInItsPlace
<1> SUFFICES ASSUME Inv, setup.executor \in {"auto", "docker"},
                    NEW t \in Tasks, task[t].place # "none"
             PROVE  task[t].place = "container" <=> payload[t].image
  BY DEF WorkRunsInItsPlace
<1>1. task[t].place \in {"host", "container"}
  BY DEF Inv, TypeOK, TaskRecord
<1>2. payload[t] \in Payloads
  BY TaskExecutorsAssumption DEF Inv, TypeOK
<1>3. /\ task[t].place = "host" => Destination(t) = "shell"
      /\ task[t].place = "container" => Destination(t) = "docker"
  BY DEF Inv, TaskInv, Sent
<1>4. Route(payload[t]) = "fallback" /\ Destination(t) = Engine(payload[t])
  BY <1>1, <1>2, <1>3 DEF Destination, Route, DataWorkerHasExecutor, Payloads
<1>5. CASE payload[t].image
  BY <1>1, <1>3, <1>4, <1>5 DEF Engine, AutoEngine
<1>6. CASE ~payload[t].image
  BY <1>1, <1>3, <1>4, <1>6 DEF Engine, AutoEngine
<1> QED
  BY <1>5, <1>6

-----------------------------------------------------------------------------

\* The inductive invariant holds throughout.
THEOREM Invariance == Spec => []Inv
BY InitInv, StepKeeps, PTL DEF Spec

\* Every variable keeps to its type, and a task has a verdict exactly when
\* its thread is done (DockerExecutor.execute, LocalProcessExecutor.execute).
THEOREM TypeCorrect == Spec => []TypeOK
<1>1. Inv => TypeOK
  BY DEF Inv
<1> QED
  BY <1>1, Invariance, PTL

\* Under the executors that use Docker, template jobs run in containers or
\* nowhere and plain commands never do, whatever the daemon did at start-up
\* and since (_Auto.execute, DockerExecutor.execute).
THEOREM CommandsInTheirPlace == Spec => []WorkRunsInItsPlace
BY InItsPlace, Invariance, PTL

\* Only a timeout, or a child that a command let go on the host, leaves work
\* behind a verdict, for any number of tasks and daemon outages: a container
\* never outlives an answer of the CLI (docker_executor.py:260,
\* local_executor.py:131).
THEOREM LateOrDetachedOnly == Spec => []LateOrDetachedWorkOnly
<1>1. Inv => LateOrDetachedWorkOnly
  BY DEF Inv, TaskInv, Honest, LateOrDetachedWorkOnly
<1> QED
  BY <1>1, Invariance, PTL
=============================================================================
