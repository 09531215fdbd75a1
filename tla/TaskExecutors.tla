--------------------------- MODULE TaskExecutors ---------------------------
(***************************************************************************)
(* What a pulled task does to the machine: the start-up that decides once  *)
(* whether the node has Docker (__main__.py), the routing of a payload to  *)
(* a shard worker or an executor (data_worker.py), and the two executors   *)
(* that run a renter's command (local_executor.py, docker_executor.py).    *)
(* The Docker daemon is outside the repository: it comes, goes and hangs.  *)
(***************************************************************************)
EXTENDS Naturals

CONSTANTS
    Tasks,              \* tasks the node has pulled
    Setups,             \* how the node may be started
    Jobs,               \* the payloads the tasks may have
    MaxDaemonChanges    \* bound on changes of the daemon's state

\* A compound command forks what it waits for; a detaching one also leaves a
\* child behind whose output goes elsewhere.
Payloads == [kind    : {"plain", "data_shard", "llm_shard", "pipeline_shard"},
             image   : BOOLEAN,
             command : {"none", "simple", "compound", "detaching"}]

ASSUME TaskExecutorsAssumption ==
    /\ Setups \subseteq [executor  : {"auto", "docker", "local", "echo"},
                         autostart : BOOLEAN,   \* --no-docker-autostart
                         desktop   : BOOLEAN,   \* an app to launch
                         wrapped   : BOOLEAN,   \* HTTP transport
                         torch     : BOOLEAN]   \* the [llm] extra
    /\ Jobs \subseteq [Tasks -> Payloads]
    /\ MaxDaemonChanges \in Nat

VARIABLES
    setup, payload,
    mainPc,     \* the main thread of the command line
    hasDocker,  \* a DockerExecutor was built
    daemon,     \* "up", "down" or "hung"
    changes,
    task        \* the executing thread and the command of each task

vars == <<setup, payload, mainPc, hasDocker, daemon, changes, task>>

\* pc: the thread in execute().  place and work: where the renter's command
\* runs and how far it is.  outcome: how the subprocess call ended, with an
\* exit code or at its timeout.
TaskRecord == [pc      : {"queued", "shell", "asking", "attached", "done"},
               place   : {"none", "host", "container"},
               work    : {"none", "created", "running", "exited", "gone"},
               outcome : {"none", "zero", "other", "late"},
               verdict : {"none", "success", "failed"}]

TypeOK ==
    /\ setup \in Setups
    /\ payload \in Jobs
    /\ mainPc \in {"autostart", "launch", "polling", "resolve", "run", "raised"}
    /\ hasDocker \in BOOLEAN
    /\ daemon \in {"up", "down", "hung"}
    /\ changes \in 0..MaxDaemonChanges
    /\ task \in [Tasks -> TaskRecord]
    /\ \A t \in Tasks : task[t].pc = "done" <=> task[t].verdict # "none"

Init ==
    /\ setup \in Setups
    /\ payload \in Jobs
    /\ mainPc = "autostart"
    /\ hasDocker = FALSE
    /\ daemon \in {"up", "down", "hung"}
    /\ changes = 0
    /\ task = [t \in Tasks |-> [pc |-> "queued", place |-> "none",
                                work |-> "none", outcome |-> "none",
                                verdict |-> "none"]]

-----------------------------------------------------------------------------
(* The daemon. *)

\* A daemon that stops takes its containers with it.
DaemonChanges ==
    /\ changes < MaxDaemonChanges
    /\ changes' = changes + 1
    /\ \E d \in {"up", "down", "hung"} \ {daemon} :
         /\ daemon' = d
         /\ task' = [t \in Tasks |->
                       IF /\ d = "down"
                          /\ task[t].place = "container"
                          /\ task[t].work = "running"
                       THEN [task[t] EXCEPT !.work = "exited"]
                       ELSE task[t]]
    /\ UNCHANGED <<setup, payload, mainPc, hasDocker>>

-----------------------------------------------------------------------------
(* Start-up. *)

\* docker info answers within its ten seconds.
IsDockerAvailable == daemon = "up"

\* Only docker and auto want a daemon, and only one that is down is launched.
MaybeAutostartDocker ==
    /\ mainPc = "autostart"
    /\ mainPc' = IF /\ setup.autostart
                    /\ setup.executor \in {"docker", "auto"}
                    /\ ~IsDockerAvailable
                 THEN "launch"
                 ELSE "resolve"
    /\ UNCHANGED <<setup, payload, hasDocker, daemon, changes, task>>

\* ensure_docker_running looks again, then launches the app if there is one.
EnsureDockerRunning ==
    /\ mainPc = "launch"
    /\ mainPc' = IF IsDockerAvailable \/ ~setup.desktop
                 THEN "resolve"
                 ELSE "polling"
    /\ UNCHANGED <<setup, payload, hasDocker, daemon, changes, task>>

\* Polling ends with an answer or at the deadline; the result is only printed.
PollDaemon ==
    /\ mainPc = "polling"
    /\ mainPc' = "resolve"
    /\ UNCHANGED <<setup, payload, hasDocker, daemon, changes, task>>

\* Whether there is a DockerExecutor is decided here, once.  The docker
\* executor without a daemon raises outside main's try.
ResolveExecutor ==
    /\ mainPc = "resolve"
    /\ hasDocker' = (setup.executor \in {"docker", "auto"} /\ IsDockerAvailable)
    /\ mainPc' = IF setup.executor = "docker" /\ ~IsDockerAvailable
                 THEN "raised"
                 ELSE "run"
    /\ UNCHANGED <<setup, payload, daemon, changes, task>>

-----------------------------------------------------------------------------
(* Routing. *)

\* _connect_and_register builds DataShardWorker without an executor.
DataWorkerHasExecutor == FALSE

\* The routing of DataShardAwareExecutor, which only the HTTP transport wraps
\* around the configured executor.
Route(p) ==
    CASE ~setup.wrapped -> "fallback"
      [] p.kind = "data_shard" ->
           IF DataWorkerHasExecutor /\ p.command # "none" THEN "shell" ELSE "worker"
      [] p.kind = "llm_shard" -> IF setup.torch THEN "worker" ELSE "refuse"
      [] p.kind = "pipeline_shard" -> "worker"
      [] OTHER -> "fallback"

\* Mutant: auto falls back to the shell when there is no Docker.
AutoEngineFallsBack(p) == IF p.image /\ hasDocker THEN "docker" ELSE "shell"

\* The auto executor: template jobs to Docker or nowhere.
AutoEngine(p) ==
    IF p.image THEN (IF hasDocker THEN "docker" ELSE "refuse") ELSE "shell"

\* The executor made by _resolve_executor, up to the checks of the payload
\* that precede the first subprocess.
Engine(p) ==
    LET e == CASE setup.executor = "auto" -> AutoEngine(p)
               [] setup.executor = "local" -> "shell"
               [] setup.executor = "docker" ->
                    IF p.image THEN "docker" ELSE "refuse"
               [] OTHER -> "echo"
    IN IF e \in {"shell", "docker"} /\ p.command = "none" THEN "refuse" ELSE e

Destination(t) ==
    LET r == Route(payload[t]) IN IF r = "fallback" THEN Engine(payload[t]) ELSE r

At(t, d) ==
    /\ mainPc = "run"
    /\ task[t].pc = "queued"
    /\ Destination(t) = d

Others == <<setup, payload, mainPc, hasDocker, daemon, changes>>

\* An exception before any subprocess: no such worker, no Docker, no command.
Refuse(t) ==
    /\ At(t, "refuse")
    /\ task' = [task EXCEPT ![t].pc = "done", ![t].verdict = "failed"]
    /\ UNCHANGED Others

\* The shard workers have modules of their own; here they end one way or the
\* other.  Echo cannot fail.
RunElsewhere(t) ==
    /\ \/ At(t, "worker") /\ \E v \in {"success", "failed"} :
             task' = [task EXCEPT ![t].pc = "done", ![t].verdict = v]
       \/ At(t, "echo") /\
             task' = [task EXCEPT ![t].pc = "done", ![t].verdict = "success"]
    /\ UNCHANGED Others

-----------------------------------------------------------------------------
(* Both executors. *)

\* execute() returns whatever the exit code, and after a timeout; it raises
\* only when the collected output cannot be decoded.
Return(t, outcome, work) ==
    \E v \in {"success", "failed"} :
       task' = [task EXCEPT ![t].pc = "done",
                            ![t].outcome = outcome,
                            ![t].work = work,
                            ![t].verdict = v]

\* The command runs to its end; its container has exited, and is not yet gone.
WorkEnds(t) ==
    /\ task[t].work = "running"
    /\ task' = [task EXCEPT ![t].work = IF task[t].place = "host" THEN "gone"
                                        ELSE "exited"]
    /\ UNCHANGED Others

-----------------------------------------------------------------------------
(* LocalProcessExecutor. *)

SpawnShell(t) ==
    /\ At(t, "shell")
    /\ task' = [task EXCEPT ![t].pc = "shell", ![t].place = "host",
                            ![t].work = "running"]
    /\ UNCHANGED Others

\* Popen raises: nothing was started.
SpawnShellFails(t) ==
    /\ At(t, "shell")
    /\ task' = [task EXCEPT ![t].pc = "done", ![t].verdict = "failed"]
    /\ UNCHANGED Others

\* The shell and all that hold its pipes have ended; a detached child, which
\* holds none of them, need not have.
ShellReturns(t) ==
    /\ task[t].pc = "shell"
    /\ task[t].work = "gone" \/ payload[t].command = "detaching"
    /\ \E outcome \in {"zero", "other"} : Return(t, outcome, task[t].work)
    /\ UNCHANGED Others

\* Mutant: subprocess.run is called without a timeout.
ShellNeverTimesOut(t) == FALSE /\ UNCHANGED vars

\* The shell is killed; what it has forked runs on.
ShellTimesOut(t) ==
    /\ task[t].pc = "shell"
    /\ task[t].work = "running"
    /\ \E work \in IF payload[t].command = "simple" THEN {"gone"}
                   ELSE {"running", "gone"} : Return(t, "late", work)
    /\ UNCHANGED Others

-----------------------------------------------------------------------------
(* DockerExecutor. *)

SpawnDocker(t) ==
    /\ At(t, "docker")
    /\ task' = [task EXCEPT ![t].pc = "asking"]
    /\ UNCHANGED Others

\* The CLI has gone since start-up: reported as a result with code -1.
CliMissing(t) ==
    /\ At(t, "docker")
    /\ task' = [task EXCEPT ![t].pc = "done", ![t].outcome = "other",
                            ![t].verdict = "success"]
    /\ UNCHANGED Others

ContainerStarts(t) ==
    /\ task[t].pc = "asking"
    /\ daemon = "up"
    /\ task' = [task EXCEPT ![t].pc = "attached", ![t].place = "container",
                            ![t].work = "running"]
    /\ UNCHANGED Others

\* --rm: the daemon removes an exited container, whoever still waits for it.
ContainerRemoved(t) ==
    /\ task[t].place = "container"
    /\ task[t].work = "exited"
    /\ daemon = "up"
    /\ task' = [task EXCEPT ![t].work = "gone"]
    /\ UNCHANGED Others

\* Mutant: docker run --detach, which ends once the container has started.
CliReturnsDetached(t) ==
    /\ task[t].pc = "attached"
    /\ Return(t, "zero", task[t].work)
    /\ UNCHANGED Others

\* The CLI ends with the container, or with an error: the daemon refuses the
\* run, or is lost.
CliReturns(t) ==
    /\ \/ /\ task[t].pc = "attached"
          /\ task[t].work = "gone" \/ daemon = "down"
          /\ \E outcome \in {"zero", "other"} : Return(t, outcome, task[t].work)
       \/ /\ task[t].pc = "asking"
          /\ daemon # "hung"
          /\ Return(t, "other", "none")
    /\ UNCHANGED Others

\* The CLI is killed.  Its container, if any, runs on; a request on its way
\* may still create one, or create and start it.
CliTimesOut(t) ==
    /\ \/ /\ task[t].pc = "attached"
          /\ Return(t, "late", task[t].work)
       \/ /\ task[t].pc = "asking"
          /\ \E work \in IF daemon = "down" THEN {"none"}
                         ELSE {"none", "created", "running"} :
               task' = [task EXCEPT
                          ![t].pc = "done", ![t].outcome = "late",
                          ![t].work = work, ![t].verdict = "success",
                          ![t].place = IF work = "none" THEN "none"
                                       ELSE "container"]
    /\ UNCHANGED Others

-----------------------------------------------------------------------------

Main ==
    \/ MaybeAutostartDocker \/ EnsureDockerRunning
    \/ PollDaemon \/ ResolveExecutor

\* The pool thread that executes a task, with its subprocess's time-out.
Thread(t) ==
    \/ Refuse(t) \/ RunElsewhere(t)
    \/ SpawnShell(t) \/ SpawnShellFails(t) \/ ShellReturns(t) \/ ShellTimesOut(t)
    \/ SpawnDocker(t) \/ CliMissing(t) \/ CliReturns(t) \/ CliTimesOut(t)

Container(t) == ContainerStarts(t) \/ ContainerRemoved(t)

Next ==
    \/ Main
    \/ DaemonChanges
    \/ \E t \in Tasks : Thread(t) \/ Container(t) \/ WorkEnds(t)

Spec == Init /\ [][Next]_vars

\* The main thread and the pool's are scheduled, and each of their subprocess
\* calls is bounded by its timeout; nothing is assumed of daemon or command.
FairSpec ==
    /\ Spec
    /\ WF_vars(Main)
    /\ \A t \in Tasks : WF_vars(Thread(t))

-----------------------------------------------------------------------------
(* Properties. *)

\* A template job of the auto and docker executors never reaches the host's
\* shell, also when Docker was not there at start-up, and a plain command
\* never gets a container (__main__.py:76, docker_executor.py:187).
WorkRunsInItsPlace ==
    setup.executor \in {"auto", "docker"} =>
       \A t \in Tasks : task[t].place # "none" =>
          (task[t].place = "container" <=> payload[t].image)

\* A command outlives the verdict on its task only after a timeout, or when
\* the host's shell has let a child of it go: then the machine works for more
\* tasks than the node counts in flight.  A container takes all with it
\* (docker_executor.py:260, local_executor.py:131).
LateOrDetachedWorkOnly ==
    \A t \in Tasks :
       task[t].pc = "done" /\ task[t].work \in {"created", "running"} =>
          \/ task[t].outcome = "late"
          \/ task[t].place = "host" /\ payload[t].command = "detaching"

\* A local command that exits with another code than zero, or that times out,
\* makes a failed task (the docstring at local_executor.py:74).  The code
\* returns its result normally.
FailuresFailTheTask ==
    \A t \in Tasks :
       task[t].place = "host" /\ task[t].outcome \in {"other", "late"}
          => task[t].verdict = "failed"

\* Start-up decides and every pulled task gets a verdict, whatever the daemon
\* and the command do; unless main raised, for want of the Docker it was told
\* to use (docker_executor.py:310, local_executor.py:139).
TasksEnd == \A t \in Tasks : <>(mainPc = "raised" \/ task[t].pc = "done")
=============================================================================
