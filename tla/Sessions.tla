------------------------------ MODULE Sessions ------------------------------
(***************************************************************************)
(* Workbench sessions of a compute node: the main thread polls for         *)
(* assignments, one daemon thread per assignment launches a container with *)
(* the Docker executor, verifies and heals it, announces it and watches it *)
(* until it ends (node.py, workbench_executor.py).  The pool server and    *)
(* the Docker daemon are external.                                         *)
(*                                                                         *)
(* Where a session thread is:                                              *)
(*   unused    not started          create    create_workbench_executor    *)
(*   launch    start_session        probe     probing the service          *)
(*   heal      stop_session before the next rung of the ladder             *)
(*   register  healthy, not yet in _active_sessions                        *)
(*   announce  posting session/ready                                       *)
(*   serve     the while condition  check     after the heartbeat          *)
(*   stopping  stop_session         report    posting session/terminated   *)
(*   pop       leaving _active_sessions       ended    returned            *)
(***************************************************************************)
EXTENDS Naturals, FiniteSets

CONSTANTS
    Sessions,   \* session ids
    Threads,    \* session threads the node may start
    Redeliver,  \* does the server offer a session until it hears of it?
    NoSession,  \* the sid of a thread not started
    MaxFaults,  \* bound on failed HTTP exchanges
    MaxFlakes   \* bound on docker commands that time out or fail

ASSUME SessionsAssumption ==
    /\ NoSession \notin Sessions
    /\ Redeliver \in BOOLEAN
    /\ MaxFaults \in Nat
    /\ MaxFlakes \in Nat

VARIABLES
    stype,      \* the type of each session, as far as probing tells
    main,       \* the main thread: polling, stopping, closed, exited
    stopEvent,  \* _stop_event
    active,     \* keys of _active_sessions
    thread,     \* what each session thread is doing
    cont,       \* the container started by each thread on each rung
    server,     \* the server's view of each session
    handed,     \* sessions already handed to this node
    renterDone, \* sessions the renter has asked to end
    faults, flakes

node == <<stype, main, stopEvent, handed>>
budget == <<faults, flakes>>
vars == <<stype, main, stopEvent, active, thread, cont, server, handed, renterDone,
          faults, flakes>>

Rungs == 1..3   \* first start, container restart, image re-pull

ThreadPcs == {"unused", "create", "launch", "probe", "heal", "register",
              "announce", "serve", "check", "stopping", "report", "pop",
              "ended"}

\* A container whose service does not answer (yet) is silent, although
\* Docker's port proxy already accepts connections for it.
ContainerStates == {"none", "silent", "running", "exited", "removed"}
Live == {"silent", "running"}

\* Why a thread ends its session.
Causes == {"none", "init", "launch", "heal", "unready", "stopped", "exited",
           "alert"}

Unused == [pc |-> "unused", sid |-> NoSession, rung |-> 1, why |-> "none"]

TypeOK ==
    /\ stype \in [Sessions -> {"ssh", "other"}]
    /\ main \in {"polling", "stopping", "closed", "exited"}
    /\ stopEvent \in BOOLEAN
    /\ active \subseteq Sessions
    /\ thread \in [Threads -> [pc : ThreadPcs, sid : Sessions \cup {NoSession},
                               rung : Rungs, why : Causes]]
    /\ cont \in [Threads \X Rungs -> ContainerStates]
    /\ server \in [Sessions -> {"offered", "ready", "ended"}]
    /\ handed \subseteq Sessions
    /\ renterDone \subseteq Sessions
    /\ faults \in 0..MaxFaults
    /\ flakes \in 0..MaxFlakes

Init ==
    /\ stype \in [Sessions -> {"ssh", "other"}]
    /\ main = "polling"
    /\ stopEvent = FALSE
    /\ active = {}
    /\ thread = [th \in Threads |-> Unused]
    /\ cont = [c \in Threads \X Rungs |-> "none"]
    /\ server = [s \in Sessions |-> "offered"]
    /\ handed = {}
    /\ renterDone = {}
    /\ faults = 0
    /\ flakes = 0

At(th, pc) == thread[th].pc = pc /\ main # "exited"

Goto(th, pc) == thread' = [thread EXCEPT ![th].pc = pc]

EndFor(th, pc, why) ==
    thread' = [thread EXCEPT ![th].pc = pc, ![th].why = why]

Current(th) == <<th, thread[th].rung>>

ClientOpen == main \in {"polling", "stopping"}

\* An HTTP exchange fails: the network does, or the client is closed.
HttpFails ==
    \/ ~ClientOpen /\ UNCHANGED faults
    \/ ClientOpen /\ faults < MaxFaults /\ faults' = faults + 1

\* A docker command times out or fails.
DockerFlakes == flakes < MaxFlakes /\ flakes' = flakes + 1

\* _stop_container: docker stop and docker rm -f -v, failures swallowed.
StopContainer(c) ==
    \/ cont' = [cont EXCEPT ![c] = "removed"] /\ UNCHANGED flakes
    \/ DockerFlakes /\ UNCHANGED cont

-----------------------------------------------------------------------------
(* The main thread. *)

Stop ==
    /\ ~stopEvent
    /\ stopEvent' = TRUE
    /\ UNCHANGED <<stype, main, active, thread, cont, server, handed,
                   renterDone, budget>>

\* _session_poll_once: a session that is not active gets a thread.
PollSession(s, th) ==
    /\ main = "polling"
    /\ server[s] = "offered"
    /\ Redeliver \/ s \notin handed
    /\ s \notin active
    /\ thread[th] = Unused
    /\ thread' = [thread EXCEPT ![th].pc = "create", ![th].sid = s]
    /\ handed' = handed \cup {s}
    /\ UNCHANGED <<stype, main, stopEvent, active, cont, server, renterDone,
                   budget>>

\* The poll loop ends; _stop waits for the executor pool, not for sessions.
LeaveLoop ==
    /\ main = "polling" /\ stopEvent
    /\ main' = "stopping"
    /\ UNCHANGED <<stype, stopEvent, active, thread, cont, server, handed,
                   renterDone, budget>>

CloseClient ==
    /\ main = "stopping"
    /\ main' = "closed"
    /\ UNCHANGED <<stype, stopEvent, active, thread, cont, server, handed,
                   renterDone, budget>>

\* run() returns, the process exits and takes its daemon threads with it.
ProcessExit ==
    /\ main = "closed"
    /\ main' = "exited"
    /\ UNCHANGED <<stype, stopEvent, active, thread, cont, server, handed,
                   renterDone, budget>>

-----------------------------------------------------------------------------
(* A session thread: launching and healing. *)

CreateExecutor(th) ==
    /\ At(th, "create")
    /\ \/ Goto(th, "launch")
       \/ EndFor(th, "report", "init")
    /\ UNCHANGED <<node, active, cont, server, renterDone, budget>>

\* start_session succeeds: docker run returned and the port opened, which
\* says nothing of the service behind it.
LaunchOk(th) ==
    /\ At(th, "launch")
    /\ \E health \in Live : cont' = [cont EXCEPT ![Current(th)] = health]
    /\ Goto(th, "probe")
    /\ UNCHANGED <<node, active, server, renterDone, budget>>

\* docker run fails and leaves nothing behind.
LaunchFails(th) ==
    /\ At(th, "launch")
    /\ EndFor(th, "report", "launch")
    /\ UNCHANGED <<node, active, cont, server, renterDone, budget>>

\* docker run times out: the container may come up all the same, and nobody
\* has its id.
LaunchTimesOut(th) ==
    /\ At(th, "launch")
    /\ DockerFlakes
    /\ \/ cont' = [cont EXCEPT ![Current(th)] = "running"]
       \/ UNCHANGED cont
    /\ EndFor(th, "report", "launch")
    /\ UNCHANGED <<node, active, server, renterDone, faults>>

\* The container runs but its port never opens: start_session stops it.
PortNeverOpens(th) ==
    /\ At(th, "launch")
    /\ \/ cont' = [cont EXCEPT ![Current(th)] = "removed"] /\ UNCHANGED flakes
       \/ cont' = [cont EXCEPT ![Current(th)] = "running"] /\ DockerFlakes
    /\ EndFor(th, "report", "launch")
    /\ UNCHANGED <<node, active, server, renterDone, faults>>

\* Mutant: a bare TCP accept, which Docker's port proxy gives for a dead
\* service too, counts as healthy.
ProbeAlwaysOk(th) ==
    /\ At(th, "probe")
    /\ Goto(th, "register")
    /\ UNCHANGED <<node, active, cont, server, renterDone, budget>>

\* probe_session_service answers None: an SSH server has sent its banner; of
\* any other service a connection is enough.
ProbeOk(th) ==
    /\ At(th, "probe")
    /\ cont[Current(th)] \in Live
    /\ stype[thread[th].sid] = "ssh" => cont[Current(th)] = "running"
    /\ Goto(th, "register")
    /\ UNCHANGED <<node, active, cont, server, renterDone, budget>>

\* Every probe of this rung fails.
ProbeFails(th) ==
    /\ At(th, "probe")
    /\ Goto(th, "heal")
    /\ UNCHANGED <<node, active, cont, server, renterDone, budget>>

\* Mutant: the old container is left to the new rung.
HealWithoutStop(th) ==
    /\ At(th, "heal")
    /\ IF thread[th].rung < 3
       THEN thread' = [thread EXCEPT ![th].pc = "launch", ![th].rung = @ + 1]
       ELSE EndFor(th, "report", "heal")
    /\ UNCHANGED <<node, active, cont, server, renterDone, budget>>

\* Mutant: the ladder starts over instead of giving up.
HealForEver(th) ==
    /\ At(th, "heal")
    /\ StopContainer(Current(th))
    /\ thread' = [thread EXCEPT ![th].pc = "launch",
                                ![th].rung = IF @ < 3 THEN @ + 1 ELSE 1]
    /\ UNCHANGED <<node, active, server, renterDone, faults>>

\* The next rung of the ladder stops the container first; after the third
\* the node gives up.
Heal(th) ==
    /\ At(th, "heal")
    /\ StopContainer(Current(th))
    /\ IF thread[th].rung < 3
       THEN thread' = [thread EXCEPT ![th].pc = "launch", ![th].rung = @ + 1]
       ELSE EndFor(th, "report", "heal")
    /\ UNCHANGED <<node, active, server, renterDone, faults>>

-----------------------------------------------------------------------------
(* A session thread: announcing and watching. *)

Register(th) ==
    /\ At(th, "register")
    /\ active' = active \cup {thread[th].sid}
    /\ Goto(th, "announce")
    /\ UNCHANGED <<node, cont, server, renterDone, budget>>

\* The server hears that the session is ready.
HearReady(s) ==
    server' = [server EXCEPT ![s] = IF @ = "offered" THEN "ready" ELSE @]

AnnounceOk(th) ==
    /\ At(th, "announce")
    /\ ClientOpen
    /\ HearReady(thread[th].sid)
    /\ Goto(th, "serve")
    /\ UNCHANGED <<node, active, cont, renterDone, budget>>

\* The ready post raises, possibly after the server acted on it.
AnnounceFails(th) ==
    /\ At(th, "announce")
    /\ HttpFails
    /\ \/ UNCHANGED server
       \/ ClientOpen /\ HearReady(thread[th].sid)
    /\ EndFor(th, "stopping", "unready")
    /\ UNCHANGED <<node, active, cont, renterDone, flakes>>

\* The watch loop ends because the node is stopping.
SeeStop(th) ==
    /\ At(th, "serve") /\ stopEvent
    /\ EndFor(th, "stopping", "stopped")
    /\ UNCHANGED <<node, active, cont, server, renterDone, budget>>

\* The session heartbeat is answered; should_terminate is set when the renter
\* is done or the server holds the session for ended.
Beat(th) ==
    /\ At(th, "serve") /\ ~stopEvent
    /\ ClientOpen
    /\ IF thread[th].sid \in renterDone \/ server[thread[th].sid] = "ended"
       THEN EndFor(th, "stopping", "stopped")
       ELSE Goto(th, "check")
    /\ UNCHANGED <<node, active, cont, server, renterDone, budget>>

\* A failed heartbeat is logged and the loop goes on.
BeatFails(th) ==
    /\ At(th, "serve") /\ ~stopEvent
    /\ HttpFails
    /\ Goto(th, "check")
    /\ UNCHANGED <<node, active, cont, server, renterDone, flakes>>

StillAlive(th) ==
    /\ At(th, "check")
    /\ cont[Current(th)] \in Live
    /\ Goto(th, "serve")
    /\ UNCHANGED <<node, active, cont, server, renterDone, budget>>

\* Mutant: an exited container is healed, although the server holds its
\* session for ready.
SeemsExitedHeals(th) ==
    /\ At(th, "check")
    /\ \/ cont[Current(th)] \notin Live /\ UNCHANGED flakes
       \/ DockerFlakes
    /\ Goto(th, "heal")
    /\ UNCHANGED <<node, active, cont, server, renterDone, faults>>

\* docker inspect says the container is not running, or fails: the thread
\* reports the exit without stopping or removing anything.
SeemsExited(th) ==
    /\ At(th, "check")
    /\ \/ cont[Current(th)] \notin Live /\ UNCHANGED flakes
       \/ DockerFlakes
    /\ EndFor(th, "report", "exited")
    /\ UNCHANGED <<node, active, cont, server, renterDone, faults>>

\* The security scan raises a critical alert.
CriticalAlert(th) ==
    /\ At(th, "check")
    /\ cont[Current(th)] \in Live
    /\ EndFor(th, "stopping", "alert")
    /\ UNCHANGED <<node, active, cont, server, renterDone, budget>>

StopSession(th) ==
    /\ At(th, "stopping")
    /\ StopContainer(Current(th))
    /\ Goto(th, "report")
    /\ UNCHANGED <<node, active, server, renterDone, faults>>

\* Mutant: a session whose container exited stays in _active_sessions.
AfterReportKeepsExited(th) ==
    IF thread[th].why \in {"stopped", "alert"} THEN "pop" ELSE "ended"

\* Only a session that was announced leaves _active_sessions on its way out;
\* one whose ready report failed does not.
AfterReport(th) ==
    IF thread[th].why \in {"stopped", "exited", "alert"} THEN "pop" ELSE "ended"

\* Mutant: an early return skips the final report of a failed launch.
ReportSomeEnds(th) ==
    /\ At(th, "report")
    /\ ClientOpen
    /\ IF thread[th].why = "launch" THEN UNCHANGED server
       ELSE server' = [server EXCEPT ![thread[th].sid] = "ended"]
    /\ Goto(th, AfterReport(th))
    /\ UNCHANGED <<node, active, cont, renterDone, budget>>

\* _report_session_terminated gets through.
ReportOk(th) ==
    /\ At(th, "report")
    /\ ClientOpen
    /\ server' = [server EXCEPT ![thread[th].sid] = "ended"]
    /\ Goto(th, AfterReport(th))
    /\ UNCHANGED <<node, active, cont, renterDone, budget>>

\* It does not: the exception is logged, an error status not even that.
ReportFails(th) ==
    /\ At(th, "report")
    /\ HttpFails
    /\ Goto(th, AfterReport(th))
    /\ UNCHANGED <<node, active, cont, server, renterDone, flakes>>

Pop(th) ==
    /\ At(th, "pop")
    /\ active' = active \ {thread[th].sid}
    /\ Goto(th, "ended")
    /\ UNCHANGED <<node, cont, server, renterDone, budget>>

-----------------------------------------------------------------------------
(* The renter and the Docker daemon. *)

RenterEnds(s) ==
    /\ server[s] = "ready"
    /\ s \notin renterDone
    /\ renterDone' = renterDone \cup {s}
    /\ UNCHANGED <<node, active, thread, cont, server, budget>>

ServiceComesUp(c) ==
    /\ cont[c] = "silent"
    /\ cont' = [cont EXCEPT ![c] = "running"]
    /\ UNCHANGED <<node, active, thread, server, renterDone, budget>>

ContainerDies(c) ==
    /\ cont[c] \in Live
    /\ cont' = [cont EXCEPT ![c] = "exited"]
    /\ UNCHANGED <<node, active, thread, server, renterDone, budget>>

-----------------------------------------------------------------------------
Thread(th) ==
    \/ CreateExecutor(th)
    \/ LaunchOk(th) \/ LaunchFails(th) \/ LaunchTimesOut(th)
    \/ PortNeverOpens(th) \/ ProbeOk(th) \/ ProbeFails(th) \/ Heal(th)
    \/ Register(th) \/ AnnounceOk(th) \/ AnnounceFails(th)
    \/ SeeStop(th) \/ Beat(th) \/ BeatFails(th)
    \/ StillAlive(th) \/ SeemsExited(th) \/ CriticalAlert(th)
    \/ StopSession(th) \/ ReportOk(th) \/ ReportFails(th) \/ Pop(th)

MainThread ==
    \/ \E s \in Sessions, th \in Threads : PollSession(s, th)
    \/ LeaveLoop \/ CloseClient \/ ProcessExit

\* The process is gone, or every session is over for the server.
AtRest ==
    /\ main = "exited" \/ \A th \in Threads : thread[th].pc \in {"unused", "ended"}
    /\ UNCHANGED vars

Next ==
    \/ MainThread \/ Stop
    \/ \E th \in Threads : Thread(th)
    \/ \E s \in Sessions : RenterEnds(s)
    \/ \E c \in Threads \X Rungs : ServiceComesUp(c) \/ ContainerDies(c)
    \/ AtRest

Spec == Init /\ [][Next]_vars

-----------------------------------------------------------------------------
(* Properties. *)

\* As long as docker does what it is told, a container lives only while the
\* thread that started it is responsible for it: every rung of the ladder,
\* every early return and every way to end a session cleans up after itself.
NoOrphanContainers ==
    \A th \in Threads, n \in Rungs :
        (flakes = 0 /\ cont[<<th, n>>] \in Live) =>
            /\ n = thread[th].rung
            /\ thread[th].pc \in {"probe", "heal", "register", "announce",
                                  "serve", "check", "stopping"}

\* Unless an HTTP exchange failed, every way a thread can end has told the
\* server so by the time it returns.
EndsAreReported ==
    \A th \in Threads :
        (faults = 0 /\ ClientOpen /\ thread[th].pc \in {"pop", "ended"}) =>
            server[thread[th].sid] = "ended"

\* No SSH session is announced, or watched, whose service never answered.
\* Sessions of other types may be: their probe does not wait for an answer
\* (workbench_executor.py:81).
NoSilentSessions ==
    \A th \in Threads :
        (/\ thread[th].pc \in {"announce", "serve", "check"}
         /\ stype[thread[th].sid] = "ssh") =>
            cont[Current(th)] # "silent"

\* _active_sessions lists a session only while a thread that announced it is
\* still at work, or for ever after its ready report failed.
ActiveIsLiveOrUnready ==
    \A s \in active : \E th \in Threads :
        /\ thread[th].sid = s
        /\ \/ thread[th].pc \in {"announce", "serve", "check", "stopping",
                                 "report", "pop"}
           \/ thread[th].why = "unready"

\* The ladder ends: a thread never starts a container again on a rung it has
\* left, so it serves or gives up after three (node.py:770).
LaunchesAreBounded ==
    [][\A c \in Threads \X Rungs :
          cont[c] \in {"exited", "removed"} => cont'[c] \notin Live]_vars

Slots == Threads \X Rungs

\* Where a thread is in its attempt at a session.
Stage == [pc \in ThreadPcs |->
    CASE pc = "unused"                                  -> "idle"
      [] pc \in {"create", "launch", "probe", "heal"}   -> "launching"
      [] pc \in {"register", "announce"}                -> "vouched"
      [] pc \in {"serve", "check"}                      -> "serving"
      [] pc \in {"stopping", "report"}                  -> "closing"
      [] pc \in {"pop", "ended"}                        -> "over"]

Phase == [c \in ContainerStates |->
    CASE c = "none"                   -> "none"
      [] c \in Live                   -> "up"
      [] c \in {"exited", "removed"}  -> "down"]

Contract == INSTANCE SessionContract WITH
                stage <- [th \in Threads |-> Stage[thread[th].pc]],
                sid <- [th \in Threads |-> thread[th].sid],
                container <- [c \in Slots |-> Phase[cont[c]]],
                told <- server

\* However launches, probes, lost exchanges and redelivered offers mix, the
\* node keeps its contract: only a probed container is announced, once; an
\* announced session is never launched again; the end is reported once, last,
\* and what another thread of the session says does not take it back.
ImplementsContract == Contract!ContractSpec

\* A session reported as exited has a container that no longer runs.
EndedSessionsHaveStopped ==
    \A th \in Threads :
        (thread[th].why = "exited" /\ thread[th].pc \in {"pop", "ended"}) =>
            cont[Current(th)] \notin Live
=============================================================================
