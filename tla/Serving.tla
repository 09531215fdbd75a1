------------------------------ MODULE Serving ------------------------------
(***************************************************************************)
(* A session from its ready report to its end: the session thread's watch  *)
(* loop (node.py), the process behind the session's port, which is a       *)
(* container or a child of the node (workbench_executor.py), the tunnel    *)
(* thread and the security monitor.  The threads share nothing but the     *)
(* port and _stop_event.  The launch of a native session is here too; that *)
(* of a container is in Sessions.                                          *)
(***************************************************************************)
EXTENDS Tunnel, SecurityMonitor

CONSTANTS
    Kinds,      \* "docker", "native" (one process), "sshd" (a listener with a
                \* child for each connection), "forking" (a native shell whose
                \* child holds the port), "robbed" (somebody else has bound the
                \* port that was free a moment ago)
    Relays      \* whether the pool server "keeps" or "forgets" the tunnels
                \* of sessions that have ended

ASSUME ServingAssumption ==
    /\ Kinds \subseteq {"docker", "native", "sshd", "forking", "robbed"}
    /\ Relays \subseteq {"keeps", "forgets"}

VARIABLES
    kind, relay,
    sess,       \* the session thread
    proc,       \* the process: "none" yet, "run", "zombie" (a dead child
                \* nobody waited for), or "gone"
    renterEnded,
    load,       \* CPU use of the container
    flaked      \* a docker command has failed though the container was there

ownVars == <<kind, relay, sess, proc, renterEnded, load, flaked>>
vars    == <<tunnelVars, monitorVars, ownVars>>

ServingTypeOK ==
    /\ TunnelTypeOK
    /\ MonitorTypeOK
    /\ kind \in Kinds /\ relay \in Relays
    /\ sess \in {"spawn", "waiting", "ready", "announced", "loop", "beat",
                 "alive", "scan", "alarm", "stopping", "report", "ended"}
    /\ proc \in {"none", "run", "zombie", "gone"}
    /\ proc = "zombie" => kind # "docker"
    /\ renterEnded \in BOOLEAN
    /\ load \in {"high", "low"}
    /\ flaked \in BOOLEAN

ServingInit ==
    /\ TunnelInit
    /\ MonitorInit
    /\ kind \in Kinds /\ relay \in Relays
    /\ sess = IF kind = "docker" THEN "ready" ELSE "spawn"
    /\ proc = IF kind = "docker" THEN "run" ELSE "none"
    /\ port = IF kind \in {"docker", "robbed"} THEN "up" ELSE "closed"
    /\ renterEnded = FALSE
    /\ load = "low"
    /\ flaked = FALSE

Flake ==
    /\ kind = "docker"
    /\ Fault
    /\ flaked' = TRUE

Steps(from, to) ==
    /\ sess = from
    /\ sess' = to

-----------------------------------------------------------------------------
(* The process, its renter and the rest of the node. *)

\* Who else has the port keeps it; the child of sshd that serves a connection
\* outlives the listener.
LosePort ==
    IF kind = "robbed" THEN UNCHANGED <<port, tcp>>
    ELSE /\ port' = "closed"
         /\ IF kind = "sshd" THEN UNCHANGED tcp ELSE ConnectionEnds

Vanish ==
    /\ proc' = IF kind = "docker" THEN "gone" ELSE "zombie"
    /\ LosePort

ServerDies ==
    /\ proc = "run"
    /\ Vanish
    /\ UNCHANGED <<stopEvent, admitted, tunnelPc, ws, pumpIn, pumpOut, faults,
                   monitorVars, kind, relay, sess, renterEnded, load, flaked>>

\* The service goes while its process lives.  Docker's proxy goes on accepting
\* for it.
ServerMutes ==
    /\ proc = "run" \/ kind = "robbed"
    /\ port \in {"up", "hung"}
    /\ port' = IF kind = "docker" THEN "mute" ELSE "closed"
    /\ IF kind = "sshd" THEN UNCHANGED tcp ELSE ConnectionEnds
    /\ UNCHANGED <<stopEvent, admitted, tunnelPc, ws, pumpIn, pumpOut, faults,
                   monitorVars, ownVars>>

\* The service blocks for good, a native one for instance when its output pipe,
\* which nobody reads, is full: it keeps its connections and reads nothing.
ServerHangs ==
    /\ proc = "run" \/ kind = "robbed"
    /\ port = "up"
    /\ port' = "hung"
    /\ tcp' = IF tcp = "open" THEN "deaf" ELSE tcp
    /\ UNCHANGED <<stopEvent, admitted, tunnelPc, ws, pumpIn, pumpOut, faults,
                   monitorVars, ownVars>>

\* Nobody waits for a child that has died; only the start of some other
\* subprocess lets the subprocess module collect it.
OtherPopen ==
    /\ proc = "zombie"
    /\ proc' = "gone"
    /\ UNCHANGED <<tunnelVars, monitorVars, kind, relay, sess, renterEnded,
                   load, flaked>>

LoadChanges ==
    /\ kind = "docker" /\ proc = "run"
    /\ load' = IF load = "high" THEN "low" ELSE "high"
    /\ UNCHANGED <<tunnelVars, monitorVars, kind, relay, sess, proc,
                   renterEnded, flaked>>

RenterEnds ==
    /\ ~renterEnded
    /\ renterEnded' = TRUE
    /\ admitted' = (relay = "keeps" /\ admitted)
    /\ UNCHANGED <<port, stopEvent, tunnelOwn, faults, monitorVars, kind, relay,
                   sess, proc, load, flaked>>

Stop ==
    /\ ~stopEvent
    /\ stopEvent' = TRUE
    /\ UNCHANGED <<port, admitted, tunnelOwn, faults, monitorVars, ownVars>>

PortOpens ==
    /\ sess = "waiting"
    /\ kind # "robbed"
    /\ proc = "run"
    /\ port = "closed"
    /\ port' = "up"
    /\ UNCHANGED <<stopEvent, admitted, tunnelOwn, faults, monitorVars, ownVars>>

-----------------------------------------------------------------------------
(* NativeWorkbenchExecutor.start_session, and the ready report. *)

LaunchRest == UNCHANGED <<stopEvent, admitted, tunnelPc, ws, tcp, pumpIn, pumpOut,
                          monitorVars, kind, relay, renterEnded, load, flaked>>

\* What precedes the Popen swallows its own failures (workspace files, keys,
\* pip install).
Spawn ==
    /\ Steps("spawn", "waiting")
    /\ proc' = "run"
    /\ UNCHANGED <<port, faults>>
    /\ LaunchRest

\* No executor, an unknown session type, no sshd, no command, or a Popen that
\* raised: nothing was started.
SpawnFails ==
    /\ Steps("spawn", "report")
    /\ UNCHANGED <<port, faults, proc>>
    /\ LaunchRest

\* _wait_for_port asks for a listener on the port, not for whose it is.
WaitForPort ==
    /\ Steps("waiting", "ready")
    /\ port # "closed"
    /\ UNCHANGED <<port, faults, proc>>
    /\ LaunchRest

\* terminate and wait, or kill.  What a shell has forked may still open the
\* port.
KillProcess ==
    /\ proc' \in {"gone", "zombie"}
    /\ port' \in IF kind = "forking" THEN {"closed", "up"} ELSE {"closed"}

\* Sixty seconds have passed.
WaitTimesOut ==
    /\ Steps("waiting", "report")
    /\ port = "closed"
    /\ KillProcess
    /\ UNCHANGED faults
    /\ LaunchRest

\* The ready report; one that fails stops the session.
Announce ==
    /\ \/ Steps("ready", "announced") /\ UNCHANGED faults
       \/ Steps("ready", "stopping") /\ Fault
    /\ UNCHANGED <<port, proc>>
    /\ LaunchRest

-----------------------------------------------------------------------------
(* The session thread, from the ready report on. *)

NoOtherChange == UNCHANGED <<Surroundings, tunnelOwn, monitorVars, kind, relay,
                             proc, renterEnded, load>>

StartTunnel ==
    /\ Steps("announced", "loop")
    /\ tunnelPc' = "test"
    /\ UNCHANGED <<Surroundings, ws, tcp, pumpIn, pumpOut, faults, monitorVars,
                   kind, relay, proc, renterEnded, load, flaked>>

SeeStop ==
    /\ Steps("loop", IF stopEvent THEN "stopping" ELSE "beat")
    /\ UNCHANGED <<faults, flaked>>
    /\ NoOtherChange

\* Mutant: should_terminate is not looked at.
BeatIgnoresTermination ==
    /\ Steps("beat", "alive")
    /\ UNCHANGED <<faults, flaked>>
    /\ NoOtherChange

\* The session heartbeat; one that fails is logged and the loop goes on.
Beat ==
    /\ \/ Steps("beat", IF renterEnded THEN "stopping" ELSE "alive")
          /\ UNCHANGED faults
       \/ Steps("beat", "alive") /\ Fault
    /\ UNCHANGED flaked
    /\ NoOtherChange

\* docker inspect, or kill(pid, 0), which a zombie passes.
SeemsAlive == proc # "gone"

\* A docker inspect that fails says the same as a container that has gone: the
\* end is reported, and nothing stopped.
CheckAlive ==
    /\ \/ /\ Steps("alive", IF SeemsAlive THEN "scan" ELSE "report")
          /\ UNCHANGED <<faults, flaked>>
       \/ Steps("alive", "report") /\ Flake
    /\ NoOtherChange

\* No monitor for native sessions; for others the interval has not passed.
\* The wait of ten seconds is part of this step and the next.
NoScan ==
    /\ Steps("scan", "loop")
    /\ UNCHANGED <<faults, flaked>>
    /\ NoOtherChange

ScanContainer ==
    /\ kind = "docker"
    /\ \E names \in {"clean", "suspicious", "miner"} :
         \/ Scan(names, load) /\ UNCHANGED faults
         \/ Scan(names, "low") /\ Fault
    /\ Steps("scan", IF alert' \in Critical THEN "alarm" ELSE "loop")
    /\ UNCHANGED <<Surroundings, tunnelOwn, kind, relay, proc, renterEnded, load,
                   flaked>>

\* stop_session: the container is stopped and removed, unless both commands
\* fail, which is swallowed; a native process gets SIGTERM and SIGKILL, what it
\* has forked does not.
StopServer ==
    \/ /\ proc = "run" /\ kind # "forking"
       /\ Vanish
       /\ UNCHANGED <<faults, flaked>>
    \/ /\ proc = "run" /\ kind = "forking"
       /\ proc' = "zombie"
       /\ UNCHANGED <<port, tcp, faults, flaked>>
    \/ /\ proc # "run"
       /\ UNCHANGED <<port, tcp, proc, faults, flaked>>
    \/ /\ Flake
       /\ UNCHANGED <<port, tcp, proc>>

StopRest == UNCHANGED <<stopEvent, admitted, tunnelPc, ws, pumpIn, pumpOut,
                        monitorVars, kind, relay, renterEnded, load>>

\* Mutant: the alarm is reported, the container left running.
AlarmOnlyReports ==
    /\ Steps("alarm", "report")
    /\ UNCHANGED <<port, tcp, proc, faults, flaked>>
    /\ StopRest

\* A critical alert: posted (a failure is swallowed), then the session stopped.
StopAlarmed ==
    /\ Steps("alarm", "report")
    /\ StopServer
    /\ StopRest

StopSession ==
    /\ Steps("stopping", "report")
    /\ StopServer
    /\ StopRest

\* The terminated report, sent once, and the pop.
ReportEnd ==
    /\ Steps("report", "ended")
    /\ \/ admitted' = (relay = "keeps" /\ admitted) /\ UNCHANGED faults
       \/ Fault /\ UNCHANGED admitted
    /\ UNCHANGED <<port, stopEvent, tunnelOwn, monitorVars, kind, relay,
                   proc, renterEnded, load, flaked>>

-----------------------------------------------------------------------------

SessionThread ==
    \/ Spawn \/ SpawnFails \/ WaitForPort \/ WaitTimesOut \/ Announce
    \/ StartTunnel \/ SeeStop \/ Beat \/ CheckAlive \/ NoScan \/ ScanContainer
    \/ StopAlarmed \/ StopSession \/ ReportEnd

TunnelStep == TunnelThread /\ UNCHANGED <<monitorVars, ownVars>>

Environment ==
    \/ ServerDies \/ ServerMutes \/ ServerHangs \/ PortOpens \/ OtherPopen
    \/ LoadChanges \/ RenterEnds \/ Stop
    \/ (WsDrops \/ ServiceCloses \/ BytesCome) /\ UNCHANGED <<monitorVars, ownVars>>

Next == SessionThread \/ TunnelStep \/ Environment

Spec == ServingInit /\ [][Next]_vars

\* The two threads are scheduled and each of their calls has a timeout; the
\* scan interval passes again and again.
Fairness ==
    /\ WF_vars(SessionThread) /\ WF_vars(TunnelStep)
    /\ SF_vars(ScanContainer)

FairSpec == Spec /\ Fairness

-----------------------------------------------------------------------------
(* Properties. *)

\* The port belongs to the process that stop_session stops: it is not held by
\* a shell's child, which SIGKILL to the shell does not reach, nor by someone
\* who bound it after _allocate_host_port released it.
OwnsPort == kind \in {"docker", "native", "sshd"}

\* So do the connections to it: sshd serves each from a child of its own.
OwnsService == kind \in {"docker", "native"}

\* A session that has ended without a failed docker command, for whatever
\* reason and however far its launch had come, has taken its process, its port
\* and, but for sshd, its connections with it (node.py:676-767,
\* workbench_executor.py:572).
EndedSessionsServeNobody ==
    sess = "ended" /\ ~flaked =>
       /\ proc # "run"
       /\ OwnsPort => port = "closed"
       /\ OwnsService => ~Connected

\* A session that its renter, its node or its own process has ended ends: at
\* whatever point of its launch or its loop it is, though the port may never
\* open, heartbeats be lost, the server be muted or scans fail.  A dead
\* native child counts as gone only once the node has started some other
\* subprocess (node.py:709-728, workbench_executor.py:568, 597).
SessionsEnd == (renterEnded \/ stopEvent \/ proc = "gone") ~> sess = "ended"

\* The tunnel does not outlive its session, unless the server no longer
\* admits it, when the thread retries until stop() (node.py:968-974); or the
\* session's container, or sshd's child, was left behind.
TunnelEndsWithSession ==
    OwnsService =>
       (sess = "ended" /\ ~flaked
          ~> (~TunnelActive \/ (~admitted /\ ~stopEvent)))

\* A container that is busy from some time on is stopped: failed or idle
\* samples delay the alarm, they cannot put it off for ever
\* (security_monitor.py:135).
BusySessionsEnd ==
    kind = "docker" /\ <>[](load = "high") => <>(sess = "ended")
=============================================================================
