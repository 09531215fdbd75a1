--------------------------- MODULE Serving_proofs ---------------------------
(***************************************************************************)
(* Type correctness of session thread, tunnel and monitor together, and    *)
(* that a session that has ended serves nobody, for any window of samples  *)
(* and any number of faults.                                               *)
(*                                                                         *)
(* What EndedSessionsServeNobody needs besides: a port that belongs to the *)
(* process is closed without it (PortNeedsProcess), a service that belongs *)
(* to it serves no connection without the port (ConnectionNeedsService),   *)
(* and every way into the final report, from a launch that fails to an     *)
(* alarm, has stopped the process first or found it gone, but for a docker *)
(* command that failed (ReportedAfterStop).  Type correctness              *)
(* needs that the tunnel thread starts from nothing (NoTunnelYet) and that *)
(* only native sessions are launched here (LaunchedHere).                  *)
(*                                                                         *)
(* That the rolling window implements the counter of CpuWatch needs that   *)
(* no scan follows an alarm (QuietBeforeAlarm) and that the window is not  *)
(* full of busy samples without one (AlarmWhenSustained); the rest is what *)
(* one more sample does to the busy samples at the end of a window.        *)
(***************************************************************************)
EXTENDS Serving, TLAPS, SequenceTheorems, WellFoundedInduction

NoTunnelYet ==
    sess \in {"spawn", "waiting", "ready", "announced"} => tunnelPc = "off"

PortNeedsProcess == OwnsPort /\ proc # "run" => port = "closed"

ConnectionNeedsService == OwnsService /\ Connected => port \in {"up", "hung"}

ReportedAfterStop ==
    sess \in {"spawn", "report", "ended"} /\ ~flaked => proc # "run"

LaunchedHere == sess \in {"spawn", "waiting"} => kind # "docker"

Inv ==
    /\ ServingTypeOK
    /\ NoTunnelYet
    /\ LaunchedHere
    /\ PortNeedsProcess
    /\ ConnectionNeedsService
    /\ ReportedAfterStop

-----------------------------------------------------------------------------
(* Types of the two parts. *)

\* A failed exchange counts one fault.
LEMMA FaultsCounted == TunnelTypeOK /\ Fault => faults' \in 0..MaxFaults
BY TunnelAssumption DEF TunnelTypeOK, Fault

\* The window keeps its length.
LEMMA WindowBounded ==
    ASSUME NEW h \in Seq({"high", "low"}), NEW x \in {"high", "low"}
    PROVE  /\ LastSamples(Append(h, x)) \in Seq({"high", "low"})
           /\ Len(LastSamples(Append(h, x))) <= SustainedChecks
<1> DEFINE s == Append(h, x)
           m == Len(s) - SustainedChecks + 1
<1>1. s \in Seq({"high", "low"}) /\ Len(s) \in Nat
  OBVIOUS
<1>2. CASE Len(s) > SustainedChecks
  <2>1. m \in 1..Len(s) /\ Len(s) - m + 1 = SustainedChecks
    BY <1>1, <1>2, SustainedChecksAssumption
  <2> HIDE DEF s, m
  <2>2. \A i \in m..Len(s) : s[i] \in {"high", "low"}
    BY <1>1, <2>1, ElementOfSeq
  <2>3. /\ SubSeq(s, m, Len(s)) \in Seq({"high", "low"})
        /\ Len(SubSeq(s, m, Len(s))) = SustainedChecks
    BY <1>1, <2>1, <2>2, SubSeqProperties
  <2>4. LastSamples(s) = SubSeq(s, m, Len(s))
    BY <1>2 DEF LastSamples, m
  <2>5. /\ LastSamples(s) \in Seq({"high", "low"})
        /\ Len(LastSamples(s)) <= SustainedChecks
    BY <2>3, <2>4, SustainedChecksAssumption
  <2> QED
    BY <2>5 DEF s
<1>3. CASE ~(Len(s) > SustainedChecks)
  BY <1>1, <1>3, SustainedChecksAssumption DEF LastSamples
<1> QED
  BY <1>2, <1>3

\* A scan keeps the monitor's types.
LEMMA ScanTyped ==
    ASSUME MonitorTypeOK, NEW names, NEW x \in {"high", "low"}, Scan(names, x)
    PROVE  MonitorTypeOK'
<1>1. CASE names = "miner"
  BY <1>1 DEF Scan, MonitorTypeOK
<1>2. CASE names # "miner"
  <2>1. cpuHistory' = LastSamples(Append(cpuHistory, x))
    BY <1>2 DEF Scan
  <2>2. cpuHistory' \in Seq({"high", "low"}) /\ Len(cpuHistory') <= SustainedChecks
    BY <2>1, WindowBounded DEF MonitorTypeOK
  <2>3. alert' \in {"none", "mining_detected", "anomaly_cpu", "suspicious_process"}
    BY <1>2 DEF Scan
  <2> QED
    BY <2>2, <2>3 DEF MonitorTypeOK
<1> QED
  BY <1>1, <1>2

\* The tunnel's steps keep its two connections and its pumps in step with its
\* program counter, and touch nothing else.
LEMMA TunnelTyped ==
    ASSUME TunnelTypeOK, TunnelThread \/ WsDrops \/ ServiceCloses \/ BytesCome
    PROVE  /\ TunnelTypeOK' /\ UNCHANGED Surroundings /\ tunnelPc # "off"
           /\ Connected' => Connected \/ port \in {"up", "hung"}
<1>1. CASE TunnelTest \/ Connect \/ Backoff
  BY <1>1 DEF TunnelTest, Connect, Backoff, TunnelTypeOK, Surroundings,
     Connected
<1>2. CASE ConnectFails
  <2>1. faults' \in 0..MaxFaults
    BY <1>2, FaultsCounted DEF ConnectFails, TunnelTypeOK
  <2> QED
    BY <1>2, <2>1 DEF ConnectFails, TunnelTypeOK, Surroundings, Connected
<1>3. CASE Dial \/ DialRefused
  BY <1>3 DEF Dial, DialRefused, TunnelTypeOK, Surroundings, Connected
<1>4. CASE BytesCome \/ ServiceCloses
  BY <1>4 DEF BytesCome, PumpInBlocks, PumpInEnds, PumpOutEnds, ServiceCloses,
              ConnectionEnds, TunnelTypeOK, Surroundings, Connected
<1>5. CASE FirstCompleted
  BY <1>5 DEF FirstCompleted, TunnelTypeOK, Surroundings, Connected
<1>6. CASE WsDrops
  <2>1. faults' \in 0..MaxFaults
    BY <1>6, FaultsCounted DEF WsDrops
  <2> QED
    BY <1>6, <2>1 DEF WsDrops, TunnelTypeOK, Surroundings, Connected
<1> QED
  BY <1>1, <1>2, <1>3, <1>4, <1>5, <1>6 DEF TunnelThread, BytesCome

-----------------------------------------------------------------------------

LEMMA InitInv == ServingInit => Inv
<1> SUFFICES ASSUME ServingInit PROVE Inv
  OBVIOUS
<1>1. TunnelTypeOK
  <2>1. 0 \in 0..MaxFaults
    BY TunnelAssumption
  <2>2. stopEvent \in BOOLEAN /\ admitted \in BOOLEAN
    BY DEF ServingInit, TunnelInit
  <2> QED
    BY <2>1, <2>2 DEF ServingInit, TunnelInit, TunnelTypeOK
<1>2. MonitorTypeOK
  BY SustainedChecksAssumption DEF ServingInit, MonitorInit, MonitorTypeOK
<1>3. renterEnded \in BOOLEAN
  BY DEF ServingInit
<1>4. kind \in Kinds /\ relay \in Relays
      /\ kind \in {"docker", "native", "sshd", "forking", "robbed"}
  BY ServingAssumption DEF ServingInit
<1>5. ServingTypeOK
  BY <1>1, <1>2, <1>3, <1>4 DEF ServingInit, ServingTypeOK
<1> QED
  BY <1>4, <1>5 DEF ServingInit, TunnelInit, Inv, NoTunnelYet, LaunchedHere,
     PortNeedsProcess, ConnectionNeedsService,
                    ReportedAfterStop, OwnsPort, OwnsService, Connected

\* A step of the tunnel thread, or of the network under it, leaves port and
\* process alone.
LEMMA TunnelKeeps ==
    ASSUME Inv, TunnelThread \/ WsDrops \/ ServiceCloses \/ BytesCome,
           UNCHANGED <<monitorVars, ownVars>>
    PROVE  Inv'
<1>1. /\ TunnelTypeOK' /\ UNCHANGED Surroundings /\ tunnelPc # "off"
      /\ Connected' => Connected \/ port \in {"up", "hung"}
  BY TunnelTyped DEF Inv, ServingTypeOK
<1>2. ServingTypeOK'
  BY <1>1 DEF Inv, ServingTypeOK, ownVars, monitorVars, MonitorTypeOK
<1> QED
  BY <1>1, <1>2 DEF Inv, NoTunnelYet, LaunchedHere, PortNeedsProcess,
     ConnectionNeedsService,
     ReportedAfterStop,
                    OwnsPort, OwnsService, Connected, Surroundings, ownVars

\* When a process vanishes, so does the port it held.
LEMMA VanishCloses ==
    ASSUME Inv, Vanish, UNCHANGED kind
    PROVE  /\ proc' \in {"zombie", "gone"}
           /\ kind = "docker" => proc' = "gone"
           /\ OwnsPort => port' = "closed"
           /\ OwnsService => ~Connected'
           /\ port' \in {"up", "mute", "hung", "closed"}
           /\ tcp' \in {"none", "open", "deaf", "eof"}
           /\ tcp' # "none" <=> tcp # "none"
BY DEF Inv, ServingTypeOK, TunnelTypeOK, Vanish, LosePort, ConnectionEnds,
   OwnsPort, OwnsService, Connected

\* The process, its renter and the rest of the node.
LEMMA EnvironmentKeeps == Inv /\ Environment => Inv'
<1> SUFFICES ASSUME Inv, Environment PROVE Inv'
  OBVIOUS
<1> USE DEF Inv
<1>1. CASE ServerDies
  <2>1. /\ Vanish /\ proc = "run"
        /\ UNCHANGED <<stopEvent, admitted, tunnelPc, ws, pumpIn, pumpOut,
                       faults, monitorVars, kind, relay, sess, renterEnded, load, flaked>>
    BY <1>1 DEF ServerDies
  <2>2. ServingTypeOK'
    BY <2>1, VanishCloses DEF ServingTypeOK, TunnelTypeOK, MonitorTypeOK,
       monitorVars
  <2> QED
    BY <2>1, <2>2, VanishCloses DEF NoTunnelYet, LaunchedHere,
       PortNeedsProcess, ConnectionNeedsService, ReportedAfterStop, OwnsPort,
       OwnsService, Connected
<1>2. CASE ServerMutes
  <2>1. /\ proc = "run" \/ kind = "robbed"
        /\ port' \in {"mute", "closed"}
        /\ OwnsService => ConnectionEnds
        /\ tcp' = tcp \/ ConnectionEnds
        /\ UNCHANGED <<stopEvent, admitted, tunnelPc, ws, pumpIn, pumpOut, faults,
                       monitorVars, ownVars>>
    BY <1>2 DEF ServerMutes, OwnsService
  <2>2. ServingTypeOK'
    BY <2>1 DEF ServingTypeOK, TunnelTypeOK, MonitorTypeOK, monitorVars,
       ownVars, ConnectionEnds, Connected
  <2> QED
    BY <2>1, <2>2 DEF NoTunnelYet, LaunchedHere, PortNeedsProcess,
       ConnectionNeedsService,
       ReportedAfterStop, OwnsPort, OwnsService, ConnectionEnds,
       Connected, ownVars
<1>3. CASE PortOpens
  <2>1. ServingTypeOK'
    BY <1>3 DEF PortOpens, ServingTypeOK, TunnelTypeOK, MonitorTypeOK,
       monitorVars, ownVars, tunnelOwn
  <2> QED
    BY <1>3, <2>1 DEF PortOpens, NoTunnelYet, LaunchedHere, PortNeedsProcess,
       ConnectionNeedsService,
       ReportedAfterStop,
                      OwnsPort, OwnsService, Connected, ownVars, tunnelOwn
<1>4. CASE OtherPopen
  <2>1. ServingTypeOK'
    BY <1>4 DEF OtherPopen, ServingTypeOK, TunnelTypeOK, MonitorTypeOK,
       monitorVars, tunnelVars, tunnelOwn
  <2> QED
    BY <1>4, <2>1 DEF OtherPopen, NoTunnelYet, LaunchedHere, PortNeedsProcess,
       ConnectionNeedsService,
       ReportedAfterStop,
                      OwnsPort, OwnsService, Connected, tunnelVars, tunnelOwn
<1>5. CASE LoadChanges
  <2>1. ServingTypeOK'
    BY <1>5 DEF LoadChanges, ServingTypeOK, TunnelTypeOK, MonitorTypeOK,
       monitorVars, tunnelVars, tunnelOwn
  <2> QED
    BY <1>5, <2>1 DEF LoadChanges, NoTunnelYet, LaunchedHere, PortNeedsProcess,
       ConnectionNeedsService,
       ReportedAfterStop,
                      OwnsPort, OwnsService, Connected, tunnelVars, tunnelOwn
<1>6. CASE RenterEnds
  <2>0. admitted' \in BOOLEAN
    BY <1>6 DEF RenterEnds
  <2>1. ServingTypeOK'
    BY <1>6, <2>0 DEF RenterEnds, ServingTypeOK, TunnelTypeOK, MonitorTypeOK,
       monitorVars, tunnelOwn
  <2> QED
    BY <1>6, <2>1 DEF RenterEnds, NoTunnelYet, LaunchedHere, PortNeedsProcess,
       ConnectionNeedsService,
       ReportedAfterStop,
                      OwnsPort, OwnsService, Connected, tunnelOwn
<1>7. CASE Stop
  <2>1. ServingTypeOK'
    BY <1>7 DEF Stop, ServingTypeOK, TunnelTypeOK, MonitorTypeOK, monitorVars,
       ownVars, tunnelOwn
  <2> QED
    BY <1>7, <2>1 DEF Stop, NoTunnelYet, LaunchedHere, PortNeedsProcess,
       ConnectionNeedsService,
       ReportedAfterStop,
                      OwnsPort, OwnsService, Connected, ownVars, tunnelOwn
<1>8. CASE (WsDrops \/ ServiceCloses \/ BytesCome) /\ UNCHANGED <<monitorVars, ownVars>>
  BY <1>8, TunnelKeeps
<1>9. CASE ServerHangs
  <2>1. /\ proc = "run" \/ kind = "robbed"
        /\ port' = "hung"
        /\ tcp' = IF tcp = "open" THEN "deaf" ELSE tcp
        /\ UNCHANGED <<stopEvent, admitted, tunnelPc, ws, pumpIn, pumpOut, faults,
                       monitorVars, ownVars>>
    BY <1>9 DEF ServerHangs
  <2>2. ServingTypeOK'
    BY <2>1 DEF ServingTypeOK, TunnelTypeOK, MonitorTypeOK, monitorVars,
       ownVars
  <2> QED
    BY <2>1, <2>2 DEF NoTunnelYet, LaunchedHere, PortNeedsProcess,
       ConnectionNeedsService, ReportedAfterStop, OwnsPort, OwnsService,
       Connected, ownVars
<1> QED
  BY <1>1, <1>2, <1>3, <1>4, <1>5, <1>6, <1>7, <1>8, <1>9 DEF Environment

\* The launch of a native session: its process exists from Spawn on, and one
\* whose port stays closed is killed before the failure is reported.
LEMMA LaunchKeeps ==
    ASSUME Inv,
           Spawn \/ SpawnFails \/ WaitForPort \/ WaitTimesOut \/ Announce \/ StartTunnel
    PROVE  Inv'
<1> USE DEF Inv
<1>1. CASE Spawn \/ SpawnFails \/ WaitForPort
  <2>1. ServingTypeOK'
    BY <1>1 DEF Spawn, SpawnFails, WaitForPort, Steps, LaunchRest,
       ServingTypeOK,
                TunnelTypeOK, MonitorTypeOK, monitorVars
  <2> QED
    BY <1>1, <2>1 DEF Spawn, SpawnFails, WaitForPort, Steps, LaunchRest,
       NoTunnelYet,
                      LaunchedHere, PortNeedsProcess, ConnectionNeedsService,
       ReportedAfterStop,
       OwnsPort, OwnsService, Connected
<1>2. CASE WaitTimesOut
  <2>0. proc' \in {"gone", "zombie"} /\ port' \in {"closed", "up"}
        /\ (OwnsPort => port' = "closed")
    BY <1>2 DEF WaitTimesOut, KillProcess, OwnsPort, OwnsService, Connected
  <2>1. kind # "docker"
    BY <1>2 DEF WaitTimesOut, Steps, LaunchedHere
  <2>2. ServingTypeOK'
    BY <1>2, <2>0, <2>1 DEF WaitTimesOut, Steps, LaunchRest, ServingTypeOK,
       TunnelTypeOK,
                      MonitorTypeOK, monitorVars
  <2> QED
    BY <1>2, <2>0, <2>2 DEF WaitTimesOut, Steps, LaunchRest, NoTunnelYet,
                      LaunchedHere, PortNeedsProcess, ConnectionNeedsService,
       ReportedAfterStop,
       OwnsPort, OwnsService, Connected
<1>3. CASE Announce
  <2>0. faults' \in 0..MaxFaults
    BY <1>3, FaultsCounted DEF Announce, ServingTypeOK, TunnelTypeOK
  <2>1. ServingTypeOK'
    BY <1>3, <2>0 DEF Announce, Steps, LaunchRest, ServingTypeOK, TunnelTypeOK,
                      MonitorTypeOK, monitorVars
  <2> QED
    BY <1>3, <2>1 DEF Announce, Steps, LaunchRest, NoTunnelYet, LaunchedHere,
       PortNeedsProcess, ConnectionNeedsService,
                      ReportedAfterStop, OwnsPort, OwnsService, Connected
<1>4. CASE StartTunnel
  <2>1. ServingTypeOK'
    BY <1>4 DEF StartTunnel, Steps, Surroundings, NoTunnelYet, ServingTypeOK,
                TunnelTypeOK, MonitorTypeOK, monitorVars
  <2> QED
    BY <1>4, <2>1 DEF StartTunnel, Steps, Surroundings, NoTunnelYet,
       LaunchedHere, PortNeedsProcess, ConnectionNeedsService,
                      ReportedAfterStop, OwnsPort, OwnsService, Connected
<1> QED
  BY <1>1, <1>2, <1>3, <1>4

\* stop_session leaves no process, no port that was the session's and no
\* connection to its service, unless the docker commands failed.
LEMMA StopServerStops ==
    ASSUME Inv, StopServer, UNCHANGED kind
    PROVE  /\ flaked' \in BOOLEAN /\ faults' \in 0..MaxFaults
           /\ ~flaked' => proc' # "run"
           /\ proc' \in {"none", "run", "zombie", "gone"}
           /\ proc' = "zombie" => kind # "docker"
           /\ OwnsPort /\ proc' # "run" => port' = "closed"
           /\ OwnsService /\ Connected' => port' \in {"up", "hung"}
           /\ port' \in {"up", "mute", "hung", "closed"}
           /\ tcp' \in {"none", "open", "deaf", "eof"}
           /\ tcp' # "none" <=> tcp # "none"
<1>1. CASE Vanish /\ UNCHANGED <<faults, flaked>>
  BY <1>1, VanishCloses DEF Inv, ServingTypeOK, TunnelTypeOK
<1>2. CASE /\ proc = "run" /\ kind = "forking" /\ proc' = "zombie"
           /\ UNCHANGED <<port, tcp, faults, flaked>>
  BY <1>2 DEF Inv, ServingTypeOK, TunnelTypeOK, OwnsPort, OwnsService
<1>3. CASE proc # "run" /\ UNCHANGED <<port, tcp, proc, faults, flaked>>
  BY <1>3 DEF Inv, ServingTypeOK, TunnelTypeOK, PortNeedsProcess,
     ConnectionNeedsService, OwnsPort, OwnsService, Connected
<1>4. CASE Flake /\ UNCHANGED <<port, tcp, proc>>
  <2>1. faults' \in 0..MaxFaults /\ flaked' = TRUE
    BY <1>4, FaultsCounted DEF Flake, Inv, ServingTypeOK
  <2> QED
    BY <1>4, <2>1 DEF Inv, ServingTypeOK, TunnelTypeOK, PortNeedsProcess,
       ConnectionNeedsService, OwnsPort, OwnsService, Connected
<1> QED
  BY <1>1, <1>2, <1>3, <1>4 DEF StopServer

\* The watch loop: it leaves for the report when the process is gone, or
\* through StopServer.
LEMMA WatchKeeps ==
    ASSUME Inv,
           \/ SeeStop \/ Beat \/ CheckAlive \/ NoScan \/ ScanContainer
           \/ StopAlarmed \/ StopSession \/ ReportEnd
    PROVE  Inv'
<1> USE DEF Inv
<1>1. CASE \/ SeeStop \/ NoScan
           \/ /\ Steps("alive", IF SeemsAlive THEN "scan" ELSE "report")
              /\ UNCHANGED <<faults, flaked>> /\ NoOtherChange
  <2>1. ServingTypeOK'
    BY <1>1 DEF SeeStop, NoScan, Steps, NoOtherChange, Surroundings,
                tunnelOwn, ServingTypeOK, TunnelTypeOK, MonitorTypeOK,
       monitorVars
  <2> QED
    BY <1>1, <2>1 DEF SeeStop, NoScan, SeemsAlive, Steps,
       NoOtherChange,
                      Surroundings, tunnelOwn, NoTunnelYet, LaunchedHere,
       PortNeedsProcess, ConnectionNeedsService,
                      ReportedAfterStop, OwnsPort, OwnsService, Connected
<1>2. CASE Beat
  <2>0. faults' \in 0..MaxFaults
    BY <1>2, FaultsCounted DEF Beat, ServingTypeOK, TunnelTypeOK
  <2>1. ServingTypeOK'
    BY <1>2, <2>0 DEF Beat, Steps, NoOtherChange, Surroundings, tunnelOwn,
                      ServingTypeOK, TunnelTypeOK, MonitorTypeOK, monitorVars
  <2> QED
    BY <1>2, <2>1 DEF Beat, Steps, NoOtherChange, Surroundings, tunnelOwn,
       NoTunnelYet,
                      LaunchedHere, PortNeedsProcess, ConnectionNeedsService,
       ReportedAfterStop,
       OwnsPort, OwnsService, Connected
<1>3. CASE ScanContainer
  <2>1. faults' \in 0..MaxFaults
    BY <1>3, FaultsCounted DEF ScanContainer, ServingTypeOK, TunnelTypeOK
  <2>2. MonitorTypeOK'
    BY <1>3, ScanTyped DEF ScanContainer, ServingTypeOK
  <2>3. sess = "scan" /\ sess' \in {"alarm", "loop"}
    BY <1>3 DEF ScanContainer, Steps
  <2>4. UNCHANGED <<port, stopEvent, admitted, tunnelPc, ws, tcp, pumpIn, pumpOut,
                    kind, relay, proc, renterEnded, load, flaked>>
    BY <1>3 DEF ScanContainer, Surroundings, tunnelOwn
  <2>5. ServingTypeOK'
    BY <2>1, <2>2, <2>3, <2>4 DEF ServingTypeOK, TunnelTypeOK
  <2> QED
    BY <2>3, <2>4, <2>5 DEF NoTunnelYet, LaunchedHere, PortNeedsProcess,
       ConnectionNeedsService,
       ReportedAfterStop, OwnsPort, OwnsService, Connected
<1>4. CASE StopAlarmed \/ StopSession
  <2>1. sess \in {"alarm", "stopping"} /\ sess' = "report" /\ StopServer
    BY <1>4 DEF StopAlarmed, StopSession, Steps
  <2>2. UNCHANGED <<stopEvent, admitted, tunnelPc, ws, pumpIn, pumpOut,
                    cpuHistory, alert, kind, relay, renterEnded, load>>
    BY <1>4 DEF StopAlarmed, StopSession, StopRest, monitorVars
  <2>3. ServingTypeOK'
    BY <2>1, <2>2, StopServerStops DEF ServingTypeOK, TunnelTypeOK,
       MonitorTypeOK
  <2> QED
    BY <2>1, <2>2, <2>3, StopServerStops
    DEF NoTunnelYet, LaunchedHere, PortNeedsProcess, ConnectionNeedsService,
        ReportedAfterStop, OwnsPort, OwnsService, Connected
<1>5. CASE ReportEnd
  <2>1. faults' \in 0..MaxFaults /\ admitted' \in BOOLEAN
    BY <1>5, FaultsCounted DEF ReportEnd, ServingTypeOK, TunnelTypeOK
  <2>2. ServingTypeOK'
    BY <1>5, <2>1 DEF ReportEnd, Steps, tunnelOwn, ServingTypeOK, TunnelTypeOK,
                      MonitorTypeOK, monitorVars
  <2> QED
    BY <1>5, <2>2 DEF ReportEnd, Steps, tunnelOwn, NoTunnelYet, LaunchedHere,
       PortNeedsProcess, ConnectionNeedsService,
                      ReportedAfterStop, OwnsPort, OwnsService, Connected
<1>6. CASE Steps("alive", "report") /\ Flake /\ NoOtherChange
  <2>0. faults' \in 0..MaxFaults /\ flaked' = TRUE /\ sess' = "report"
    BY <1>6, FaultsCounted DEF Flake, Steps, ServingTypeOK
  <2>1. ServingTypeOK'
    BY <1>6, <2>0 DEF Steps, NoOtherChange, Surroundings, tunnelOwn,
       ServingTypeOK, TunnelTypeOK, MonitorTypeOK, monitorVars
  <2> QED
    BY <1>6, <2>0, <2>1 DEF Steps, NoOtherChange, Surroundings,
       tunnelOwn, NoTunnelYet, LaunchedHere, PortNeedsProcess,
       ConnectionNeedsService, ReportedAfterStop, OwnsPort, OwnsService,
       Connected
<1>7. CheckAlive => \/ /\ Steps("alive", IF SeemsAlive THEN "scan" ELSE "report")
                       /\ UNCHANGED <<faults, flaked>> /\ NoOtherChange
                    \/ Steps("alive", "report") /\ Flake /\ NoOtherChange
  BY DEF CheckAlive
<1> QED
  BY <1>1, <1>2, <1>3, <1>4, <1>5, <1>6, <1>7

LEMMA StepKeeps == Inv /\ [Next]_vars => Inv'
<1> SUFFICES ASSUME Inv, [Next]_vars PROVE Inv'
  OBVIOUS
<1>1. CASE SessionThread
  BY <1>1, LaunchKeeps, WatchKeeps DEF SessionThread
<1>2. CASE TunnelStep
  BY <1>2, TunnelKeeps DEF TunnelStep
<1>3. CASE Environment
  BY <1>3, EnvironmentKeeps
<1>4. CASE UNCHANGED vars
  BY <1>4 DEF vars, tunnelVars, tunnelOwn, monitorVars, ownVars, Inv,
     ServingTypeOK,
              TunnelTypeOK, MonitorTypeOK, NoTunnelYet, LaunchedHere,
     PortNeedsProcess, ConnectionNeedsService,
              ReportedAfterStop, OwnsPort, OwnsService, Connected
<1> QED
  BY <1>1, <1>2, <1>3, <1>4 DEF Next

-----------------------------------------------------------------------------

\* Every variable of the session thread, the tunnel and the monitor keeps to
\* its type: the tunnel has a WebSocket and a connection exactly where its
\* coroutine needs them, and the window of samples never outgrows its bound.
THEOREM TypeCorrect == Spec => []ServingTypeOK
<1>1. Inv => ServingTypeOK
  BY DEF Inv
<1> QED
  BY <1>1, InitInv, StepKeeps, PTL DEF Spec

\* A session that has ended with every docker command done has no process,
\* no port of its own and, but for sshd, no connection left, however its launch
\* or its service ended (_run_session_container,
\* NativeWorkbenchExecutor.start_session).
THEOREM EndedServeNobody == Spec => []EndedSessionsServeNobody
<1>1. Inv => EndedSessionsServeNobody
  <2> SUFFICES ASSUME Inv, sess = "ended", ~flaked
               PROVE  /\ proc # "run"
                      /\ OwnsPort => port = "closed"
                      /\ OwnsService => ~Connected
    BY DEF EndedSessionsServeNobody
  <2>1. proc # "run"
    BY DEF Inv, ReportedAfterStop
  <2>2. OwnsPort => port = "closed"
    BY <2>1 DEF Inv, PortNeedsProcess
  <2>3. OwnsService => ~Connected
    BY <2>2 DEF Inv, ConnectionNeedsService, OwnsPort, OwnsService
  <2> QED
    BY <2>1, <2>2, <2>3
<1> QED
  BY <1>1, InitInv, StepKeeps, PTL DEF Spec

-----------------------------------------------------------------------------
(* The rolling window implements the counter of CpuWatch. *)

\* No scan follows an alarm: the session leaves its loop for good.
QuietBeforeAlarm ==
    sess \notin {"alarm", "report", "ended"} => alert \notin Critical

\* The window is never full of busy samples without the alarm.
AlarmWhenSustained == Sustained(cpuHistory) => alert = "anomaly_cpu"

WatchInv == Inv /\ QuietBeforeAlarm /\ AlarmWhenSustained

Samples == Seq({"high", "low"})

\* The history h ends in exactly n busy samples.
EndsBusy(h, n) ==
    /\ n \in 0..Len(h)
    /\ \A i \in 1..Len(h) : i > Len(h) - n => h[i] = "high"
    /\ n < Len(h) => h[Len(h) - n] # "high"

\* Streak, of any history.
StreakOf(h) ==
    LET high == {n \in 0..Len(h) :
                   \A i \in (Len(h) - n + 1)..Len(h) : h[i] = "high"}
    IN CHOOSE n \in high : \A m \in high : m <= n

\* There is one such number, and it is the streak.
LEMMA StreakIsEndsBusy ==
    ASSUME NEW h \in Samples, NEW n, EndsBusy(h, n)
    PROVE  StreakOf(h) = n
<1> DEFINE high == {m \in 0..Len(h) : \A i \in (Len(h) - m + 1)..Len(h) : h[i] = "high"}
<1>1. Len(h) \in Nat /\ n \in 0..Len(h)
  BY DEF Samples, EndsBusy
<1>2. n \in high
  BY <1>1 DEF EndsBusy
<1>3. ASSUME NEW m \in high PROVE m <= n
  <2> SUFFICES ASSUME ~(m <= n) PROVE FALSE
    OBVIOUS
  <2>1. m \in 0..Len(h) /\ n < m /\ n < Len(h)
    BY <1>1
  <2>2. Len(h) - n \in (Len(h) - m + 1)..Len(h)
    BY <1>1, <2>1
  <2>3. h[Len(h) - n] = "high"
    BY <2>2
  <2> QED
    BY <2>1, <2>3 DEF EndsBusy
<1>4. StreakOf(h) = CHOOSE k \in high : \A m \in high : m <= k
  BY DEF StreakOf
<1>5. high \subseteq Nat
  BY <1>1
<1> HIDE DEF high
<1>6. StreakOf(h) \in high /\ \A m \in high : m <= StreakOf(h)
  BY <1>2, <1>3, <1>4
<1>7. StreakOf(h) \in Nat /\ n \in Nat
  BY <1>2, <1>5, <1>6
<1>8. StreakOf(h) <= n /\ n <= StreakOf(h)
  BY <1>2, <1>3, <1>6
<1> QED
  BY <1>7, <1>8

\* A set of naturals has a least member.
LEMMA LeastNatural ==
    ASSUME NEW T, T \subseteq Nat, T # {}
    PROVE  \E x \in T : \A y \in T : x <= y
<1>1. PICK x \in T : \A y \in T : ~ (<<y, x>> \in OpToRel(<, Nat))
  BY NatLessThanWellFounded, WFMin
<1>2. \A y \in T : ~ (y < x)
  BY <1>1 DEF OpToRel
<1> QED
  BY <1>2

\* Every history ends in some number of busy samples.
LEMMA SomeEndsBusy ==
    ASSUME NEW h \in Samples
    PROVE  EndsBusy(h, StreakOf(h))
<1> DEFINE BusyAfter(k) == \A i \in 1..Len(h) : i > k => h[i] = "high"
           T == {k \in Nat : k <= Len(h) /\ BusyAfter(k)}
<1>1. Len(h) \in Nat
  BY DEF Samples
<1>2. Len(h) \in T
  BY <1>1
<1>3. PICK k \in T : \A j \in T : k <= j
  BY <1>2, LeastNatural
<1>4. k \in Nat /\ k <= Len(h) /\ BusyAfter(k)
  OBVIOUS
<1>5. k > 0 => h[k] # "high"
  <2> SUFFICES ASSUME k > 0, h[k] = "high" PROVE FALSE
    OBVIOUS
  <2>1. k - 1 \in Nat /\ k - 1 <= Len(h)
    BY <1>1, <1>4
  <2>2. \A i \in 1..Len(h) : i > k - 1 => h[i] = "high"
    BY <1>4
  <2>3. k - 1 \in T
    BY <2>1, <2>2
  <2> QED
    BY <1>3, <1>4, <2>3
<1> HIDE DEF T
<1> DEFINE n == Len(h) - k
<1>6. n \in 0..Len(h) /\ Len(h) - n = k /\ (n < Len(h) => k > 0)
  BY <1>1, <1>4
<1>7. EndsBusy(h, n)
  BY <1>4, <1>5, <1>6 DEF EndsBusy
<1>8. StreakOf(h) = n
  BY <1>7, StreakIsEndsBusy
<1> QED
  BY <1>7, <1>8

\* What the window is after one more sample.
LEMMA WindowMoves ==
    ASSUME NEW h \in Samples, Len(h) <= SustainedChecks, NEW x \in {"high", "low"}
    PROVE  LET w == LastSamples(Append(h, x)) IN
           /\ w \in Samples
           /\ Len(w) = IF Len(h) < SustainedChecks THEN Len(h) + 1 ELSE SustainedChecks
           /\ w[Len(w)] = x
           /\ \A i \in 1..(Len(w) - 1) : w[i] = h[i + (Len(h) + 1 - Len(w))]
<1> DEFINE s == Append(h, x)
           w == LastSamples(s)
<1>1. /\ Len(h) \in Nat /\ SustainedChecks \in Nat \ {0}
      /\ s \in Samples /\ Len(s) = Len(h) + 1 /\ s[Len(h) + 1] = x
      /\ \A i \in 1..Len(h) : s[i] = h[i]
  BY SustainedChecksAssumption DEF Samples
<1>2. w \in Samples
  BY WindowBounded DEF Samples
<1>3. CASE Len(h) < SustainedChecks
  <2>1. w = s
    BY <1>1, <1>3 DEF LastSamples
  <2> QED
    BY <1>1, <1>2, <1>3, <2>1
<1>4. CASE ~(Len(h) < SustainedChecks)
  <2>1. Len(h) = SustainedChecks /\ Len(s) - SustainedChecks + 1 = 2
    BY <1>1, <1>4
  <2>2. w = SubSeq(s, 2, Len(s))
    BY <1>1, <2>1 DEF LastSamples
  <2> HIDE DEF s, w
  <2>3. \A i \in 2..Len(s) : s[i] \in {"high", "low"}
    BY <1>1, ElementOfSeq DEF Samples
  <2>4. /\ Len(w) = Len(s) - 2 + 1
        /\ \A i \in 1..(Len(s) - 2 + 1) : w[i] = s[2 + i - 1]
    BY <1>1, <2>1, <2>2, <2>3, SubSeqProperties
  <2>5. Len(w) = SustainedChecks
    BY <1>1, <2>1, <2>4
  <2>6. \A i \in 1..SustainedChecks : w[i] = s[i + 1]
    BY <1>1, <2>1, <2>4
  <2>7. w[Len(w)] = x
    BY <1>1, <2>1, <2>5, <2>6
  <2>8. \A i \in 1..(Len(w) - 1) : w[i] = h[i + (Len(h) + 1 - Len(w))]
    BY <1>1, <2>1, <2>5, <2>6
  <2>9. /\ w \in Samples
        /\ Len(w) = IF Len(h) < SustainedChecks THEN Len(h) + 1 ELSE SustainedChecks
    BY <1>2, <1>4, <2>5
  <2> QED
    BY <2>7, <2>8, <2>9 DEF w, s
<1> QED
  BY <1>3, <1>4

\* An idle sample ends the streak.
LEMMA IdleEndsStreak ==
    ASSUME NEW h \in Samples, Len(h) <= SustainedChecks
    PROVE  LET w == LastSamples(Append(h, "low")) IN
           StreakOf(w) = 0 /\ ~Sustained(w)
<1> DEFINE w == LastSamples(Append(h, "low"))
<1>1. w \in Samples /\ Len(w) \in Nat \ {0} /\ w[Len(w)] = "low"
  <2>1. Len(h) \in Nat /\ SustainedChecks \in Nat \ {0}
    BY SustainedChecksAssumption DEF Samples
  <2> QED
    BY <2>1, WindowMoves
<1> HIDE DEF w
<1>2. EndsBusy(w, 0)
  BY <1>1 DEF EndsBusy
<1>3. StreakOf(w) = 0
  BY <1>1, <1>2, StreakIsEndsBusy
<1>4. ~Sustained(w)
  BY <1>1 DEF Sustained
<1> QED
  BY <1>3, <1>4 DEF w

\* A busy sample lengthens it by one, also where the window drops its oldest
\* sample, and the window is full of busy samples at the SustainedChecks-th.
LEMMA BusyLengthensStreak ==
    ASSUME NEW h \in Samples, Len(h) <= SustainedChecks, ~Sustained(h)
    PROVE  LET w == LastSamples(Append(h, "high")) IN
           /\ StreakOf(w) = StreakOf(h) + 1
           /\ Sustained(w) <=> StreakOf(w) = SustainedChecks
<1> DEFINE w == LastSamples(Append(h, "high"))
           n == StreakOf(h)
           d == Len(h) + 1 - Len(w)
<1>1. /\ w \in Samples /\ w[Len(w)] = "high"
      /\ Len(w) = IF Len(h) < SustainedChecks THEN Len(h) + 1 ELSE SustainedChecks
      /\ \A i \in 1..(Len(w) - 1) : w[i] = h[i + d]
  BY WindowMoves
<1>2. Len(h) \in Nat /\ SustainedChecks \in Nat \ {0}
  BY SustainedChecksAssumption DEF Samples
<1>3. /\ n \in 0..Len(h)
      /\ \A i \in 1..Len(h) : i > Len(h) - n => h[i] = "high"
      /\ n < Len(h) => h[Len(h) - n] # "high"
  BY SomeEndsBusy DEF EndsBusy
<1> HIDE DEF w, n
<1>4. n < SustainedChecks
  <2> SUFFICES ASSUME ~(n < SustainedChecks) PROVE FALSE
    OBVIOUS
  <2>1. Len(h) = SustainedChecks /\ n = Len(h)
    BY <1>2, <1>3
  <2>2. \A i \in 1..Len(h) : h[i] = "high"
    BY <1>2, <1>3, <2>1
  <2> QED
    BY <1>2, <2>1, <2>2 DEF Sustained
<1>5. Len(w) \in Nat \ {0} /\ d \in Nat /\ n + 1 \in 0..Len(w)
      /\ Len(w) - 1 + d = Len(h)
  <2>1. CASE Len(h) < SustainedChecks
    <3>1. Len(w) = Len(h) + 1 /\ d = 0
      BY <1>1, <1>2, <2>1
    <3> QED
      BY <1>2, <1>3, <3>1
  <2>2. CASE ~(Len(h) < SustainedChecks)
    <3>1. Len(h) = SustainedChecks /\ Len(w) = SustainedChecks /\ d = 1
      BY <1>1, <1>2, <2>2
    <3> QED
      BY <1>2, <1>3, <1>4, <3>1
  <2> QED
    BY <2>1, <2>2
<1>6. ASSUME NEW i \in 1..Len(w), i > Len(w) - (n + 1)
      PROVE  w[i] = "high"
  <2>1. CASE i = Len(w)
    BY <1>1, <2>1
  <2>2. CASE i # Len(w)
    <3>1. i \in 1..(Len(w) - 1) /\ i + d \in 1..Len(h) /\ i + d > Len(h) - n
      BY <1>2, <1>3, <1>5, <1>6, <2>2
    <3> QED
      BY <1>1, <1>3, <3>1
  <2> QED
    BY <2>1, <2>2
<1>7. n + 1 < Len(w) => w[Len(w) - (n + 1)] # "high"
  <2> SUFFICES ASSUME n + 1 < Len(w) PROVE w[Len(w) - (n + 1)] # "high"
    OBVIOUS
  <2>1. /\ Len(w) - (n + 1) \in 1..(Len(w) - 1)
        /\ (Len(w) - (n + 1)) + d = Len(h) - n
        /\ n < Len(h)
    BY <1>2, <1>3, <1>5
  <2> HIDE DEF d
  <2>2. w[Len(w) - (n + 1)] = h[(Len(w) - (n + 1)) + d]
    BY <1>1, <2>1
  <2> QED
    BY <1>3, <2>1, <2>2
<1>8. StreakOf(w) = n + 1
  <2>1. EndsBusy(w, n + 1)
    BY <1>5, <1>6, <1>7 DEF EndsBusy
  <2> QED
    BY <1>1, <2>1, StreakIsEndsBusy
<1>9. ASSUME n + 1 = SustainedChecks PROVE Sustained(w)
  <2>1. Len(w) = SustainedChecks
    BY <1>1, <1>2, <1>5, <1>9
  <2>2. \A i \in 1..Len(w) : w[i] = "high"
    BY <1>2, <1>5, <1>6, <1>9, <2>1
  <2> QED
    BY <1>2, <2>1, <2>2 DEF Sustained
<1>10. ASSUME Sustained(w) PROVE n + 1 = SustainedChecks
  <2>1. Len(w) = SustainedChecks /\ \A i \in 1..Len(w) : w[i] = "high"
    BY <1>1, <1>2, <1>10 DEF Sustained
  <2>2. ~(n + 1 < Len(w))
    <3> SUFFICES ASSUME n + 1 < Len(w) PROVE FALSE
      OBVIOUS
    <3>1. Len(w) - (n + 1) \in 1..Len(w)
      BY <1>3, <1>5
    <3> QED
      BY <1>7, <2>1, <3>1
  <2> QED
    BY <1>2, <1>3, <1>4, <2>1, <2>2
<1> QED
  BY <1>8, <1>9, <1>10 DEF w, n

-----------------------------------------------------------------------------

\* A scan that starts without an alarm.
LEMMA ScanSteps ==
    ASSUME MonitorTypeOK, alert \notin Critical, AlarmWhenSustained,
           NEW names, NEW x \in {"high", "low"}, Scan(names, x)
    PROVE  AlarmWhenSustained' /\ Watch!WatchNext
<1>1. /\ cpuHistory \in Samples /\ Len(cpuHistory) <= SustainedChecks
      /\ ~Sustained(cpuHistory)
      /\ alert \in {"none", "suspicious_process"}
  BY DEF MonitorTypeOK, Samples, AlarmWhenSustained, Critical
<1>2. Streak = StreakOf(cpuHistory) /\ Streak' = StreakOf(cpuHistory')
  BY DEF Streak, StreakOf
<1>3. CASE names = "miner"
  <2>1. alert' = "mining_detected" /\ cpuHistory' = cpuHistory
    BY <1>3 DEF Scan
  <2>2. Watch!MinerFound
    BY <1>1, <1>2, <2>1 DEF Watch!MinerFound
  <2>3. AlarmWhenSustained'
    BY <1>1, <2>1 DEF AlarmWhenSustained, Sustained
  <2> QED
    BY <2>2, <2>3 DEF Watch!WatchNext
<1>4. CASE names # "miner"
  <2>1. /\ cpuHistory' = LastSamples(Append(cpuHistory, x))
        /\ alert' = IF Sustained(cpuHistory') THEN "anomaly_cpu"
                    ELSE IF names = "suspicious" THEN "suspicious_process"
                    ELSE "none"
    BY <1>4 DEF Scan
  <2>2. AlarmWhenSustained'
    BY <2>1 DEF AlarmWhenSustained, Sustained
  <2>3. CASE x = "low"
    <3>1. Streak' = 0 /\ ~Sustained(cpuHistory')
      BY <1>1, <1>2, <2>1, <2>3, IdleEndsStreak
    <3>2. alert' \in {"none", "suspicious_process"}
      BY <2>1, <3>1
    <3>3. Watch!IdleScan
      BY <1>1, <3>1, <3>2 DEF Watch!IdleScan
    <3> QED
      BY <2>2, <3>3 DEF Watch!WatchNext
  <2>4. CASE x = "high"
    <3>1. /\ Streak' = Streak + 1
          /\ Sustained(cpuHistory') <=> Streak' = SustainedChecks
      BY <1>1, <1>2, <2>1, <2>4, BusyLengthensStreak
    <3>2. Watch!BusyScan
      BY <1>1, <2>1, <3>1 DEF Watch!BusyScan
    <3> QED
      BY <2>2, <3>2 DEF Watch!WatchNext
  <2> QED
    BY <2>3, <2>4
<1> QED
  BY <1>3, <1>4

\* Nothing sampled, nothing counted.
LEMMA WatchBegins ==
    ServingInit => WatchInv /\ Watch!WatchInit
<1> SUFFICES ASSUME ServingInit PROVE WatchInv /\ Watch!WatchInit
  OBVIOUS
<1>1. cpuHistory = <<>> /\ alert = "none"
  BY DEF ServingInit, MonitorInit
<1>2. ~Sustained(cpuHistory)
  BY <1>1, SustainedChecksAssumption DEF Sustained
<1>3. Streak = 0
  <2>1. cpuHistory \in Samples /\ EndsBusy(cpuHistory, 0)
    BY <1>1 DEF Samples, EndsBusy
  <2> QED
    BY <2>1, StreakIsEndsBusy DEF Streak, StreakOf
<1> QED
  BY <1>1, <1>2, <1>3, InitInv
  DEF WatchInv, QuietBeforeAlarm, AlarmWhenSustained, Critical, Watch!WatchInit

\* Every scan is a step of the counter, every other step leaves it alone.
LEMMA WatchGoesOn ==
    ASSUME WatchInv, [Next]_vars
    PROVE  WatchInv' /\ [Watch!WatchNext]_<<Streak,
             IF alert = "anomaly_cpu" THEN "cpu"
             ELSE IF alert = "mining_detected" THEN "miner" ELSE "none">>
<1>1. Inv'
  BY StepKeeps DEF WatchInv
<1>2. CASE ScanContainer
  <2>1. MonitorTypeOK /\ load \in {"high", "low"} /\ sess = "scan"
        /\ sess' = IF alert' \in Critical THEN "alarm" ELSE "loop"
    BY <1>2 DEF ScanContainer, Steps, WatchInv, Inv, ServingTypeOK
  <2>2. \E names \in {"clean", "suspicious", "miner"}, x \in {"high", "low"} :
           Scan(names, x)
    BY <1>2, <2>1 DEF ScanContainer
  <2>3. alert \notin Critical /\ AlarmWhenSustained
    BY <2>1 DEF WatchInv, QuietBeforeAlarm
  <2>4. AlarmWhenSustained' /\ Watch!WatchNext
    BY <2>1, <2>2, <2>3, ScanSteps
  <2>5. QuietBeforeAlarm'
    BY <2>1 DEF QuietBeforeAlarm, Critical
  <2> QED
    BY <1>1, <2>4, <2>5 DEF WatchInv
<1>3. CASE ~ScanContainer
  <2>1. /\ UNCHANGED monitorVars
        /\ sess \in {"alarm", "report", "ended"} => sess' \in {"alarm", "report", "ended"}
    <3>1. CASE SessionThread
      BY <1>3, <3>1
      DEF SessionThread, Spawn, SpawnFails, WaitForPort, WaitTimesOut, Announce,
          StartTunnel, SeeStop, Beat, CheckAlive, NoScan, StopAlarmed,
          StopSession,
          ReportEnd, Steps, LaunchRest, NoOtherChange, StopRest
    <3>2. CASE TunnelStep
      BY <3>2 DEF TunnelStep, ownVars
    <3>3. CASE Environment
      BY <3>3 DEF Environment, ServerDies, ServerMutes, ServerHangs, PortOpens,
         OtherPopen,
                  LoadChanges, RenterEnds, Stop, ownVars
    <3>4. CASE UNCHANGED vars
      BY <3>4 DEF vars, ownVars
    <3> QED
      BY <3>1, <3>2, <3>3, <3>4 DEF Next
  <2>2. QuietBeforeAlarm' /\ AlarmWhenSustained'
    BY <2>1 DEF WatchInv, QuietBeforeAlarm, AlarmWhenSustained, Sustained,
       monitorVars
  <2>3. Streak' = Streak /\ alert' = alert
    BY <2>1 DEF Streak, monitorVars
  <2> QED
    BY <1>1, <2>2, <2>3 DEF WatchInv
<1> QED
  BY <1>2, <1>3

\* The rolling window raises the alarm at exactly the SustainedChecks-th busy
\* sample in a row, for every length of the window (security_monitor.py:137).
THEOREM WindowCountsStreaks == Spec => ImplementsCpuWatch
<1>1. WatchInv /\ [Next]_vars => WatchInv'
  BY WatchGoesOn
<1> QED
  BY <1>1, WatchBegins, WatchGoesOn, PTL DEF Spec, ImplementsCpuWatch,
     Watch!WatchSpec
=============================================================================
