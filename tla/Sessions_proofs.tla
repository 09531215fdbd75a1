-------------------------- MODULE Sessions_proofs --------------------------
(***************************************************************************)
(* The sessions of a node, for any number of sessions, threads and faults, *)
(* whether the server redelivers or not.                                   *)
(*                                                                         *)
(* Besides the properties themselves the invariant says that a thread at   *)
(* work has a session (SidsKnown); that the rungs a thread has not reached *)
(* have no container (FreshRungs), which is what bounds the launches; that *)
(* the container a thread is responsible for has been there (Launched);    *)
(* that a probed SSH server has answered from the moment of the probe on   *)
(* (HeardSsh); and that the thread behind an active session has announced  *)
(* it (ActiveIsAnnounced), since a thread whose launch fails passes        *)
(* through the same final report.                                          *)
(***************************************************************************)
EXTENDS Sessions, TLAPS

SidsKnown == \A th \in Threads : thread[th].pc # "unused" => thread[th].sid \in Sessions

FreshRungs ==
    \A th \in Threads, n \in Rungs :
        (\/ n > thread[th].rung
         \/ n = thread[th].rung /\ thread[th].pc \in {"unused", "create", "launch"})
           => cont[<<th, n>>] = "none"

HeardSsh ==
    \A th \in Threads :
        (/\ thread[th].pc \in {"register", "announce", "serve", "check"}
         /\ stype[thread[th].sid] = "ssh") =>
            cont[Current(th)] # "silent"

Announced(th) ==
    \/ thread[th].pc \in {"announce", "serve", "check"}
    \/ /\ thread[th].pc \in {"stopping", "report", "pop"}
       /\ thread[th].why \in {"stopped", "exited", "alert"}
    \/ /\ thread[th].pc \in {"stopping", "report", "ended"}
       /\ thread[th].why = "unready"

ActiveIsAnnounced ==
    \A s \in active : \E th \in Threads : thread[th].sid = s /\ Announced(th)

Responsible == {"probe", "heal", "register", "announce", "serve", "check",
                "stopping"}

Launched ==
    \A th \in Threads :
        thread[th].pc \in Responsible => cont[Current(th)] # "none"

Inv ==
    /\ TypeOK
    /\ SidsKnown
    /\ FreshRungs
    /\ Launched
    /\ HeardSsh
    /\ ActiveIsAnnounced
    /\ NoOrphanContainers
    /\ EndsAreReported

-----------------------------------------------------------------------------
(* What a step touches. *)

Record == [pc : ThreadPcs, sid : Sessions \cup {NoSession}, rung : Rungs,
           why : Causes]

\* Moving on, and ending for a reason, keep the record's type.
LEMMA GotoTyped ==
    ASSUME TypeOK, NEW th \in Threads, NEW p \in ThreadPcs, Goto(th, p)
    PROVE  /\ thread' \in [Threads -> Record]
           /\ \A t \in Threads : t # th => thread'[t] = thread[t]
           /\ thread'[th].pc = p
           /\ thread'[th].sid = thread[th].sid
           /\ thread'[th].rung = thread[th].rung
           /\ thread'[th].why = thread[th].why
<1>1. thread \in [Threads -> Record] /\ thread[th] \in Record
  BY DEF TypeOK, Record
<1>2. thread' = [thread EXCEPT ![th] = [thread[th] EXCEPT !.pc = p]]
  BY DEF Goto
<1>3. [thread[th] EXCEPT !.pc = p] \in Record
  BY <1>1 DEF Record
<1>4. thread'[th] = [thread[th] EXCEPT !.pc = p]
  BY <1>1, <1>2
<1> QED
  BY <1>1, <1>2, <1>3, <1>4 DEF Record

LEMMA EndForTyped ==
    ASSUME TypeOK, NEW th \in Threads, NEW p \in ThreadPcs, NEW y \in Causes,
           EndFor(th, p, y)
    PROVE  /\ thread' \in [Threads -> Record]
           /\ \A t \in Threads : t # th => thread'[t] = thread[t]
           /\ thread'[th].pc = p
           /\ thread'[th].sid = thread[th].sid
           /\ thread'[th].rung = thread[th].rung
           /\ thread'[th].why = y
<1>1. thread \in [Threads -> Record] /\ thread[th] \in Record
  BY DEF TypeOK, Record
<1> DEFINE r == [thread[th] EXCEPT !.pc = p, !.why = y]
<1>2. thread' = [thread EXCEPT ![th] = r]
  BY DEF EndFor
<1>3. /\ r \in Record /\ r.pc = p /\ r.sid = thread[th].sid
      /\ r.rung = thread[th].rung /\ r.why = y
  BY <1>1 DEF Record
<1> HIDE DEF r
<1>4. thread'[th] = r
  BY <1>1, <1>2
<1> QED
  BY <1>1, <1>2, <1>3, <1>4

\* The next rung of the ladder.
LEMMA NextRungTyped ==
    ASSUME TypeOK, NEW th \in Threads, thread[th].rung < 3,
           thread' = [thread EXCEPT ![th].pc = "launch", ![th].rung = @ + 1]
    PROVE  /\ thread' \in [Threads -> Record]
           /\ \A t \in Threads : t # th => thread'[t] = thread[t]
           /\ thread'[th].pc = "launch"
           /\ thread'[th].sid = thread[th].sid
           /\ thread'[th].rung = thread[th].rung + 1
           /\ thread'[th].why = thread[th].why
<1>1. thread \in [Threads -> Record] /\ thread[th] \in Record
  BY DEF TypeOK, Record
<1>2. thread[th].rung \in 1..3
  BY <1>1 DEF Record, Rungs
<1>3. thread[th].rung + 1 \in Rungs
  BY <1>2 DEF Rungs
<1> DEFINE r == [thread[th] EXCEPT !.pc = "launch", !.rung = thread[th].rung + 1]
<1>4. thread' = [thread EXCEPT ![th] = r]
  OBVIOUS
<1>5. /\ r \in Record /\ r.pc = "launch" /\ r.sid = thread[th].sid
      /\ r.rung = thread[th].rung + 1 /\ r.why = thread[th].why
  BY <1>1, <1>3 DEF Record, ThreadPcs
<1> HIDE DEF r
<1>6. thread'[th] = r
  BY <1>1, <1>4
<1> QED
  BY <1>1, <1>4, <1>5, <1>6

\* A failed command or exchange counts once.
LEMMA BudgetTyped ==
    ASSUME TypeOK
    PROVE  /\ DockerFlakes => flakes' \in 0..MaxFlakes /\ flakes' > 0
           /\ HttpFails => /\ faults' \in 0..MaxFaults
                           /\ faults' >= faults
                           /\ ClientOpen => faults' > 0
BY SessionsAssumption DEF TypeOK, DockerFlakes, HttpFails

LEMMA StopContainerTyped ==
    ASSUME TypeOK, NEW c \in Threads \X Rungs, StopContainer(c)
    PROVE  /\ cont' \in [Threads \X Rungs -> ContainerStates]
           /\ \A d \in Threads \X Rungs : d # c => cont'[d] = cont[d]
           /\ flakes' \in 0..MaxFlakes /\ flakes' >= flakes
           /\ cont'[c] \in {cont[c], "removed"}
           /\ flakes' = 0 => cont'[c] = "removed"
<1>1. CASE cont' = [cont EXCEPT ![c] = "removed"] /\ UNCHANGED flakes
  BY <1>1 DEF TypeOK, ContainerStates
<1>2. CASE DockerFlakes /\ UNCHANGED cont
  BY <1>2, BudgetTyped, SessionsAssumption DEF TypeOK, DockerFlakes
<1> QED
  BY <1>1, <1>2 DEF StopContainer

\* What every step of a session thread leaves alone: the other threads, its
\* own session, the containers of other rungs, the node, and a session's end.
Frame(th) ==
    /\ UNCHANGED node
    /\ thread' \in [Threads -> Record]
    /\ \A t \in Threads : t # th => thread'[t] = thread[t]
    /\ thread'[th].sid = thread[th].sid
    /\ cont' \in [Threads \X Rungs -> ContainerStates]
    /\ \A d \in Threads \X Rungs : d # Current(th) => cont'[d] = cont[d]
    /\ server' \in [Sessions -> {"offered", "ready", "ended"}]
    /\ \A s \in Sessions : server[s] = "ended" => server'[s] = "ended"
    /\ active' \subseteq Sessions
    /\ UNCHANGED renterDone
    /\ faults' \in 0..MaxFaults /\ faults' >= faults
    /\ flakes' \in 0..MaxFlakes /\ flakes' >= flakes
    /\ thread[th].pc \notin {"unused", "ended"}
    /\ thread'[th].pc # "unused"

LEMMA ThreadFrame ==
    ASSUME TypeOK, SidsKnown, NEW th \in Threads, Thread(th)
    PROVE  Frame(th)
<1> USE SessionsAssumption
<1>a. /\ thread \in [Threads -> Record] /\ thread[th] \in Record
      /\ cont \in [Threads \X Rungs -> ContainerStates]
      /\ Current(th) \in Threads \X Rungs
      /\ server \in [Sessions -> {"offered", "ready", "ended"}]
      /\ faults \in 0..MaxFaults /\ faults >= faults
      /\ flakes \in 0..MaxFlakes /\ flakes >= flakes
      /\ active \subseteq Sessions
      /\ thread[th].pc # "unused" => thread[th].sid \in Sessions
  BY DEF TypeOK, Record, Current, SidsKnown
<1>b. ASSUME NEW p \in ThreadPcs, p # "unused", Goto(th, p)
      PROVE  /\ thread' \in [Threads -> Record]
             /\ \A t \in Threads : t # th => thread'[t] = thread[t]
             /\ thread'[th].sid = thread[th].sid
             /\ thread'[th].pc # "unused"
  BY <1>b, GotoTyped
<1>c. ASSUME NEW p \in ThreadPcs, p # "unused", NEW y \in Causes,
             EndFor(th, p, y)
      PROVE  /\ thread' \in [Threads -> Record]
             /\ \A t \in Threads : t # th => thread'[t] = thread[t]
             /\ thread'[th].sid = thread[th].sid
             /\ thread'[th].pc # "unused"
  BY <1>c, EndForTyped
<1>d. AfterReport(th) \in {"pop", "ended"}
  BY DEF AfterReport
<1>e. ASSUME NEW x \in ContainerStates, cont' = [cont EXCEPT ![Current(th)] = x]
      PROVE  /\ cont' \in [Threads \X Rungs -> ContainerStates]
             /\ \A d \in Threads \X Rungs : d # Current(th) => cont'[d] = cont[d]
  BY <1>a, <1>e
<1>f. DockerFlakes => flakes' \in 0..MaxFlakes /\ flakes' >= flakes
  BY <1>a DEF DockerFlakes
<1>1. CASE CreateExecutor(th)
  <2>1. CASE Goto(th, "launch")
    BY <1>1, <2>1, <1>a, <1>b DEF CreateExecutor, Frame, At, budget, ThreadPcs
  <2>2. CASE EndFor(th, "report", "init")
    BY <1>1, <2>2, <1>a, <1>c DEF CreateExecutor, Frame, At, budget, ThreadPcs,
       Causes
  <2> QED
    BY <1>1, <2>1, <2>2 DEF CreateExecutor
<1>2. CASE LaunchOk(th)
  BY <1>2, <1>a, <1>b, <1>e DEF LaunchOk, Frame, At, budget, ThreadPcs, Live,
     ContainerStates
<1>3. CASE LaunchFails(th)
  BY <1>3, <1>a, <1>c DEF LaunchFails, Frame, At, budget, ThreadPcs, Causes
<1>4. CASE LaunchTimesOut(th)
  <2>1. CASE cont' = [cont EXCEPT ![Current(th)] = "running"]
    BY <1>4, <2>1, <1>a, <1>c, <1>e, <1>f
    DEF LaunchTimesOut, Frame, At, ThreadPcs, Causes, ContainerStates
  <2>2. CASE UNCHANGED cont
    BY <1>4, <2>2, <1>a, <1>c, <1>f DEF LaunchTimesOut, Frame, At, ThreadPcs,
       Causes
  <2> QED
    BY <1>4, <2>1, <2>2 DEF LaunchTimesOut
<1>5. CASE PortNeverOpens(th)
  <2>1. CASE cont' = [cont EXCEPT ![Current(th)] = "removed"] /\ UNCHANGED flakes
    BY <1>5, <2>1, <1>a, <1>c, <1>e
    DEF PortNeverOpens, Frame, At, ThreadPcs, Causes, ContainerStates
  <2>2. CASE cont' = [cont EXCEPT ![Current(th)] = "running"] /\ DockerFlakes
    BY <1>5, <2>2, <1>a, <1>c, <1>e, <1>f
    DEF PortNeverOpens, Frame, At, ThreadPcs, Causes, ContainerStates
  <2> QED
    BY <1>5, <2>1, <2>2 DEF PortNeverOpens
<1>6. CASE ProbeOk(th)
  BY <1>6, <1>a, <1>b DEF ProbeOk, Frame, At, budget, ThreadPcs
<1>7. CASE ProbeFails(th)
  BY <1>7, <1>a, <1>b DEF ProbeFails, Frame, At, budget, ThreadPcs
<1>8. CASE Heal(th)
  <2>1. StopContainer(Current(th)) /\ At(th, "heal")
        /\ UNCHANGED <<node, active, server, renterDone, faults>>
    BY <1>8 DEF Heal
  <2>2. CASE thread[th].rung < 3
    <3>1. thread' = [thread EXCEPT ![th].pc = "launch", ![th].rung = @ + 1]
      BY <1>8, <2>2 DEF Heal
    <3> QED
      BY <2>1, <2>2, <3>1, <1>a, NextRungTyped, StopContainerTyped DEF Frame, At
  <2>3. CASE ~(thread[th].rung < 3)
    <3>1. EndFor(th, "report", "heal")
      BY <1>8, <2>3 DEF Heal
    <3> QED
      BY <2>1, <3>1, <1>a, <1>c, StopContainerTyped DEF Frame, At, ThreadPcs,
         Causes
  <2> QED
    BY <2>2, <2>3
<1>9. CASE Register(th)
  BY <1>9, <1>a, <1>b DEF Register, Frame, At, budget, ThreadPcs
<1>10. CASE AnnounceOk(th)
  BY <1>10, <1>a, <1>b DEF AnnounceOk, HearReady, Frame, At, budget, ThreadPcs
<1>11. CASE AnnounceFails(th)
  <2>1. /\ server' \in [Sessions -> {"offered", "ready", "ended"}]
        /\ \A s \in Sessions : server[s] = "ended" => server'[s] = "ended"
    BY <1>11, <1>a DEF AnnounceFails, HearReady
  <2> QED
    BY <1>11, <2>1, <1>a, <1>c, BudgetTyped DEF AnnounceFails, Frame, At,
       ThreadPcs, Causes
<1>12. CASE SeeStop(th)
  BY <1>12, <1>a, <1>c DEF SeeStop, Frame, At, budget, ThreadPcs, Causes
<1>13. CASE Beat(th)
  <2>1. EndFor(th, "stopping", "stopped") \/ Goto(th, "check")
    BY <1>13 DEF Beat
  <2>2. CASE EndFor(th, "stopping", "stopped")
    BY <1>13, <2>2, <1>a, <1>c DEF Beat, Frame, At, budget, ThreadPcs, Causes
  <2>3. CASE Goto(th, "check")
    BY <1>13, <2>3, <1>a, <1>b DEF Beat, Frame, At, budget, ThreadPcs
  <2> QED
    BY <2>1, <2>2, <2>3
<1>14. CASE BeatFails(th)
  BY <1>14, <1>a, <1>b, BudgetTyped DEF BeatFails, Frame, At, ThreadPcs
<1>15. CASE StillAlive(th)
  BY <1>15, <1>a, <1>b DEF StillAlive, Frame, At, budget, ThreadPcs
<1>16. CASE SeemsExited(th)
  BY <1>16, <1>a, <1>c, <1>f DEF SeemsExited, Frame, At, ThreadPcs, Causes
<1>17. CASE CriticalAlert(th)
  BY <1>17, <1>a, <1>c DEF CriticalAlert, Frame, At, budget, ThreadPcs, Causes
<1>18. CASE StopSession(th)
  BY <1>18, <1>a, <1>b, StopContainerTyped DEF StopSession, Frame, At, ThreadPcs
<1>19. CASE ReportOk(th)
  BY <1>19, <1>a, <1>b, <1>d DEF ReportOk, Frame, At, budget, ThreadPcs
<1>20. CASE ReportFails(th)
  BY <1>20, <1>a, <1>b, <1>d, BudgetTyped DEF ReportFails, Frame, At, ThreadPcs
<1>21. CASE Pop(th)
  BY <1>21, <1>a, <1>b DEF Pop, Frame, At, budget, ThreadPcs
<1> QED
  BY <1>1, <1>2, <1>3, <1>4, <1>5, <1>6, <1>7, <1>8, <1>9, <1>10, <1>11, <1>12,
     <1>13, <1>14, <1>15, <1>16, <1>17, <1>18, <1>19, <1>20, <1>21
  DEF Thread

-----------------------------------------------------------------------------
(* Where the steps of a session thread lead, one fact for each part of the *)
(* invariant.                                                              *)

\* A rung is entered from its predecessor, or with its launch still to come.
LadderStep(th) ==
    \/ /\ thread'[th].rung = thread[th].rung
       /\ thread'[th].pc \notin {"unused", "create", "launch"}
    \/ /\ thread'[th].rung = thread[th].rung
       /\ thread[th].pc = "create"
       /\ UNCHANGED cont
    \/ thread[th].pc = "heal" /\ thread'[th].rung = thread[th].rung + 1

\* A container changes at its launch, or is removed.
LaunchStep(th) ==
    \/ thread[th].pc = "launch"
    \/ cont'[Current(th)] \in {cont[Current(th)], "removed"}

\* A thread is past its probe because the service answered or it was before.
HeardStep(th) ==
    thread'[th].pc \in {"register", "announce", "serve", "check"} =>
        /\ thread'[th].rung = thread[th].rung
        /\ UNCHANGED cont
        /\ \/ thread[th].pc \in {"register", "announce", "serve", "check"}
           \/ stype[thread[th].sid] = "ssh" => cont[Current(th)] = "running"

\* A thread leaves a live container behind only when docker flaked.
CleanStep(th) ==
    (flakes' = 0 /\ cont'[Current(th)] \in Live) =>
        \/ /\ thread'[th].rung = thread[th].rung
           /\ thread'[th].pc \in Responsible
        \/ thread[th].pc \notin Responsible /\ UNCHANGED cont

\* A thread ends having reported, unless an exchange failed.
ReportStep(th) ==
    (faults' = 0 /\ ClientOpen /\ thread'[th].pc \in {"pop", "ended"}) =>
        \/ thread[th].pc = "pop" /\ UNCHANGED <<server, faults>>
        \/ server'[thread[th].sid] = "ended"

\* What becomes active is announced, and stays so until it leaves.
ActiveStep(th) ==
    /\ active' \subseteq active \cup {thread[th].sid}
    /\ (Announced(th) \/ thread[th].sid \notin active) =>
          Announced(th)' \/ thread[th].sid \notin active'

LEMMA ThreadPaths ==
    ASSUME TypeOK, SidsKnown, NEW th \in Threads, Thread(th)
    PROVE  /\ LadderStep(th) /\ LaunchStep(th) /\ HeardStep(th)
           /\ CleanStep(th) /\ ReportStep(th) /\ ActiveStep(th)
<1> USE SessionsAssumption
<1> DEFINE Steps == /\ LadderStep(th) /\ LaunchStep(th) /\ HeardStep(th)
                    /\ CleanStep(th) /\ ReportStep(th) /\ ActiveStep(th)
<1>a. /\ thread[th] \in Record /\ thread[th].rung \in Nat
      /\ cont \in [Threads \X Rungs -> ContainerStates]
      /\ Current(th) \in Threads \X Rungs
      /\ server \in [Sessions -> {"offered", "ready", "ended"}]
      /\ faults \in Nat /\ flakes \in Nat
      /\ thread[th].pc # "unused" => thread[th].sid \in Sessions
  BY DEF TypeOK, Record, Rungs, Current, SidsKnown
<1>b. ASSUME NEW p \in ThreadPcs, Goto(th, p)
      PROVE  /\ thread'[th].pc = p /\ thread'[th].sid = thread[th].sid
             /\ thread'[th].rung = thread[th].rung
             /\ thread'[th].why = thread[th].why
  BY <1>b, GotoTyped
<1>c. ASSUME NEW p \in ThreadPcs, NEW y \in Causes, EndFor(th, p, y)
      PROVE  /\ thread'[th].pc = p /\ thread'[th].sid = thread[th].sid
             /\ thread'[th].rung = thread[th].rung
             /\ thread'[th].why = y
  BY <1>c, EndForTyped
<1>e. ASSUME NEW x \in ContainerStates, cont' = [cont EXCEPT ![Current(th)] = x]
      PROVE  cont'[Current(th)] = x
  BY <1>a, <1>e
<1>1. CASE CreateExecutor(th)
  BY <1>1, <1>a, <1>b, <1>c
  DEF CreateExecutor, At, budget,
      LadderStep, LaunchStep, HeardStep, CleanStep, ReportStep, ActiveStep,
      Announced, Responsible, ThreadPcs, Causes
<1>2. CASE LaunchOk(th)
  BY <1>2, <1>a, <1>b, <1>e
  DEF LaunchOk, At, ContainerStates, Live, budget,
      LadderStep, LaunchStep, HeardStep, CleanStep, ReportStep, ActiveStep,
      Announced, Responsible, ThreadPcs, Causes
<1>3. CASE LaunchFails(th)
  BY <1>3, <1>a, <1>c
  DEF LaunchFails, At, ContainerStates, budget,
      LadderStep, LaunchStep, HeardStep, CleanStep, ReportStep, ActiveStep,
      Announced, Responsible, ThreadPcs, Causes
<1>4. CASE LaunchTimesOut(th)
  BY <1>4, <1>a, <1>c, <1>e, BudgetTyped
  DEF LaunchTimesOut, At, ContainerStates, Live,
      LadderStep, LaunchStep, HeardStep, CleanStep, ReportStep, ActiveStep,
      Announced, Responsible, ThreadPcs, Causes
<1>5. CASE PortNeverOpens(th)
  BY <1>5, <1>a, <1>c, <1>e, BudgetTyped
  DEF PortNeverOpens, At, ContainerStates, Live,
      LadderStep, LaunchStep, HeardStep, CleanStep, ReportStep, ActiveStep,
      Announced, Responsible, ThreadPcs, Causes
<1>6. CASE ProbeOk(th)
  BY <1>6, <1>a, <1>b
  DEF ProbeOk, At, Live, budget,
      LadderStep, LaunchStep, HeardStep, CleanStep, ReportStep, ActiveStep,
      Announced, Responsible, ThreadPcs, Causes
<1>7. CASE ProbeFails(th)
  BY <1>7, <1>a, <1>b
  DEF ProbeFails, At, budget,
      LadderStep, LaunchStep, HeardStep, CleanStep, ReportStep, ActiveStep,
      Announced, Responsible, ThreadPcs, Causes
<1>8. CASE Heal(th)
  BY <1>8, <1>a, <1>b, StopContainerTyped, <1>c, NextRungTyped
  DEF Heal, At, Live,
      LadderStep, LaunchStep, HeardStep, CleanStep, ReportStep, ActiveStep,
      Announced, Responsible, ThreadPcs, Causes
<1>9. CASE Register(th)
  BY <1>9, <1>a, <1>b
  DEF Register, At, budget,
      LadderStep, LaunchStep, HeardStep, CleanStep, ReportStep, ActiveStep,
      Announced, Responsible, ThreadPcs, Causes
<1>10. CASE AnnounceOk(th)
  BY <1>10, <1>a, <1>b
  DEF AnnounceOk, At, HearReady, budget,
      LadderStep, LaunchStep, HeardStep, CleanStep, ReportStep, ActiveStep,
      Announced, Responsible, ThreadPcs, Causes
<1>11. CASE AnnounceFails(th)
  BY <1>11, <1>a, <1>c, BudgetTyped
  DEF AnnounceFails, At, HearReady,
      LadderStep, LaunchStep, HeardStep, CleanStep, ReportStep, ActiveStep,
      Announced, Responsible, ThreadPcs, Causes
<1>12. CASE SeeStop(th)
  BY <1>12, <1>a, <1>c
  DEF SeeStop, At, budget,
      LadderStep, LaunchStep, HeardStep, CleanStep, ReportStep, ActiveStep,
      Announced, Responsible, ThreadPcs, Causes
<1>13. CASE Beat(th)
  BY <1>13, <1>a, <1>b, <1>c
  DEF Beat, At, budget,
      LadderStep, LaunchStep, HeardStep, CleanStep, ReportStep, ActiveStep,
      Announced, Responsible, ThreadPcs, Causes
<1>14. CASE BeatFails(th)
  BY <1>14, <1>a, <1>b, BudgetTyped
  DEF BeatFails, At,
      LadderStep, LaunchStep, HeardStep, CleanStep, ReportStep, ActiveStep,
      Announced, Responsible, ThreadPcs, Causes
<1>15. CASE StillAlive(th)
  BY <1>15, <1>a, <1>b
  DEF StillAlive, At, Live, budget,
      LadderStep, LaunchStep, HeardStep, CleanStep, ReportStep, ActiveStep,
      Announced, Responsible, ThreadPcs, Causes
<1>16. CASE SeemsExited(th)
  BY <1>16, <1>a, <1>c, BudgetTyped
  DEF SeemsExited, At, Live,
      LadderStep, LaunchStep, HeardStep, CleanStep, ReportStep, ActiveStep,
      Announced, Responsible, ThreadPcs, Causes
<1>17. CASE CriticalAlert(th)
  BY <1>17, <1>a, <1>c
  DEF CriticalAlert, At, Live, budget,
      LadderStep, LaunchStep, HeardStep, CleanStep, ReportStep, ActiveStep,
      Announced, Responsible, ThreadPcs, Causes
<1>18. CASE StopSession(th)
  BY <1>18, <1>a, <1>b, StopContainerTyped
  DEF StopSession, At, Live,
      LadderStep, LaunchStep, HeardStep, CleanStep, ReportStep, ActiveStep,
      Announced, Responsible, ThreadPcs, Causes
<1>19. CASE ReportOk(th)
  BY <1>19, <1>a, <1>b
  DEF ReportOk, At, AfterReport, budget,
      LadderStep, LaunchStep, HeardStep, CleanStep, ReportStep, ActiveStep,
      Announced, Responsible, ThreadPcs, Causes
<1>20. CASE ReportFails(th)
  BY <1>20, <1>a, <1>b, BudgetTyped
  DEF ReportFails, At, AfterReport,
      LadderStep, LaunchStep, HeardStep, CleanStep, ReportStep, ActiveStep,
      Announced, Responsible, ThreadPcs, Causes
<1>21. CASE Pop(th)
  BY <1>21, <1>a, <1>b
  DEF Pop, At, budget,
      LadderStep, LaunchStep, HeardStep, CleanStep, ReportStep, ActiveStep,
      Announced, Responsible, ThreadPcs, Causes
<1> QED
  BY <1>1, <1>2, <1>3, <1>4, <1>5, <1>6, <1>7, <1>8, <1>9, <1>10, <1>11, <1>12,
     <1>13, <1>14, <1>15, <1>16, <1>17, <1>18, <1>19, <1>20, <1>21
  DEF Thread

\* A thread comes to have a container by launching it, and keeps it.
HoldStep(th) ==
    thread'[th].pc \in Responsible =>
        /\ thread'[th].rung = thread[th].rung
        /\ \/ cont'[Current(th)] \in Live
           \/ thread[th].pc \in Responsible /\ UNCHANGED cont

LEMMA ThreadHolds ==
    ASSUME TypeOK, SidsKnown, NEW th \in Threads, Thread(th)
    PROVE  HoldStep(th)
<1> USE DEF At, HoldStep, Responsible, ThreadPcs, Causes
<1>b. ASSUME NEW p \in ThreadPcs, Goto(th, p)
      PROVE  thread'[th].pc = p /\ thread'[th].rung = thread[th].rung
  BY <1>b, GotoTyped
<1>c. ASSUME NEW p \in ThreadPcs, NEW y \in Causes, EndFor(th, p, y)
      PROVE  thread'[th].pc = p /\ thread'[th].rung = thread[th].rung
  BY <1>c, EndForTyped
<1>d. AfterReport(th) \in {"pop", "ended"}
  BY DEF AfterReport
<1>1. CASE CreateExecutor(th) \/ LaunchFails(th) \/ LaunchTimesOut(th)
           \/ PortNeverOpens(th) \/ SeemsExited(th)
  BY <1>1, <1>b, <1>c
  DEF CreateExecutor, LaunchFails, LaunchTimesOut, PortNeverOpens, SeemsExited
<1>2. CASE LaunchOk(th)
  <2>1. Current(th) \in Threads \X Rungs
        /\ cont \in [Threads \X Rungs -> ContainerStates]
    BY DEF Current, TypeOK
  <2> QED
    BY <1>2, <1>b, <2>1 DEF LaunchOk
<1>3. CASE ProbeOk(th) \/ ProbeFails(th) \/ Register(th) \/ AnnounceOk(th)
           \/ AnnounceFails(th) \/ SeeStop(th)
  BY <1>3, <1>b, <1>c
  DEF ProbeOk, ProbeFails, Register, AnnounceOk, AnnounceFails, SeeStop
<1>4. CASE Beat(th) \/ BeatFails(th) \/ StillAlive(th) \/ CriticalAlert(th)
  BY <1>4, <1>b, <1>c DEF Beat, BeatFails, StillAlive, CriticalAlert
<1>5. CASE Heal(th)
  BY <1>5, <1>c, NextRungTyped DEF Heal
<1>6. CASE StopSession(th)
  BY <1>6, <1>b DEF StopSession
<1>7. CASE ReportOk(th) \/ ReportFails(th) \/ Pop(th)
  BY <1>7, <1>b, <1>d DEF ReportOk, ReportFails, Pop
<1> QED
  BY <1>1, <1>2, <1>3, <1>4, <1>5, <1>6, <1>7 DEF Thread

-----------------------------------------------------------------------------
(* The other steps, and the shapes of a step. *)

\* The main thread, but for handing out a session, and a step at rest.
MainStep ==
    /\ main' \in {"polling", "stopping", "closed", "exited"}
    /\ stopEvent' \in BOOLEAN
    /\ ClientOpen' => ClientOpen
    /\ UNCHANGED <<stype, active, thread, cont, server, handed, renterDone, budget>>

\* The renter asks for an end, or a container's service comes up or dies.
OutsideStep ==
    /\ renterDone' \subseteq Sessions
    /\ cont' \in [Threads \X Rungs -> ContainerStates]
    /\ \A c \in Threads \X Rungs :
          \/ cont'[c] = cont[c]
          \/ cont[c] \in Live /\ cont'[c] \in {"running", "exited"}
    /\ UNCHANGED <<node, active, thread, server, budget>>

LEMMA StepShapes ==
    ASSUME TypeOK, [Next]_vars
    PROVE  \/ MainStep
           \/ OutsideStep
           \/ \E s \in Sessions, th \in Threads : PollSession(s, th)
           \/ \E th \in Threads : Thread(th)
<1>1. CASE Stop
  BY <1>1 DEF Stop, MainStep, ClientOpen, TypeOK
<1>2. CASE LeaveLoop
  BY <1>2 DEF LeaveLoop, MainStep, ClientOpen, TypeOK
<1>3. CASE CloseClient
  BY <1>3 DEF CloseClient, MainStep, ClientOpen, TypeOK
<1>4. CASE ProcessExit
  BY <1>4 DEF ProcessExit, MainStep, ClientOpen, TypeOK
<1>5. CASE AtRest \/ UNCHANGED vars
  BY <1>5 DEF AtRest, MainStep, ClientOpen, TypeOK, vars, budget
<1>6. ASSUME NEW s \in Sessions, RenterEnds(s)
      PROVE  OutsideStep
  BY <1>6 DEF RenterEnds, OutsideStep, TypeOK
<1>7. ASSUME NEW c \in Threads \X Rungs, ServiceComesUp(c) \/ ContainerDies(c)
      PROVE  OutsideStep
  <2>1. CASE ServiceComesUp(c)
    BY <2>1 DEF ServiceComesUp, OutsideStep, TypeOK, ContainerStates, Live
  <2>2. CASE ContainerDies(c)
    BY <2>2 DEF ContainerDies, OutsideStep, TypeOK, ContainerStates, Live
  <2> QED
    BY <1>7, <2>1, <2>2
<1> QED
  BY <1>1, <1>2, <1>3, <1>4, <1>5, <1>6, <1>7 DEF Next, MainThread

\* A thread is handed its session.
LEMMA PollTyped ==
    ASSUME TypeOK, NEW s \in Sessions, NEW th \in Threads, PollSession(s, th)
    PROVE  /\ thread' \in [Threads -> Record]
           /\ \A t \in Threads : t # th => thread'[t] = thread[t]
           /\ thread[th] = Unused
           /\ thread'[th].pc = "create" /\ thread'[th].sid = s
           /\ thread'[th].rung = 1 /\ thread'[th].why = "none"
<1>1. thread \in [Threads -> Record] /\ thread[th] \in Record
  BY DEF TypeOK, Record
<1>u. thread[th] = Unused
  BY DEF PollSession
<1> DEFINE r == [thread[th] EXCEPT !.pc = "create", !.sid = s]
<1>2. thread' = [thread EXCEPT ![th] = r]
  BY DEF PollSession
<1>3. /\ r \in Record /\ r.pc = "create" /\ r.sid = s
      /\ r.rung = 1 /\ r.why = "none"
  <2>1. thread[th].rung = 1 /\ thread[th].why = "none"
    BY <1>u DEF Unused
  <2> QED
    BY <1>1, <2>1 DEF Record, ThreadPcs
<1> HIDE DEF r
<1>4. thread'[th] = r
  BY <1>1, <1>2
<1> QED
  BY <1>1, <1>u, <1>2, <1>3, <1>4

-----------------------------------------------------------------------------
(* The invariant, part by part. *)

LEMMA InvInit == Init => Inv
<1> SUFFICES ASSUME Init PROVE Inv
  OBVIOUS
<1>1. \A th \in Threads : thread[th] = Unused
  BY DEF Init
<1>2. TypeOK
  <2>1. "unused" \in ThreadPcs /\ 1 \in Rungs /\ "none" \in Causes
        /\ "none" \in ContainerStates
    BY DEF ThreadPcs, Rungs, Causes, ContainerStates
  <2>2. Unused \in Record
    BY <2>1 DEF Unused, Record
  <2>3. thread \in [Threads -> Record] /\ cont \in [Threads \X Rungs -> ContainerStates]
    BY <2>1, <2>2 DEF Init
  <2>4. faults \in 0..MaxFaults /\ flakes \in 0..MaxFlakes
    BY SessionsAssumption DEF Init
  <2>5. server \in [Sessions -> {"offered", "ready", "ended"}]
    BY DEF Init
  <2>6. main = "polling" /\ stopEvent = FALSE
        /\ active = {} /\ handed = {} /\ renterDone = {}
        /\ stype \in [Sessions -> {"ssh", "other"}]
    BY DEF Init
  <2> QED
    BY <2>3, <2>4, <2>5, <2>6 DEF TypeOK, Record
<1>3. SidsKnown /\ HeardSsh /\ Launched
  BY <1>1 DEF SidsKnown, HeardSsh, Launched, Responsible, Unused
<1>4. FreshRungs /\ NoOrphanContainers
  BY <1>1 DEF Init, FreshRungs, NoOrphanContainers, Unused, Live
<1>5. ActiveIsAnnounced /\ EndsAreReported
  BY <1>1 DEF Init, ActiveIsAnnounced, EndsAreReported, Unused
<1> QED
  BY <1>2, <1>3, <1>4, <1>5 DEF Inv

LEMMA NextTypeOK ==
    ASSUME TypeOK, SidsKnown, [Next]_vars
    PROVE  TypeOK' /\ SidsKnown'
<1>1. CASE MainStep
  BY <1>1 DEF MainStep, TypeOK, SidsKnown, budget
<1>2. CASE OutsideStep
  BY <1>2 DEF OutsideStep, TypeOK, SidsKnown, node, budget
<1>3. ASSUME NEW s \in Sessions, NEW th \in Threads, PollSession(s, th)
      PROVE  TypeOK' /\ SidsKnown'
  <2>1. TypeOK'
    BY <1>3, PollTyped DEF PollSession, TypeOK, Record, budget
  <2>2. SidsKnown'
    BY <1>3, PollTyped DEF SidsKnown
  <2> QED
    BY <2>1, <2>2
<1>4. ASSUME NEW th \in Threads, Thread(th)
      PROVE  TypeOK' /\ SidsKnown'
  <2>1. Frame(th)
    BY <1>4, ThreadFrame
  <2>2. TypeOK'
    BY <2>1 DEF Frame, TypeOK, Record, node
  <2>3. SidsKnown'
    BY <2>1 DEF Frame, SidsKnown
  <2> QED
    BY <2>2, <2>3
<1> QED
  BY <1>1, <1>2, <1>3, <1>4, StepShapes

LEMMA NextFreshRungs ==
    ASSUME Inv, [Next]_vars
    PROVE  FreshRungs'
<1> USE DEF Inv
<1>1. CASE MainStep
  BY <1>1 DEF MainStep, FreshRungs
<1>2. CASE OutsideStep
  BY <1>2 DEF OutsideStep, FreshRungs, Live
<1>3. ASSUME NEW s \in Sessions, NEW th \in Threads, PollSession(s, th)
      PROVE  FreshRungs'
  <2>1. UNCHANGED cont
    BY <1>3 DEF PollSession
  <2>2. \A n \in Rungs : n > 1 \/ n = 1
    BY DEF Rungs
  <2>3. \A n \in Rungs : cont[<<th, n>>] = "none"
    BY <1>3, <2>2, PollTyped DEF FreshRungs, Unused
  <2> QED
    BY <1>3, <2>1, <2>3, PollTyped DEF FreshRungs
<1>4. ASSUME NEW th \in Threads, Thread(th)
      PROVE  FreshRungs'
  <2>1. Frame(th) /\ LadderStep(th)
    BY <1>4, ThreadFrame, ThreadPaths
  <2>2. ASSUME NEW t \in Threads, NEW n \in Rungs, t # th
        PROVE  thread'[t] = thread[t] /\ cont'[<<t, n>>] = cont[<<t, n>>]
    BY <2>1, <2>2 DEF Frame, Current
  <2>3. ASSUME NEW n \in Rungs, n # thread[th].rung
        PROVE  cont'[<<th, n>>] = cont[<<th, n>>]
    BY <2>1, <2>3 DEF Frame, Current
  <2>4. thread[th].rung \in Nat /\ \A n \in Rungs : n \in Nat
    BY DEF TypeOK, Rungs
  <2>5. ASSUME NEW n \in Rungs,
               \/ n > thread'[th].rung
               \/ /\ n = thread'[th].rung
                  /\ thread'[th].pc \in {"unused", "create", "launch"}
        PROVE  cont'[<<th, n>>] = "none"
    BY <2>1, <2>3, <2>4, <2>5 DEF LadderStep, FreshRungs
  <2> QED
    BY <2>2, <2>5 DEF FreshRungs
<1> QED
  BY <1>1, <1>2, <1>3, <1>4, StepShapes

LEMMA NextLaunched ==
    ASSUME Inv, [Next]_vars
    PROVE  Launched'
<1> USE DEF Inv
<1>1. CASE MainStep
  BY <1>1 DEF MainStep, Launched, Current
<1>2. CASE OutsideStep
  <2>1. ASSUME NEW th \in Threads
        PROVE  /\ Current(th)' = Current(th)
               /\ cont[Current(th)] # "none" => cont'[Current(th)] # "none"
    BY <1>2 DEF OutsideStep, Current, TypeOK
  <2> QED
    BY <1>2, <2>1 DEF OutsideStep, Launched
<1>3. ASSUME NEW s \in Sessions, NEW th \in Threads, PollSession(s, th)
      PROVE  Launched'
  BY <1>3, PollTyped DEF PollSession, Launched, Responsible, Current
<1>4. ASSUME NEW th \in Threads, Thread(th)
      PROVE  Launched'
  <2>1. Frame(th) /\ HoldStep(th)
    BY <1>4, ThreadFrame, ThreadHolds
  <2>2. ASSUME NEW t \in Threads, t # th
        PROVE  /\ thread'[t] = thread[t] /\ Current(t)' = Current(t)
               /\ cont'[Current(t)] = cont[Current(t)]
    BY <2>1, <2>2 DEF Frame, Current, TypeOK
  <2>3. ASSUME thread'[th].pc \in Responsible
        PROVE  cont'[Current(th)'] # "none"
    <3>1. Current(th)' = Current(th)
      BY <2>1, <2>3 DEF HoldStep, Current
    <3> QED
      BY <2>1, <2>3, <3>1 DEF HoldStep, Launched, Live
  <2> QED
    BY <2>2, <2>3 DEF Launched
<1> QED
  BY <1>1, <1>2, <1>3, <1>4, StepShapes

LEMMA NextHeardSsh ==
    ASSUME Inv, [Next]_vars
    PROVE  HeardSsh'
<1> USE DEF Inv
<1>1. CASE MainStep
  BY <1>1 DEF MainStep, HeardSsh, Current
<1>2. CASE OutsideStep
  <2>1. ASSUME NEW th \in Threads
        PROVE  /\ Current(th)' = Current(th)
               /\ cont[Current(th)] # "silent" => cont'[Current(th)] # "silent"
    BY <1>2 DEF OutsideStep, Current, TypeOK
  <2> QED
    BY <1>2, <2>1 DEF OutsideStep, HeardSsh, node
<1>3. ASSUME NEW s \in Sessions, NEW th \in Threads, PollSession(s, th)
      PROVE  HeardSsh'
  BY <1>3, PollTyped DEF PollSession, HeardSsh, Current
<1>4. ASSUME NEW th \in Threads, Thread(th)
      PROVE  HeardSsh'
  <2>1. Frame(th) /\ HeardStep(th)
    BY <1>4, ThreadFrame, ThreadPaths
  <2>2. ASSUME NEW t \in Threads, t # th
        PROVE  /\ thread'[t] = thread[t] /\ Current(t)' = Current(t)
               /\ cont'[Current(t)] = cont[Current(t)]
    BY <2>1, <2>2 DEF Frame, Current, TypeOK
  <2>3. ASSUME thread'[th].pc \in {"register", "announce", "serve", "check"},
               stype[thread'[th].sid] = "ssh"
        PROVE  cont'[Current(th)'] # "silent"
    <3>1. Current(th)' = Current(th) /\ UNCHANGED cont /\ thread'[th].sid = thread[th].sid
      BY <2>1, <2>3 DEF HeardStep, Current, Frame
    <3> QED
      BY <2>1, <2>3, <3>1 DEF HeardStep, HeardSsh
  <2> QED
    BY <2>1, <2>2, <2>3 DEF HeardSsh, Frame, node
<1> QED
  BY <1>1, <1>2, <1>3, <1>4, StepShapes

LEMMA NextActiveIsAnnounced ==
    ASSUME Inv, [Next]_vars
    PROVE  ActiveIsAnnounced'
<1> USE DEF Inv
<1>1. CASE MainStep \/ OutsideStep
  BY <1>1 DEF MainStep, OutsideStep, ActiveIsAnnounced, Announced
<1>2. ASSUME NEW s \in Sessions, NEW th \in Threads, PollSession(s, th)
      PROVE  ActiveIsAnnounced'
  <2>1. ASSUME NEW t \in Threads, Announced(t)
        PROVE  t # th
    BY <1>2, <2>1, PollTyped DEF Announced, Unused
  <2>2. ASSUME NEW t \in Threads, Announced(t)
        PROVE  Announced(t)' /\ thread'[t].sid = thread[t].sid
    <3>1. thread'[t] = thread[t]
      BY <1>2, <2>1, <2>2, PollTyped
    <3> QED
      BY <2>2, <3>1 DEF Announced
  <2>3. UNCHANGED active
    BY <1>2 DEF PollSession
  <2> QED
    BY <2>2, <2>3 DEF ActiveIsAnnounced
<1>3. ASSUME NEW th \in Threads, Thread(th)
      PROVE  ActiveIsAnnounced'
  <2>1. Frame(th) /\ ActiveStep(th)
    BY <1>3, ThreadFrame, ThreadPaths
  <2> SUFFICES ASSUME NEW s \in active'
               PROVE  \E t \in Threads : thread'[t].sid = s /\ Announced(t)'
    BY DEF ActiveIsAnnounced
  <2>2. CASE s \notin active
    BY <2>1, <2>2 DEF ActiveStep, Frame
  <2>3. CASE s \in active
    <3>1. PICK t \in Threads : thread[t].sid = s /\ Announced(t)
      BY <2>3 DEF ActiveIsAnnounced
    <3>2. CASE t = th
      BY <2>1, <3>1, <3>2 DEF ActiveStep, Frame
    <3>3. CASE t # th
      BY <2>1, <3>1, <3>3 DEF Frame, Announced
    <3> QED
      BY <3>2, <3>3
  <2> QED
    BY <2>2, <2>3
<1> QED
  BY <1>1, <1>2, <1>3, StepShapes

LEMMA NextNoOrphanContainers ==
    ASSUME Inv, [Next]_vars
    PROVE  NoOrphanContainers'
<1> USE DEF Inv
<1>1. CASE MainStep
  BY <1>1 DEF MainStep, NoOrphanContainers, budget
<1>2. CASE OutsideStep
  BY <1>2 DEF OutsideStep, NoOrphanContainers, Live, budget
<1>3. ASSUME NEW s \in Sessions, NEW th \in Threads, PollSession(s, th)
      PROVE  NoOrphanContainers'
  <2>1. \A n \in Rungs : flakes = 0 => cont[<<th, n>>] \notin Live
    BY <1>3, PollTyped DEF NoOrphanContainers, Unused
  <2>2. UNCHANGED <<cont, flakes>>
    BY <1>3 DEF PollSession, budget
  <2>3. ASSUME NEW t \in Threads, NEW n \in Rungs, flakes' = 0,
               cont'[<<t, n>>] \in Live
        PROVE  thread'[t] = thread[t]
    BY <1>3, <2>1, <2>2, <2>3, PollTyped
  <2> QED
    BY <2>2, <2>3 DEF NoOrphanContainers
<1>4. ASSUME NEW th \in Threads, Thread(th)
      PROVE  NoOrphanContainers'
  <2>1. Frame(th) /\ CleanStep(th)
    BY <1>4, ThreadFrame, ThreadPaths
  <2>2. flakes' = 0 => flakes = 0
    BY <2>1 DEF Frame, TypeOK
  <2>3. ASSUME NEW t \in Threads, NEW n \in Rungs, t # th
        PROVE  thread'[t] = thread[t] /\ cont'[<<t, n>>] = cont[<<t, n>>]
    BY <2>1, <2>3 DEF Frame, Current
  <2>4. ASSUME NEW n \in Rungs, n # thread[th].rung
        PROVE  flakes' = 0 => cont'[<<th, n>>] \notin Live
    BY <2>1, <2>2, <2>4 DEF Frame, Current, NoOrphanContainers
  <2>5. ASSUME flakes' = 0, cont'[<<th, thread[th].rung>>] \in Live
        PROVE  thread'[th].rung = thread[th].rung /\ thread'[th].pc \in Responsible
    <3>1. thread[th].rung \in Rungs
      BY DEF TypeOK
    <3> QED
      BY <2>1, <2>2, <2>5, <3>1
      DEF CleanStep, Current, NoOrphanContainers, Responsible
  <2> QED
    BY <2>2, <2>3, <2>4, <2>5 DEF NoOrphanContainers, Responsible
<1> QED
  BY <1>1, <1>2, <1>3, <1>4, StepShapes

LEMMA NextEndsAreReported ==
    ASSUME Inv, [Next]_vars
    PROVE  EndsAreReported'
<1> USE DEF Inv
<1>1. CASE MainStep
  BY <1>1 DEF MainStep, EndsAreReported, budget
<1>2. CASE OutsideStep
  BY <1>2 DEF OutsideStep, EndsAreReported, budget, node, ClientOpen
<1>3. ASSUME NEW s \in Sessions, NEW th \in Threads, PollSession(s, th)
      PROVE  EndsAreReported'
  BY <1>3, PollTyped DEF PollSession, EndsAreReported, budget, ClientOpen
<1>4. ASSUME NEW th \in Threads, Thread(th)
      PROVE  EndsAreReported'
  <2>1. Frame(th) /\ ReportStep(th)
    BY <1>4, ThreadFrame, ThreadPaths
  <2>2. /\ faults' = 0 => faults = 0
        /\ ClientOpen' = ClientOpen
        /\ \A t \in Threads : thread[t].pc # "unused" => thread[t].sid \in Sessions
    BY <2>1 DEF Frame, TypeOK, node, ClientOpen, SidsKnown
  <2>3. ASSUME NEW t \in Threads, t # th, faults' = 0, ClientOpen,
               thread'[t].pc \in {"pop", "ended"}
        PROVE  server'[thread'[t].sid] = "ended"
    BY <2>1, <2>2, <2>3 DEF Frame, EndsAreReported
  <2>4. ASSUME faults' = 0, ClientOpen, thread'[th].pc \in {"pop", "ended"}
        PROVE  server'[thread'[th].sid] = "ended"
    BY <2>1, <2>2, <2>4 DEF Frame, ReportStep, EndsAreReported
  <2> QED
    BY <2>2, <2>3, <2>4 DEF EndsAreReported
<1> QED
  BY <1>1, <1>2, <1>3, <1>4, StepShapes

LEMMA InvNext == Inv /\ [Next]_vars => Inv'
BY NextTypeOK, NextFreshRungs, NextLaunched, NextHeardSsh, NextActiveIsAnnounced,
   NextNoOrphanContainers, NextEndsAreReported DEF Inv

LEMMA Invariant == Spec => []Inv
BY InvInit, InvNext, PTL DEF Spec

-----------------------------------------------------------------------------
(* The contract: what the mapped state is, and what each change of a       *)
(* thread or a container does to it.                                       *)

Stages == [th \in Threads |-> Stage[thread[th].pc]]
Sids   == [th \in Threads |-> thread[th].sid]
Boxes  == [c \in Slots |-> Phase[cont[c]]]

Contracted == [Contract!ContractNext]_(Contract!contractVars)

LEMMA StageValues ==
    /\ Stage["unused"] = "idle"
    /\ Stage["create"] = "launching" /\ Stage["launch"] = "launching"
    /\ Stage["probe"] = "launching" /\ Stage["heal"] = "launching"
    /\ Stage["register"] = "vouched" /\ Stage["announce"] = "vouched"
    /\ Stage["serve"] = "serving" /\ Stage["check"] = "serving"
    /\ Stage["stopping"] = "closing" /\ Stage["report"] = "closing"
    /\ Stage["pop"] = "over" /\ Stage["ended"] = "over"
BY DEF Stage, ThreadPcs

LEMMA PhaseValues ==
    /\ Phase["none"] = "none"
    /\ Phase["silent"] = "up" /\ Phase["running"] = "up"
    /\ Phase["exited"] = "down" /\ Phase["removed"] = "down"
BY DEF Phase, ContainerStates, Live

\* A thread that moves on may move to another stage, for the same session.
LEMMA StagesMove ==
    ASSUME TypeOK, NEW th \in Threads, NEW p \in ThreadPcs,
           thread' \in [Threads -> Record],
           \A t \in Threads : t # th => thread'[t] = thread[t],
           thread'[th].pc = p
    PROVE  /\ Stages' = [Stages EXCEPT ![th] = Stage[p]]
           /\ Stage[p] = Stages[th] => Stages' = Stages
           /\ thread'[th].sid = thread[th].sid => Sids' = Sids
           /\ Sids' = [Sids EXCEPT ![th] = thread'[th].sid]
BY DEF Stages, Sids

LEMMA BoxesChange ==
    ASSUME TypeOK, NEW th \in Threads, NEW n \in Rungs, NEW x \in ContainerStates,
           cont' = [cont EXCEPT ![<<th, n>>] = x]
    PROVE  /\ Boxes' = [Boxes EXCEPT ![<<th, n>>] = Phase[x]]
           /\ Phase[x] = Boxes[<<th, n>>] => Boxes' = Boxes
<1>1. cont \in [Slots -> ContainerStates] /\ <<th, n>> \in Slots
  BY DEF TypeOK, Slots
<1> DEFINE c == <<th, n>>
<1> HIDE DEF c
<1>2. cont' = [cont EXCEPT ![c] = x] /\ c \in Slots
  BY <1>1 DEF c
<1>3. /\ Boxes' = [Boxes EXCEPT ![c] = Phase[x]]
      /\ Phase[x] = Boxes[c] => Boxes' = Boxes
  BY <1>1, <1>2 DEF Boxes
<1> QED
  BY <1>3 DEF c

LEMMA BoxesStay ==
    ASSUME UNCHANGED cont PROVE Boxes' = Boxes
BY DEF Boxes

\* A step of the contract, or none.
LEMMA Stutters ==
    ASSUME Stages' = Stages, Sids' = Sids, Boxes' = Boxes, server' = server
    PROVE  Contracted
BY DEF Contracted, Contract!contractVars, Stages, Sids, Boxes

LEMMA Takes ==
    ASSUME NEW th \in Threads, NEW s \in Sessions,
           Stages[th] = "idle", server[s] = "offered",
           Stages' = [Stages EXCEPT ![th] = "launching"],
           Sids' = [Sids EXCEPT ![th] = s],
           Boxes' = Boxes, server' = server
    PROVE  Contracted
<1>1. Contract!Take(th, s)
  BY DEF Contract!Take, Contract!Move, Stages, Sids, Boxes
<1> QED
  BY <1>1 DEF Contracted, Contract!ContractNext

LastBox(th, n) == \A m \in Rungs : m > n => Boxes[<<th, m>>] = "none"

LEMMA Launches ==
    ASSUME NEW th \in Threads, NEW n \in Rungs, NEW x \in {"up", "down"},
           Stages[th] = "launching",
           Boxes[<<th, n>>] = "none", LastBox(th, n),
           Boxes' = [Boxes EXCEPT ![<<th, n>>] = x],
           Stages' = Stages \/ Stages' = [Stages EXCEPT ![th] = "closing"],
           Sids' = Sids, server' = server
    PROVE  Contracted
<1>1. Contract!Launch(th, n)
  BY DEF Contract!Launch, Contract!Last, Contract!Move, LastBox, Stages, Sids, Boxes
<1> QED
  BY <1>1 DEF Contracted, Contract!ContractNext

LEMMA Vouches ==
    ASSUME NEW th \in Threads, NEW n \in Rungs,
           Stages[th] = "launching",
           Boxes[<<th, n>>] = "up", LastBox(th, n),
           Stages' = [Stages EXCEPT ![th] = "vouched"],
           Sids' = Sids, Boxes' = Boxes, server' = server
    PROVE  Contracted
<1>1. Contract!Vouch(th, n)
  BY DEF Contract!Vouch, Contract!Last, Contract!Move, LastBox, Stages, Sids, Boxes
<1> QED
  BY <1>1 DEF Contracted, Contract!ContractNext

LEMMA Announces ==
    ASSUME TypeOK, NEW th \in Threads,
           Stages[th] = "vouched",
           \/ Stages' = [Stages EXCEPT ![th] = "serving"]
           \/ Stages' = [Stages EXCEPT ![th] = "closing"],
           server' = server \/ HearReady(thread[th].sid),
           Sids' = Sids, Boxes' = Boxes
    PROVE  Contracted
<1>1. \/ server' = server
      \/ /\ server[Sids[th]] = "offered"
         /\ server' = [server EXCEPT ![Sids[th]] = "ready"]
  BY DEF HearReady, TypeOK, Sids
<1>2. Contract!Announce(th)
  BY <1>1 DEF Contract!Announce, Contract!Move, Stages, Sids, Boxes
<1> QED
  BY <1>2 DEF Contracted, Contract!ContractNext

LEMMA Closes ==
    ASSUME NEW th \in Threads,
           Stages[th] \in {"launching", "serving"},
           Stages' = [Stages EXCEPT ![th] = "closing"],
           Sids' = Sids, Boxes' = Boxes, server' = server
    PROVE  Contracted
<1>1. Contract!Close(th)
  BY DEF Contract!Close, Contract!Move, Stages, Sids, Boxes
<1> QED
  BY <1>1 DEF Contracted, Contract!ContractNext

LEMMA GivesUp ==
    ASSUME NEW th \in Threads, NEW n \in Rungs,
           Stages[th] = "launching",
           Boxes[<<th, n>>] = "up", LastBox(th, n),
           Boxes' = [Boxes EXCEPT ![<<th, n>>] = "down"],
           Stages' = [Stages EXCEPT ![th] = "closing"],
           Sids' = Sids, server' = server
    PROVE  Contracted
<1>1. Contract!GiveUp(th, n)
  BY DEF Contract!GiveUp, Contract!Last, Contract!Move, LastBox, Stages, Sids, Boxes
<1> QED
  BY <1>1 DEF Contracted, Contract!ContractNext

LEMMA GoesDown ==
    ASSUME NEW th \in Threads, NEW n \in Rungs,
           Boxes[<<th, n>>] = "up",
           Boxes' = [Boxes EXCEPT ![<<th, n>>] = "down"],
           Stages' = Stages, Sids' = Sids, server' = server
    PROVE  Contracted
<1>1. Contract!Down(th, n)
  BY DEF Contract!Down, Stages, Sids, Boxes
<1> QED
  BY <1>1 DEF Contracted, Contract!ContractNext

LEMMA Reports ==
    ASSUME NEW th \in Threads,
           Stages[th] = "closing",
           Stages' = [Stages EXCEPT ![th] = "over"],
           \/ server' = server
           \/ server' = [server EXCEPT ![thread[th].sid] = "ended"],
           Sids' = Sids, Boxes' = Boxes
    PROVE  Contracted
<1>1. Sids[th] = thread[th].sid
  BY DEF Sids
<1>2. Contract!Report(th)
  BY <1>1 DEF Contract!Report, Contract!Move, Stages, Sids, Boxes
<1> QED
  BY <1>2 DEF Contracted, Contract!ContractNext

\* Each step of a thread is a step of the contract, or none.
LEMMA ThreadContracted ==
    ASSUME Inv, NEW th \in Threads, Thread(th)
    PROVE  Contracted
<1> USE DEF At, ThreadPcs, Causes
<1> DEFINE n == thread[th].rung
<1>a. /\ TypeOK /\ n \in Rungs /\ Current(th) = <<th, n>>
      /\ Stages[th] = Stage[thread[th].pc]
      /\ Boxes[<<th, n>>] = Phase[cont[<<th, n>>]]
      /\ cont[<<th, n>>] \in ContainerStates
  BY DEF Inv, TypeOK, Current, Stages, Boxes, Slots
<1>b. ASSUME NEW p \in ThreadPcs, Goto(th, p)
      PROVE  /\ Stages' = [Stages EXCEPT ![th] = Stage[p]] /\ Sids' = Sids
             /\ Stage[p] = Stages[th] => Stages' = Stages
  BY <1>a, <1>b, GotoTyped, StagesMove
<1>c. ASSUME NEW p \in ThreadPcs, NEW y \in Causes, EndFor(th, p, y)
      PROVE  /\ Stages' = [Stages EXCEPT ![th] = Stage[p]] /\ Sids' = Sids
             /\ Stage[p] = Stages[th] => Stages' = Stages
  BY <1>a, <1>c, EndForTyped, StagesMove
<1>d. /\ LastBox(th, n)
      /\ thread[th].pc = "launch" => Boxes[<<th, n>>] = "none"
      /\ thread[th].pc \in Responsible => cont[<<th, n>>] # "none"
  <2>1. ASSUME NEW m \in Rungs, m > n
        PROVE  Boxes[<<th, m>>] = "none"
    <3>1. cont[<<th, m>>] = "none"
      BY <2>1 DEF Inv, FreshRungs
    <3> QED
      BY <3>1, PhaseValues DEF Boxes, Slots
  <2>2. thread[th].pc = "launch" => cont[<<th, n>>] = "none"
    BY <1>a DEF Inv, FreshRungs
  <2>3. thread[th].pc \in Responsible => cont[<<th, n>>] # "none"
    BY <1>a DEF Inv, Launched
  <2> QED
    BY <1>a, <2>1, <2>2, <2>3, PhaseValues DEF LastBox
<1>e. ASSUME NEW x \in ContainerStates, cont' = [cont EXCEPT ![Current(th)] = x]
      PROVE  /\ Boxes' = [Boxes EXCEPT ![<<th, n>>] = Phase[x]]
             /\ Phase[x] = Boxes[<<th, n>>] => Boxes' = Boxes
  BY <1>a, <1>e, BoxesChange
<1>f. ASSUME StopContainer(Current(th)), thread[th].pc \in Responsible
      PROVE  \/ Boxes' = Boxes
             \/ /\ Boxes[<<th, n>>] = "up"
                /\ Boxes' = [Boxes EXCEPT ![<<th, n>>] = "down"]
  <2>1. CASE UNCHANGED cont
    BY <2>1, BoxesStay
  <2>2. CASE cont' = [cont EXCEPT ![Current(th)] = "removed"]
    BY <1>a, <1>d, <1>e, <1>f, <2>2, PhaseValues DEF ContainerStates
  <2> QED
    BY <1>f, <2>1, <2>2 DEF StopContainer
<1> HIDE DEF n
<1>1. CASE CreateExecutor(th)
  <2>1. Stages[th] = "launching" /\ Boxes' = Boxes /\ server' = server
    BY <1>1, <1>a, StageValues, BoxesStay DEF CreateExecutor
  <2>2. CASE Goto(th, "launch")
    BY <2>1, <2>2, <1>b, StageValues, Stutters
  <2>3. CASE EndFor(th, "report", "init")
    BY <2>1, <2>3, <1>c, StageValues, Closes
  <2> QED
    BY <1>1, <2>2, <2>3 DEF CreateExecutor
<1>2. CASE LaunchOk(th)
  <2>1. /\ Stages[th] = "launching" /\ server' = server /\ Goto(th, "probe")
        /\ Boxes[<<th, n>>] = "none"
    BY <1>2, <1>a, <1>d, StageValues DEF LaunchOk
  <2>2. Stages' = Stages /\ Sids' = Sids
    BY <2>1, <1>b, StageValues
  <2>3. PICK x \in Live : cont' = [cont EXCEPT ![Current(th)] = x]
    BY <1>2 DEF LaunchOk
  <2>4. Boxes' = [Boxes EXCEPT ![<<th, n>>] = "up"]
    BY <2>3, <1>e, PhaseValues DEF Live, ContainerStates
  <2> QED
    BY <2>1, <2>2, <2>4, <1>a, <1>d, Launches
<1>3. CASE LaunchFails(th)
  <2>1. Stages[th] = "launching" /\ Boxes' = Boxes /\ server' = server
    BY <1>3, <1>a, StageValues, BoxesStay DEF LaunchFails
  <2> QED
    BY <1>3, <2>1, <1>c, StageValues, Closes DEF LaunchFails
<1>4. CASE LaunchTimesOut(th)
  <2>1. /\ Stages[th] = "launching" /\ server' = server
        /\ Boxes[<<th, n>>] = "none"
    BY <1>4, <1>a, <1>d, StageValues DEF LaunchTimesOut
  <2>2. Stages' = [Stages EXCEPT ![th] = "closing"] /\ Sids' = Sids
    BY <1>4, <1>c, StageValues DEF LaunchTimesOut
  <2>3. CASE cont' = [cont EXCEPT ![Current(th)] = "running"]
    <3>1. Boxes' = [Boxes EXCEPT ![<<th, n>>] = "up"]
      BY <2>3, <1>e, PhaseValues DEF ContainerStates
    <3> QED
      BY <2>1, <2>2, <3>1, <1>a, <1>d, Launches
  <2>4. CASE UNCHANGED cont
    BY <2>1, <2>2, <2>4, BoxesStay, Closes
  <2> QED
    BY <1>4, <2>3, <2>4 DEF LaunchTimesOut
<1>5. CASE PortNeverOpens(th)
  <2>1. /\ Stages[th] = "launching" /\ server' = server
        /\ Boxes[<<th, n>>] = "none"
    BY <1>5, <1>a, <1>d, StageValues DEF PortNeverOpens
  <2>2. Stages' = [Stages EXCEPT ![th] = "closing"] /\ Sids' = Sids
    BY <1>5, <1>c, StageValues DEF PortNeverOpens
  <2>3. PICK x \in {"up", "down"} : Boxes' = [Boxes EXCEPT ![<<th, n>>] = x]
    BY <1>5, <1>e, PhaseValues DEF PortNeverOpens, ContainerStates
  <2> QED
    BY <2>1, <2>2, <2>3, <1>a, <1>d, Launches
<1>6. CASE ProbeOk(th)
  <2>1. /\ Stages[th] = "launching" /\ server' = server /\ Boxes' = Boxes
        /\ Boxes[<<th, n>>] = "up"
    BY <1>6, <1>a, StageValues, PhaseValues, BoxesStay DEF ProbeOk, Live
  <2>2. Stages' = [Stages EXCEPT ![th] = "vouched"] /\ Sids' = Sids
    BY <1>6, <1>b, StageValues DEF ProbeOk
  <2> QED
    BY <2>1, <2>2, <1>a, <1>d, Vouches
<1>7. CASE ProbeFails(th)
  BY <1>7, <1>a, <1>b, StageValues, BoxesStay, Stutters DEF ProbeFails
<1>8. CASE Heal(th)
  <2>1. /\ Stages[th] = "launching" /\ server' = server
        /\ StopContainer(Current(th)) /\ thread[th].pc \in Responsible
    BY <1>8, <1>a, StageValues DEF Heal, Responsible
  <2>2. CASE n < 3
    <3>1. thread' = [thread EXCEPT ![th].pc = "launch", ![th].rung = @ + 1]
      BY <1>8, <2>2 DEF Heal, n
    <3>2. /\ thread' \in [Threads -> Record]
          /\ \A t \in Threads : t # th => thread'[t] = thread[t]
          /\ thread'[th].pc = "launch" /\ thread'[th].sid = thread[th].sid
      BY <2>2, <3>1, <1>a, NextRungTyped DEF n
    <3>3. Stages' = Stages /\ Sids' = Sids
      BY <2>1, <3>2, <1>a, StagesMove, StageValues
    <3> QED
      BY <2>1, <3>3, <1>a, <1>f, Stutters, GoesDown
  <2>3. CASE ~(n < 3)
    <3>1. EndFor(th, "report", "heal")
      BY <1>8, <2>3 DEF Heal, n
    <3>2. Stages' = [Stages EXCEPT ![th] = "closing"] /\ Sids' = Sids
      BY <3>1, <1>c, StageValues
    <3> QED
      BY <2>1, <3>2, <1>a, <1>d, <1>f, Closes, GivesUp
  <2> QED
    BY <2>2, <2>3
<1>9. CASE Register(th)
  BY <1>9, <1>a, <1>b, StageValues, BoxesStay, Stutters DEF Register
<1>10. CASE AnnounceOk(th)
  <2>1. Stages[th] = "vouched" /\ Boxes' = Boxes
    BY <1>10, <1>a, StageValues, BoxesStay DEF AnnounceOk
  <2>2. Stages' = [Stages EXCEPT ![th] = "serving"] /\ Sids' = Sids
    BY <1>10, <1>b, StageValues DEF AnnounceOk
  <2>3. HearReady(thread[th].sid)
    BY <1>10 DEF AnnounceOk
  <2> QED
    BY <2>1, <2>2, <2>3, <1>a, Announces
<1>11. CASE AnnounceFails(th)
  <2>1. Stages[th] = "vouched" /\ Boxes' = Boxes
    BY <1>11, <1>a, StageValues, BoxesStay DEF AnnounceFails
  <2>2. Stages' = [Stages EXCEPT ![th] = "closing"] /\ Sids' = Sids
    BY <1>11, <1>c, StageValues DEF AnnounceFails
  <2>3. server' = server \/ HearReady(thread[th].sid)
    BY <1>11 DEF AnnounceFails
  <2> QED
    BY <2>1, <2>2, <2>3, <1>a, Announces
<1>12. CASE SeeStop(th) \/ SeemsExited(th) \/ CriticalAlert(th)
  <2>1. Stages[th] = "serving" /\ Boxes' = Boxes /\ server' = server
    BY <1>12, <1>a, StageValues, BoxesStay DEF SeeStop, SeemsExited, CriticalAlert
  <2>2. Stages' = [Stages EXCEPT ![th] = "closing"] /\ Sids' = Sids
    BY <1>12, <1>c, StageValues DEF SeeStop, SeemsExited, CriticalAlert
  <2> QED
    BY <2>1, <2>2, Closes
<1>13. CASE Beat(th)
  <2>1. Stages[th] = "serving" /\ Boxes' = Boxes /\ server' = server
    BY <1>13, <1>a, StageValues, BoxesStay DEF Beat
  <2>2. CASE EndFor(th, "stopping", "stopped")
    BY <2>1, <2>2, <1>c, StageValues, Closes
  <2>3. CASE Goto(th, "check")
    BY <2>1, <2>3, <1>b, StageValues, Stutters
  <2> QED
    BY <1>13, <2>2, <2>3 DEF Beat
<1>14. CASE BeatFails(th) \/ StillAlive(th)
  BY <1>14, <1>a, <1>b, StageValues, BoxesStay, Stutters DEF BeatFails, StillAlive
<1>15. CASE StopSession(th)
  <2>1. /\ StopContainer(Current(th)) /\ thread[th].pc \in Responsible
        /\ server' = server
    BY <1>15 DEF StopSession, Responsible
  <2>2. Stages' = Stages /\ Sids' = Sids
    BY <1>15, <1>a, <1>b, StageValues DEF StopSession
  <2> QED
    BY <2>1, <2>2, <1>a, <1>f, Stutters, GoesDown
<1>16. CASE ReportOk(th) \/ ReportFails(th)
  <2>1. Stages[th] = "closing" /\ Boxes' = Boxes
    BY <1>16, <1>a, StageValues, BoxesStay DEF ReportOk, ReportFails
  <2>2. AfterReport(th) \in {"pop", "ended"}
    BY DEF AfterReport
  <2>3. Stages' = [Stages EXCEPT ![th] = "over"] /\ Sids' = Sids
    BY <1>16, <2>2, <1>b, StageValues DEF ReportOk, ReportFails
  <2>4. \/ server' = server
        \/ server' = [server EXCEPT ![thread[th].sid] = "ended"]
    BY <1>16 DEF ReportOk, ReportFails
  <2> QED
    BY <2>1, <2>3, <2>4, Reports
<1>17. CASE Pop(th)
  BY <1>17, <1>a, <1>b, StageValues, BoxesStay, Stutters DEF Pop
<1> QED
  BY <1>1, <1>2, <1>3, <1>4, <1>5, <1>6, <1>7, <1>8, <1>9, <1>10, <1>11, <1>12,
     <1>13, <1>14, <1>15, <1>16, <1>17
  DEF Thread

LEMMA ContractSteps ==
    ASSUME Inv, [Next]_vars
    PROVE  Contracted
<1>a. ASSUME UNCHANGED thread
      PROVE  Stages' = Stages /\ Sids' = Sids
  BY <1>a DEF Stages, Sids
<1>b. ASSUME NEW th \in Threads, NEW n \in Rungs,
             cont' = [cont EXCEPT ![<<th, n>>] = "exited"]
      PROVE  Boxes' = [Boxes EXCEPT ![<<th, n>>] = "down"]
  <2>1. "exited" \in ContainerStates /\ TypeOK
    BY DEF ContainerStates, Inv
  <2>2. Boxes' = [Boxes EXCEPT ![<<th, n>>] = Phase["exited"]]
    BY <1>b, <2>1, BoxesChange
  <2> QED
    BY <2>2, PhaseValues
<1>1. ASSUME NEW s \in Sessions, NEW th \in Threads, PollSession(s, th)
      PROVE  Contracted
  <2>1. TypeOK /\ thread[th].pc = "unused" /\ thread'[th].pc = "create"
        /\ thread'[th].sid = s
    BY <1>1, PollTyped DEF Inv, Unused
  <2>2. Stages[th] = "idle" /\ Stage["create"] = "launching"
    BY <2>1, StageValues DEF Stages
  <2>3. /\ Stages' = [Stages EXCEPT ![th] = "launching"]
        /\ Sids' = [Sids EXCEPT ![th] = s]
    BY <1>1, <2>1, <2>2, PollTyped, StagesMove DEF ThreadPcs
  <2>4. server[s] = "offered" /\ server' = server /\ Boxes' = Boxes
    BY <1>1, BoxesStay DEF PollSession
  <2> QED
    BY <2>2, <2>3, <2>4, Takes
<1>2. ASSUME NEW th \in Threads, Thread(th)
      PROVE  Contracted
  BY <1>2, ThreadContracted
<1>3. ASSUME NEW c \in Threads \X Rungs, ServiceComesUp(c) \/ ContainerDies(c)
      PROVE  Contracted
  <2>1. PICK th \in Threads, n \in Rungs : c = <<th, n>>
    OBVIOUS
  <2>2. /\ TypeOK /\ Boxes[<<th, n>>] = "up"
        /\ Stages' = Stages /\ Sids' = Sids /\ server' = server
    BY <1>3, <2>1, <1>a, PhaseValues
    DEF Inv, ServiceComesUp, ContainerDies, Live, Boxes, Slots
  <2>3. CASE ServiceComesUp(c)
    <3>1. Boxes' = Boxes
      BY <2>1, <2>2, <2>3, BoxesChange, PhaseValues
      DEF ServiceComesUp, ContainerStates
    <3> QED
      BY <2>2, <3>1, Stutters
  <2>4. CASE ContainerDies(c)
    <3>1. cont' = [cont EXCEPT ![<<th, n>>] = "exited"]
      BY <2>1, <2>4 DEF ContainerDies
    <3>2. Boxes' = [Boxes EXCEPT ![<<th, n>>] = "down"]
      BY <2>1, <3>1, <1>b
    <3> QED
      BY <2>1, <2>2, <3>2, GoesDown
  <2> QED
    BY <1>3, <2>3, <2>4
<1>4. CASE \/ Stop \/ LeaveLoop \/ CloseClient \/ ProcessExit \/ AtRest
           \/ UNCHANGED vars \/ \E s \in Sessions : RenterEnds(s)
  <2>1. UNCHANGED thread /\ UNCHANGED cont /\ server' = server
    BY <1>4 DEF Stop, LeaveLoop, CloseClient, ProcessExit, AtRest, RenterEnds, vars
  <2> QED
    BY <2>1, <1>a, BoxesStay, Stutters
<1> QED
  BY <1>1, <1>2, <1>3, <1>4 DEF Next, MainThread

LEMMA ContractStarts == Init => Contract!ContractInit
<1> SUFFICES ASSUME Init PROVE Contract!ContractInit
  OBVIOUS
<1>1. /\ thread = [th \in Threads |-> Unused]
      /\ cont = [c \in Threads \X Rungs |-> "none"]
      /\ server = [s \in Sessions |-> "offered"]
  BY DEF Init
<1>2. Stages = [th \in Threads |-> "idle"]
  BY <1>1, StageValues DEF Stages, Unused
<1>3. Sids = [th \in Threads |-> NoSession]
  BY <1>1 DEF Sids, Unused
<1>4. Boxes = [c \in Threads \X Rungs |-> "none"]
  BY <1>1, PhaseValues DEF Boxes, Slots
<1> QED
  BY <1>1, <1>2, <1>3, <1>4 DEF Contract!ContractInit, Stages, Sids, Boxes

-----------------------------------------------------------------------------
(* The theorems. *)

\* Sessions stay what they are declared to be, whatever fails.
THEOREM TypeCorrect == Spec => []TypeOK
<1>1. Inv => TypeOK
  BY DEF Inv
<1> QED
  BY <1>1, Invariant, PTL

\* No way to launch, heal or end a session leaves a container running behind
\* its thread, as long as every docker command does what it is told
\* (workbench_executor.py, stop_session on every path).
THEOREM NothingIsLeftRunning == Spec => []NoOrphanContainers
<1>1. Inv => NoOrphanContainers
  BY DEF Inv
<1> QED
  BY <1>1, Invariant, PTL

\* Every thread that returns has told the server its session is over, unless
\* an exchange failed or the client was closed first
\* (_report_session_terminated).
THEOREM EveryEndIsReported == Spec => []EndsAreReported
<1>1. Inv => EndsAreReported
  BY DEF Inv
<1> QED
  BY <1>1, Invariant, PTL

\* An SSH session is announced only after its server sent its banner
\* (probe_session_service).
THEOREM AnnouncedSshAnswers == Spec => []NoSilentSessions
<1>1. Inv => NoSilentSessions
  BY DEF Inv, HeardSsh, NoSilentSessions
<1> QED
  BY <1>1, Invariant, PTL

\* A session in _active_sessions has a thread that will take it out, but for
\* one whose ready report failed.
THEOREM ActiveSessionsAreOwned == Spec => []ActiveIsLiveOrUnready
<1>1. Inv => ActiveIsLiveOrUnready
  BY DEF Inv, ActiveIsAnnounced, Announced, ActiveIsLiveOrUnready
<1> QED
  BY <1>1, Invariant, PTL

\* No rung of the healing ladder is launched twice.
THEOREM LadderIsClimbedOnce == Spec => LaunchesAreBounded
<1> DEFINE Once == \A c \in Threads \X Rungs :
                      cont[c] \in {"exited", "removed"} => cont'[c] \notin Live
<1>1. Inv /\ Next => Once
  <2> SUFFICES ASSUME Inv, Next, NEW c \in Threads \X Rungs,
                      cont[c] \in {"exited", "removed"}
               PROVE  cont'[c] \notin Live
    OBVIOUS
  <2> USE DEF Inv
  <2>1. CASE MainStep
    BY <2>1 DEF MainStep, Live
  <2>2. CASE OutsideStep
    BY <2>2 DEF OutsideStep, Live
  <2>3. ASSUME NEW s \in Sessions, NEW th \in Threads, PollSession(s, th)
        PROVE  cont'[c] \notin Live
    BY <2>3 DEF PollSession, Live
  <2>4. ASSUME NEW th \in Threads, Thread(th)
        PROVE  cont'[c] \notin Live
    <3>1. Frame(th) /\ LaunchStep(th)
      BY <2>4, ThreadFrame, ThreadPaths
    <3>2. thread[th].pc = "launch" => cont[Current(th)] = "none"
      BY DEF FreshRungs, Current, TypeOK
    <3> QED
      BY <3>1, <3>2 DEF Frame, LaunchStep, Live
  <2> QED
    BY <2>1, <2>2, <2>3, <2>4, StepShapes
<1>2. Inv /\ [Next]_vars => [Once]_vars
  BY <1>1
<1> QED
  BY <1>2, Invariant, PTL DEF Spec, LaunchesAreBounded

\* Only a probed container is announced, and once; an announced session is
\* never launched again; its end is the last thing the server hears of an
\* attempt, and no other attempt takes it back, whatever is lost or offered
\* twice (_run_session_container, _verify_and_heal_session).
THEOREM ContractKept == Spec => ImplementsContract
<1>1. Inv /\ [Next]_vars => [Contract!ContractNext]_(Contract!contractVars)
  BY ContractSteps DEF Contracted
<1> QED
  BY <1>1, ContractStarts, Invariant, PTL
  DEF Spec, ImplementsContract, Contract!ContractSpec
=============================================================================
