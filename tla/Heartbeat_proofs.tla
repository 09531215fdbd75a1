-------------------------- MODULE Heartbeat_proofs --------------------------
(***************************************************************************)
(* Type correctness and OneIdentity of Heartbeat, for any ids, ways to     *)
(* deploy node and coordinator, and numbers of restarts and faults.        *)
(*                                                                         *)
(* OneIdentity is not inductive: the heartbeat thread goes on after the    *)
(* poll loop has ended, and registers the id it reads from the             *)
(* configuration at that moment.  It holds because the id is settled       *)
(* before that thread exists (BeatsWhenRegistered) and because the         *)
(* registry knows nothing of the node before (NobodyKnown).                *)
(***************************************************************************)
EXTENDS Heartbeat, TLAPS

BeatsWhenRegistered == hb # "off" => nodePc \in {"polling", "closed"}

NobodyKnown == nodePc = "register" => known = {}

OnlyThisId == nodePc \in {"polling", "closed"} => known \subseteq {nodeId}

Inv ==
    /\ HbTypeOK
    /\ BeatsWhenRegistered
    /\ NobodyKnown
    /\ OnlyThisId

-----------------------------------------------------------------------------

LEMMA InitInv == HbInit => Inv
<1> SUFFICES ASSUME HbInit PROVE Inv
  OBVIOUS
<1>1. 0 \in 0..MaxRestarts /\ 0 \in 0..MaxFaults
  BY HeartbeatAssumption
<1>2. stopEvent \in BOOLEAN
  BY DEF HbInit
<1> QED
  BY <1>1, <1>2 DEF HbInit, Inv, HbTypeOK, BeatsWhenRegistered, NobodyKnown,
     OnlyThisId

\* A failed exchange counts at most one fault more.
LEMMA FaultsCounted == Inv /\ ExchangeFails => faults' \in 0..MaxFaults
BY HeartbeatAssumption DEF Inv, HbTypeOK, ExchangeFails

\* The main thread settles the id before the heartbeat thread exists.
LEMMA MainKeeps == Inv /\ NodeMain => Inv'
<1> SUFFICES ASSUME Inv, NodeMain PROVE Inv'
  OBVIOUS
<1>1. CASE Register
  <2>1. PICK id \in Ids : known' = known \cup {id} /\ nodeId' = id
    BY <1>1 DEF Register
  <2>2. nodePc = "register" /\ nodePc' = "polling" /\ hb' = "test"
        /\ UNCHANGED <<deployment, stopEvent, restarts, faults>>
    BY <1>1 DEF Register
  <2>3. known' = {id}
    BY <2>1, <2>2 DEF Inv, NobodyKnown
  <2>4. HbTypeOK'
    BY <2>1, <2>2, <2>3 DEF Inv, HbTypeOK
  <2> QED
    BY <2>1, <2>2, <2>3, <2>4 DEF Inv, BeatsWhenRegistered, NobodyKnown,
       OnlyThisId
<1>2. CASE RegisterFails
  <2>1. HbTypeOK'
    BY <1>2 DEF RegisterFails, Inv, HbTypeOK
  <2> QED
    BY <1>2, <2>1 DEF RegisterFails, Inv, BeatsWhenRegistered, NobodyKnown,
       OnlyThisId
<1>3. CASE Close
  <2>1. HbTypeOK'
    BY <1>3 DEF Close, Inv, HbTypeOK
  <2> QED
    BY <1>3, <2>1 DEF Close, Inv, BeatsWhenRegistered, NobodyKnown, OnlyThisId
<1> QED
  BY <1>1, <1>2, <1>3 DEF NodeMain

\* The heartbeat thread registers the id the node has, and no other.
LEMMA BeatKeeps == Inv /\ Beat => Inv'
<1> SUFFICES ASSUME Inv, Beat PROVE Inv'
  OBVIOUS
<1>1. /\ UNCHANGED <<deployment, nodePc, stopEvent, nodeId, restarts>>
      /\ hb # "off"
      /\ hb' \in {"test", "send", "reregister", "wait", "done"}
  BY DEF Beat, LoopTest, BeatAcknowledged, BeatUnknown, BeatFails, Reregister,
         ReregisterFails, Wait
<1>2. known' = known \/ known' = known \cup {nodeId}
  BY DEF Beat, LoopTest, BeatAcknowledged, BeatUnknown, BeatFails, Reregister,
         ReregisterFails, Wait
<1>3. faults' \in 0..MaxFaults
  <2>1. faults' = faults \/ ExchangeFails
    BY DEF Beat, LoopTest, BeatAcknowledged, BeatUnknown, BeatFails, Reregister,
           ReregisterFails, Wait
  <2> QED
    BY <2>1, FaultsCounted DEF Inv, HbTypeOK
<1>4. HbTypeOK'
  BY <1>1, <1>2, <1>3 DEF Inv, HbTypeOK
<1> QED
  BY <1>1, <1>2, <1>4 DEF Inv, BeatsWhenRegistered, NobodyKnown, OnlyThisId

LEMMA StepKeeps == Inv /\ [HbNext]_hbVars => Inv'
<1> SUFFICES ASSUME Inv, [HbNext]_hbVars PROVE Inv'
  OBVIOUS
<1>1. CASE NodeMain
  BY <1>1, MainKeeps
<1>2. CASE Beat
  BY <1>2, BeatKeeps
<1>3. CASE Restart
  <2>1. restarts' \in 0..MaxRestarts
    BY <1>3, HeartbeatAssumption DEF Restart, Inv, HbTypeOK
  <2> QED
    BY <1>3, <2>1 DEF Restart, Inv, HbTypeOK, BeatsWhenRegistered, NobodyKnown,
       OnlyThisId
<1>4. CASE Stop
  BY <1>4 DEF Stop, Inv, HbTypeOK, BeatsWhenRegistered, NobodyKnown, OnlyThisId
<1>5. CASE UNCHANGED hbVars
  BY <1>5 DEF hbVars, Inv, HbTypeOK, BeatsWhenRegistered, NobodyKnown, OnlyThisId
<1> QED
  BY <1>1, <1>2, <1>3, <1>4, <1>5 DEF HbNext, Terminated

-----------------------------------------------------------------------------

\* Every variable keeps to its type; _register and the heartbeat loops only
\* ever use ids of the pool.
THEOREM TypeCorrect == HbSpec => []HbTypeOK
<1>1. Inv => HbTypeOK
  BY DEF Inv
<1> QED
  BY <1>1, InitInv, StepKeeps, PTL DEF HbSpec

\* Whatever is lost or restarted, the coordinator never files a polling node
\* under a second id (node.py:348).
THEOREM OneIdentityHolds == HbSpec => []OneIdentity
<1>1. Inv => OneIdentity
  BY DEF Inv, OnlyThisId, OneIdentity
<1> QED
  BY <1>1, InitInv, StepKeeps, PTL DEF HbSpec
=============================================================================
