----------------------------- MODULE Heartbeat -----------------------------
(***************************************************************************)
(* Registration and heartbeats of ComputeNode (node.py) against a          *)
(* coordinator that keeps its registry in memory and may restart.  The     *)
(* main thread registers once; the heartbeat thread is the only one that   *)
(* can notice that the coordinator no longer knows the node.               *)
(***************************************************************************)
EXTENDS Naturals, FiniteSets

CONSTANTS
    Ids,            \* node ids
    Deployments,    \* how node and coordinator may be set up: the transport
                    \* (config.use_http) and what the coordinator answers to
                    \* the heartbeat of a node it does not know
    MaxRestarts,    \* bound on coordinator restarts
    MaxFaults       \* bound on failed exchanges

ASSUME HeartbeatAssumption ==
    /\ Ids # {}
    /\ Deployments \subseteq [transport : {"http", "grpc"},
                              unknown : {"unacknowledged", "notfound"}]
    /\ MaxRestarts \in Nat /\ MaxFaults \in Nat

VARIABLES
    deployment, \* the one at hand
    nodePc,     \* "register", "polling", "closed" or "raised"
    hb,         \* the heartbeat thread
    stopEvent,  \* _stop_event
    nodeId,     \* config.node_id
    known,      \* the ids in the coordinator's registry
    restarts, faults

hbVars == <<deployment, nodePc, hb, stopEvent, nodeId, known, restarts, faults>>

HbTypeOK ==
    /\ deployment \in Deployments
    /\ nodePc \in {"register", "polling", "closed", "raised"}
    /\ hb \in {"off", "test", "send", "reregister", "wait", "done"}
    /\ stopEvent \in BOOLEAN
    /\ nodeId \in Ids
    /\ known \subseteq Ids
    /\ restarts \in 0..MaxRestarts
    /\ faults \in 0..MaxFaults

HbInit ==
    /\ deployment \in Deployments
    /\ nodePc = "register"
    /\ hb = "off"
    /\ stopEvent = FALSE
    /\ nodeId \in Ids
    /\ known = {}
    /\ restarts = 0
    /\ faults = 0

\* An exchange fails: the network does, or _stop has closed the client.
ExchangeFails ==
    \/ nodePc = "closed" /\ UNCHANGED faults
    \/ nodePc # "closed" /\ faults < MaxFaults /\ faults' = faults + 1

Restart ==
    /\ restarts < MaxRestarts
    /\ restarts' = restarts + 1
    /\ known' = {}
    /\ UNCHANGED <<deployment, nodePc, hb, stopEvent, nodeId, faults>>

Stop ==
    /\ stopEvent' = TRUE
    /\ UNCHANGED <<deployment, nodePc, hb, nodeId, known, restarts, faults>>

-----------------------------------------------------------------------------
(* The main thread. *)

\* Accepted: adopt the id in the answer, which may differ from the one sent,
\* then start the heartbeat thread.
Register ==
    /\ nodePc = "register"
    /\ \E id \in Ids : known' = known \cup {id} /\ nodeId' = id
    /\ nodePc' = "polling"
    /\ hb' = "test"
    /\ UNCHANGED <<deployment, stopEvent, restarts, faults>>

\* Rejected, or the exchange failed before or after the coordinator acted.
RegisterFails ==
    /\ nodePc = "register"
    /\ nodePc' = "raised"
    /\ \/ UNCHANGED known
       \/ \E id \in Ids : known' = known \cup {id}
    /\ UNCHANGED <<deployment, hb, stopEvent, nodeId, restarts, faults>>

\* The poll loop ends and _stop closes the client or channel; the heartbeat
\* thread is not joined.
Close ==
    /\ nodePc = "polling"
    /\ stopEvent
    /\ nodePc' = "closed"
    /\ UNCHANGED <<deployment, hb, stopEvent, nodeId, known, restarts, faults>>

-----------------------------------------------------------------------------
(* The heartbeat thread. *)

\* Mutant: the loop never looks at _stop_event.
LoopForEver ==
    /\ hb = "test"
    /\ hb' = "send"
    /\ UNCHANGED <<deployment, nodePc, stopEvent, nodeId, known, restarts,
                   faults>>

LoopTest ==
    /\ hb = "test"
    /\ hb' = IF stopEvent THEN "done" ELSE "send"
    /\ UNCHANGED <<deployment, nodePc, stopEvent, nodeId, known, restarts,
                   faults>>

\* The coordinator knows the node.
BeatAcknowledged ==
    /\ hb = "send"
    /\ nodePc # "closed"
    /\ nodeId \in known
    /\ hb' = "wait"
    /\ UNCHANGED <<deployment, nodePc, stopEvent, nodeId, known, restarts,
                   faults>>

\* What makes the thread re-register: NOT_FOUND over gRPC; over HTTP only a
\* 2xx answer without "acknowledged", since raise_for_status turns a 404 into
\* an exception that is logged.
Recognised ==
    IF deployment.transport = "grpc" THEN "notfound" ELSE "unacknowledged"

\* Mutant: the answer of the heartbeat is not looked at.
BeatUnread ==
    /\ hb = "send"
    /\ nodePc # "closed"
    /\ nodeId \notin known
    /\ hb' = "wait"
    /\ UNCHANGED <<deployment, nodePc, stopEvent, nodeId, known, restarts,
                   faults>>

\* The coordinator does not know the node.
BeatUnknown ==
    /\ hb = "send"
    /\ nodePc # "closed"
    /\ nodeId \notin known
    /\ hb' = IF deployment.unknown = Recognised THEN "reregister" ELSE "wait"
    /\ UNCHANGED <<deployment, nodePc, stopEvent, nodeId, known, restarts,
                   faults>>

BeatFails ==
    /\ hb = "send"
    /\ ExchangeFails
    /\ hb' = "wait"
    /\ UNCHANGED <<deployment, nodePc, stopEvent, nodeId, known, restarts>>

\* Mutant: the request names another id than the one the node polls with.
ReregisterOther ==
    /\ hb = "reregister"
    /\ nodePc # "closed"
    /\ \E id \in Ids : known' = known \cup {id}
    /\ hb' = "wait"
    /\ UNCHANGED <<deployment, nodePc, stopEvent, nodeId, restarts, faults>>

\* Accepted again.  Unlike the main thread this one ignores the id in the
\* answer; the coordinator is taken to keep the id it is sent here.
Reregister ==
    /\ hb = "reregister"
    /\ nodePc # "closed"
    /\ known' = known \cup {nodeId}
    /\ hb' = "wait"
    /\ UNCHANGED <<deployment, nodePc, stopEvent, nodeId, restarts, faults>>

\* Rejected or failed, before or after the coordinator acted.
ReregisterFails ==
    /\ hb = "reregister"
    /\ ExchangeFails
    /\ \/ UNCHANGED known
       \/ nodePc # "closed" /\ known' = known \cup {nodeId}
    /\ hb' = "wait"
    /\ UNCHANGED <<deployment, nodePc, stopEvent, nodeId, restarts>>

\* The interruptible wait between heartbeats.
Wait ==
    /\ hb = "wait"
    /\ hb' = "test"
    /\ UNCHANGED <<deployment, nodePc, stopEvent, nodeId, known, restarts,
                   faults>>

-----------------------------------------------------------------------------
NodeMain == Register \/ RegisterFails \/ Close

Beat ==
    \/ LoopTest \/ BeatAcknowledged \/ BeatUnknown \/ BeatFails
    \/ Reregister \/ ReregisterFails \/ Wait

Terminated ==
    /\ nodePc \in {"closed", "raised"}
    /\ hb \in {"off", "done"}
    /\ UNCHANGED hbVars

HbNext == NodeMain \/ Beat \/ Restart \/ Stop \/ Terminated

HbSpec == HbInit /\ [][HbNext]_hbVars

(* Both threads are scheduled by the OS and every exchange has a timeout.  *)
(* Restarts and stop() happen or do not.                                   *)
HbFairSpec == HbSpec /\ WF_hbVars(NodeMain) /\ WF_hbVars(Beat)

-----------------------------------------------------------------------------
(* Properties. *)

\* The coordinator files the node under the id it polls with, and no other:
\* re-registering never makes a second node of it.
OneIdentity == nodePc = "polling" => known \subseteq {nodeId}

\* A polling node the coordinator has forgotten gets registered again,
\* however often the coordinator restarts.
RegistrationRecovers ==
    (nodePc = "polling" /\ nodeId \notin known)
        ~> (nodeId \in known \/ stopEvent)

\* stop() also ends the heartbeat thread, wherever it was.
HeartbeatStops == stopEvent ~> (hb \in {"off", "done"} /\ nodePc # "register")
=============================================================================
