------------------------------ MODULE TaskPool ------------------------------
(***************************************************************************)
(* What a compute node promises the pool about tasks, without threads,     *)
(* counters or HTTP: it never holds more tasks than it advertised, the     *)
(* coordinator records at most one verdict per task, and the node closes   *)
(* its connection only when it holds nothing.  NodeTasks implements it.    *)
(***************************************************************************)
EXTENDS Naturals, FiniteSets

CONSTANTS
    Tasks,      \* every task the pool may hand to this node
    Capacity    \* the advertised max_concurrent_tasks

VARIABLES
    status,     \* what has become of each task
    connected   \* may the node still talk to the pool?

poolVars == <<status, connected>>

Verdicts == {"ok", "error"}

Held == {t \in Tasks : status[t] = "held"}

PoolInit ==
    /\ status = [t \in Tasks |-> "queued"]
    /\ connected = TRUE

\* The pool hands a task to a node that has a free slot.
Hand(t) ==
    /\ connected
    /\ status[t] = "queued"
    /\ Cardinality(Held) < Capacity
    /\ status' = [status EXCEPT ![t] = "held"]
    /\ UNCHANGED connected

\* The coordinator records the node's verdict on a task it holds.
Settle(t) ==
    /\ connected
    /\ status[t] = "held"
    /\ \E v \in Verdicts : status' = [status EXCEPT ![t] = v]
    /\ UNCHANGED connected

\* A message is lost: the task was handed out in an answer the node never
\* saw, or the verdict of a task it held never arrived.
Lose(t) ==
    /\ connected
    /\ status[t] \in {"queued", "held"}
    /\ status' = [status EXCEPT ![t] = "lost"]
    /\ UNCHANGED connected

\* The node leaves the pool, holding nothing.
Disconnect ==
    /\ connected
    /\ Held = {}
    /\ connected' = FALSE
    /\ UNCHANGED status

PoolNext ==
    \/ \E t \in Tasks : Hand(t) \/ Settle(t) \/ Lose(t)
    \/ Disconnect

PoolSpec == PoolInit /\ [][PoolNext]_poolVars
=============================================================================
