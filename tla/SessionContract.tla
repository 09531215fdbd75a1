-------------------------- MODULE SessionContract --------------------------
(***************************************************************************)
(* What a node promises about the sessions it is offered, without polls,   *)
(* probes, heartbeats, budgets or _active_sessions: an attempt at a        *)
(* session launches containers on rising rungs, vouches for the one it     *)
(* launched last while that is up, announces it once, and from then on     *)
(* only takes containers down; the server hears once that the attempt is   *)
(* over, and what is over stays so.  Sessions implements it.               *)
(***************************************************************************)
EXTENDS Naturals

CONSTANTS
    Sessions,
    Threads,    \* attempts at a session, each a thread of the node
    NoSession,  \* the session of an attempt not begun
    Rungs       \* the containers an attempt may launch, in order

VARIABLES
    stage,      \* idle, launching, vouched, serving, closing or over
    sid,        \* the session of each attempt
    container,  \* of each attempt on each rung: none yet, up, or down
    told        \* what the server has been told of each session

contractVars == <<stage, sid, container, told>>

Move(th, next) == stage' = [stage EXCEPT ![th] = next]

ContractInit ==
    /\ stage = [th \in Threads |-> "idle"]
    /\ sid = [th \in Threads |-> NoSession]
    /\ container = [c \in Threads \X Rungs |-> "none"]
    /\ told = [s \in Sessions |-> "offered"]

\* The attempt has launched nothing above rung n.
Last(th, n) == \A m \in Rungs : m > n => container[<<th, m>>] = "none"

\* The server offers the session; it may do so again until it hears of it.
Take(th, s) ==
    /\ stage[th] = "idle"
    /\ told[s] = "offered"
    /\ Move(th, "launching")
    /\ sid' = [sid EXCEPT ![th] = s]
    /\ UNCHANGED <<container, told>>

\* No rung is launched twice, and none below one that has been launched.
Launch(th, n) ==
    /\ stage[th] = "launching"
    /\ container[<<th, n>>] = "none" /\ Last(th, n)
    /\ \E c \in {"up", "down"} :
          container' = [container EXCEPT ![<<th, n>>] = c]
    /\ UNCHANGED stage \/ Move(th, "closing")
    /\ UNCHANGED <<sid, told>>

\* The last container launched is up and has passed its probe.
Vouch(th, n) ==
    /\ stage[th] = "launching"
    /\ container[<<th, n>>] = "up" /\ Last(th, n)
    /\ Move(th, "vouched")
    /\ UNCHANGED <<sid, container, told>>

\* The server hears of it, or does not, or has heard otherwise before.
Announce(th) ==
    /\ stage[th] = "vouched"
    /\ Move(th, "serving") \/ Move(th, "closing")
    /\ \/ UNCHANGED told
       \/ /\ told[sid[th]] = "offered"
          /\ told' = [told EXCEPT ![sid[th]] = "ready"]
    /\ UNCHANGED <<sid, container>>

\* The attempt is given up.
Close(th) ==
    /\ stage[th] \in {"launching", "serving"}
    /\ Move(th, "closing")
    /\ UNCHANGED <<sid, container, told>>

\* The container of the last rung is stopped and the attempt given up.
GiveUp(th, n) ==
    /\ stage[th] = "launching"
    /\ container[<<th, n>>] = "up" /\ Last(th, n)
    /\ container' = [container EXCEPT ![<<th, n>>] = "down"]
    /\ Move(th, "closing")
    /\ UNCHANGED <<sid, told>>

\* A container is stopped, or dies by itself.
Down(th, n) ==
    /\ container[<<th, n>>] = "up"
    /\ container' = [container EXCEPT ![<<th, n>>] = "down"]
    /\ UNCHANGED <<stage, sid, told>>

\* The one report of the end, which may be lost.
Report(th) ==
    /\ stage[th] = "closing"
    /\ Move(th, "over")
    /\ \/ UNCHANGED told
       \/ told' = [told EXCEPT ![sid[th]] = "ended"]
    /\ UNCHANGED <<sid, container>>

ContractNext ==
    \E th \in Threads :
       \/ \E s \in Sessions : Take(th, s)
       \/ \E n \in Rungs :
             Launch(th, n) \/ Vouch(th, n) \/ GiveUp(th, n) \/ Down(th, n)
       \/ Announce(th) \/ Close(th) \/ Report(th)

ContractSpec == ContractInit /\ [][ContractNext]_contractVars
=============================================================================
