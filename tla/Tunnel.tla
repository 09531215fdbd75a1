------------------------------- MODULE Tunnel -------------------------------
(***************************************************************************)
(* The reverse tunnel of a session (node.py, _run_tunnel): a thread keeps  *)
(* a WebSocket to the pool server open and, for each, one connection to    *)
(* the session's port, with a pump for either direction.                   *)
(***************************************************************************)
EXTENDS Naturals

CONSTANTS
    MaxFaults   \* bound on exchanges, connections and commands that fail

ASSUME TunnelAssumption == MaxFaults \in Nat

VARIABLES
    port,       \* who answers on the session's port: "up", "mute" (accepts
                \* and closes), "hung" (accepts as far as its backlog goes and
                \* reads nothing) or "closed"
    stopEvent,  \* _stop_event
    admitted,   \* the pool server still accepts this session's tunnel
    tunnelPc,   \* the coroutine of the tunnel thread
    ws,         \* its WebSocket: "none", "open" or "lost"
    tcp,        \* its connection to the port: "none", "open", "deaf" (nobody
                \* reads from it any more) or "eof"
    pumpIn,     \* ws_to_tcp: "off", "run", "stuck" (in drain()) or "ended"
    pumpOut,    \* tcp_to_ws
    faults

tunnelOwn  == <<tunnelPc, ws, tcp, pumpIn, pumpOut>>
tunnelVars == <<port, stopEvent, admitted, tunnelOwn, faults>>

TunnelTypeOK ==
    /\ port \in {"up", "mute", "hung", "closed"}
    /\ stopEvent \in BOOLEAN
    /\ admitted \in BOOLEAN
    /\ tunnelPc \in {"off", "test", "connect", "dial", "pump", "backoff",
                     "refused", "done"}
    /\ ws \in {"none", "open", "lost"}
    /\ tcp \in {"none", "open", "deaf", "eof"}
    /\ pumpIn \in {"off", "run", "stuck", "ended"}
    /\ pumpOut \in {"off", "run", "ended"}
    /\ faults \in 0..MaxFaults
    /\ (ws # "none") <=> (tunnelPc \in {"dial", "pump"})
    /\ (tcp # "none") <=> (tunnelPc = "pump")
    /\ (pumpIn = "off" /\ pumpOut = "off") <=> (tunnelPc # "pump")

TunnelInit ==
    /\ stopEvent = FALSE
    /\ admitted = TRUE
    /\ tunnelPc = "off"
    /\ ws = "none" /\ tcp = "none"
    /\ pumpIn = "off" /\ pumpOut = "off"
    /\ faults = 0

\* What is not the tunnel's own.
Surroundings == <<port, stopEvent, admitted>>

Fault == faults < MaxFaults /\ faults' = faults + 1

-----------------------------------------------------------------------------
(* The coroutine. *)

TunnelTest ==
    /\ tunnelPc = "test"
    /\ tunnelPc' = IF stopEvent THEN "done" ELSE "connect"
    /\ UNCHANGED <<Surroundings, ws, tcp, pumpIn, pumpOut, faults>>

Connect ==
    /\ tunnelPc = "connect"
    /\ admitted
    /\ tunnelPc' = "dial"
    /\ ws' = "open"
    /\ UNCHANGED <<Surroundings, tcp, pumpIn, pumpOut, faults>>

\* Mutant: a failed attempt leaves the reconnect loop.
ConnectGivesUp ==
    /\ tunnelPc = "connect"
    /\ \/ ~admitted /\ UNCHANGED faults
       \/ admitted /\ Fault
    /\ tunnelPc' = "done"
    /\ UNCHANGED <<Surroundings, ws, tcp, pumpIn, pumpOut>>

\* The network, or a server that does not admit the session.
ConnectFails ==
    /\ tunnelPc = "connect"
    /\ \/ ~admitted /\ UNCHANGED faults
       \/ admitted /\ Fault
    /\ tunnelPc' = "backoff"
    /\ UNCHANGED <<Surroundings, ws, tcp, pumpIn, pumpOut>>

Backoff ==
    /\ tunnelPc = "backoff"
    /\ tunnelPc' = "test"
    /\ UNCHANGED <<Surroundings, ws, tcp, pumpIn, pumpOut, faults>>

\* A mute port accepts and closes at once, a hung one accepts and no more.
Dial ==
    /\ tunnelPc = "dial"
    /\ port # "closed"
    /\ tunnelPc' = "pump"
    /\ tcp' = CASE port = "up" -> "open" [] port = "hung" -> "deaf"
                [] OTHER -> "eof"
    /\ pumpIn' = "run" /\ pumpOut' = "run"
    /\ UNCHANGED <<Surroundings, ws, faults>>

\* Mutant: a refused connection is retried like any other.
DialRetried ==
    /\ tunnelPc = "dial"
    /\ port \in {"closed", "hung"}
    /\ tunnelPc' = "backoff"
    /\ ws' = "none"
    /\ UNCHANGED <<Surroundings, tcp, pumpIn, pumpOut, faults>>

\* A port that refuses, or is hung with its backlog full, ends the tunnel for
\* good: return, not continue.
DialRefused ==
    /\ tunnelPc = "dial"
    /\ port \in {"closed", "hung"}
    /\ tunnelPc' = "refused"
    /\ ws' = "none"
    /\ UNCHANGED <<Surroundings, tcp, pumpIn, pumpOut, faults>>

\* The renter has sent more than the buffers of a connection hold that nobody
\* reads, perhaps just before its WebSocket was lost: drain() waits, and recv
\* is not called again.
PumpInBlocks ==
    /\ tunnelPc = "pump"
    /\ pumpIn = "run"
    /\ tcp = "deaf"
    /\ pumpIn' = "stuck"
    /\ UNCHANGED <<Surroundings, tunnelPc, ws, tcp, pumpOut, faults>>

\* ws_to_tcp fails on recv, or on a write to a connection that has gone; its
\* finally closes the writer, which ends the reader too.
PumpInEnds ==
    /\ tunnelPc = "pump"
    /\ \/ pumpIn = "run" /\ (ws = "lost" \/ tcp = "eof")
       \/ pumpIn = "stuck" /\ tcp = "eof"
    /\ pumpIn' = "ended"
    /\ tcp' = "eof"
    /\ UNCHANGED <<Surroundings, tunnelPc, ws, pumpOut, faults>>

\* tcp_to_ws reads the end of file, or fails to send on a lost WebSocket what
\* the service has sent.  A send that waits on a peer that reads nothing ends
\* with the WebSocket, whose pings go unanswered.
PumpOutEnds ==
    /\ tunnelPc = "pump"
    /\ pumpOut = "run"
    /\ tcp = "eof" \/ (ws = "lost" /\ tcp = "open")
    /\ pumpOut' = "ended"
    /\ UNCHANGED <<Surroundings, tunnelPc, ws, tcp, pumpIn, faults>>

\* Mutant: gather() waits for both pumps.
Gathered ==
    /\ tunnelPc = "pump"
    /\ pumpIn = "ended" /\ pumpOut = "ended"
    /\ tunnelPc' = "test"
    /\ ws' = "none" /\ tcp' = "none"
    /\ pumpIn' = "off" /\ pumpOut' = "off"
    /\ UNCHANGED <<Surroundings, faults>>

\* FIRST_COMPLETED: the other pump is cancelled, the writer and the WebSocket
\* closed, and the loop goes round without a pause.
FirstCompleted ==
    /\ tunnelPc = "pump"
    /\ "ended" \in {pumpIn, pumpOut}
    /\ tunnelPc' = "test"
    /\ ws' = "none" /\ tcp' = "none"
    /\ pumpIn' = "off" /\ pumpOut' = "off"
    /\ UNCHANGED <<Surroundings, faults>>

\* ws_to_tcp notices a dead connection only when the renter sends something,
\* so nothing makes it: PumpInEnds is fair for a lost WebSocket alone, and for
\* that only while it is not waiting in drain().
TunnelThread ==
    \/ TunnelTest \/ Connect \/ ConnectFails \/ Backoff
    \/ Dial \/ DialRefused
    \/ PumpInEnds /\ pumpIn = "run" /\ ws = "lost"
    \/ PumpOutEnds /\ tcp = "eof"
    \/ FirstCompleted

\* Bytes of the renter, or of the service.
BytesCome == PumpInBlocks \/ PumpInEnds \/ PumpOutEnds

-----------------------------------------------------------------------------
(* The network. *)

WsDrops ==
    /\ ws = "open"
    /\ Fault
    /\ ws' = "lost"
    /\ UNCHANGED <<Surroundings, tunnelPc, tcp, pumpIn, pumpOut>>

Connected == tcp \in {"open", "deaf"}

\* What a change of the port may do to the connection there is.
ConnectionEnds == tcp' = IF Connected THEN "eof" ELSE tcp

\* Whoever serves the connection ends it.
ServiceCloses ==
    /\ Connected
    /\ ConnectionEnds
    /\ UNCHANGED <<Surroundings, tunnelPc, ws, pumpIn, pumpOut, faults>>

-----------------------------------------------------------------------------
(* Properties. *)

TunnelActive == tunnelPc \in {"test", "connect", "dial", "pump", "backoff"}

\* No half-dead tunnel: when either connection ends, the pair is given up and
\* the loop goes round, also if the renter sends nothing (the comment at
\* node.py:945).  But for a lost WebSocket behind which drain() waits for a
\* service that no longer reads (node.py:923).
NoHalfDeadTunnel ==
    (tunnelPc = "pump" /\ (tcp = "eof" \/ ws = "lost"))
        ~> (tunnelPc # "pump" \/ (pumpIn = "stuck" /\ tcp = "deaf"))

\* While the service answers and the session may have a tunnel, a tunnel that
\* breaks is there again, however often the WebSocket or the service ends it.
TunnelComesBack ==
    [](TunnelActive
         => <>(\/ tunnelPc = "pump"
               \/ stopEvent \/ ~admitted \/ port \in {"closed", "hung"}))
=============================================================================
