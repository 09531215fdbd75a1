SPECIFICATION MCFairSpec
CONSTANTS
    Kinds <- MCKinds
    Relays <- MCRelays
    SustainedChecks = 2
    MaxFaults = 1
INVARIANTS
    EndedSessionsServeNobody
PROPERTIES
    NoHalfDeadTunnel
    TunnelComesBack
    SessionsEnd
    TunnelEndsWithSession
    BusySessionsEnd
    ImplementsCpuWatch
CHECK_DEADLOCK FALSE
