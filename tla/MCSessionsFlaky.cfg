SPECIFICATION Spec
CONSTANTS
    s1 = s1
    th1 = th1
    th2 = th2
    Sessions <- OneSession
    Threads <- OneThread
    NoSession = NoSession
    Redeliver = FALSE
    MaxFaults = 0
    MaxFlakes = 1
INVARIANT
    EndedSessionsHaveStopped
