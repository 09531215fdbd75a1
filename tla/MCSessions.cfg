SPECIFICATION Spec
CONSTANTS
    s1 = s1
    th1 = th1
    th2 = th2
    Sessions <- OneSession
    Threads <- TwoThreads
    NoSession = NoSession
    Redeliver = TRUE
    MaxFaults = 1
    MaxFlakes = 1
SYMMETRY ThreadSymmetry
CONSTRAINT OneMishap
INVARIANTS
    NoOrphanContainers
    EndsAreReported
    NoSilentSessions
    ActiveIsLiveOrUnready
PROPERTIES
    LaunchesAreBounded
    ImplementsContract
