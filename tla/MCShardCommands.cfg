SPECIFICATION Spec
CONSTANTS
    Jobs <- Commands
    HasExecutor = FALSE
    Slots = 2
    PollTimeout = 1
    MaxFaults = 3
    MaxReissues = 1
INVARIANT
    ComposesInOrder
