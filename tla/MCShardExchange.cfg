SPECIFICATION FairSpec
CONSTANTS
    Jobs <- AllTopologies
    HasExecutor = FALSE
    Slots = 2
    PollTimeout = 1
    MaxFaults = 3
    MaxReissues = 1
INVARIANTS
    ComposesInOrder
    ReportedIsPosted
    TransientFaultsAbsorbed
PROPERTIES
    ImplementsDataflow
    ShardsSettle
