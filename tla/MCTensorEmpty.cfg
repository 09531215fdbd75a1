SPECIFICATION MCTensorSpec
CONSTANTS
    Shards = {0, 1}
    NumLayers = 3
    Models <- MCModels
    Plans <- MCPlans
    MaxFaults = 2
    Samples <- MCSamples
    Numbers = {1, 2}
    MaxElements = 4
    MaxDepth = 3
    r1 = r1
    r2 = r2
    w1 = w1
    w2 = w2
    Runs <- TwoRuns
    NumShards = 2
    MaxEntries = 2
    NumPasses = 3
    MaxLost = 1
    MaxLive = 2
    Workers <- MCWorkers
    NoRun = NoRun
    NoWorker = NoWorker
SYMMETRY TwoRunSymmetry
INVARIANTS
    EmptyArraysKeepTheirShape
