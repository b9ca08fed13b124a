SPECIFICATION Spec
CONSTANTS
    c1 = c1
    c2 = c2
    k1 = k1
    k2 = k2
    k3 = k3
    Consumers <- TwoConsumers
    Keys <- ThreeKeys
    Times = {1}
    MaxOffset = 3
    ReadLimit = 2
    BatchSize = 1
    MaxEvents = 2
    MaxStarts = 3
    MaxCompactions = 1
    MaxCrashes = 1
SYMMETRY Symmetry
INVARIANTS TypeOK UnreadHistoryKept PrunedIsPrefix
PROPERTIES NoEventSkipped ImplementsFeed
CHECK_DEADLOCK FALSE
