SPECIFICATION FairSpec
CONSTANTS
    i1 = i1
    i2 = i2
    i3 = i3
    Items <- ThreeItems
    MaxItems = 2
    MaxThreads = 3
    MaxEntries = 5
    MaxPolls = 1
    MaxOps = 2
    MaxAging = 0
    MaxCrashes = 0
    Removable = {}
PROPERTIES Surfaces AcksAreRepaired
CHECK_DEADLOCK FALSE
