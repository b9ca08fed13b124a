SPECIFICATION Spec
CONSTANTS
    i1 = i1
    i2 = i2
    i3 = i3
    Items <- ThreeItems
    MaxItems = 2
    MaxThreads = 3
    MaxEntries = 5
    MaxPolls = 2
    MaxOps = 3
    MaxAging = 1
    MaxCrashes = 1
    Removable = {"source", "inbox"}
SYMMETRY Symmetry
INVARIANTS NothingLost EntriesAreSound
PROPERTIES SnapshotsAreCurrent StaysPublished
CHECK_DEADLOCK FALSE
