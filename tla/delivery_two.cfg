SPECIFICATION Spec
CONSTANTS
    hook = hook
    term = term
    e1 = e1
    e2 = e2
    e3 = e3
    s1 = s1
    s2 = s2
    NoSub = NoSub
    Targets <- Both
    Terminals = {term}
    Entries = {e1}
    Subs = {s1}
    SubOf <- OneEntry
    Thresholds = {1}
    MaxItems = 2
    MaxPauses = 1
    MaxCrashes = 1
    MaxOps = 1
INVARIANT
    RowsAreSound
PROPERTIES
    FencedSend
    NoSilentDrop
CHECK_DEADLOCK FALSE
