SPECIFICATION FairSpec
CONSTANTS
    hook = hook
    term = term
    e1 = e1
    e2 = e2
    e3 = e3
    s1 = s1
    s2 = s2
    NoSub = NoSub
    Targets <- OneHook
    Terminals = {}
    Entries = {e1, e2}
    Subs = {}
    SubOf <- AllDirect
    Thresholds = {1}
    MaxItems = 2
    MaxPauses = 1
    MaxCrashes = 0
    MaxOps = 2
PROPERTY
    NeverStuck
CHECK_DEADLOCK FALSE
