SPECIFICATION Spec
CONSTANTS
    hook = hook
    term = term
    e1 = e1
    e2 = e2
    e3 = e3
    s1 = s1
    s2 = s2
    NoSub = NoSub
    Targets <- OneHook
    Terminals = {}
    Entries = {e1, e2}
    Subs = {s1, s2}
    SubOf <- SiblingEntries
    Thresholds = {1}
    MaxItems = 2
    MaxPauses = 0
    MaxCrashes = 0
    MaxOps = 2
PROPERTY
    SiblingsStayPending
CHECK_DEADLOCK FALSE
