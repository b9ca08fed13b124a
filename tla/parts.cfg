SPECIFICATION PartsSpec
CONSTANTS
    Subs = {a, b}
    Members <- PairMembers
    Policy <- SubPolicy
    Deadline = 1
    RetireTime <- Graces
    MaxClock = 1
    MaxEvents = 2
    MaxOps = 1
    MaxCrashes = 1
    Skipped = {2}
    Limit = 2
    MaxFeed = 3
    MaxRequests = 2
    MaxFailures = 1
    MaxRestarts = 1
    Servers = {p, q, r}
    Cleaners = {s, t}
    Stopping = {s}
    MaxKills = 1
    Targets <- GateTargets
    MaxChanges = 2
    NoFile = NoFile
    Versions = {1, 2, 3}
    Keep = 1
    MaxWork = 2
    MaxDamages = 2
    MaxStoreCrashes = 1
    MaxBackups = 3
    a = a
    b = b
    p = p
    q = q
    r = r
    s = s
    t = t
    NoRow = NoRow
    e1 = e1
    e2 = e2
    r1 = r1
    r2 = r2
    None = None
    NoBody = NoBody
    Emails = {e1, e2}
    Readers = {r1, r2}
    Carried <- BodyCarried
    Fetchable = {e1, e2}
    Size <- BodySize
    Boundaries = {0, 2, 3}
    Pages = {1, 2}
    Budget = 6
    MaxReads = 3
    MaxFaults = 1
INVARIANTS
    EndsAreComplete
    LogFollowsProvider
    GateIsSound
    DaemonIsSound
    StoreIsSound
    ReadsAreSound
PROPERTIES
    RetirementNeverPostponed
CHECK_DEADLOCK FALSE
