SPECIFICATION PartsSpec
CONSTANTS
    Clients = {c1, c2}
    HostOf <- RegistryHosts
    Plan <- RegistryPlan
    Messages = {m1, m2}
    ChatOf <- OperatorChats
    Named <- OperatorNamed
    Bindings = {b1}
    Agents = {g1}
    Sources = {f1}
    Routes = {r1, r2}
    MaxBinds = 2
    MaxReplies = 2
    Unset = Unset
    AgentIds = {g1, g2}
    Sessions = {s1, s2}
    Places <- AgentPlaces
    Names <- AgentNames
    Ttl = 1
    MaxClock = 1
    MaxTargets = 3
    MaxFlights = 1
    MaxOps = 3
    Absent = Absent
    MaxIds = 5
    MaxRequests = 3
    MaxCrashes = 1
    g1 = g1
    g2 = g2
    s1 = s1
    s2 = s2
    pane = pane
    window = window
    tty = tty
    r1 = r1
    r2 = r2
    writer = writer
    watcher = watcher
    c1 = c1
    c2 = c2
    k1 = k1
    k2 = k2
    h1 = h1
    m1 = m1
    m2 = m2
    b1 = b1
    f1 = f1
    at1 = at1
    every1 = every1
    cron1 = cron1
    NoState = NoState
    Never = Never
    Minutes = 2
    Hours = 3
    Days = 3
    Months = 2
    Week = 2
    Short = 2
    Crons <- CronExpressions
    Zones <- SteadyZones
    Goals = {"next", "overdue"}
    Starts = {30, 41, 59}
    MaxGap = 6
    MaxGuard = 25
    NoTime = NoTime
    Timers = {at1, every1, cron1}
    Mode <- TimerMode
    At <- TimerTimes
    Interval <- TimerTimes
    Minute = 2
    MaxDelay = 4
    MaxTime = 6
    MaxStarts = 2
    MaxChanges = 3
    Writers = {writer}
    Watchers = {watcher}
    BatchSize = 2
    MaxEntries = 3
    MaxOpens = 2
    MaxOutages = 1
    None = None
INVARIANTS
    SearchIsExact
    WatchIsSound
    RegistryIsSound
    RoutesAreSound
    TimersKeepTime
PROPERTIES
    NoticesAreSound
    BindingsAreSound
    RollbackTakesItsOwn
    RecoversByMode
CHECK_DEADLOCK FALSE
