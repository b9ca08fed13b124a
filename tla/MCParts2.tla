------------------------------ MODULE MCParts2 ------------------------------
(***************************************************************************)
(* SourceRegistry, OperatorRoutes, AgentTargets, InboxWatch, Timers,       *)
(* CronSchedule and GithubCiDigest, one at a time: they share nothing, and *)
(* the module that runs is chosen in the initial state.                    *)
(***************************************************************************)
EXTENDS SourceRegistry, OperatorRoutes, AgentTargets, InboxWatch, Timers, CronSchedule,
        TLC

CONSTANTS g1, g2, s1, s2, pane, window, tty, r1, r2, writer, watcher,
          c1, c2, k1, k2, h1, m1, m2, b1, f1, at1, every1, cron1,
          NoState

VARIABLES part,
    world, day, delivered, published, told, state, notice, alerted, stalled

\* Two workflows: a rerun with the other workflow late, a push that overtakes another,
\* and a workflow that is told complete before it has a conclusion.
Run(sha, workflow, run, made) ==
    [sha |-> sha, workflow |-> workflow, run |-> run, created |-> made]
Going(r, attempt, updated) ==
    r @@ [attempt |-> attempt, updated |-> updated, status |-> "in_progress",
          conclusion |-> "none"]
Ended(r, attempt, updated, conclusion) ==
    r @@ [attempt |-> attempt, updated |-> updated, status |-> "completed",
          conclusion |-> conclusion]
CiWorlds ==
    LET a1 == Run("A", 1, 1, 1)  a2 == Run("A", 2, 2, 1)  a3 == Run("A", 1, 3, 2)
        q1 == Run("B", 1, 4, 2)  q2 == Run("B", 2, 5, 2)  undated == Run("A", 3, 6, 0)
    IN  {{Going(a1, 1, 1), Ended(a1, 1, 1, "failure"), Going(a1, 2, 2),
          Ended(a1, 2, 2, "success"), Going(a2, 1, 1), Ended(a2, 1, 2, "failure")},
         {Going(a1, 1, 1), Ended(a1, 1, 2, "failure"), Going(a3, 1, 2),
          Ended(a3, 1, 3, "failure"), Ended(a2, 1, 1, "success"),
          Ended(undated, 1, 1, "failure")},
         {Going(a1, 1, 1), Ended(a1, 1, 3, "failure"), Ended(a2, 1, 1, "success"),
          Going(q1, 1, 2), Ended(q1, 1, 2, "success"), Ended(q2, 1, 2, "none"),
          Ended(q2, 1, 3, "success")}}
Ci == INSTANCE GithubCiDigest WITH
    Worlds <- CiWorlds, Expected <- {1, 2}, Timeout <- 1, MaxClock <- 3, clock <- day,
    acked <- told

\* Hours of two minutes, days of three hours, a month of three days and one of two.
CronExpressions ==
    [minute : {{}, {0}, {1}}, hour : {{}, {1}, {0, 2}}, dayOfMonth : {{}, {1}, {3}},
     month : {{}, {1}, {2}}, dayOfWeek : {{}, {0}}]
SteadyZones == {[change |-> 0, before |-> c, since |-> c] : c \in {0, 1}}

\* A pane of tmux that was started from the window, the window itself with its tty, and
\* that tty alone, whose window is not told.
Place(p, w, x) == [pane |-> p, window |-> w, tty |-> x]
AgentPlaces ==
    {Place(pane, window, Absent), Place(Absent, window, tty), Place(Absent, Absent, tty)}

\* A session derives the same names at all of them, the pane other ones than the window,
\* and the tty one alone.
AgentNames ==
    [x \in {"tmux", "iterm2"} \X {s1, s2, pane, window, tty} |->
        CASE x[2] \in {s1, s2, window} -> <<g1, g2>>
          [] x[2] = pane -> <<g2, g1>>
          [] OTHER -> <<g2>>]

\* The follow template has two sources of one host.
RegistryHosts == (k1 :> h1) @@ (k2 :> h1)
RegistryPlan == <<k1, k2>>

\* Two operators' messages, one naming its route and one taking its binding's.
OperatorChats == (m1 :> 1) @@ (m2 :> 2)
OperatorNamed == (m1 :> r1) @@ (m2 :> Unset)

\* A timer of each kind; what the cron expression allows is chosen among the minutes.
TimerMode == (at1 :> "at") @@ (every1 :> "every") @@ (cron1 :> "cron")
TimerTimes == [t \in {at1, every1, cron1} |-> 3]

ciVars == <<world, day, delivered, published, told, state, notice, alerted, stalled>>
partVars == <<part, ciVars, cronVars, agentVars, watchVars, registryVars, operatorVars,
              timerVars>>

InCi == part = "ci" /\ UNCHANGED
    <<part, cronVars, agentVars, watchVars, registryVars, operatorVars, timerVars>>
InCron == part = "cron" /\ UNCHANGED
    <<part, ciVars, agentVars, watchVars, registryVars, operatorVars, timerVars>>
InAgent == part = "agent" /\ UNCHANGED
    <<part, ciVars, cronVars, watchVars, registryVars, operatorVars, timerVars>>
InWatch == part = "watch" /\ UNCHANGED
    <<part, ciVars, cronVars, agentVars, registryVars, operatorVars, timerVars>>
InRegistry == part = "registry" /\ UNCHANGED
    <<part, ciVars, cronVars, agentVars, watchVars, operatorVars, timerVars>>
InOperator == part = "operator" /\ UNCHANGED
    <<part, ciVars, cronVars, agentVars, watchVars, registryVars, timerVars>>
InTimer == part = "timer" /\ UNCHANGED
    <<part, ciVars, cronVars, agentVars, watchVars, registryVars, operatorVars>>

\* A module that does not run starts in one of its initial states.
PartsInit ==
    /\ part \in {"ci", "cron", "agent", "watch", "registry", "operator",
               "timer"}
    /\ part # "ci" => world = CHOOSE w \in CiWorlds : TRUE
    /\ part # "cron" =>
          /\ cron = CHOOSE x \in CronExpressions : TRUE
          /\ zone = CHOOSE z \in SteadyZones : TRUE
          /\ after = 30 /\ goal = "next"
    /\ part # "timer" => slots = [t \in Timers |-> {}]
    /\ Ci!Init /\ CronInit /\ AgentInit /\ WatchInit /\ RegistryInit
    /\ OperatorInit /\ TimersInit

PartsNext ==
    \/ InCi /\ Ci!Next
    \/ InCron /\ CronNext
    \/ InAgent /\ AgentNext
    \/ InWatch /\ WatchNext
    \/ InRegistry /\ RegistryNext
    \/ InOperator /\ OperatorNext
    \/ InTimer /\ TimersNext

PartsSpec == PartsInit /\ [][PartsNext]_partVars

NoticesAreSound == Ci!NoticesAreSound
=============================================================================
