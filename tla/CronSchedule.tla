---------------------------- MODULE CronSchedule ----------------------------
(***************************************************************************)
(* The occurrences of a cron expression: the search for the next one, and  *)
(* the search for the last one missed, which uses it (nextCronOccurrence   *)
(* and lastOverdueCronOccurrence of src/service.ts).                       *)
(*                                                                         *)
(* The search jumps from field to field on the wall clock of the timer's   *)
(* time zone and back to an instant at each jump.  An instant is a number  *)
(* of minutes; calendar and clock are shorter than ours, with months that  *)
(* differ in length, and a zone changes its offset at most once.           *)
(***************************************************************************)
EXTENDS Integers, FiniteSets

CONSTANTS
    Minutes, Hours, Days, Months, Week,  \* minutes of an hour, hours of a day, the most days
                                         \* of a month, months of a year, days of a week
    Short,      \* the days of the last month
    Crons,      \* the expressions: per field the values, or {} for "*"
    Zones,      \* the zones: the instant of the change, the offsets before and after it
    Goals,      \* the searches made
    Starts,     \* the instants a search may start from
    MaxGap,     \* how long a process may have been down
    MaxGuard,   \* how many jumps the search takes
    NoTime      \* no instant

DayLength == Hours * Minutes
YearDays == (Months - 1) * Days + Short

\* What parseCronExpression lets pass.  Every month has each day of the week, and the
\* jumps are enough to look at each day of two years.
ASSUME CronAssumption ==
    /\ {Minutes, Hours, Days, Months, Week, Short, MaxGuard} \subseteq Nat \ {0}
    /\ Week <= Short /\ Short <= Days
    /\ Crons \subseteq [minute : SUBSET (0..(Minutes - 1)), hour : SUBSET (0..(Hours - 1)),
                        dayOfMonth : SUBSET (1..Days), month : SUBSET (1..Months),
                        dayOfWeek : SUBSET (0..(Week - 1))]
    /\ Zones \subseteq [change : Int, before : Int, since : Int]
    /\ Goals \subseteq {"next", "overdue"}
    /\ Starts \subseteq Int /\ MaxGap \in Nat
    /\ MaxGuard >= 2 * YearDays + 5
    /\ NoTime \notin Int

VARIABLES
    cron, zone,
    goal,       \* "next": the next occurrence; "overdue": the last one that was missed
    after,      \* where the search started: the next occurrence lies behind it
    until,      \* of an overdue search: the instant of the start
    candidate, guard,
    found,      \* NoTime while the search goes on
    last, step, \* of an overdue search: the last occurrence known, and the jump
    done

cronVars == <<cron, zone, goal, after, until, candidate, guard, found, last, step, done>>

-----------------------------------------------------------------------------
(* The calendar. *)

Offset(u) == IF u < zone.change THEN zone.before ELSE zone.since

\* A wall clock time as a number, as Date.UTC makes it: fields beyond their end carry.
Naive(year, month, day, hour, minute) ==
    ((year * YearDays + (month - 1) * Days + (day - 1)) * Hours + hour) * Minutes + minute

\* What the wall clock shows at a local time.
WallClock(n) ==
    LET hours == n \div Minutes
        days == hours \div Hours
        inYear == days % YearDays
    IN  [year |-> days \div YearDays,
         month |-> inYear \div Days + 1, day |-> (inYear % Days) + 1,
         hour |-> hours % Hours, minute |-> n % Minutes,
         dayOfWeek |-> days % Week]

\* zonedDateParts.
Zoned(u) == WallClock(u + Offset(u))

\* utcDateForZoned: the offset is taken at the instant the wall clock time would be in UTC.
UtcFor(n) == n - Offset(n)

-----------------------------------------------------------------------------
(* The expression. *)

Allows(values, v) == values = {} \/ v \in values

\* Both days restricted: either will do.
DayMatches(w) ==
    IF cron.dayOfMonth # {} /\ cron.dayOfWeek # {}
    THEN w.day \in cron.dayOfMonth \/ w.dayOfWeek \in cron.dayOfWeek
    ELSE Allows(cron.dayOfMonth, w.day) /\ Allows(cron.dayOfWeek, w.dayOfWeek)

Matches(w) ==
    /\ Allows(cron.month, w.month) /\ DayMatches(w)
    /\ Allows(cron.hour, w.hour) /\ Allows(cron.minute, w.minute)

Least(values) == CHOOSE v \in values : \A x \in values : v <= x

First(values, min) == IF values = {} THEN min ELSE Least(values)

\* The next allowed value of a field, or NoTime if none is left.
NextAllowed(values, v) ==
    IF values = {} THEN v
    ELSE IF \E x \in values : x >= v THEN Least({x \in values : x >= v}) ELSE NoTime

-----------------------------------------------------------------------------
(* The search for the next occurrence: a jump at a time. *)

CronInit ==
    /\ cron \in Crons /\ zone \in Zones
    /\ after \in Starts
    /\ goal \in Goals
    /\ until \in IF goal = "next" THEN {after} ELSE after..(after + MaxGap)
    /\ candidate = after + 1 /\ guard = 0 /\ found = NoTime
    /\ last = NoTime /\ step = 1 /\ done = FALSE

Here == Zoned(candidate)
NextMonth == NextAllowed(cron.month, Here.month)
NextHour == NextAllowed(cron.hour, Here.hour)
NextMinute == NextAllowed(cron.minute, Here.minute)
MonthFits == NextMonth = Here.month
HourFits == NextHour = Here.hour

Searching == found = NoTime /\ guard < MaxGuard /\ ~done

Jump(n) ==
    /\ candidate' = UtcFor(n) /\ guard' = guard + 1
    /\ UNCHANGED <<cron, zone, goal, after, until, found, last, step, done>>

ToNextYear ==
    /\ Searching /\ NextMonth = NoTime
    /\ Jump(Naive(Here.year + 1, First(cron.month, 1), 1, 0, 0))

ToMonth ==
    /\ Searching /\ NextMonth \notin {NoTime, Here.month}
    /\ Jump(Naive(Here.year, NextMonth, 1, 0, 0))

\* Into the next month when the month is over.
ToNextDay ==
    /\ Searching /\ MonthFits /\ ~DayMatches(Here)
    /\ Jump(Naive(Here.year, Here.month, Here.day + 1, 0, 0))

ToNextDaysHour ==
    /\ Searching /\ MonthFits /\ DayMatches(Here) /\ NextHour = NoTime
    /\ Jump(Naive(Here.year, Here.month, Here.day + 1, First(cron.hour, 0), 0))

ToHour ==
    /\ Searching /\ MonthFits /\ DayMatches(Here) /\ NextHour \notin {NoTime, Here.hour}
    /\ Jump(Naive(Here.year, Here.month, Here.day, NextHour, 0))

ToNextHoursMinute ==
    /\ Searching /\ MonthFits /\ DayMatches(Here) /\ HourFits /\ NextMinute = NoTime
    /\ Jump(Naive(Here.year, Here.month, Here.day, Here.hour + 1, First(cron.minute, 0)))

ToMinute ==
    /\ Searching /\ MonthFits /\ DayMatches(Here) /\ HourFits
    /\ NextMinute \notin {NoTime, Here.minute}
    /\ Jump(Naive(Here.year, Here.month, Here.day, Here.hour, NextMinute))

Find ==
    /\ Searching /\ Matches(Here)
    /\ found' = candidate
    /\ UNCHANGED <<cron, zone, goal, after, until, candidate, guard, last, step, done>>

-----------------------------------------------------------------------------
(* The search for the last overdue occurrence: it probes ahead in growing jumps.  Its *)
(* own limit, 1,000 probes, is left out: a few for each bit of the gap are enough. *)

\* A plausible slip: the probe starts at the edge and misses what is on it.
EdgeExcluded(t, length) == t + length + 1

\* The instants a probe searches from: strictly inside the jump, so that an occurrence on
\* its edge is found.
Edge(t, length) == t + length

ProbeFrom(t, length) ==
    /\ last' = t /\ step' = length
    /\ candidate' = IF Edge(t, length) <= until THEN Edge(t, length) ELSE until + 1
    /\ guard' = 0 /\ found' = NoTime
    /\ UNCHANGED <<cron, zone, goal, after, until, done>>

Finish ==
    /\ done' = TRUE
    /\ UNCHANGED <<cron, zone, goal, after, until, candidate, guard, found, last, step>>

\* The first occurrence is the nextFireAt of the timer; only an overdue one is searched
\* from.
FirstMissed == /\ found # NoTime /\ ~done /\ goal = "overdue" /\ last = NoTime
               /\ IF found <= until THEN ProbeFrom(found, 1) ELSE Finish

Ahead == /\ found # NoTime /\ ~done /\ last # NoTime /\ found <= until
         /\ ProbeFrom(found, 2 * step)

\* Nothing before the start of the process, or nothing at all.
Back == /\ ~done /\ last # NoTime
        /\ IF found = NoTime THEN guard = MaxGuard ELSE found > until
        /\ IF step = 1 THEN Finish ELSE ProbeFrom(last, step \div 2)

NextFound == found # NoTime /\ ~done /\ goal = "next" /\ Finish

CronNext ==
    \/ ToNextYear \/ ToMonth \/ ToNextDay \/ ToNextDaysHour \/ ToHour \/ ToNextHoursMinute
    \/ ToMinute \/ Find \/ FirstMissed \/ Ahead \/ Back \/ NextFound

CronSpec == CronInit /\ [][CronNext]_cronVars

-----------------------------------------------------------------------------
(* Properties *)

Occurs(u) == Matches(Zoned(u))

\* The search finds the next instant the expression allows, however it jumps: it passes
\* none, and gives up only on a date no year has; and a timer that slept through many
\* occurrences is due at the last of them.
SearchIsExact ==
    /\ guard = MaxGuard /\ found = NoTime =>
          \A u \in (after + 1)..(after + 2 * YearDays * DayLength) : ~Occurs(u)
    /\ done /\ goal = "next" =>
          found > after /\ Occurs(found) /\ \A u \in (after + 1)..(found - 1) : ~Occurs(u)
    /\ done /\ goal = "overdue" /\ last # NoTime =>
          last \in after..until /\ Occurs(last) /\ \A u \in (last + 1)..until : ~Occurs(u)

\* src/service.ts:5387: "Cron occurrences are minute-aligned and at least one minute
\* apart".  Violated where the offset of the zone changes: a jump of the search lands
\* before where it started, and the next occurrence is one that is over.
OccurrencesAdvance == done /\ goal = "next" => found > after
=============================================================================
