------------------------------- MODULE Timers -------------------------------
(***************************************************************************)
(* The timers of the agents (src/service.ts, src/store.ts): one-shot (at), *)
(* interval (every) and cron.  One timeout waits for the nearest of them;  *)
(* when it expires every due timer fires: its message becomes an inbox     *)
(* item, named by the timer and the slot, and the timer is moved on.  A    *)
(* stop or a crash loses the timeout, and the start recovers what was due  *)
(* meanwhile by mode.  A pass over the due timers awaits nothing outside   *)
(* the process, so no request comes between; a crash may.                  *)
(***************************************************************************)
EXTENDS Integers, FiniteSets, FiniteSetsExt

CONSTANTS
    Timers,      \* the timers that may be registered
    Mode,        \* Timers -> "at", "every" or "cron"
    At,          \* Timers -> the instant of a one-shot timer
    Interval,    \* Timers -> that of an interval timer
    Minute,      \* the granularity of cron slots; time is finer than it
    MaxDelay,    \* the longest delay setTimeout takes: a longer one expires at once
    Never,       \* no instant
    MaxTime,     \* the end of time: there are no slots after it
    MaxStarts,   \* bound on starts of the process
    MaxChanges   \* bound on requests that pause, resume or remove

Times == 0..MaxTime
MinuteSlots == {s \in Times : s > 0 /\ s % Minute = 0}

ASSUME TimersAssumption ==
    /\ Mode \in [Timers -> {"at", "every", "cron"}]
    /\ At \in [Timers -> Times] /\ Interval \in [Timers -> Nat \ {0}]
    /\ Minute \in Nat \ {0} /\ {MaxDelay, MaxTime} \subseteq Nat
    /\ Never \notin Int

VARIABLES
    slots,     \* the slots of the cron expression of a timer
    timer,     \* the rows: status, next_fire_at, last_fired_at; "none" without one
    fired,     \* the inbox items: how many there are of a timer and a slot
    wake,      \* the instant the timeout expires
    up,        \* whether the process runs
    now, starts, changes

timerVars == <<slots, timer, fired, wake, up, now, starts, changes>>

NoTimer == [status |-> "none", next |-> Never, last |-> Never]
Active(t) == timer[t].status = "active" /\ timer[t].next # Never

TimersTypeOK ==
    /\ slots \in [Timers -> SUBSET MinuteSlots]
    /\ timer \in [Timers -> [status : {"none", "active", "paused"},
                            next : Times \cup {Never}, last : Times \cup {Never}]]
    /\ fired \in [Timers \X Times -> Nat]
    /\ wake \in Times \cup {Never}
    /\ up \in BOOLEAN
    /\ now \in Times

-----------------------------------------------------------------------------
(* When a timer fires next *)

In(t) == IF t <= MaxTime THEN t ELSE Never

\* nextCronOccurrence: the first slot after an instant.
NextSlot(t, from) == LET later == {s \in slots[t] : s > from}
                     IN  IF later = {} THEN Never ELSE Min(later)

\* computeNextTimerFire, from an instant and the last fire.
NextFire(t, from, last) ==
    CASE Mode[t] = "at"    -> IF last = Never THEN At[t] ELSE Never
      [] Mode[t] = "every" -> In((IF last # Never /\ last > from THEN last ELSE from) + Interval[t])
      [] Mode[t] = "cron"  -> NextSlot(t, from)

\* Mutation: the first miss ends the search.
ProbeForward(t, p) ==
    LET s == NextSlot(t, Min({p.slot + p.step - 1, now}))
    IN  IF s # Never /\ s <= now THEN [p EXCEPT !.slot = s, !.step = 2 * @]
        ELSE [p EXCEPT !.done = TRUE]

\* One probe of lastOverdueCronOccurrence: just inside the next jump from the newest
\* slot known.  A hit doubles the jump, a miss halves it.
Probe(t, p) ==
    LET s == NextSlot(t, Min({p.slot + p.step - 1, now}))
    IN  IF s # Never /\ s <= now THEN [p EXCEPT !.slot = s, !.step = 2 * @]
        ELSE IF p.step <= Minute THEN [p EXCEPT !.done = TRUE]
        ELSE [p EXCEPT !.step = @ \div 2]

LastOverdue(t, first) ==
    LET probes[i \in 0..(4 * MaxTime)] ==
            IF i = 0 THEN [slot |-> first, step |-> Minute, done |-> FALSE]
            ELSE LET p == probes[i - 1] IN IF p.done THEN p ELSE Probe(t, p)
    IN  probes[4 * MaxTime].slot

\* refreshTimersOnStart: an overdue cron slot is caught up once, at the latest one
\* missed; an overdue at stays due; an interval starts again from now.
Recovered(t) ==
    IF timer[t].status # "active" THEN timer[t]
    ELSE LET next == IF Mode[t] = "cron" /\ timer[t].next # Never /\ timer[t].next <= now
                     THEN LastOverdue(t, timer[t].next)
                     ELSE IF Mode[t] = "every" THEN In(now + Interval[t])
                     ELSE NextFire(t, now, timer[t].last)
         IN  [timer[t] EXCEPT !.next = next,
                              !.status = IF next = Never THEN "paused" ELSE "active"]

\* rescheduleTimerSync, for the rows as they are after a step.
Nearest(rows) ==
    LET due == {rows[t].next : t \in {u \in Timers : rows[u].status = "active"}} \ {Never}
    IN  IF due = {} THEN Never
        ELSE IF Min(due) > now + MaxDelay THEN now
        ELSE IF Min(due) < now THEN now ELSE Min(due)

-----------------------------------------------------------------------------
(* Requests *)

Reschedule == wake' = Nearest(timer')

Set(t, row) == timer' = [timer EXCEPT ![t] = row]

RowFor(t, next, last) ==
    [status |-> IF next = Never THEN "paused" ELSE "active", next |-> next, last |-> last]

RegisterTimer(t) ==
    /\ up /\ timer[t].status = "none" /\ changes < MaxChanges
    /\ Set(t, RowFor(t, NextFire(t, now, Never), Never))
    /\ Reschedule
    /\ changes' = changes + 1
    /\ UNCHANGED <<slots, fired, up, now, starts>>

PauseTimer(t) ==
    /\ up /\ timer[t].status # "none" /\ changes < MaxChanges
    /\ Set(t, [timer[t] EXCEPT !.status = "paused", !.next = Never])
    /\ Reschedule
    /\ changes' = changes + 1
    /\ UNCHANGED <<slots, fired, up, now, starts>>

\* A one-shot timer that has fired is refused.
Resumable(t) == timer[t].status # "none" /\ ~(Mode[t] = "at" /\ timer[t].last # Never)

\* Mutation: a resumed timer waits for the next change of any timer.
RescheduleLater == UNCHANGED wake

RescheduleResumed == wake' = Nearest(timer')

ResumeTimer(t) ==
    /\ up /\ Resumable(t) /\ changes < MaxChanges
    /\ Set(t, RowFor(t, NextFire(t, now, timer[t].last), timer[t].last))
    /\ RescheduleResumed
    /\ changes' = changes + 1
    /\ UNCHANGED <<slots, fired, up, now, starts>>

\* removeTimer, and the timers of an agent that is removed.
RemoveTimer(t) ==
    /\ up /\ timer[t].status # "none" /\ changes < MaxChanges
    /\ Set(t, NoTimer)
    /\ Reschedule
    /\ changes' = changes + 1
    /\ UNCHANGED <<slots, fired, up, now, starts>>

-----------------------------------------------------------------------------
(* syncTimers *)

Due == {t \in Timers : Active(t) /\ timer[t].next <= now}

\* Mutation: every fire is an item of its own.
OneMore(n) == n + 1

\* insertInboxItem: an item with this name is there already, or is inserted.
Once(n) == 1

FiredWith(set) ==
    [x \in Timers \X Times |->
        IF x[1] \in set /\ x[2] = timer[x[1]].next THEN Once(fired[x]) ELSE fired[x]]

\* fireTimer moves the timer on from the slot, not from now: slots that passed while
\* nothing ran fire one by one.
Moved(set) ==
    [t \in Timers |->
        IF t \notin set THEN timer[t]
        ELSE RowFor(t, NextFire(t, timer[t].next, timer[t].next), now)]

SyncTimers ==
    /\ up /\ wake # Never /\ wake <= now
    /\ fired' = FiredWith(Due)
    /\ timer' = Moved(Due)
    /\ Reschedule
    /\ UNCHANGED <<slots, up, now, starts, changes>>

\* A crash within the pass: some timers are done, and one may have its item only.
CrashInSync(set, cut) ==
    /\ up /\ wake # Never /\ wake <= now
    /\ set \subseteq Due /\ cut \subseteq Due \ set /\ Cardinality(cut) <= 1
    /\ fired' = FiredWith(set \cup cut)
    /\ timer' = Moved(set)
    /\ up' = FALSE /\ wake' = Never
    /\ UNCHANGED <<slots, now, starts, changes>>

\* stop, or a crash between passes
Stop ==
    /\ up /\ up' = FALSE /\ wake' = Never
    /\ UNCHANGED <<slots, timer, fired, now, starts, changes>>

\* start ends with a pass over what is due.
Start ==
    /\ ~up /\ starts < MaxStarts
    /\ up' = TRUE /\ wake' = now
    /\ timer' = [t \in Timers |-> Recovered(t)]
    /\ starts' = starts + 1
    /\ UNCHANGED <<slots, fired, now, changes>>

Pass ==
    /\ now < MaxTime /\ now' = now + 1
    /\ UNCHANGED <<slots, timer, fired, wake, up, starts, changes>>

TimersInit ==
    /\ slots \in [Timers -> SUBSET MinuteSlots]
    /\ \A t \in Timers : Mode[t] # "cron" => slots[t] = {}
    /\ timer = [t \in Timers |-> NoTimer]
    /\ fired = [x \in Timers \X Times |-> 0]
    /\ wake = Never /\ up = FALSE /\ now = 0 /\ starts = 0 /\ changes = 0

TimersNext ==
    \/ \E t \in Timers : RegisterTimer(t) \/ PauseTimer(t) \/ ResumeTimer(t) \/ RemoveTimer(t)
    \/ SyncTimers \/ Stop \/ Start \/ Pass
    \/ \E set, cut \in SUBSET Timers : CrashInSync(set, cut)

TimersSpec == TimersInit /\ [][TimersNext]_timerVars

-----------------------------------------------------------------------------
(* Properties *)

\* While the process runs no active timer is due before the timeout expires: every
\* change of a timer moves the timeout too, and a start looks at once.
WakesInTime == up => \A t \in Timers : Active(t) =>
                   wake # Never /\ (wake <= timer[t].next \/ wake <= now)

\* A slot becomes one inbox item, although a fire that a crash cut is tried again.
SlotsFireOnce == \A x \in Timers \X Times : fired[x] <= 1

\* Both, and the types: nothing that is due is slept over, and nothing is fired twice.
TimersKeepTime == TimersTypeOK /\ WakesInTime /\ SlotsFireOnce

\* docs/site/reference/http-api.md:187: after a start an overdue one-shot timer is still
\* due, an overdue cron timer is due at the most recent slot it missed and at no other,
\* and an interval timer is not overdue.
RecoversByMode ==
    [][Start => \A t \in Timers :
        (Active(t) /\ timer[t].next <= now) =>
            CASE Mode[t] = "at"    -> timer'[t] = timer[t]
              [] Mode[t] = "every" -> timer'[t].next \notin 0..now
              [] Mode[t] = "cron"  -> timer'[t].next = Max({s \in slots[t] : s <= now})]_timerVars
=============================================================================
