----------------------- MODULE SubscriptionLifecycle -----------------------
(***************************************************************************)
(* The subscriptions of one managed source: how they are registered, alone *)
(* or as the members of a shortcut or follow template, removed, retired by *)
(* a deadline or by a terminal event of the resource they track, and what  *)
(* the source does when the last of them is gone: it becomes idle, and is  *)
(* paused after a grace period (src/service.ts, src/store.ts).             *)
(*                                                                         *)
(* Requests, the polls of the sync interval and the collection pass run in *)
(* one process and interleave at every await: each action is the code      *)
(* between two of them.  What follows an await is decided by what is read  *)
(* after it, and by what the code kept from before (gcPass.row, poll[s],   *)
(* srcOp.list).  Everything else a subscription has, its notification      *)
(* buffers, its events and its inbox, is in the other modules.             *)
(***************************************************************************)
EXTENDS Naturals, Sequences, FiniteSets

CONSTANTS
    Subs,        \* the subscriptions that may be registered, one attempt each
    Members,     \* those the shortcut or follow template expands to, in order
    Policy,      \* Subs -> the mode of the cleanup policy
    Deadline,    \* the instant of a policy with mode "at"
    RetireTime,  \* terminal events -> the instant their grace period ends
    NoRow,       \* no row in the table
    MaxClock,    \* the end of time: what is due later is due then
    MaxEvents,   \* bound on the events of the source's stream
    MaxOps,      \* bound on operator requests to the source or the agent
    MaxCrashes   \* bound on restarts of the process

Terminal == DOMAIN RetireTime
\* "poison": its processing throws.  Other events leave no trace here.
Kinds == Terminal \cup {"poison"}

ASSUME ConstantsAssumption ==
    /\ Members \in Seq(Subs)
    /\ \A s \in Subs : Policy[s] \in {"manual", "at", "on_terminal"}
    /\ Deadline \in 0..MaxClock
    /\ RetireTime \in [Terminal -> 0..MaxClock]
    /\ NoRow \notin Nat
    /\ {MaxClock, MaxEvents, MaxOps, MaxCrashes} \subseteq Nat

VARIABLES
    source,    \* sources.status: running (active or error), paused; or gone
    idle,      \* source_idle_states: the instant of the auto pause, or auto-paused
    agent,     \* whether the agent is registered
    subs,      \* subscriptions: the rows there are
    consumer,  \* consumers: the next offset of a subscription, 0 without a row
    retire,    \* subscription_lifecycle_retirements: retire_at
    log,       \* the kinds of the events of the source's stream
    reg,       \* the registration of each subscription, by the await it is at
    group,     \* the expanded registration that registers Members in turn
    removing,  \* subscriptions whose consumer is deleted and whose row is next
    poll,      \* the poll of each subscription
    srcOp,     \* the operator request on the source that awaits the runtime
    gcPass,    \* the collection pass, while it awaits the pause of the source
    clock, ops, crashes

vars == <<source, idle, agent, subs, consumer, retire, log, reg, group,
          removing, poll, srcOp, gcPass, clock, ops, crashes>>
rows == <<source, idle, agent, subs, consumer, retire, log>>
procs == <<reg, group, removing, poll, srcOp, gcPass>>

IdleRows == [at: 0..MaxClock, auto: BOOLEAN]
Polls == [at: {"none", "read", "commit", "schedule", "lost"},
          through: 0..MaxEvents, signal: 0..MaxClock \cup {NoRow}]
SrcOps == [at: {"none", "pause", "resume", "rmPause", "rmSubs", "rmDelete"}, list: SUBSET Subs]
Passes == [at: {"none", "pause"}, row: IdleRows \cup {NoRow}]
NoPoll == [at |-> "none", through |-> 0, signal |-> NoRow]
NoOp == [at |-> "none", list |-> {}]
NoPass == [at |-> "none", row |-> NoRow]

RegSteps == {"none", "validate", "resume", "consume", "finish",
             "done", "failed"}

TypeOK ==
    /\ source \in {"running", "paused", "gone"}
    /\ idle \in IdleRows \cup {NoRow}
    /\ agent \in BOOLEAN
    /\ subs \subseteq Subs
    /\ consumer \in [Subs -> 0..MaxEvents + 1]
    /\ retire \in [Subs -> 0..MaxClock \cup {NoRow}]
    /\ log \in Seq(Kinds) /\ Len(log) <= MaxEvents
    /\ reg \in [Subs -> RegSteps]
    /\ group \in {"none", "running", "rollback", "done", "failed", "cut"}
    /\ removing \subseteq Subs
    /\ poll \in [Subs -> Polls]
    /\ srcOp \in SrcOps
    /\ gcPass \in Passes
    /\ clock \in 0..MaxClock
    /\ ops \in 0..MaxOps
    /\ crashes \in 0..MaxCrashes

\* The tables are empty and no operation is under way.
Nothing ==
    /\ source = "running" /\ idle = NoRow
    /\ subs = {} /\ consumer = [s \in Subs |-> 0] /\ retire = [s \in Subs |-> NoRow]
    /\ removing = {}
    /\ poll = [s \in Subs |-> NoPoll] /\ srcOp = NoOp /\ gcPass = NoPass
    /\ group = "none" /\ clock = 0

Init ==
    /\ Nothing /\ log = <<>> /\ agent = TRUE /\ reg = [s \in Subs |-> "none"]
    /\ ops = 0 /\ crashes = 0

-----------------------------------------------------------------------------
(* The tables. *)

Cap(t) == IF t > MaxClock THEN MaxClock ELSE t

\* refreshSourceIdleState: only a source that runs and has no subscription is idle.
IdleAfter(status, rest) ==
    IF status = "running" /\ rest = {}
    THEN [at |-> Cap(clock + 1), auto |-> FALSE] ELSE NoRow

\* deleteSubscription and clearSubscriptionRuntimeState: with the rows go their
\* retirements.
RetireWithout(gone) == [s \in Subs |-> IF s \in gone THEN NoRow ELSE retire[s]]

ConsumersWithout(gone) == [s \in Subs |-> IF s \in gone THEN 0 ELSE consumer[s]]

Delete(gone) ==
    /\ subs' = subs \ gone
    /\ consumer' = ConsumersWithout(gone)
    /\ retire' = RetireWithout(gone)

\* Mutation: the later of two retirements wins.
LaterOf(a, b) == IF a = NoRow \/ b > a THEN b ELSE a

\* upsertSubscriptionLifecycleRetirement keeps the earlier of two retirements.
EarlierOf(a, b) == IF a = NoRow \/ b < a THEN b ELSE a

-----------------------------------------------------------------------------
(* registerSingleSubscription *)

\* The agent must be able to be notified and the source must exist; then the
\* filter is evaluated once.
StartRegister(s) ==
    /\ reg[s] = "none" /\ agent /\ source # "gone"
    /\ reg' = [reg EXCEPT ![s] = "validate"]
    /\ UNCHANGED <<rows, group, removing, poll, srcOp, gcPass, clock, ops, crashes>>

\* A registration of its own.
Register(s) == group = "none" /\ StartRegister(s)

\* insertSubscription, and ensureStreamForSource up to its first await: the row
\* is inserted whatever has become of the source and of the agent.
InsertRow(s) ==
    /\ subs' = subs \cup {s}
    /\ reg' = [reg EXCEPT ![s] = "consume"]

\* normalizeSubscriptionRegistrationInput returns: an auto-paused source is
\* resumed first, any other idle row is dropped.
Validated(s) ==
    /\ reg[s] = "validate"
    /\ IF idle # NoRow /\ idle.auto
       THEN /\ reg' = [reg EXCEPT ![s] = "resume"]
            /\ UNCHANGED <<subs, idle>>
       ELSE InsertRow(s) /\ idle' = NoRow
    /\ UNCHANGED <<source, agent, consumer, retire, log, group, removing, poll,
                   srcOp, gcPass, clock, ops, crashes>>

\* The filter or the cleanup policy is rejected, or the source does not resume.
RegisterRefused(s) ==
    /\ reg[s] \in {"validate", "resume"}
    /\ reg' = [reg EXCEPT ![s] = "failed"]
    /\ UNCHANGED <<rows, group, removing, poll, srcOp, gcPass, clock, ops, crashes>>

\* resumeSource returns: the source is active again and no longer idle, and the row
\* is inserted.  When it was removed meanwhile the lookup at the end throws.
ResumedForRegister(s) ==
    /\ reg[s] = "resume"
    /\ source' = IF source = "paused" THEN "running" ELSE source
    /\ idle' = NoRow
    /\ IF source = "gone"
       THEN reg' = [reg EXCEPT ![s] = "failed"] /\ UNCHANGED subs
       ELSE InsertRow(s)
    /\ UNCHANGED <<agent, consumer, retire, log, group, removing, poll, srcOp,
                   gcPass, clock, ops, crashes>>

\* ensureConsumer: the start policy is "latest" for a registration, and an existing
\* consumer is kept.
WithConsumer(s) ==
    [consumer EXCEPT ![s] = IF consumer[s] = 0 THEN Len(log) + 1 ELSE consumer[s]]

\* A poll that has read from an earlier consumer of the subscription does not find it.
ConsumeForRegister(s) ==
    /\ reg[s] = "consume"
    /\ consumer' = WithConsumer(s)
    /\ reg' = [reg EXCEPT ![s] = "finish"]
    /\ poll' = IF consumer[s] = 0 /\ poll[s].at = "commit"
               THEN [poll EXCEPT ![s].at = "lost"] ELSE poll
    /\ UNCHANGED <<source, idle, agent, subs, retire, log, group, removing,
                   srcOp, gcPass, clock, ops, crashes>>

\* Mutation: the row of a failed registration stays.
FailKeepingRow(s) ==
    /\ reg[s] = "consume"
    /\ reg' = [reg EXCEPT ![s] = "failed"]
    /\ UNCHANGED <<rows, group, removing, poll, srcOp, gcPass, clock, ops, crashes>>

\* The stream or the consumer cannot be had: the row is taken back.
RegisterUndone(s) ==
    /\ reg[s] = "consume"
    /\ Delete({s})
    /\ idle' = IdleAfter(source, subs \ {s})
    /\ reg' = [reg EXCEPT ![s] = "failed"]
    /\ UNCHANGED <<source, agent, log, group, removing, poll, srcOp, gcPass,
                   clock, ops, crashes>>

FinishRegister(s) ==
    /\ reg[s] = "finish"
    /\ idle' = NoRow
    /\ reg' = [reg EXCEPT ![s] = "done"]
    /\ UNCHANGED <<source, agent, subs, consumer, retire, log, group, removing,
                   poll, srcOp, gcPass, clock, ops, crashes>>

-----------------------------------------------------------------------------
(* registerExpandedShortcutSubscriptions and follow: the members one after      *)
(* another, and all of the created ones removed again when one of them fails.   *)

MemberSet == {Members[i] : i \in 1..Len(Members)}
Created == {s \in MemberSet : reg[s] = "done"}
MemberFailed == \E s \in MemberSet : reg[s] = "failed"

StartGroup ==
    /\ group = "none" /\ Members # <<>> /\ source # "gone"
    /\ \A s \in MemberSet : reg[s] = "none"
    /\ group' = "running"
    /\ UNCHANGED <<rows, reg, removing, poll, srcOp, gcPass, clock, ops, crashes>>

RegisterMember(i) ==
    /\ group = "running"
    /\ \A j \in 1..(i - 1) : reg[Members[j]] = "done"
    /\ StartRegister(Members[i])

\* The checks of the next member throw: its agent or its source is gone.
MemberRefused(i) ==
    /\ group = "running" /\ reg[Members[i]] = "none"
    /\ \A j \in 1..(i - 1) : reg[Members[j]] = "done"
    /\ ~agent \/ source = "gone"
    /\ reg' = [reg EXCEPT ![Members[i]] = "failed"]
    /\ UNCHANGED <<rows, group, removing, poll, srcOp, gcPass, clock, ops, crashes>>

\* Mutation: the first failure is reported without a rollback.
GroupGivesUp == IF MemberFailed THEN "failed" ELSE "done"

GroupOutcome == IF MemberFailed THEN "rollback" ELSE "done"

GroupEnds ==
    /\ group = "running"
    /\ MemberFailed \/ Created = MemberSet
    /\ group' = GroupOutcome
    /\ UNCHANGED <<rows, reg, removing, poll, srcOp, gcPass, clock, ops, crashes>>

-----------------------------------------------------------------------------
(* removeSubscription: the consumer, an await, the row. *)

Removable(s) == s \in subs /\ s \notin removing

StartRemove(s) ==
    /\ consumer' = [consumer EXCEPT ![s] = 0]
    /\ removing' = removing \cup {s}

RemoveSubscription(s) ==
    /\ Removable(s) /\ ops < MaxOps
    /\ StartRemove(s)
    /\ ops' = ops + 1
    /\ UNCHANGED <<source, idle, agent, subs, retire, log, reg, group, poll,
                   srcOp, gcPass, clock, crashes>>

RemoveRow(s) ==
    /\ s \in removing
    /\ removing' = removing \ {s}
    /\ subs' = subs \ {s}
    /\ consumer' = IF s \in subs THEN ConsumersWithout({s}) ELSE consumer
    /\ retire' = RetireWithout({s})
    /\ idle' = IdleAfter(source, subs \ {s})
    /\ UNCHANGED <<source, agent, log, reg, group, poll, srcOp, gcPass, clock,
                   ops, crashes>>

\* rollbackRegisteredSubscriptions: what is gone already only warns.
Rollback(s) ==
    /\ group = "rollback" /\ s \in Created /\ Removable(s)
    /\ StartRemove(s)
    /\ UNCHANGED <<source, idle, agent, subs, retire, log, reg, group, poll,
                   srcOp, gcPass, clock, ops, crashes>>

RollbackEnds ==
    /\ group = "rollback" /\ Created \cap subs = {}
    /\ group' = "failed"
    /\ UNCHANGED <<rows, reg, removing, poll, srcOp, gcPass, clock, ops, crashes>>

-----------------------------------------------------------------------------
(* pollSubscription, as far as it touches subscriptions, consumers and their    *)
(* retirements.  The sync interval polls every subscription in turn.            *)

Arrive(k) ==
    /\ source = "running" /\ Len(log) < MaxEvents
    /\ log' = Append(log, k)
    /\ UNCHANGED <<source, idle, agent, subs, consumer, retire, procs, clock, ops, crashes>>

\* Mutation: only what has a consumer is polled.
PollStartConsumed(s) ==
    /\ s \in subs /\ poll[s].at = "none" /\ source # "gone" /\ consumer[s] # 0
    /\ poll' = [poll EXCEPT ![s].at = "read"]
    /\ UNCHANGED <<rows, reg, group, removing, srcOp, gcPass, clock, ops, crashes>>

PollStart(s) ==
    /\ s \in subs /\ poll[s].at = "none" /\ source # "gone"
    /\ poll' = [poll EXCEPT ![s].at = "read"]
    /\ UNCHANGED <<rows, reg, group, removing, srcOp, gcPass, clock, ops, crashes>>

\* The batch ends with the log, or with the first event whose processing throws.
PoisonIn(from) == {i \in from..Len(log) : log[i] = "poison"}
Through(from) ==
    IF PoisonIn(from) = {} THEN Len(log)
    ELSE CHOOSE i \in PoisonIn(from) : \A j \in PoisonIn(from) : i <= j

\* collectLifecycleSignal: of several terminal events of the resource, the latest.
SignalOf(from, through) ==
    LET at == {RetireTime[log[i]] : i \in {j \in from..through : log[j] \in Terminal}}
    IN  IF at = {} THEN NoRow ELSE CHOOSE t \in at : \A u \in at : u <= t

\* The consumer is ensured, for a subscription that may have been removed since, and
\* its batch is read and processed.
PollRead(s) ==
    /\ poll[s].at = "read"
    /\ consumer' = WithConsumer(s)
    /\ LET from == consumer'[s]
           through == Through(from)
       IN  poll' = [poll EXCEPT ![s] =
               IF from > Len(log) THEN NoPoll
               ELSE [at |-> "commit", through |-> through, signal |-> SignalOf(from, through)]]
    /\ UNCHANGED <<source, idle, agent, subs, retire, log, reg, group, removing,
                   srcOp, gcPass, clock, ops, crashes>>

\* Mutation: the commit passes one event more.
PastThrough(s) == poll[s].through + 2

CommittedTo(s) == poll[s].through + 1

\* commit; a batch that ended with a failure rethrows it, and its signals with it.
PollCommit(s) ==
    /\ poll[s].at = "commit" /\ consumer[s] # 0
    /\ consumer' = [consumer EXCEPT ![s] = CommittedTo(s)]
    /\ poll' = [poll EXCEPT ![s] =
           IF poll[s].signal = NoRow \/ log[poll[s].through] = "poison" THEN NoPoll
           ELSE [@ EXCEPT !.at = "schedule"]]
    /\ UNCHANGED <<source, idle, agent, subs, retire, log, reg, group, removing,
                   srcOp, gcPass, clock, ops, crashes>>

\* Mutation: a signal retires every subscription of the table's history.
TrackedByAll == {s \in Subs : Policy[s] = "on_terminal"}

\* listSubscriptionsForHostTrackedResourceRef, and the policies that retire.
Tracked == {s \in subs : Policy[s] = "on_terminal"}

Schedule(s) ==
    /\ poll[s].at = "schedule"
    /\ retire' = [r \in Subs |-> IF r \in Tracked THEN EarlierOf(retire[r], poll[s].signal)
                                 ELSE retire[r]]
    /\ poll' = [poll EXCEPT ![s] = NoPoll]
    /\ UNCHANGED <<source, idle, agent, subs, consumer, log, reg, group, removing,
                   srcOp, gcPass, clock, ops, crashes>>

\* Mutation: a subscription whose source is gone is only warned about.
HealNothing(s) == UNCHANGED <<consumer, removing>>

\* syncAllSubscriptions: a subscription whose poll threw because its source no
\* longer exists is removed.
Heal(s) == IF source = "gone" /\ Removable(s) THEN StartRemove(s)
           ELSE UNCHANGED <<consumer, removing>>

\* The source is gone at the start, or the consumer is gone at the commit.
PollFails(s) ==
    /\ \/ s \in subs /\ poll[s].at = "none" /\ source = "gone" /\ Removable(s)
       \/ poll[s].at = "commit" /\ consumer[s] = 0
       \/ poll[s].at = "lost"
    /\ Heal(s)
    /\ poll' = [poll EXCEPT ![s] = NoPoll]
    /\ UNCHANGED <<source, idle, agent, subs, retire, log, reg, group, srcOp,
                   gcPass, clock, ops, crashes>>

-----------------------------------------------------------------------------
(* Collection: syncLifecycleGc, and gc of the HTTP API *)

\* Mutation: the collection pass looks at deadlines only.
DueByDeadline == {s \in subs : Policy[s] = "at" /\ Deadline <= clock}

\* runLifecycleCleanupPass: past its deadline, or due to retire.
Due == {s \in subs : \/ Policy[s] = "at" /\ Deadline <= clock
                     \/ retire[s] # NoRow /\ retire[s] <= clock}

\* Mutation: what is due and runs is left for a later pass.
IdlePassWaits(row, rest) ==
    IF row # NoRow /\ row.at <= clock /\ (source = "gone" \/ rest # {})
    THEN idle' = NoRow /\ UNCHANGED gcPass ELSE idle' = row /\ UNCHANGED gcPass

\* runIdleSourceCleanupPass: what is due and still idle is paused, over an await.
IdlePass(row, rest) ==
    IF row = NoRow \/ row.auto \/ row.at > clock
    THEN idle' = row /\ UNCHANGED gcPass
    ELSE IF source = "gone" \/ rest # {}
    THEN idle' = NoRow /\ UNCHANGED gcPass
    ELSE IF source = "paused"
    THEN idle' = [row EXCEPT !.auto = TRUE] /\ UNCHANGED gcPass
    ELSE idle' = row /\ gcPass' = [at |-> "pause", row |-> row]

GcTick ==
    /\ gcPass.at = "none"
    /\ Due # {} \/ idle # NoRow
    /\ Delete(Due)
    /\ LET row == IF Due = {} THEN idle ELSE IdleAfter(source, subs \ Due)
       IN  IdlePass(row, subs \ Due)
    /\ UNCHANGED <<source, agent, log, reg, group, removing, poll, srcOp, clock, ops, crashes>>

\* The pause returns.  The row read before the await is written back, auto-paused,
\* whatever has been registered meanwhile.
GcPaused ==
    /\ gcPass.at = "pause"
    /\ IF source = "gone" THEN UNCHANGED <<source, idle>>
       ELSE source' = "paused" /\ idle' = [gcPass.row EXCEPT !.auto = TRUE]
    /\ gcPass' = NoPass
    /\ UNCHANGED <<agent, subs, consumer, retire, log, reg, group, removing, poll,
                   srcOp, clock, ops, crashes>>

GcPauseFails ==
    /\ gcPass.at = "pause"
    /\ gcPass' = NoPass
    /\ UNCHANGED <<rows, reg, group, removing, poll, srcOp, clock, ops, crashes>>

\* The same pass on request does not look at the sources it leaves without one.
ManualGc ==
    /\ Due # {} /\ ops < MaxOps
    /\ Delete(Due)
    /\ ops' = ops + 1
    /\ UNCHANGED <<source, idle, agent, log, procs, clock, crashes>>

-----------------------------------------------------------------------------
(* Requests on the source: pauseSource, resumeSource, removeSource with its     *)
(* subscriptions.  Each awaits the runtime of the source.                       *)

SrcStart(at) ==
    /\ srcOp = NoOp /\ ops < MaxOps /\ source # "gone"
    /\ srcOp' = [at |-> at, list |-> IF at = "rmPause" THEN subs ELSE {}]
    /\ ops' = ops + 1
    /\ UNCHANGED <<rows, reg, group, removing, poll, gcPass, clock, crashes>>

SrcPaused ==
    /\ srcOp.at \in {"pause", "rmPause"}
    /\ source' = IF source = "gone" THEN "gone" ELSE "paused"
    /\ idle' = NoRow
    /\ srcOp' = IF srcOp.at = "pause" THEN NoOp
                ELSE [srcOp EXCEPT !.at = IF source = "gone" THEN "none" ELSE "rmSubs"]
    /\ UNCHANGED <<agent, subs, consumer, retire, log, reg, group, removing, poll,
                   gcPass, clock, ops, crashes>>

SrcResumed ==
    /\ srcOp.at = "resume"
    /\ source' = IF source = "paused" THEN "running" ELSE source
    /\ idle' = NoRow
    /\ srcOp' = NoOp
    /\ UNCHANGED <<agent, subs, consumer, retire, log, reg, group, removing, poll,
                   gcPass, clock, ops, crashes>>

SrcFails ==
    /\ srcOp.at \in {"pause", "resume", "rmPause", "rmDelete"}
    /\ srcOp' = NoOp
    /\ UNCHANGED <<rows, reg, group, removing, poll, gcPass, clock, ops, crashes>>

\* The subscriptions listed before the pause; one that is gone meanwhile aborts.
SrcRemoveSub(s) ==
    /\ srcOp.at = "rmSubs" /\ s \in srcOp.list
    /\ IF s \in subs
       THEN Removable(s) /\ StartRemove(s) /\ srcOp' = [srcOp EXCEPT !.list = @ \ {s}]
       ELSE srcOp' = NoOp /\ UNCHANGED <<consumer, removing>>
    /\ UNCHANGED <<source, idle, agent, subs, retire, log, reg, group, poll,
                   gcPass, clock, ops, crashes>>

SrcSubsRemoved ==
    /\ srcOp.at = "rmSubs" /\ srcOp.list = {} /\ removing = {}
    /\ srcOp' = [srcOp EXCEPT !.at = "rmDelete"]
    /\ UNCHANGED <<rows, reg, group, removing, poll, gcPass, clock, ops, crashes>>

\* deleteSource: the stream, its events and all its consumers, and the idle row.
SrcDeleted ==
    /\ srcOp.at = "rmDelete"
    /\ source' = "gone" /\ log' = <<>> /\ idle' = NoRow
    /\ consumer' = ConsumersWithout(Subs)
    /\ srcOp' = NoOp
    /\ UNCHANGED <<agent, subs, retire, reg, group, removing, poll, gcPass,
                   clock, ops, crashes>>

\* removeAgent, and the collection of an agent that was offline for too long:
\* deleteAgent takes all of its rows.
RemoveAgent ==
    /\ agent /\ ops < MaxOps
    /\ agent' = FALSE
    /\ Delete(subs)
    /\ idle' = IF subs = {} THEN idle ELSE IdleAfter(source, {})
    /\ ops' = ops + 1
    /\ UNCHANGED <<source, log, procs, clock, crashes>>

Tick ==
    /\ clock < MaxClock /\ clock' = clock + 1
    /\ UNCHANGED <<rows, procs, ops, crashes>>

\* The rows survive; a registration that was under way is never finished, and a
\* template is neither completed nor rolled back.
Crash ==
    /\ crashes < MaxCrashes /\ crashes' = crashes + 1
    /\ reg' = [s \in Subs |-> IF reg[s] \in {"none", "done"} THEN reg[s] ELSE "failed"]
    /\ group' = IF group \in {"running", "rollback"} THEN "cut" ELSE group
    /\ removing' = {} /\ srcOp' = NoOp /\ gcPass' = NoPass
    /\ poll' = [s \in Subs |-> NoPoll]
    /\ UNCHANGED <<rows, clock, ops>>

-----------------------------------------------------------------------------
Registering(s) ==
    \/ Register(s) \/ Validated(s) \/ RegisterRefused(s) \/ ResumedForRegister(s)
    \/ ConsumeForRegister(s) \/ RegisterUndone(s)
    \/ FinishRegister(s)

Grouping ==
    \/ StartGroup \/ GroupEnds \/ RollbackEnds
    \/ \E i \in 1..Len(Members) : RegisterMember(i) \/ MemberRefused(i)
    \/ \E s \in Subs : Rollback(s)

Polling(s) ==
    \/ PollStart(s) \/ PollRead(s) \/ PollCommit(s)
    \/ Schedule(s) \/ PollFails(s)

Requests ==
    \/ \E at \in {"pause", "resume", "rmPause"} : SrcStart(at)
    \/ SrcPaused \/ SrcResumed \/ SrcFails \/ SrcSubsRemoved \/ SrcDeleted
    \/ \E s \in Subs : SrcRemoveSub(s) \/ RemoveSubscription(s) \/ RemoveRow(s)
    \/ RemoveAgent \/ ManualGc

Next ==
    \/ \E s \in Subs : Registering(s) \/ Polling(s)
    \/ Grouping \/ Requests
    \/ \E k \in Kinds : Arrive(k)
    \/ GcTick \/ GcPaused \/ GcPauseFails \/ Tick \/ Crash

Spec == Init /\ [][Next]_vars

\* Time passes, the interval polls every subscription and collects what is due, and
\* what was started goes on.  A pause that is tried again and again succeeds at last.
Fairness ==
    /\ WF_vars(Tick) /\ WF_vars(GcTick) /\ SF_vars(GcPaused)
    /\ \A s \in Subs :
           /\ WF_vars(RemoveRow(s)) /\ WF_vars(Rollback(s))
           /\ WF_vars(PollStart(s)) /\ WF_vars(PollFails(s))
           /\ WF_vars(PollRead(s) \/ PollCommit(s) \/ Schedule(s))
    /\ WF_vars(GroupEnds) /\ WF_vars(RollbackEnds)

FairSpec == Spec /\ Fairness

-----------------------------------------------------------------------------
(* Properties *)

\* No retirement outlives its subscription: it would retire nothing, or be found by
\* nobody.  The rows are written by polls that outlive what they were started for.
RetirementsHaveSubs == \A s \in Subs : retire[s] # NoRow => s \in subs

\* A template is registered as a whole or reported as failed with none of its members
\* left, whatever was removed by others between its registrations and its rollback.
RollbackComplete == group = "failed" => Created \cap subs = {}

\* Both, and the types: what ends takes with it what was made for it.
EndsAreComplete == TypeOK /\ RetirementsHaveSubs /\ RollbackComplete

\* A later terminal event of the same resource never postpones a retirement, and
\* nothing but the end of the subscription takes it back.
RetirementNeverPostponed ==
    [][\A s \in Subs : retire[s] # NoRow /\ s \in subs'
           => retire'[s] # NoRow /\ retire'[s] <= retire[s]]_vars

\* A subscription cannot outlive its source for good, whenever it was registered.
SubsOfGoneSourceRemoved ==
    \A s \in Subs : (s \in subs /\ source = "gone") ~> s \notin subs

\* A confirmed subscription reads the stream sooner or later: a removal that a crash cut
\* after the consumer was deleted leaves it without, and the next poll restores it.
RegisteredIsConsumed ==
    \A s \in Subs : (s \in subs /\ reg[s] = "done")
                       ~> (consumer[s] # 0 \/ s \notin subs \/ source = "gone")

\* What is scheduled to end ends.
DueIsRetired == \A s \in Subs : (retire[s] # NoRow) ~> (s \notin subs)

\* A source that was found idle does not stay so: it is paused, used again or gone.
IdlePaused ==
    (idle # NoRow /\ source = "running") ~> (idle = NoRow \/ source # "running")

\* All that the collection passes promise: what has lost its source, what is scheduled to
\* end and what was found idle does not stay.
WhatIsDueEnds == SubsOfGoneSourceRemoved /\ DueIsRetired /\ IdlePaused

\* docs/site/reference/cli.md:196: the removal of the last subscription starts the
\* grace period.  NOT a property of the code: a collection asked for by hand that retires
\* the last subscription does not start it.
LastRemovalIsTracked ==
    [][subs # {} /\ subs' = {} /\ source' = "running" => idle' # NoRow]_vars

\* The same line: what is auto-paused is a source without subscriptions.  NOT a property
\* of the code: one may be registered while the pause is awaited.
AutoPausedHasNoSubs == idle # NoRow /\ idle.auto => subs = {}
=============================================================================
