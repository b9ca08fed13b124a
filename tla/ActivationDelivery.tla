------------------------- MODULE ActivationDelivery -------------------------
(***************************************************************************)
(* How the service of src/src/service.ts wakes the activation targets of   *)
(* one agent about its unacked inbox entries.                              *)
(*                                                                         *)
(* An inbox entry is first stored and then enqueued in a volatile buffer   *)
(* per target.  A buffer is flushed by a timer or when it is full; a flush *)
(* either dispatches a notification or merges its entries into the         *)
(* persisted dispatch state of the target, whose lease a periodic tick     *)
(* watches.  Acks and resumes retry that state too.  Everything that can   *)
(* notify one target queues on the delivery lock of that target, a chain   *)
(* of promises; a notification has several awaits (runtime gate, reminder, *)
(* the request itself) during which every other handler of the process may *)
(* run.  A pause of the agent raises its delivery generation, which fences *)
(* whatever was decided before.                                            *)
(*                                                                         *)
(* Abstractions.  Time is a lease that is live until it expires.  A count  *)
(* of new items is the set of entries it counts.  A prompt fingerprint is  *)
(* the set of entries the prompt announces; prompts of one set may still   *)
(* differ in their summary.  Which HTTP status, probe or failure count     *)
(* makes a failure permanent is the environment's choice.                  *)
(***************************************************************************)
EXTENDS Naturals, Sequences, FiniteSets

CONSTANTS
    Targets,      \* activation targets the agent may be given
    Terminals,    \* those of kind "terminal"; the others are webhooks
    Entries,      \* inbox entries that may arrive
    Subs,         \* subscriptions of the agent
    NoSub,        \* the subscription of a direct message or a timer
    SubOf,        \* the subscription an entry comes from
    Thresholds,   \* values minUnackedItems may take
    MaxItems,     \* activationMaxItems of the service
    MaxPauses,    \* bound on pauses
    MaxCrashes,   \* bound on restarts of the daemon
    MaxOps        \* bound on the operations queued on one lock

ASSUME DeliveryAssumption ==
    /\ Terminals \subseteq Targets
    /\ NoSub \notin Subs
    /\ SubOf \in [Entries -> Subs \cup {NoSub}]
    /\ 1 \in Thresholds /\ Thresholds \subseteq Nat \ {0}
    /\ MaxItems \in Nat \ {0}
    /\ {MaxPauses, MaxCrashes, MaxOps} \subseteq Nat

VARIABLES
    inbox,          \* Entries -> "none" | "unacked" | "acked"         (store)
    subs,           \* subscriptions still registered                  (store)
    target,         \* Targets -> life cycle status                    (store)
    minUnacked,     \* Targets -> minUnackedItems                      (store)
    paused,         \* agent.deliveryPaused                            (store)
    dispatchState,  \* activation_dispatch_states, one row per target  (store)
    generation,     \* deliveryGenerations of the agent
    buffer,         \* notificationBuffers
    lock,           \* targetDeliveryLocks: the operations of the chain
    resume,         \* the running resumeAgentNow, if any
    arriving,       \* entries between their poll and their enqueueing
    ackDue,         \* targets whose ack follow-up has not been queued yet
    crashes         \* restarts so far

persisted == <<inbox, subs, target, minUnacked, paused, dispatchState>>
volatile  == <<generation, buffer, lock, resume, arriving, ackDue>>
vars      == <<persisted, volatile, crashes>>

-----------------------------------------------------------------------------
(* Records *)

NoState  == [status |-> "none", lease |-> "null", fingerprint |-> {},
             pending |-> {}, subIds |-> {}]
NoBuffer == [live |-> FALSE, pending |-> {}, timer |-> "none"]
Idle     == [phase |-> "idle", to |-> {}, backoff |-> {}]

DispatchStates ==
    [status : {"none", "notified", "dirty"}, lease : {"null", "live", "expired"},
     fingerprint : SUBSET Entries, pending : SUBSET Entries, subIds : SUBSET Subs]

Buffers == [live : BOOLEAN, pending : SUBSET Entries,
            timer : {"none", "armed", "fired"}]

OpKinds  == {"flush", "ack", "lease", "resume", "drain", "catchup"}
OpPhases == {"queued", "gate", "remind", "defer", "send"}

\* An operation chained on a target's lock. batch is what a flush took out of
\* its buffer; new, subIds and sent are the input of dispatchActivationTarget;
\* snap is the dispatch state it read; lostBuffer says that the buffer object a
\* flush works on is no longer the one registered for the target.
NewOp(kind) ==
    [kind |-> kind, gen |-> generation, phase |-> "queued", batch |-> {},
     new |-> {}, subIds |-> {}, sent |-> {}, snap |-> NoState, lostBuffer |-> FALSE]

Unacked == {e \in Entries : inbox[e] = "unacked"}
SubsOf(S) == {SubOf[e] : e \in S} \ {NoSub}

Dirty(lease, fp, new, subIds) ==
    [status |-> "dirty", lease |-> lease, fingerprint |-> fp,
     pending |-> new, subIds |-> subIds]
Notified(fp) ==
    [status |-> "notified", lease |-> "live", fingerprint |-> fp,
     pending |-> {}, subIds |-> {}]

\* Active webhooks pre-empt the terminals.
Effective ==
    LET active == {t \in Targets : target[t] = "active"}
        hooks  == active \ Terminals
    IN  IF hooks # {} THEN hooks ELSE active

Exists(t) == target[t] \in {"active", "offline"}
MeetsThreshold(t, n) == n > 0 /\ n >= minUnacked[t]

DeliveryAllowed(gen) == ~paused /\ generation = gen

Running(t) == lock[t] # <<>> /\ Head(lock[t]).phase # "queued"
InFlight(t) ==
    Running(t) /\ Head(lock[t]).kind = "flush" /\ ~Head(lock[t]).lostBuffer

\* Mutation: an operation does not wait for those before it.
PushAhead(q, kind) == <<NewOp(kind)>> \o q

\* Appending an operation to the chain of a lock, and leaving it.
Push(q, kind) == Append(q, NewOp(kind))
Pop(t) == lock' = [lock EXCEPT ![t] = Tail(@)]
SetState(t, s) == dispatchState' = [dispatchState EXCEPT ![t] = s]

Init ==
    /\ inbox = [e \in Entries |-> "none"]
    /\ subs = Subs
    /\ target = [t \in Targets |-> "unborn"]
    /\ minUnacked = [t \in Targets |-> 1]
    /\ paused = FALSE
    /\ dispatchState = [t \in Targets |-> NoState]
    /\ generation = 0
    /\ buffer = [t \in Targets |-> NoBuffer]
    /\ lock = [t \in Targets |-> <<>>]
    /\ resume = Idle
    /\ arriving = [e \in Entries |-> [step |-> "idle", to |-> {}]]
    /\ ackDue = {}
    /\ crashes = 0

-----------------------------------------------------------------------------
(* Entries arrive and are enqueued *)

\* buffer.pending.push, then the timer or, at activationMaxItems, a flush.
Enqueued(t, e) ==
    LET b       == buffer[t]
        pending == b.pending \cup {e}
        full    == Cardinality(pending) >= MaxItems
    IN  [live |-> TRUE, pending |-> pending,
         timer |-> IF full THEN "none"
                   ELSE IF b.timer = "none" /\ ~InFlight(t) THEN "armed" ELSE b.timer]

Full(t, e) == Cardinality(buffer[t].pending \cup {e}) >= MaxItems

\* enqueueActivationTarget for each target of the list, in one go. While the
\* agent is paused the inbox alone keeps the entry.
EnqueueAll(e, to) ==
    IF paused
    THEN UNCHANGED <<buffer, lock>>
    ELSE /\ \A t \in to : Full(t, e) => Len(lock[t]) < MaxOps
         /\ buffer' = [t \in Targets |-> IF t \in to THEN Enqueued(t, e) ELSE buffer[t]]
         /\ lock' = [t \in Targets |->
                        IF t \in to /\ Full(t, e) THEN Push(lock[t], "flush") ELSE lock[t]]

\* pollSubscription reads a batch: the targets are those effective now.
PollReads(e) ==
    /\ inbox[e] = "none"
    /\ arriving[e].step = "idle"
    /\ SubOf[e] \in subs
    /\ arriving' = [arriving EXCEPT ![e] = [step |-> "read", to |-> Effective]]
    /\ UNCHANGED <<persisted, generation, buffer, lock, resume, ackDue, crashes>>

\* insertInboxItem and materializeInboxEntryForItem.
PollStores(e) ==
    /\ arriving[e].step = "read"
    /\ inbox' = [inbox EXCEPT ![e] = "unacked"]
    /\ arriving' = [arriving EXCEPT ![e].step = "stored"]
    /\ UNCHANGED <<subs, target, minUnacked, paused, dispatchState, generation, buffer, lock,
                   resume, ackDue, crashes>>

PollEnqueues(e) ==
    /\ arriving[e].step = "stored"
    /\ EnqueueAll(e, arriving[e].to)
    /\ arriving' = [arriving EXCEPT ![e] = [step |-> "idle", to |-> {}]]
    /\ UNCHANGED <<persisted, generation, resume, ackDue, crashes>>

\* materializeAgentInboxItem (direct message, timer) has no await.
DirectMessage(e) ==
    /\ inbox[e] = "none"
    /\ SubOf[e] = NoSub
    /\ inbox' = [inbox EXCEPT ![e] = "unacked"]
    /\ EnqueueAll(e, Effective)
    /\ UNCHANGED <<subs, target, minUnacked, paused, dispatchState, generation, resume, arriving,
                   ackDue, crashes>>

-----------------------------------------------------------------------------
(* The end of a dispatch *)

\* Mutation: a deferral is not recorded.
StateAfterForgetsDefer(t, op, outcome) ==
    CASE outcome = "dispatched" -> Notified(op.sent)
      [] outcome = "retry"      -> Dirty("live", op.snap.fingerprint, op.new, op.subIds)
      [] OTHER                  -> dispatchState[t]

\* Mutation: a failed request is recorded without a retry time.
StateAfterWithoutRetry(t, op, outcome) ==
    CASE outcome = "dispatched" -> Notified({})
      [] outcome = "retry"      -> Dirty("null", op.snap.fingerprint, op.new, op.subIds)
      [] outcome = "offline"    -> NoState
      [] OTHER                  -> dispatchState[t]

\* The row dispatchActivationTarget and its caller leave behind.
StateAfter(t, op, outcome) ==
    CASE outcome = "dispatched" ->
             Notified(IF t \in Terminals THEN op.sent ELSE op.snap.fingerprint)
      [] outcome = "unchanged" -> Notified(op.sent)
      [] outcome = "held"      -> Dirty("null", op.snap.fingerprint, op.new, op.subIds)
      [] outcome = "deferred"  -> Dirty("live", op.snap.fingerprint, op.new, op.subIds)
      [] outcome = "retry" ->
             IF op.kind \in {"flush", "catchup"}
             THEN Dirty("live", op.snap.fingerprint, op.new, op.subIds)
             ELSE [op.snap EXCEPT !.status = "dirty", !.lease = "live"]
      [] outcome = "offline" ->
             IF op.kind = "catchup" THEN dispatchState[t] ELSE NoState
      [] outcome \in {"paused", "skipped", "error"} -> dispatchState[t]

\* Mutation: entries that came in flight are forgotten.
BufferAfterForgets(op, outcome, b) ==
    IF op.kind = "flush" THEN NoBuffer ELSE b

\* What a flush makes of its buffer: entries that came in flight get a timer of
\* their own, an error puts the batch back, and otherwise whatever buffer is
\* registered under the key is deleted. b is the buffer as the operation left it.
BufferAfter(op, outcome, b) ==
    IF op.kind # "flush" THEN b
    ELSE IF outcome = "error"
    THEN IF op.lostBuffer THEN b
         ELSE [b EXCEPT !.pending = @ \cup op.batch,
                        !.timer = IF @ = "none" THEN "armed" ELSE @]
    ELSE IF ~op.lostBuffer /\ b.pending # {}
    THEN [b EXCEPT !.timer = "armed"]
    ELSE NoBuffer

Conclude(t, op, outcome, b) ==
    /\ SetState(t, StateAfter(t, op, outcome))
    /\ buffer' = [buffer EXCEPT ![t] = BufferAfter(op, outcome, b)]
    /\ Pop(t)

-----------------------------------------------------------------------------
(* The beginning of a dispatch: dispatchActivationTarget up to its first await *)

Verdict(t, op) ==
    CASE target[t] # "active" -> "offline"
      [] target[t] = "active" /\ t \notin Effective -> "skipped"
      [] t \in Effective /\ ~MeetsThreshold(t, Cardinality(op.sent)) -> "held"
      [] t \in Effective /\ MeetsThreshold(t, Cardinality(op.sent)) -> "go"

StartDispatch(t, op, b) ==
    \/ /\ Verdict(t, op) # "go"
       /\ Conclude(t, op, Verdict(t, op), b)
    \/ /\ Verdict(t, op) = "go"
       /\ lock' = [lock EXCEPT ![t][1] =
                      [op EXCEPT !.phase = IF t \in Terminals THEN "gate" ELSE "send"]]
       /\ buffer' = [buffer EXCEPT ![t] = b]
       /\ UNCHANGED dispatchState

\* The operation at the head of the lock takes its turn.
Turn(t, kinds) ==
    /\ lock[t] # <<>>
    /\ Head(lock[t]).phase = "queued"
    /\ Head(lock[t]).kind \in kinds

Allowed(t) == DeliveryAllowed(Head(lock[t]).gen)

\* The pause that came before the turn fences the operation.
FencedTurn(t) ==
    /\ Turn(t, OpKinds \ {"drain"})
    /\ ~Allowed(t)
    /\ Pop(t)
    /\ UNCHANGED <<persisted, generation, buffer, resume, arriving, ackDue, crashes>>

\* flushNotificationBufferLocked: nothing to flush any more.
FlushNothing(t) ==
    /\ Turn(t, {"flush"}) /\ Allowed(t)
    /\ buffer[t].pending = {}
    /\ Pop(t)
    /\ UNCHANGED <<persisted, generation, buffer, resume, arriving, ackDue, crashes>>

Spliced(t) == [live |-> TRUE, pending |-> {}, timer |-> "none"]

\* The flush may notify now, unless a lease or a retry is running.
MayNotifyNow(s) == s.status = "none" \/ (s.status = "dirty" /\ s.lease = "null")

\* The target is gone, or everything was acked: the buffer goes, and in the
\* second case the state too.
FlushDiscards(t) ==
    /\ Turn(t, {"flush"}) /\ Allowed(t)
    /\ buffer[t].pending # {}
    /\ \/ /\ ~Exists(t)
          /\ UNCHANGED dispatchState
       \/ /\ Exists(t)
          /\ MayNotifyNow(dispatchState[t])
          /\ Unacked = {}
          /\ SetState(t, NoState)
    /\ buffer' = [buffer EXCEPT ![t] = NoBuffer]
    /\ Pop(t)
    /\ UNCHANGED <<inbox, subs, target, minUnacked, paused, generation, resume, arriving, ackDue, crashes>>

FlushDispatches(t) ==
    LET s     == dispatchState[t]
        batch == buffer[t].pending
        op    == [Head(lock[t]) EXCEPT
                    !.batch = batch, !.snap = s, !.sent = Unacked,
                    !.new = batch \cup s.pending,
                    !.subIds = SubsOf(batch) \cup s.subIds]
    IN  /\ Turn(t, {"flush"}) /\ Allowed(t)
        /\ batch # {} /\ Exists(t)
        /\ MayNotifyNow(s)
        /\ Unacked # {}
        /\ StartDispatch(t, op, Spliced(t))
        /\ UNCHANGED <<inbox, subs, target, minUnacked, paused, generation, resume, arriving,
                       ackDue, crashes>>

\* Within a lease the entries only join the pending set of the state.
FlushMerges(t) ==
    LET s     == dispatchState[t]
        batch == buffer[t].pending
    IN  /\ Turn(t, {"flush"}) /\ Allowed(t)
        /\ batch # {} /\ Exists(t)
        /\ ~MayNotifyNow(s)
        /\ SetState(t, Dirty(s.lease, s.fingerprint, s.pending \cup batch,
                             s.subIds \cup SubsOf(batch)))
        /\ buffer' = [buffer EXCEPT ![t] = NoBuffer]
        /\ Pop(t)
        /\ UNCHANGED <<inbox, subs, target, minUnacked, paused, generation, resume, arriving,
                       ackDue, crashes>>

-----------------------------------------------------------------------------
(* maybeDispatchActivationTargetLocked, for an ack, a lease tick or a resume *)

Retries == {"ack", "lease", "resume"}

\* Mutation: a queued tick does not look at the lease again.
NotDueUnchecked(kind, s) ==
    s.status = "none" \/ (kind = "resume" /\ s.status # "dirty")

\* Returns before the target is looked at: no state, or not due.
NotDue(kind, s) ==
    \/ s.status = "none"
    \/ kind = "resume" /\ s.status # "dirty"
    \/ kind \in {"resume", "lease"} /\ s.lease # "expired"

\* Reminding brings nothing new to a target that was already notified; a
\* webhook needs pending entries on top.
NothingNew(t, kind, s) ==
    kind = "ack" /\ (s.status # "dirty" \/ (t \notin Terminals /\ s.pending = {}))

Hopeless(t) == t \notin Effective \/ Unacked = {}
PendingOf(s) == IF s.pending = {} THEN Unacked ELSE s.pending

\* What the handler writes when it does not dispatch.
StateWithoutDispatch(t, kind, s) ==
    IF Hopeless(t) THEN NoState
    ELSE IF ~MeetsThreshold(t, Cardinality(Unacked))
    THEN Dirty("null", s.fingerprint, PendingOf(s), s.subIds)
    ELSE IF kind = "lease" /\ s.status = "notified"
    THEN [s EXCEPT !.lease = "live"]
    ELSE s

Dispatches(t, kind, s) ==
    /\ ~NotDue(kind, s)
    /\ ~Hopeless(t)
    /\ MeetsThreshold(t, Cardinality(Unacked))
    /\ ~NothingNew(t, kind, s)
    /\ ~(kind = "lease" /\ s.status = "notified")

RetrySettles(t) ==
    LET kind == Head(lock[t]).kind
        s    == dispatchState[t]
    IN  /\ Turn(t, Retries) /\ Allowed(t)
        /\ ~Dispatches(t, kind, s)
        /\ SetState(t, IF NotDue(kind, s) THEN s ELSE StateWithoutDispatch(t, kind, s))
        /\ Pop(t)
        /\ UNCHANGED <<inbox, subs, target, minUnacked, paused, generation, buffer, resume,
                       arriving, ackDue, crashes>>

RetryDispatches(t) ==
    LET s  == dispatchState[t]
        op == [Head(lock[t]) EXCEPT !.snap = s, !.sent = Unacked,
                                    !.new = PendingOf(s), !.subIds = s.subIds]
    IN  /\ Turn(t, Retries) /\ Allowed(t)
        /\ Dispatches(t, op.kind, s)
        /\ StartDispatch(t, op, buffer[t])
        /\ UNCHANGED <<inbox, subs, target, minUnacked, paused, generation, resume, arriving,
                       ackDue, crashes>>

-----------------------------------------------------------------------------
(* The awaits of a dispatch *)

Waiting(t, phases) == Running(t) /\ Head(lock[t]).phase \in phases
Advance(t, phase) ==
    /\ lock' = [lock EXCEPT ![t][1].phase = phase]
    /\ UNCHANGED <<dispatchState, buffer>>
End(t, outcome) == Conclude(t, Head(lock[t]), outcome, buffer[t])
Fall(t) == target' = [target EXCEPT ![t] = "offline"]

\* activationGate.evaluate answers.
GateAnswers(t, answer) ==
    /\ Waiting(t, {"gate"})
    /\ \/ ~Allowed(t) /\ End(t, "paused") /\ UNCHANGED target
       \/ Allowed(t) /\ ~Exists(t) /\ End(t, "offline") /\ UNCHANGED target
       \/ Allowed(t) /\ Exists(t) /\ answer = "offline" /\ End(t, "offline") /\ Fall(t)
       \/ /\ Allowed(t) /\ Exists(t) /\ answer # "offline"
          /\ Advance(t, IF answer = "defer" THEN "defer" ELSE "remind")
          /\ UNCHANGED target
    /\ UNCHANGED <<inbox, subs, minUnacked, paused, generation, resume, arriving, ackDue, crashes>>

\* Mutation: the pause is not checked again before the request.
ReminderUnchecked(t) ==
    /\ Waiting(t, {"remind", "defer"})
    /\ IF Head(lock[t]).phase = "defer" THEN End(t, "deferred") ELSE Advance(t, "send")
    /\ UNCHANGED <<inbox, subs, target, minUnacked, paused, generation, resume, arriving,
                   ackDue, crashes>>

\* buildTerminalReminder is done. A catch-up is sent even when the prompt is the
\* one already sent (forceNotification).
ReminderReady(t) ==
    LET op == Head(lock[t])
    IN  /\ Waiting(t, {"remind", "defer"})
        /\ \/ ~Allowed(t) /\ End(t, "paused")
           \/ Allowed(t) /\ ~Exists(t) /\ End(t, "offline")
           \/ Allowed(t) /\ Exists(t) /\ op.phase = "defer" /\ End(t, "deferred")
           \/ /\ Allowed(t) /\ Exists(t) /\ op.phase = "remind"
              /\ op.kind # "catchup" /\ op.snap.fingerprint = op.sent
              /\ End(t, "unchanged")
           \/ /\ Allowed(t) /\ Exists(t) /\ op.phase = "remind"
              /\ Advance(t, "send")
        /\ UNCHANGED <<inbox, subs, target, minUnacked, paused, generation, resume, arriving,
                       ackDue, crashes>>

\* Mutation: nobody looks whether the target still exists after the request.
SendEndsUnchecked(t, outcome) ==
    /\ Waiting(t, {"send"})
    /\ End(t, outcome)
    /\ UNCHANGED <<inbox, subs, target, minUnacked, paused, generation, resume, arriving,
                   ackDue, crashes>>

\* The request (and, after a failure of a terminal, the probe) is over. "error":
\* the store refused to record a failure; only a flush has a handler for that, and
\* refused writes are not modelled elsewhere.
SendEnds(t, outcome) ==
    /\ Waiting(t, {"send"})
    /\ IF Exists(t)
       THEN /\ outcome = "error" => Head(lock[t]).kind = "flush"
            /\ End(t, outcome)
            /\ target' = [target EXCEPT ![t] =
                             IF outcome = "offline" THEN "offline"
                             ELSE IF outcome = "error" THEN @ ELSE "active"]
       ELSE End(t, "offline") /\ UNCHANGED target
    /\ UNCHANGED <<inbox, subs, minUnacked, paused, generation, resume, arriving, ackDue, crashes>>

-----------------------------------------------------------------------------
(* Who queues an operation *)

Queue(t, kind) ==
    /\ Len(lock[t]) < MaxOps
    /\ lock' = [lock EXCEPT ![t] = Push(@, kind)]

\* The window of a buffer is over; the handle of the timer stays in the buffer
\* until a flush takes it away.
TimerFires(t) ==
    /\ buffer[t].timer = "armed"
    /\ buffer' = [buffer EXCEPT ![t].timer = "fired"]
    /\ IF paused THEN UNCHANGED lock ELSE Queue(t, "flush")
    /\ UNCHANGED <<persisted, generation, resume, arriving, ackDue, crashes>>

LeaseExpires(t) ==
    /\ dispatchState[t].lease = "live"
    /\ SetState(t, [dispatchState[t] EXCEPT !.lease = "expired"])
    /\ UNCHANGED <<inbox, subs, target, minUnacked, paused, volatile, crashes>>

\* syncActivationDispatchStates.
LeaseTick(t) ==
    /\ dispatchState[t].lease = "expired"
    /\ ~paused
    /\ Queue(t, "lease")
    /\ UNCHANGED <<persisted, generation, buffer, resume, arriving, ackDue, crashes>>

\* ackInboxEntries; handleInboxAckEffects goes on after an await.
Ack(e) ==
    /\ inbox[e] = "unacked"
    /\ inbox' = [inbox EXCEPT ![e] = "acked"]
    /\ ackDue' = Targets
    /\ UNCHANGED <<subs, target, minUnacked, paused, dispatchState, generation, buffer, lock,
                   resume, arriving, crashes>>

\* It visits the targets that have a state by then.
AckFollowUp(t) ==
    /\ t \in ackDue
    /\ ackDue' = ackDue \ {t}
    /\ IF paused \/ dispatchState[t].status = "none"
       THEN UNCHANGED lock ELSE Queue(t, "ack")
    /\ UNCHANGED <<persisted, generation, buffer, resume, arriving, crashes>>

-----------------------------------------------------------------------------
(* Pause and resume *)

Pause ==
    /\ ~paused
    /\ generation < MaxPauses
    /\ paused' = TRUE
    /\ generation' = generation + 1
    /\ UNCHANGED <<inbox, subs, target, minUnacked, dispatchState, buffer, lock, resume, arriving,
                   ackDue, crashes>>

QueuedOn(t, kind) == \E i \in DOMAIN lock[t] : lock[t][i].kind = kind

\* resumeAgentNow of a paused agent waits for the locks of the effective targets.
ResumeBegins ==
    /\ paused
    /\ resume.phase = "idle"
    /\ resume' = [phase |-> "drain", to |-> Effective, backoff |-> {}]
    /\ lock' = [t \in Targets |->
                   IF t \in Effective THEN Push(lock[t], "drain") ELSE lock[t]]
    /\ UNCHANGED <<persisted, generation, buffer, arriving, ackDue, crashes>>

DrainTurn(t) ==
    /\ Turn(t, {"drain"})
    /\ Pop(t)
    /\ UNCHANGED <<persisted, generation, buffer, resume, arriving, ackDue, crashes>>

BackingOff(t) == dispatchState[t].status = "dirty" /\ dispatchState[t].lease = "live"

\* Everything unacked becomes pending in the state of each target, and in the
\* same turn the agent is unpaused and the catch-ups are queued.
Unpause ==
    /\ resume.phase = "drain"
    /\ \A t \in resume.to : ~QueuedOn(t, "drain")
    /\ dispatchState' =
           [t \in Targets |->
               IF t \in resume.to /\ Unacked # {}
               THEN Dirty(IF BackingOff(t) THEN "live" ELSE "expired", {}, Unacked,
                          SubsOf(Unacked))
               ELSE dispatchState[t]]
    /\ paused' = FALSE
    /\ lock' = [t \in Targets |->
                   IF t \in resume.to THEN Push(lock[t], "catchup") ELSE lock[t]]
    /\ resume' = [resume EXCEPT !.phase = "catchup",
                     !.backoff = {t \in resume.to : Unacked # {} /\ BackingOff(t)}]
    /\ UNCHANGED <<inbox, subs, target, minUnacked, generation, buffer, arriving, ackDue, crashes>>

\* The catch-up of one target, once it has the lock.
CatchUpSettles(t) ==
    LET s == dispatchState[t]
    IN  /\ Turn(t, {"catchup"}) /\ Allowed(t)
        /\ \/ Unacked = {} /\ SetState(t, NoState)
           \/ /\ Unacked # {}
              /\ t \in resume.backoff /\ s.status # "none"
              /\ SetState(t, [s EXCEPT !.pending = Unacked, !.subIds = SubsOf(Unacked)])
        /\ buffer' = [buffer EXCEPT ![t] = NoBuffer]
        /\ Pop(t)
        /\ UNCHANGED <<inbox, subs, target, minUnacked, paused, generation, resume, arriving,
                       ackDue, crashes>>

CatchUpDispatches(t) ==
    LET s  == dispatchState[t]
        op == [Head(lock[t]) EXCEPT !.snap = s, !.sent = Unacked, !.new = Unacked,
                                    !.subIds = SubsOf(Unacked)]
    IN  /\ Turn(t, {"catchup"}) /\ Allowed(t)
        /\ Unacked # {}
        /\ ~(t \in resume.backoff /\ s.status # "none")
        /\ StartDispatch(t, op, NoBuffer)
        /\ UNCHANGED <<inbox, subs, target, minUnacked, paused, generation, resume, arriving,
                       ackDue, crashes>>

ResumeEnds ==
    /\ resume.phase = "catchup"
    /\ \A t \in resume.to : ~QueuedOn(t, "catchup")
    /\ resume' = Idle
    /\ UNCHANGED <<persisted, generation, buffer, lock, arriving, ackDue, crashes>>

\* resumeAgentNow of an agent that is not paused retries its dirty states.
ResumeRetries(t) ==
    /\ ~paused
    /\ resume.phase = "idle"
    /\ dispatchState[t].status = "dirty"
    /\ Queue(t, "resume")
    /\ UNCHANGED <<persisted, generation, buffer, resume, arriving, ackDue, crashes>>

-----------------------------------------------------------------------------
(* Targets, subscriptions and restarts *)

\* Target ids are generated: a removed target never comes back.
AddTarget(t) ==
    /\ target[t] = "unborn"
    /\ target' = [target EXCEPT ![t] = "active"]
    /\ UNCHANGED <<inbox, subs, minUnacked, paused, dispatchState, volatile, crashes>>

\* resumeActivationTarget.
ResumeTarget(t) ==
    /\ target[t] = "offline"
    /\ target' = [target EXCEPT ![t] = "active"]
    /\ UNCHANGED <<inbox, subs, minUnacked, paused, dispatchState, volatile, crashes>>

\* updateWebhookActivationTarget and a terminal's registration heartbeat: only the
\* row of the target changes, its dispatch state is left as it is.
UpdatePolicy(t, n) ==
    /\ Exists(t)
    /\ minUnacked' = [minUnacked EXCEPT ![t] = n]
    /\ UNCHANGED <<inbox, subs, target, paused, dispatchState, volatile, crashes>>

RemoveTarget(t) ==
    /\ Exists(t)
    /\ target' = [target EXCEPT ![t] = "removed"]
    /\ SetState(t, NoState)
    /\ UNCHANGED <<inbox, subs, minUnacked, paused, volatile, crashes>>

\* clearSubscriptionRuntimeState: what a buffer keeps, and whether it survives.
Retained(t, s) == {e \in buffer[t].pending : SubOf[e] # s}
Emptied(t, s) == buffer[t].pending # {} /\ Retained(t, s) = {}

RemoveSubscription(s) ==
    /\ s \in subs
    /\ subs' = subs \ {s}
    /\ buffer' = [t \in Targets |->
                     IF Emptied(t, s) THEN NoBuffer
                     ELSE [buffer[t] EXCEPT !.pending = Retained(t, s)]]
    /\ lock' = [t \in Targets |->
                   IF Emptied(t, s) /\ InFlight(t)
                   THEN [lock[t] EXCEPT ![1].lostBuffer = TRUE] ELSE lock[t]]
    /\ dispatchState' = [t \in Targets |->
                            IF s \in dispatchState[t].subIds \/ subs' = {}
                            THEN NoState ELSE dispatchState[t]]
    /\ UNCHANGED <<inbox, target, minUnacked, paused, generation, resume, arriving, ackDue, crashes>>

\* The process stops anywhere and starts again from the store.
Crash ==
    /\ crashes < MaxCrashes
    /\ crashes' = crashes + 1
    /\ generation' = 0
    /\ buffer' = [t \in Targets |-> NoBuffer]
    /\ lock' = [t \in Targets |-> <<>>]
    /\ resume' = Idle
    /\ arriving' = [e \in Entries |-> [step |-> "idle", to |-> {}]]
    /\ ackDue' = {}
    /\ UNCHANGED persisted

-----------------------------------------------------------------------------
(* Specification *)

Answers  == {"pass", "defer", "offline"}
Outcomes == {"dispatched", "retry", "offline", "error"}

Notifying(t) ==
    \/ FencedTurn(t) \/ DrainTurn(t)
    \/ FlushNothing(t) \/ FlushDiscards(t) \/ FlushDispatches(t) \/ FlushMerges(t)
    \/ RetrySettles(t) \/ RetryDispatches(t)
    \/ CatchUpSettles(t) \/ CatchUpDispatches(t)
    \/ \E answer \in Answers : GateAnswers(t, answer)
    \/ ReminderReady(t)
    \/ \E outcome \in Outcomes : SendEnds(t, outcome)

Arrival(e) == PollReads(e) \/ PollStores(e) \/ PollEnqueues(e) \/ DirectMessage(e)

Next ==
    \/ \E e \in Entries : Arrival(e) \/ Ack(e)
    \/ \E t \in Targets :
          \/ Notifying(t)
          \/ TimerFires(t) \/ LeaseExpires(t) \/ LeaseTick(t) \/ AckFollowUp(t)
          \/ ResumeRetries(t)
          \/ AddTarget(t) \/ ResumeTarget(t) \/ RemoveTarget(t)
          \/ \E n \in Thresholds : UpdatePolicy(t, n)
    \/ Pause \/ ResumeBegins \/ Unpause \/ ResumeEnds
    \/ \E s \in Subs : RemoveSubscription(s)
    \/ Crash

Spec == Init /\ [][Next]_vars

\* The process runs what it queued; the sync interval and the expiry of leases keep
\* coming back; an endpoint that is asked again and again answers in the end. Nothing
\* is assumed of the user: no ack, no resume, no repair of a target. Strong fairness of
\* a timer only undoes the bound MaxOps, which may keep it waiting while ticks pass.
Fairness ==
    /\ \A t \in Targets :
          /\ WF_vars(Notifying(t)) /\ SF_vars(TimerFires(t)) /\ SF_vars(AckFollowUp(t))
          /\ WF_vars(LeaseExpires(t)) /\ SF_vars(LeaseTick(t))
          /\ SF_vars(GateAnswers(t, "pass")) /\ SF_vars(SendEnds(t, "dispatched"))
    /\ \A e \in Entries : WF_vars(PollStores(e)) /\ WF_vars(PollEnqueues(e))
    /\ WF_vars(Unpause) /\ WF_vars(ResumeEnds)

FairSpec == Spec /\ Fairness

-----------------------------------------------------------------------------
(* Properties *)

Ops ==
    [kind : OpKinds, gen : 0..MaxPauses, phase : OpPhases, batch : SUBSET Entries,
     new : SUBSET Entries, subIds : SUBSET Subs, sent : SUBSET Entries,
     snap : DispatchStates, lostBuffer : BOOLEAN]

\* Every variable has its type; only the head of a lock can be running.
TypeOK ==
    /\ inbox \in [Entries -> {"none", "unacked", "acked"}]
    /\ subs \subseteq Subs
    /\ target \in [Targets -> {"unborn", "active", "offline", "removed"}]
    /\ minUnacked \in [Targets -> Thresholds]
    /\ paused \in BOOLEAN
    /\ dispatchState \in [Targets -> DispatchStates]
    /\ generation \in 0..MaxPauses
    /\ buffer \in [Targets -> Buffers]
    /\ lock \in [Targets -> Seq(Ops)]
    /\ \A t \in Targets : \A i \in 2..Len(lock[t]) : lock[t][i].phase = "queued"
    /\ resume \in [phase : {"idle", "drain", "catchup"}, to : SUBSET Targets,
                   backoff : SUBSET Targets]
    /\ arriving \in [Entries -> [step : {"idle", "read", "stored"}, to : SUBSET Targets]]
    /\ ackDue \subseteq Targets
    /\ crashes \in 0..MaxCrashes

\* A notification of t starts in this step.
SendStarts(t) ==
    /\ lock'[t] # <<>>
    /\ Head(lock'[t]).phase = "send"
    /\ ~Waiting(t, {"send"})

\* No request starts while the agent is paused, nor one decided before a pause
\* even if the agent was resumed since ("No await is permitted between the pause
\* check and starting dispatch", service.ts:3652).
FencedSend ==
    [][\A t \in Targets :
          SendStarts(t) => ~paused /\ Head(lock'[t]).gen = generation]_vars

\* A target that failed or deferred is left alone until its backoff is over,
\* however many ticks, flushes and resumes were queued meanwhile
\* (service.ts:3351-3356). Only an ack may hurry it, or a catch-up when all that
\* the backoff was about has been acked before the agent was resumed.
BackoffRespected ==
    [][\A t \in Targets :
          LET op == Head(lock'[t])
          IN  SendStarts(t) =>
                  \/ op.kind = "ack"
                  \/ ~BackingOff(t)
                  \/ op.kind = "catchup" /\ dispatchState[t].pending \cap op.sent = {}]_vars

\* A row that outlives its target is one the lease tick collects: it is never
\* left without a lease, which the tick skips (service.ts:4148).
OrphanRowsAreCollected ==
    \A t \in Targets :
        dispatchState[t].status # "none" /\ ~Exists(t)
            => dispatchState[t].status = "dirty" /\ dispatchState[t].lease # "null"

\* With the types of all variables.
RowsAreSound == TypeOK /\ OrphanRowsAreCollected

\* The entries some part of the machinery still holds for t.  The catch-up of a resume is
\* not counted: it holds no entry, it reads the unacked ones when it has the lock.
HasTimer(t) ==
    \/ buffer[t].timer = "armed"
    \/ InFlight(t)
    \/ \E i \in DOMAIN lock[t] :
          /\ lock[t][i].kind = "flush" /\ lock[t][i].phase = "queued"
          /\ lock[t][i].gen = generation
Carried(t) ==
    {e \in Entries :
        \/ arriving[e].step = "stored" /\ t \in arriving[e].to
        \/ e \in buffer[t].pending /\ HasTimer(t)
        \/ Running(t) /\ Allowed(t) /\ e \in Head(lock[t]).new
        \/ dispatchState[t].status = "dirty" /\ e \in dispatchState[t].pending}

\* The step ends an operation of t that announced e.
Announced(t, e) ==
    /\ Running(t)
    /\ dispatchState'[t].status = "notified"
    /\ e \in Head(lock[t]).sent

\* The places where the code knowingly or not lets go of an entry nobody acked:
\* the target is not effective, the agent is paused (its resume catches up), the
\* process restarts, a subscription is removed or was while an operation ran, which
\* lost its row or the buffer it flushes (and then deletes the new one), or the
\* buffer kept the handle of a timer that fired during a pause.
LetGo(t) ==
    \/ t \notin Effective'
    \/ paused'
    \/ crashes' # crashes
    \/ subs' # subs
    \/ Running(t) /\ Head(lock[t]).lostBuffer
    \/ Running(t) /\ Head(lock[t]).snap.status # "none" /\ dispatchState[t] = NoState
    \/ buffer[t].timer = "fired" /\ ~HasTimer(t)

\* An unacked entry held for a target is not forgotten before a notification
\* announced it, but in the cases LetGo lists.
NoSilentDrop ==
    [][\A t \in Targets : \A e \in Carried(t) \ Carried(t)' :
          e \notin Unacked' \/ Announced(t, e) \/ LetGo(t)]_vars

\* An entry held for an effective target of an agent that is not paused does not
\* stay held for ever: it is announced, or too few entries are unacked for a policy
\* the target may have had when it was looked at.
Settled(t) == \/ paused
              \/ t \notin Effective
              \/ \E n \in Thresholds : Cardinality(Unacked) < n
NeverStuck ==
    \A t \in Targets : \A e \in Entries :
        (e \in Carried(t)) ~> (e \notin Carried(t) \/ Settled(t))

\* Removing a subscription drops its own pending entries and no others
\* ("it remains dirty pending state and retries at ack/lease expiry").  A target with a
\* queued catch-up has all it needs: that one sends whatever is unacked.
SiblingsStayPending ==
    [][subs' # subs =>
          \A t \in Targets : ~QueuedOn(t, "catchup") =>
              \A e \in Carried(t) \ Carried(t)' : SubOf[e] \notin subs']_vars
=============================================================================
