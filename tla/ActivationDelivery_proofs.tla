---------------------- MODULE ActivationDelivery_proofs ----------------------
(***************************************************************************)
(* What ActivationDelivery promises for any targets, entries, policies,    *)
(* pauses and restarts: its rows are sound, its requests are fenced by a   *)
(* pause, a backoff is respected, and an entry that is held for a target   *)
(* is not dropped before a notification announced it.                      *)
(*                                                                         *)
(* None of these is inductive.  An operation that runs remembers the row   *)
(* it read and the entries it will announce or put back, several awaits    *)
(* ago; a catch-up relies on what a resume found.  IInv adds to the types  *)
(* what running operations, rows, buffers and queues know of each other:   *)
(* RowOK and QueueOK say it of one target, over its row, its buffer and    *)
(* its queue, so that a step of another target needs no argument.          *)
(***************************************************************************)
EXTENDS ActivationDelivery, TLAPS

-----------------------------------------------------------------------------
(* The inductive invariant *)

Stored == {e \in Entries : inbox[e] # "none"}
Done   == {e \in Entries : inbox[e] = "acked"}

\* A row has pending entries exactly while it is dirty.
WellFormed(s) ==
    /\ s.status = "dirty" <=> s.pending # {}
    /\ s.status = "none" => s = NoState

RowBacksOff(s) == s.status = "dirty" /\ s.lease = "live"

\* Running and InFlight, of a queue.
HeadRuns(q)    == q # <<>> /\ Head(q).phase # "queued"
HeadFlushes(q) == HeadRuns(q) /\ Head(q).kind = "flush" /\ ~Head(q).lostBuffer

\* What an operation that runs on the row s of its target keeps in mind.
RunsOn(op, s, stored, done) ==
    /\ op.kind # "drain"
    /\ WellFormed(op.snap)
    /\ s \in {NoState, op.snap, [op.snap EXCEPT !.lease = "expired"]}
    /\ op.new # {}
    /\ op.snap.pending \subseteq op.new \cup done
    /\ op.new \subseteq op.sent \cup done
    /\ op.sent \subseteq stored
    /\ op.kind = "flush" =>
          MayNotifyNow(op.snap) /\ op.new = op.batch \cup op.snap.pending
    /\ op.kind \in Retries =>
          /\ op.snap.status = "dirty" /\ op.new = op.snap.pending
          /\ op.kind # "ack" => op.snap.lease = "expired"
    /\ op.kind = "catchup" =>
          /\ op.new = op.sent
          /\ RowBacksOff(op.snap) => op.snap.pending \cap op.sent = {}

\* The row s, the buffer b and the queue q of one target.
RowOK(s, b, q, stored, done) ==
    /\ WellFormed(s)
    /\ s.pending \subseteq stored
    /\ b.pending \subseteq stored
    /\ HeadRuns(q) => RunsOn(Head(q), s, stored, done)
    /\ HeadFlushes(q) => b.timer = "none"

\* A resume finds the locks it drained empty, and its catch-ups come first on them.
QueueOK(t, q, s, res, done) ==
    /\ \A i \in DOMAIN q :
          /\ q[i].kind = "drain" => res.phase = "drain" /\ t \in res.to
          /\ q[i].kind = "catchup" => i = 1 /\ res.phase = "catchup" /\ t \in res.to
    /\ res.phase = "drain" /\ t \in res.to /\ q # <<>> => q[Len(q)].kind = "drain"
    /\ q # <<>> /\ Head(q).kind = "catchup" /\ ~HeadRuns(q) =>
          IF t \in res.backoff
          THEN s.status \in {"none", "dirty"}
          ELSE RowBacksOff(s) => s.pending \subseteq done

RowInv(t)   == RowOK(dispatchState[t], buffer[t], lock[t], Stored, Done)
QueueInv(t) == QueueOK(t, lock[t], dispatchState[t], resume, Done)

\* An entry is stored once, by the poll that read it or as a direct message.
ArrivingInv(e) ==
    /\ arriving[e].step = "read" => inbox[e] = "none" /\ SubOf[e] \in Subs
    /\ arriving[e].step = "stored" => inbox[e] # "none"

Inv ==
    /\ \A e \in Entries : ArrivingInv(e)
    /\ resume.phase = "drain" => paused
    /\ \A t \in Targets : RowInv(t) /\ QueueInv(t)

IInv == RowsAreSound /\ Inv

-----------------------------------------------------------------------------
(* Queues *)

\* Only the first operation of a queue can be running.
OnlyHeadRuns(q) == q \in Seq(Ops) /\ \A i \in 2..Len(q) : q[i].phase = "queued"

\* An operation is queued with the generation of that moment.
LEMMA OpTypes ==
    ASSUME TypeOK, NEW kind \in OpKinds
    PROVE  NewOp(kind) \in Ops /\ NewOp(kind).phase = "queued" /\ NewOp(kind).kind = kind
           /\ NewOp(kind).gen = generation
  BY DEF TypeOK, NewOp, Ops, OpPhases, NoState, DispatchStates

\* What appending an operation to a queue gives.
LEMMA PushFacts ==
    ASSUME TypeOK, NEW q \in Seq(Ops), NEW kind \in OpKinds
    PROVE  LET r == Push(q, kind)
           IN  /\ r \in Seq(Ops) /\ r # <<>> /\ Len(r) = Len(q) + 1
               /\ \A i \in 1..Len(q) : r[i] = q[i]
               /\ r[Len(r)] = NewOp(kind)
               /\ Head(r) = IF q = <<>> THEN NewOp(kind) ELSE Head(q)
  BY OpTypes DEF Push

\* What leaving a queue gives.
LEMMA PopFacts ==
    ASSUME NEW q \in Seq(Ops), q # <<>>
    PROVE  LET r == Tail(q)
           IN  /\ r \in Seq(Ops) /\ Len(r) = Len(q) - 1
               /\ \A i \in 1..Len(r) : r[i] = q[i + 1]
               /\ r # <<>> => Head(r) = q[2]
  OBVIOUS

\* What rewriting the head of a queue gives.
LEMMA HeadFacts ==
    ASSUME NEW q \in Seq(Ops), q # <<>>, NEW op \in Ops
    PROVE  LET r == [q EXCEPT ![1] = op]
           IN  /\ r \in Seq(Ops) /\ r # <<>> /\ Len(r) = Len(q)
               /\ \A i \in 2..Len(q) : r[i] = q[i]
               /\ Head(r) = op
  OBVIOUS

\* A queue keeps its shape when an operation joins it,
LEMMA PushKeeps ==
    ASSUME TypeOK, NEW q, OnlyHeadRuns(q), NEW kind \in OpKinds
    PROVE  OnlyHeadRuns(Push(q, kind))
<1>1. ASSUME NEW i \in 2..Len(Push(q, kind)) PROVE Push(q, kind)[i].phase = "queued"
  <2>1. q \in Seq(Ops)
    BY DEF OnlyHeadRuns
  <2>2. i \in 2..Len(q) \/ i = Len(Push(q, kind))
    BY <2>1, PushFacts
  <2>3. CASE i \in 2..Len(q)
    <3>1. i \in 1..Len(q)
      BY <2>1, <2>3
    <3> QED BY <2>1, <2>3, <3>1, PushFacts DEF OnlyHeadRuns
  <2>4. CASE i = Len(Push(q, kind))
    <3>1. Push(q, kind)[Len(Push(q, kind))] = NewOp(kind)
      BY <2>1, PushFacts
    <3> QED BY <2>4, <3>1, OpTypes
  <2> QED BY <2>2, <2>3, <2>4
<1> QED BY <1>1, PushFacts DEF OnlyHeadRuns

\* when its head leaves it,
LEMMA PopKeeps ==
    ASSUME NEW q, OnlyHeadRuns(q), q # <<>>
    PROVE  OnlyHeadRuns(Tail(q))
<1>1. q \in Seq(Ops)
  BY DEF OnlyHeadRuns
<1>2. ASSUME NEW i \in 2..Len(Tail(q)) PROVE Tail(q)[i].phase = "queued"
  <2>1. i + 1 \in 2..Len(q) /\ i \in 1..Len(Tail(q))
    BY <1>1, PopFacts
  <2> QED BY <1>1, <2>1, PopFacts DEF OnlyHeadRuns
<1> QED BY <1>1, <1>2, PopFacts DEF OnlyHeadRuns

\* and when its head goes on.
LEMMA HeadKeeps ==
    ASSUME NEW q, OnlyHeadRuns(q), q # <<>>, NEW op \in Ops
    PROVE  OnlyHeadRuns([q EXCEPT ![1] = op])
  BY HeadFacts DEF OnlyHeadRuns

\* The head of the lock of a target is its first operation.
LEMMA HeadIsOp ==
    ASSUME TypeOK, NEW t \in Targets, lock[t] # <<>>
    PROVE  Head(lock[t]) \in Ops /\ Head(lock[t]) = lock[t][1] /\ lock[t] \in Seq(Ops)
  BY DEF TypeOK

-----------------------------------------------------------------------------
(* Types *)

AllOutcomes ==
    {"dispatched", "unchanged", "held", "deferred", "retry", "offline", "paused", "skipped",
     "error"}

\* The part of TypeOK that the operations on the targets change.
MachineryOK ==
    /\ dispatchState \in [Targets -> DispatchStates]
    /\ buffer \in [Targets -> Buffers]
    /\ lock \in [Targets -> Seq(Ops)]
    /\ \A t \in Targets : OnlyHeadRuns(lock[t])

\* TypeOK says so of the machinery.
LEMMA TypesOfMachinery ==
    ASSUME TypeOK
    PROVE  MachineryOK
  BY DEF TypeOK, MachineryOK, OnlyHeadRuns

\* The subscriptions of a set of entries are subscriptions.
LEMMA SubsOfIsTyped ==
    ASSUME NEW S \in SUBSET Entries
    PROVE  SubsOf(S) \in SUBSET Subs
  BY DeliveryAssumption DEF SubsOf

\* The unacked entries are entries.
LEMMA UnackedIsTyped ==
    Unacked \in SUBSET Entries
  BY DEF Unacked

\* Every outcome leaves a row.
LEMMA StateAfterIsTyped ==
    ASSUME TypeOK, NEW t \in Targets, NEW op \in Ops, NEW outcome \in AllOutcomes
    PROVE  StateAfter(t, op, outcome) \in DispatchStates
  BY DEF TypeOK, StateAfter, AllOutcomes, Dirty, Notified, Ops, DispatchStates, NoState

\* Every outcome leaves a buffer.
LEMMA BufferAfterIsTyped ==
    ASSUME NEW op \in Ops, NEW outcome \in AllOutcomes, NEW b \in Buffers
    PROVE  BufferAfter(op, outcome, b) \in Buffers
  BY DEF BufferAfter, Ops, Buffers, NoBuffer

\* An operation joins the queues of some targets.
LEMMA QueueTypes ==
    ASSUME TypeOK, NEW S \in SUBSET Targets, NEW kind \in OpKinds,
           lock' = [t \in Targets |-> IF t \in S THEN Push(lock[t], kind) ELSE lock[t]]
    PROVE  lock' \in [Targets -> Seq(Ops)] /\ \A t \in Targets : OnlyHeadRuns(lock'[t])
<1> DEFINE P(t) == IF t \in S THEN Push(lock[t], kind) ELSE lock[t]
<1>1. ASSUME NEW t \in Targets PROVE OnlyHeadRuns(P(t)) /\ P(t) \in Seq(Ops)
  BY TypesOfMachinery, PushKeeps, PushFacts DEF MachineryOK
<1>2. lock' = [t \in Targets |-> P(t)]
  OBVIOUS
<1> HIDE DEF P
<1> QED BY <1>1, <1>2

\* An operation leaves the queue of its target.
LEMMA PopTypes ==
    ASSUME TypeOK, NEW t \in Targets, lock[t] # <<>>, Pop(t)
    PROVE  lock' \in [Targets -> Seq(Ops)] /\ \A u \in Targets : OnlyHeadRuns(lock'[u])
<1>1. OnlyHeadRuns(Tail(lock[t])) /\ Tail(lock[t]) \in Seq(Ops)
  BY TypesOfMachinery, PopKeeps, PopFacts DEF MachineryOK
<1> QED BY <1>1, TypesOfMachinery DEF MachineryOK, Pop

\* The head of the queue of a target goes on.
LEMMA HeadTypes ==
    ASSUME TypeOK, NEW t \in Targets, lock[t] # <<>>, NEW op \in Ops,
           lock' = [lock EXCEPT ![t] = [lock[t] EXCEPT ![1] = op]]
    PROVE  lock' \in [Targets -> Seq(Ops)] /\ \A u \in Targets : OnlyHeadRuns(lock'[u])
<1>1. OnlyHeadRuns([lock[t] EXCEPT ![1] = op]) /\ [lock[t] EXCEPT ![1] = op] \in Seq(Ops)
  BY TypesOfMachinery, HeadKeeps, HeadFacts DEF MachineryOK
<1> QED BY <1>1, TypesOfMachinery DEF MachineryOK

\* The end of a dispatch keeps the types.
LEMMA ConcludeTypes ==
    ASSUME TypeOK, NEW t \in Targets, lock[t] # <<>>,
           NEW op \in Ops, NEW outcome \in AllOutcomes, NEW b \in Buffers,
           Conclude(t, op, outcome, b)
    PROVE  MachineryOK'
<1>1. dispatchState' \in [Targets -> DispatchStates] /\ buffer' \in [Targets -> Buffers]
  BY StateAfterIsTyped, BufferAfterIsTyped, TypesOfMachinery DEF Conclude, SetState, MachineryOK
<1> QED BY <1>1, PopTypes DEF Conclude, MachineryOK

\* A verdict other than "go" is an outcome.
LEMMA VerdictIsOutcome ==
    ASSUME TypeOK, NEW t \in Targets, NEW op, Verdict(t, op) # "go"
    PROVE  Verdict(t, op) \in {"offline", "skipped", "held"}
  BY DEF Verdict, TypeOK, Effective, MeetsThreshold

\* The beginning of a dispatch keeps the types.
LEMMA StartTypes ==
    ASSUME TypeOK, NEW t \in Targets, lock[t] # <<>>,
           NEW op \in Ops, NEW b \in Buffers, StartDispatch(t, op, b)
    PROVE  MachineryOK'
<1>1. CASE Verdict(t, op) # "go"
  <2>1. Verdict(t, op) \in AllOutcomes
    BY <1>1, VerdictIsOutcome DEF AllOutcomes
  <2>2. Conclude(t, op, Verdict(t, op), b)
    BY <1>1 DEF StartDispatch
  <2> QED BY <2>1, <2>2, ConcludeTypes
<1>2. CASE Verdict(t, op) = "go"
  <2> DEFINE running == [op EXCEPT !.phase = IF t \in Terminals THEN "gate" ELSE "send"]
  <2>1. running \in Ops
    BY DEF Ops, OpPhases
  <2>2. lock' = [lock EXCEPT ![t] = [lock[t] EXCEPT ![1] = running]]
    BY <1>2 DEF StartDispatch
  <2>3. lock' \in [Targets -> Seq(Ops)] /\ \A u \in Targets : OnlyHeadRuns(lock'[u])
    <3> HIDE DEF running
    <3> QED BY <2>1, <2>2, HeadTypes
  <2>4. dispatchState' = dispatchState /\ buffer' = [buffer EXCEPT ![t] = b]
    BY <1>2 DEF StartDispatch
  <2> QED BY <2>3, <2>4, TypesOfMachinery DEF MachineryOK
<1> QED BY <1>1, <1>2

\* The part of TypeOK that speaks of the other variables.
BookkeepingOK ==
    /\ inbox \in [Entries -> {"none", "unacked", "acked"}]
    /\ subs \subseteq Subs
    /\ target \in [Targets -> {"unborn", "active", "offline", "removed"}]
    /\ minUnacked \in [Targets -> Thresholds]
    /\ paused \in BOOLEAN
    /\ generation \in 0..MaxPauses
    /\ resume \in [phase : {"idle", "drain", "catchup"}, to : SUBSET Targets,
                   backoff : SUBSET Targets]
    /\ arriving \in [Entries -> [step : {"idle", "read", "stored"}, to : SUBSET Targets]]
    /\ ackDue \subseteq Targets
    /\ crashes \in 0..MaxCrashes

\* TypeOK is the two parts together.
LEMMA TypesAreTwoParts ==
    TypeOK <=> MachineryOK /\ BookkeepingOK
  BY DEF TypeOK, MachineryOK, BookkeepingOK, OnlyHeadRuns

\* The effective targets are targets.
LEMMA EffectiveIsTyped ==
    Effective \in SUBSET Targets
  BY DEF Effective

\* An operation joins the queue of one target.
LEMMA QueueOneTypes ==
    ASSUME TypeOK, NEW t \in Targets, NEW kind \in OpKinds, Queue(t, kind)
    PROVE  lock' \in [Targets -> Seq(Ops)] /\ \A u \in Targets : OnlyHeadRuns(lock'[u])
<1>1. OnlyHeadRuns(Push(lock[t], kind)) /\ Push(lock[t], kind) \in Seq(Ops)
  BY TypesOfMachinery, PushKeeps, PushFacts DEF MachineryOK
<1>2. lock' = [lock EXCEPT ![t] = Push(lock[t], kind)]
  BY DEF Queue
<1> QED BY <1>1, <1>2, TypesOfMachinery DEF MachineryOK

\* enqueueActivationTarget keeps the types.
LEMMA EnqueueTypes ==
    ASSUME TypeOK, NEW e \in Entries, NEW to \in SUBSET Targets, EnqueueAll(e, to),
           UNCHANGED dispatchState
    PROVE  MachineryOK'
<1>1. CASE paused
  BY <1>1, TypesOfMachinery DEF EnqueueAll, MachineryOK
<1>2. CASE ~paused
  <2>1. \A t \in Targets : Enqueued(t, e) \in Buffers
    BY DEF Enqueued, TypeOK, Buffers
  <2>2. buffer' \in [Targets -> Buffers]
    BY <1>2, <2>1, ZenonT(30) DEF EnqueueAll, TypeOK
  <2> DEFINE S == {t \in to : Full(t, e)}
  <2>3. lock' = [t \in Targets |-> IF t \in S THEN Push(lock[t], "flush") ELSE lock[t]]
    BY <1>2 DEF EnqueueAll
  <2>4. S \in SUBSET Targets /\ "flush" \in OpKinds
    BY DEF OpKinds
  <2>5. lock' \in [Targets -> Seq(Ops)] /\ \A t \in Targets : OnlyHeadRuns(lock'[t])
    <3> HIDE DEF S
    <3> QED BY <2>3, <2>4, QueueTypes
  <2> QED BY <2>2, <2>5, TypesOfMachinery DEF MachineryOK
<1> QED BY <1>1, <1>2

\* An operation whose turn has come, with what a handler finds on the row.
LEMMA DispatchedOpIsTyped ==
    ASSUME TypeOK, NEW t \in Targets, lock[t] # <<>>,
           NEW batch \in SUBSET Entries, NEW new \in SUBSET Entries,
           NEW subIds \in SUBSET Subs
    PROVE  /\ [Head(lock[t]) EXCEPT !.batch = batch, !.snap = dispatchState[t],
                  !.sent = Unacked, !.new = new, !.subIds = subIds] \in Ops
           /\ [Head(lock[t]) EXCEPT !.snap = dispatchState[t],
                  !.sent = Unacked, !.new = new, !.subIds = subIds] \in Ops
<1>1. Head(lock[t]) \in Ops /\ dispatchState[t] \in DispatchStates /\ Unacked \in SUBSET Entries
  BY HeadIsOp, UnackedIsTyped DEF TypeOK
<1> QED BY <1>1 DEF Ops

\* The parts of a row and of a buffer.
LEMMA RowParts ==
    ASSUME TypeOK, NEW t \in Targets
    PROVE  /\ dispatchState[t].pending \in SUBSET Entries
           /\ dispatchState[t].fingerprint \in SUBSET Entries
           /\ dispatchState[t].subIds \in SUBSET Subs
           /\ dispatchState[t].status \in {"none", "notified", "dirty"}
           /\ dispatchState[t].lease \in {"null", "live", "expired"}
           /\ buffer[t].pending \in SUBSET Entries
           /\ buffer[t].timer \in {"none", "armed", "fired"}
  BY DEF TypeOK, DispatchStates, Buffers

\* A dirty row is a row.
LEMMA DirtyIsTyped ==
    ASSUME NEW lease \in {"null", "live", "expired"}, NEW fp \in SUBSET Entries,
           NEW new \in SUBSET Entries, NEW subIds \in SUBSET Subs
    PROVE  Dirty(lease, fp, new, subIds) \in DispatchStates
  BY DEF Dirty, DispatchStates

\* So are the empty row and the empty buffer.
LEMMA NothingIsTyped ==
    NoState \in DispatchStates /\ NoBuffer \in Buffers
  BY DEF NoState, NoBuffer, DispatchStates, Buffers

\* The turn of a flush keeps the types.
LEMMA FlushTypes ==
    ASSUME TypeOK, NEW t \in Targets,
           FlushDiscards(t) \/ FlushDispatches(t) \/ FlushMerges(t)
    PROVE  MachineryOK'
<1>0. lock[t] # <<>>
  BY DEF FlushDiscards, FlushDispatches, FlushMerges, Turn
<1>1. CASE FlushDiscards(t)
  <2>1. lock' \in [Targets -> Seq(Ops)] /\ \A u \in Targets : OnlyHeadRuns(lock'[u])
    BY <1>0, <1>1, PopTypes DEF FlushDiscards
  <2>2. dispatchState' \in [Targets -> DispatchStates] /\ buffer' \in [Targets -> Buffers]
    BY <1>1, NothingIsTyped, TypesOfMachinery DEF FlushDiscards, SetState, MachineryOK
  <2> QED BY <2>1, <2>2 DEF MachineryOK
<1>2. CASE FlushDispatches(t)
  <2> DEFINE s     == dispatchState[t]
             batch == buffer[t].pending
             op    == [Head(lock[t]) EXCEPT
                        !.batch = batch, !.snap = s, !.sent = Unacked,
                        !.new = batch \cup s.pending,
                        !.subIds = SubsOf(batch) \cup s.subIds]
  <2>1. batch \in SUBSET Entries /\ batch \cup s.pending \in SUBSET Entries
        /\ SubsOf(batch) \cup s.subIds \in SUBSET Subs
    BY RowParts, SubsOfIsTyped
  <2>2. op \in Ops
    BY <1>0, <2>1, DispatchedOpIsTyped
  <2>3. Spliced(t) \in Buffers
    BY DEF Spliced, Buffers
  <2>4. StartDispatch(t, op, Spliced(t))
    BY <1>2 DEF FlushDispatches
  <2> HIDE DEF op
  <2> QED BY <1>0, <2>2, <2>3, <2>4, StartTypes
<1>3. CASE FlushMerges(t)
  <2> DEFINE s     == dispatchState[t]
             batch == buffer[t].pending
             new   == Dirty(s.lease, s.fingerprint, s.pending \cup batch,
                            s.subIds \cup SubsOf(batch))
  <2>1. new \in DispatchStates
    BY RowParts, SubsOfIsTyped, DirtyIsTyped
  <2>2. dispatchState' = [dispatchState EXCEPT ![t] = new]
        /\ buffer' = [buffer EXCEPT ![t] = NoBuffer] /\ Pop(t)
    BY <1>3 DEF FlushMerges, SetState
  <2>3. lock' \in [Targets -> Seq(Ops)] /\ \A u \in Targets : OnlyHeadRuns(lock'[u])
    BY <1>0, <2>2, PopTypes
  <2> HIDE DEF new
  <2> QED BY <2>1, <2>2, <2>3, NothingIsTyped, TypesOfMachinery DEF MachineryOK
<1> QED BY <1>1, <1>2, <1>3

\* The turn of a retry keeps the types.
LEMMA RetryTypes ==
    ASSUME TypeOK, NEW t \in Targets, RetrySettles(t) \/ RetryDispatches(t)
    PROVE  MachineryOK'
<1> DEFINE s == dispatchState[t]
<1>0. lock[t] # <<>>
  BY DEF RetrySettles, RetryDispatches, Turn
<1>1. PendingOf(s) \in SUBSET Entries
  BY RowParts, UnackedIsTyped DEF PendingOf
<1>2. CASE RetrySettles(t)
  <2> DEFINE kind == Head(lock[t]).kind
             new  == IF NotDue(kind, s) THEN s ELSE StateWithoutDispatch(t, kind, s)
  <2>1. s \in DispatchStates
    BY DEF TypeOK
  <2>2. [s EXCEPT !.lease = "live"] \in DispatchStates
    BY <2>1 DEF DispatchStates
  <2>3. Dirty("null", s.fingerprint, PendingOf(s), s.subIds) \in DispatchStates
    BY <1>1, RowParts, DirtyIsTyped
  <2>4. new \in DispatchStates
    BY <2>1, <2>2, <2>3, NothingIsTyped DEF StateWithoutDispatch
  <2>5. dispatchState' = [dispatchState EXCEPT ![t] = new] /\ buffer' = buffer /\ Pop(t)
    BY <1>2 DEF RetrySettles, SetState
  <2>6. lock' \in [Targets -> Seq(Ops)] /\ \A u \in Targets : OnlyHeadRuns(lock'[u])
    BY <1>0, <2>5, PopTypes
  <2> HIDE DEF new
  <2> QED BY <2>4, <2>5, <2>6, TypesOfMachinery DEF MachineryOK
<1>3. CASE RetryDispatches(t)
  <2> DEFINE op == [Head(lock[t]) EXCEPT !.snap = s, !.sent = Unacked,
                       !.new = PendingOf(s), !.subIds = s.subIds]
  <2>1. op \in Ops
    BY <1>0, <1>1, RowParts, DispatchedOpIsTyped
  <2>2. StartDispatch(t, op, buffer[t])
    BY <1>3 DEF RetryDispatches
  <2>3. buffer[t] \in Buffers
    BY DEF TypeOK
  <2> HIDE DEF op
  <2> QED BY <1>0, <2>1, <2>2, <2>3, StartTypes
<1> QED BY <1>2, <1>3

\* The turn of a catch-up keeps the types.
LEMMA CatchUpTypes ==
    ASSUME TypeOK, NEW t \in Targets, CatchUpSettles(t) \/ CatchUpDispatches(t)
    PROVE  MachineryOK'
<1> DEFINE s == dispatchState[t]
<1>0. lock[t] # <<>>
  BY DEF CatchUpSettles, CatchUpDispatches, Turn
<1>1. Unacked \in SUBSET Entries /\ SubsOf(Unacked) \in SUBSET Subs
  BY UnackedIsTyped, SubsOfIsTyped
<1>2. CASE CatchUpSettles(t)
  <2>1. s \in DispatchStates
    BY DEF TypeOK
  <2>2. [s EXCEPT !.pending = Unacked, !.subIds = SubsOf(Unacked)] \in DispatchStates
    BY <1>1, <2>1 DEF DispatchStates
  <2>3. dispatchState' \in [Targets -> DispatchStates] /\ buffer' \in [Targets -> Buffers]
    BY <1>2, <2>2, NothingIsTyped, TypesOfMachinery DEF CatchUpSettles, SetState, MachineryOK
  <2>4. lock' \in [Targets -> Seq(Ops)] /\ \A u \in Targets : OnlyHeadRuns(lock'[u])
    BY <1>0, <1>2, PopTypes DEF CatchUpSettles
  <2> QED BY <2>3, <2>4 DEF MachineryOK
<1>3. CASE CatchUpDispatches(t)
  <2> DEFINE op == [Head(lock[t]) EXCEPT !.snap = s, !.sent = Unacked, !.new = Unacked,
                       !.subIds = SubsOf(Unacked)]
  <2>1. op \in Ops
    BY <1>0, <1>1, DispatchedOpIsTyped
  <2>2. StartDispatch(t, op, NoBuffer)
    BY <1>3 DEF CatchUpDispatches
  <2> HIDE DEF op
  <2> QED BY <1>0, <2>1, <2>2, NothingIsTyped, StartTypes
<1> QED BY <1>2, <1>3

\* An operation that awaits once more keeps the types.
LEMMA AdvanceTypes ==
    ASSUME TypeOK, NEW t \in Targets, lock[t] # <<>>, NEW phase \in OpPhases, Advance(t, phase)
    PROVE  MachineryOK'
<1> DEFINE op == [Head(lock[t]) EXCEPT !.phase = phase]
<1>1. op \in Ops
  BY HeadIsOp DEF Ops
<1>2. lock' = [lock EXCEPT ![t] = [lock[t] EXCEPT ![1] = op]]
  <2>1. lock' = [lock EXCEPT ![t] = [lock[t] EXCEPT ![1] = [lock[t][1] EXCEPT !.phase = phase]]]
    BY HeadIsOp DEF Advance, TypeOK
  <2> QED BY <2>1, HeadIsOp
<1>3. lock' \in [Targets -> Seq(Ops)] /\ \A u \in Targets : OnlyHeadRuns(lock'[u])
  <2> HIDE DEF op
  <2> QED BY <1>1, <1>2, HeadTypes
<1> QED BY <1>3, TypesOfMachinery DEF Advance, MachineryOK

\* An operation that ends keeps the types.
LEMMA EndTypes ==
    ASSUME TypeOK, NEW t \in Targets, lock[t] # <<>>,
           NEW outcome \in AllOutcomes, End(t, outcome)
    PROVE  MachineryOK'
<1>1. Head(lock[t]) \in Ops /\ buffer[t] \in Buffers
  BY HeadIsOp DEF TypeOK
<1> QED BY <1>1, ConcludeTypes DEF End

\* What the step of an await does: an operation of t advances or ends.
AwaitStep(t) ==
    /\ Running(t)
    /\ \/ \E phase \in OpPhases \ {"queued"} : Advance(t, phase)
       \/ \E outcome \in AllOutcomes \ {"held", "skipped"} : End(t, outcome)
    /\ UNCHANGED <<inbox, subs, minUnacked, paused, generation, resume, arriving, ackDue, crashes>>

\* What follows an await awaits again or ends the operation.
LEMMA AwaitsAdvanceOrEnd ==
    ASSUME NEW t \in Targets,
           \/ \E answer \in Answers : GateAnswers(t, answer)
           \/ ReminderReady(t)
           \/ \E outcome \in Outcomes : SendEnds(t, outcome)
    PROVE  AwaitStep(t)
<1>1. ASSUME NEW answer \in Answers, GateAnswers(t, answer) PROVE AwaitStep(t)
  <2>1. "remind" \in OpPhases \ {"queued"} /\ "defer" \in OpPhases \ {"queued"}
        /\ {"paused", "offline"} \subseteq AllOutcomes \ {"held", "skipped"}
    BY DEF OpPhases, AllOutcomes
  <2> QED BY <1>1, <2>1 DEF GateAnswers, Waiting, AwaitStep
<1>2. ASSUME ReminderReady(t) PROVE AwaitStep(t)
  <2>1. "send" \in OpPhases \ {"queued"}
        /\ {"paused", "offline", "deferred", "unchanged"} \subseteq AllOutcomes \ {"held", "skipped"}
    BY DEF OpPhases, AllOutcomes
  <2> QED BY <1>2, <2>1 DEF ReminderReady, Waiting, AwaitStep
<1>3. ASSUME NEW outcome \in Outcomes, SendEnds(t, outcome) PROVE AwaitStep(t)
  <2>1. outcome \in AllOutcomes \ {"held", "skipped"} /\ "offline" \in AllOutcomes \ {"held", "skipped"}
    BY DEF Outcomes, AllOutcomes
  <2> QED BY <1>3, <2>1 DEF SendEnds, Waiting, AwaitStep
<1> QED BY <1>1, <1>2, <1>3

\* What follows an await keeps the types.
LEMMA AwaitTypes ==
    ASSUME TypeOK, NEW t \in Targets, AwaitStep(t)
    PROVE  MachineryOK'
  BY AdvanceTypes, EndTypes DEF AwaitStep, Running

\* A turn with nothing to do keeps the types.
LEMMA PopsAreTyped ==
    ASSUME TypeOK, NEW t \in Targets, FencedTurn(t) \/ DrainTurn(t) \/ FlushNothing(t)
    PROVE  MachineryOK'
<1>1. lock[t] # <<>> /\ Pop(t) /\ UNCHANGED <<dispatchState, buffer>>
  BY DEF FencedTurn, DrainTurn, FlushNothing, Turn, persisted
<1> QED BY <1>1, PopTypes, TypesOfMachinery DEF MachineryOK

\* Every step under the lock of a target keeps the types of the machinery.
LEMMA NotifyingTypes ==
    ASSUME TypeOK, NEW t \in Targets, Notifying(t)
    PROVE  MachineryOK'
  BY PopsAreTyped, FlushTypes, RetryTypes, CatchUpTypes, AwaitsAdvanceOrEnd, AwaitTypes
  DEF Notifying

\* A target whose request or gate answered may fall or come back.
LEMMA NotifyingBookkeeping ==
    ASSUME TypeOK, NEW t \in Targets, Notifying(t)
    PROVE  BookkeepingOK'
<1>1. UNCHANGED <<inbox, subs, minUnacked, paused, generation, resume, arriving, ackDue, crashes>>
  <2>1. CASE FencedTurn(t) \/ DrainTurn(t) \/ FlushNothing(t)
    BY <2>1 DEF FencedTurn, DrainTurn, FlushNothing, persisted
  <2>2. CASE FlushDiscards(t) \/ FlushDispatches(t) \/ FlushMerges(t)
    BY <2>2 DEF FlushDiscards, FlushDispatches, FlushMerges
  <2>3. CASE RetrySettles(t) \/ RetryDispatches(t)
    BY <2>3 DEF RetrySettles, RetryDispatches
  <2>4. CASE CatchUpSettles(t) \/ CatchUpDispatches(t)
    BY <2>4 DEF CatchUpSettles, CatchUpDispatches
  <2>5. CASE AwaitStep(t)
    BY <2>5 DEF AwaitStep
  <2> QED BY <2>1, <2>2, <2>3, <2>4, <2>5, AwaitsAdvanceOrEnd DEF Notifying
<1>2. target' \in [Targets -> {"unborn", "active", "offline", "removed"}]
  <2>1. CASE FencedTurn(t) \/ DrainTurn(t) \/ FlushNothing(t)
    BY <2>1 DEF FencedTurn, DrainTurn, FlushNothing, persisted, TypeOK
  <2>2. CASE FlushDiscards(t) \/ FlushDispatches(t) \/ FlushMerges(t)
    BY <2>2 DEF FlushDiscards, FlushDispatches, FlushMerges, TypeOK
  <2>3. CASE RetrySettles(t) \/ RetryDispatches(t)
    BY <2>3 DEF RetrySettles, RetryDispatches, TypeOK
  <2>4. CASE CatchUpSettles(t) \/ CatchUpDispatches(t)
    BY <2>4 DEF CatchUpSettles, CatchUpDispatches, TypeOK
  <2>5. ASSUME NEW answer \in Answers, GateAnswers(t, answer)
        PROVE  target' \in [Targets -> {"unborn", "active", "offline", "removed"}]
    <3>1. target' = target \/ target' = [target EXCEPT ![t] = "offline"]
      BY <2>5 DEF GateAnswers, Fall
    <3> QED BY <3>1 DEF TypeOK
  <2>6. CASE ReminderReady(t)
    BY <2>6 DEF ReminderReady, TypeOK
  <2>7. ASSUME NEW outcome \in Outcomes, SendEnds(t, outcome)
        PROVE  target' \in [Targets -> {"unborn", "active", "offline", "removed"}]
    <3>1. target' = target \/ target' = [target EXCEPT ![t] = "offline"]
          \/ target' = [target EXCEPT ![t] = "active"]
      BY <2>7 DEF SendEnds, TypeOK
    <3> QED BY <3>1 DEF TypeOK
  <2> QED BY <2>1, <2>2, <2>3, <2>4, <2>5, <2>6, <2>7 DEF Notifying
<1> QED BY <1>1, <1>2 DEF TypeOK, BookkeepingOK

\* The arrival of an entry keeps the types.
LEMMA ArrivalTypes ==
    ASSUME TypeOK, NEW e \in Entries, Arrival(e) \/ Ack(e)
    PROVE  TypeOK'
<1>1. CASE PollReads(e)
  BY <1>1, EffectiveIsTyped DEF PollReads, persisted, TypeOK
<1>2. CASE PollStores(e)
  BY <1>2, ZenonT(30) DEF PollStores, TypeOK
<1>3. CASE PollEnqueues(e)
  <2>1. arriving[e].to \in SUBSET Targets /\ EnqueueAll(e, arriving[e].to) /\ UNCHANGED dispatchState
    BY <1>3 DEF PollEnqueues, TypeOK, persisted
  <2>2. MachineryOK'
    BY <2>1, EnqueueTypes
  <2>3. BookkeepingOK'
    BY <1>3 DEF PollEnqueues, TypeOK, BookkeepingOK, persisted
  <2> QED BY <2>2, <2>3, TypesAreTwoParts, PTL
<1>4. CASE DirectMessage(e)
  <2>1. EnqueueAll(e, Effective) /\ UNCHANGED dispatchState
    BY <1>4 DEF DirectMessage
  <2>2. MachineryOK'
    BY <2>1, EffectiveIsTyped, EnqueueTypes
  <2>3. BookkeepingOK'
    BY <1>4 DEF DirectMessage, TypeOK, BookkeepingOK
  <2> QED BY <2>2, <2>3, TypesAreTwoParts, PTL
<1>5. CASE Ack(e)
  BY <1>5 DEF Ack, TypeOK
<1> QED BY <1>1, <1>2, <1>3, <1>4, <1>5 DEF Arrival

\* Timers, ticks, leases, acks and retries keep the types.
LEMMA QueueingTypes ==
    ASSUME TypeOK, NEW t \in Targets,
           TimerFires(t) \/ LeaseTick(t) \/ AckFollowUp(t) \/ ResumeRetries(t)
    PROVE  TypeOK'
<1>1. {"flush", "lease", "ack", "resume"} \subseteq OpKinds
  BY DEF OpKinds
<1>2. UNCHANGED lock \/ \E kind \in OpKinds : Queue(t, kind)
  BY <1>1 DEF TimerFires, LeaseTick, AckFollowUp, ResumeRetries
<1>3. lock' \in [Targets -> Seq(Ops)] /\ \A u \in Targets : OnlyHeadRuns(lock'[u])
  BY <1>2, QueueOneTypes, TypesOfMachinery DEF MachineryOK
<1>4. buffer' \in [Targets -> Buffers]
  <2>1. [buffer[t] EXCEPT !.timer = "fired"] \in Buffers
    <3>1. buffer[t] \in Buffers
      BY DEF TypeOK
    <3> QED BY <3>1 DEF Buffers
  <2>2. buffer' = buffer \/ buffer' = [buffer EXCEPT ![t] = [buffer[t] EXCEPT !.timer = "fired"]]
    BY DEF TimerFires, LeaseTick, AckFollowUp, ResumeRetries
  <2> QED BY <2>1, <2>2 DEF TypeOK
<1>5. dispatchState' = dispatchState
  BY DEF TimerFires, LeaseTick, AckFollowUp, ResumeRetries, persisted
<1>6. MachineryOK'
  BY <1>3, <1>4, <1>5, TypesOfMachinery DEF MachineryOK
<1>7. BookkeepingOK'
  BY DEF TimerFires, LeaseTick, AckFollowUp, ResumeRetries, persisted, TypeOK, BookkeepingOK
<1> QED BY <1>6, <1>7, TypesAreTwoParts, PTL

\* Pauses and resumes keep the types.
LEMMA ResumeTypes ==
    ASSUME TypeOK, Pause \/ ResumeBegins \/ Unpause \/ ResumeEnds
    PROVE  TypeOK'
<1>1. CASE Pause
  BY <1>1, DeliveryAssumption DEF Pause, TypeOK
<1>2. CASE ResumeBegins
  <2>1. lock' \in [Targets -> Seq(Ops)] /\ \A t \in Targets : OnlyHeadRuns(lock'[t])
    <3>1. "drain" \in OpKinds
      BY DEF OpKinds
    <3>2. lock' = [t \in Targets |->
                     IF t \in Effective THEN Push(lock[t], "drain") ELSE lock[t]]
      BY <1>2 DEF ResumeBegins
    <3> QED BY <3>1, <3>2, EffectiveIsTyped, QueueTypes
  <2>2. MachineryOK'
    BY <1>2, <2>1, TypesOfMachinery DEF ResumeBegins, MachineryOK, persisted
  <2>3. BookkeepingOK'
    BY <1>2, EffectiveIsTyped DEF ResumeBegins, persisted, TypeOK, BookkeepingOK
  <2> QED BY <2>2, <2>3, TypesAreTwoParts, PTL
<1>3. CASE Unpause
  <2> DEFINE row(t) == Dirty(IF BackingOff(t) THEN "live" ELSE "expired", {}, Unacked,
                             SubsOf(Unacked))
  <2>1. lock' \in [Targets -> Seq(Ops)] /\ \A t \in Targets : OnlyHeadRuns(lock'[t])
    <3>1. "catchup" \in OpKinds /\ resume.to \in SUBSET Targets
      BY DEF OpKinds, TypeOK
    <3>2. lock' = [t \in Targets |->
                     IF t \in resume.to THEN Push(lock[t], "catchup") ELSE lock[t]]
      BY <1>3 DEF Unpause
    <3> QED BY <3>1, <3>2, QueueTypes
  <2>2. \A t \in Targets : row(t) \in DispatchStates
    BY UnackedIsTyped, SubsOfIsTyped, DirtyIsTyped
  <2>3. dispatchState' \in [Targets -> DispatchStates]
    <3>1. dispatchState' = [t \in Targets |-> IF t \in resume.to /\ Unacked # {}
                                              THEN row(t) ELSE dispatchState[t]]
      BY <1>3 DEF Unpause
    <3> HIDE DEF row
    <3> QED BY <2>2, <3>1 DEF TypeOK
  <2>4. MachineryOK'
    BY <1>3, <2>1, <2>3, TypesOfMachinery DEF Unpause, MachineryOK
  <2>5. resume' \in [phase : {"idle", "drain", "catchup"}, to : SUBSET Targets,
                     backoff : SUBSET Targets]
    <3> DEFINE back == {t \in resume.to : Unacked # {} /\ BackingOff(t)}
    <3>1. back \in SUBSET Targets /\ resume' = [resume EXCEPT !.phase = "catchup", !.backoff = back]
      BY <1>3 DEF Unpause, TypeOK
    <3> HIDE DEF back
    <3> QED BY <3>1 DEF TypeOK
  <2>6. BookkeepingOK'
    BY <1>3, <2>5 DEF Unpause, TypeOK, BookkeepingOK
  <2> QED BY <2>4, <2>6, TypesAreTwoParts, PTL
<1>4. CASE ResumeEnds
  BY <1>4 DEF ResumeEnds, persisted, Idle, TypeOK
<1> QED BY <1>1, <1>2, <1>3, <1>4

\* What the user does to targets keeps the types.
LEMMA UserTypes ==
    ASSUME TypeOK, NEW t \in Targets,
           \/ LeaseExpires(t) \/ AddTarget(t) \/ ResumeTarget(t) \/ RemoveTarget(t)
           \/ \E n \in Thresholds : UpdatePolicy(t, n)
    PROVE  TypeOK'
<1>1. CASE LeaseExpires(t)
  <2>1. [dispatchState[t] EXCEPT !.lease = "expired"] \in DispatchStates
    <3>1. dispatchState[t] \in DispatchStates
      BY DEF TypeOK
    <3> QED BY <3>1 DEF DispatchStates
  <2> QED BY <1>1, <2>1 DEF LeaseExpires, SetState, TypeOK, volatile
<1>2. CASE AddTarget(t) \/ ResumeTarget(t)
  <2>1. target' = [target EXCEPT ![t] = "active"]
        /\ UNCHANGED <<inbox, subs, minUnacked, paused, dispatchState, volatile, crashes>>
    BY <1>2 DEF AddTarget, ResumeTarget
  <2> QED BY <2>1 DEF TypeOK, volatile
<1>3. CASE RemoveTarget(t)
  BY <1>3, NothingIsTyped DEF RemoveTarget, SetState, TypeOK, volatile
<1>4. CASE \E n \in Thresholds : UpdatePolicy(t, n)
  BY <1>4 DEF UpdatePolicy, TypeOK, volatile
<1> QED BY <1>1, <1>2, <1>3, <1>4

\* The removal of a subscription keeps the types.
LEMMA RemovalTypes ==
    ASSUME TypeOK, NEW s \in Subs, RemoveSubscription(s)
    PROVE  TypeOK'
<1> DEFINE Q(t) == IF Emptied(t, s) /\ InFlight(t)
                   THEN [lock[t] EXCEPT ![1].lostBuffer = TRUE] ELSE lock[t]
           B(t) == IF Emptied(t, s) THEN NoBuffer
                   ELSE [buffer[t] EXCEPT !.pending = Retained(t, s)]
           D(t) == IF s \in dispatchState[t].subIds \/ subs' = {}
                   THEN NoState ELSE dispatchState[t]
<1>1. ASSUME NEW t \in Targets PROVE OnlyHeadRuns(Q(t)) /\ Q(t) \in Seq(Ops)
  <2>1. CASE Emptied(t, s) /\ InFlight(t)
    <3> DEFINE op == [lock[t][1] EXCEPT !.lostBuffer = TRUE]
    <3>1. lock[t] # <<>>
      BY <2>1 DEF InFlight, Running
    <3>2. op \in Ops
      BY <3>1, HeadIsOp DEF Ops
    <3>3. Q(t) = [lock[t] EXCEPT ![1] = op]
      BY <2>1, <3>1, HeadIsOp
    <3>4. OnlyHeadRuns(lock[t]) /\ lock[t] \in Seq(Ops)
      BY TypesOfMachinery DEF MachineryOK
    <3>5. OnlyHeadRuns([lock[t] EXCEPT ![1] = op]) /\ [lock[t] EXCEPT ![1] = op] \in Seq(Ops)
      <4> HIDE DEF op
      <4> QED BY <3>1, <3>2, <3>4, HeadKeeps, HeadFacts
    <3> HIDE DEF op, Q
    <3> QED BY <3>3, <3>5
  <2>2. CASE ~(Emptied(t, s) /\ InFlight(t))
    BY <2>2, TypesOfMachinery DEF MachineryOK
  <2> QED BY <2>1, <2>2
<1>2. \A t \in Targets : B(t) \in Buffers
  BY NothingIsTyped, ZenonT(30) DEF Retained, TypeOK, Buffers
<1>3. \A t \in Targets : D(t) \in DispatchStates
  BY NothingIsTyped DEF TypeOK
<1>4. /\ lock' = [t \in Targets |-> Q(t)] /\ buffer' = [t \in Targets |-> B(t)]
      /\ dispatchState' = [t \in Targets |-> D(t)]
  BY DEF RemoveSubscription
<1>5. MachineryOK'
  <2> HIDE DEF Q, B, D
  <2> QED BY <1>1, <1>2, <1>3, <1>4 DEF MachineryOK
<1>6. BookkeepingOK'
  BY DEF RemoveSubscription, TypeOK, BookkeepingOK
<1> QED BY <1>5, <1>6, TypesAreTwoParts, PTL

\* A restart keeps the types.
LEMMA CrashTypes ==
    ASSUME TypeOK, Crash
    PROVE  TypeOK'
<1>1. <<>> \in Seq(Ops)
  OBVIOUS
<1>2. MachineryOK'
  BY <1>1, NothingIsTyped DEF Crash, persisted, TypeOK, MachineryOK, OnlyHeadRuns
<1>3. BookkeepingOK'
  BY DeliveryAssumption DEF Crash, persisted, TypeOK, BookkeepingOK, Idle
<1> QED BY <1>2, <1>3, TypesAreTwoParts, PTL

\* The types hold at the start.
LEMMA TypeInit ==
    ASSUME Init
    PROVE  TypeOK
<1>1. <<>> \in Seq(Ops)
  OBVIOUS
<1>2. MachineryOK
  BY <1>1, NothingIsTyped DEF Init, MachineryOK, OnlyHeadRuns
<1>3. BookkeepingOK
  <2>1. 0 \in 0..MaxPauses /\ 0 \in 0..MaxCrashes /\ 1 \in Thresholds
    BY DeliveryAssumption
  <2>2. resume \in [phase : {"idle", "drain", "catchup"}, to : SUBSET Targets,
                    backoff : SUBSET Targets]
    BY DEF Init, Idle
  <2>3. arriving \in [Entries -> [step : {"idle", "read", "stored"}, to : SUBSET Targets]]
    BY DEF Init
  <2> QED BY <2>1, <2>2, <2>3 DEF Init, BookkeepingOK
<1> QED BY <1>2, <1>3, TypesAreTwoParts

\* Every step keeps the types, and the running operation at the head.
LEMMA TypeStep ==
    ASSUME TypeOK, [Next]_vars
    PROVE  TypeOK'
<1>1. ASSUME NEW t \in Targets, Notifying(t) PROVE TypeOK'
  <2>1. MachineryOK' /\ BookkeepingOK'
    BY <1>1, NotifyingTypes, NotifyingBookkeeping
  <2> QED BY <2>1, TypesAreTwoParts, PTL
<1>2. CASE UNCHANGED vars
  BY <1>2 DEF vars, persisted, volatile, TypeOK
<1> QED BY <1>1, <1>2, ArrivalTypes, QueueingTypes, ResumeTypes, UserTypes, RemovalTypes,
           CrashTypes DEF Next

-----------------------------------------------------------------------------
(* Rows of removed targets *)

\* The conjunct of OrphanRowsAreCollected for one target.
OrphanCollected(t) ==
    dispatchState[t].status # "none" /\ ~Exists(t)
        => dispatchState[t].status = "dirty" /\ dispatchState[t].lease # "null"

\* An operation that ends without a lease on the row had an existing target.
LEMMA ConcludeOrphans ==
    ASSUME TypeOK, OrphanRowsAreCollected, NEW t \in Targets, lock[t] # <<>>,
           NEW op \in Ops, NEW outcome \in AllOutcomes, NEW b, Conclude(t, op, outcome, b),
           \A u \in Targets : Exists(u)' <=> Exists(u),
           outcome \in {"dispatched", "unchanged", "held"} => Exists(t)
    PROVE  OrphanRowsAreCollected'
<1>1. dispatchState' = [dispatchState EXCEPT ![t] = StateAfter(t, op, outcome)]
  BY DEF Conclude, SetState
<1>2. \A u \in Targets : OrphanCollected(u)
  BY DEF OrphanRowsAreCollected, OrphanCollected
<1>3. ASSUME NEW u \in Targets PROVE OrphanCollected(u)'
  <2>1. CASE u # t
    BY <1>1, <1>2, <2>1 DEF TypeOK, OrphanCollected
  <2>2. CASE u = t
    <3> DEFINE s == StateAfter(t, op, outcome)
    <3>1. s.status # "none" /\ ~Exists(t) => s.status = "dirty" /\ s.lease # "null"
      <4>1. CASE outcome \in {"dispatched", "unchanged", "held"}
        BY <4>1
      <4>2. CASE outcome = "deferred"
        BY <4>2 DEF StateAfter, Dirty
      <4>3. CASE outcome = "retry"
        <5>1. op.snap \in DispatchStates
          BY DEF Ops
        <5> QED BY <4>3, <5>1 DEF StateAfter, Dirty, DispatchStates
      <4>4. CASE outcome \in {"offline", "paused", "skipped", "error"}
        <5>1. s = NoState \/ s = dispatchState[t]
          BY <4>4 DEF StateAfter
        <5> QED BY <5>1, <1>2 DEF NoState, OrphanCollected
      <4> QED BY <4>1, <4>2, <4>3, <4>4 DEF AllOutcomes
    <3>2. dispatchState'[t] = s
      BY <1>1 DEF TypeOK
    <3> HIDE DEF s
    <3> QED BY <2>2, <3>1, <3>2 DEF OrphanCollected
  <2> QED BY <2>1, <2>2
<1> QED BY <1>3 DEF OrphanRowsAreCollected, OrphanCollected

\* The beginning of a dispatch leaves a row the lease tick collects.
LEMMA StartOrphans ==
    ASSUME TypeOK, OrphanRowsAreCollected, NEW t \in Targets, lock[t] # <<>>,
           NEW op \in Ops, NEW b, StartDispatch(t, op, b), target' = target
    PROVE  OrphanRowsAreCollected'
<1>1. \A u \in Targets : Exists(u)' <=> Exists(u)
  BY DEF Exists
<1>2. CASE Verdict(t, op) # "go"
  <2>1. Verdict(t, op) \in AllOutcomes /\ Verdict(t, op) \notin {"dispatched", "unchanged"}
    BY <1>2, VerdictIsOutcome DEF AllOutcomes
  <2>2. Verdict(t, op) = "held" => Exists(t)
    BY DEF Verdict, Exists, Effective
  <2>3. Conclude(t, op, Verdict(t, op), b)
    BY <1>2 DEF StartDispatch
  <2> QED BY <1>1, <2>1, <2>2, <2>3, ConcludeOrphans
<1>3. CASE Verdict(t, op) = "go"
  BY <1>1, <1>3 DEF StartDispatch, OrphanRowsAreCollected
<1> QED BY <1>2, <1>3

\* A step that writes one row of an existing target, or clears it.
LEMMA WriteOrphans ==
    ASSUME TypeOK, OrphanRowsAreCollected, NEW t \in Targets, NEW s,
           SetState(t, s), target' = target, Exists(t) \/ s = NoState \/ s = dispatchState[t]
    PROVE  OrphanRowsAreCollected'
  BY DEF SetState, TypeOK, OrphanRowsAreCollected, Exists, NoState

\* So does what follows an await.
LEMMA AwaitOrphans ==
    ASSUME TypeOK, OrphanRowsAreCollected, NEW t \in Targets,
           \/ \E answer \in Answers : GateAnswers(t, answer)
           \/ ReminderReady(t)
           \/ \E outcome \in Outcomes : SendEnds(t, outcome)
    PROVE  OrphanRowsAreCollected'
<1>0. lock[t] # <<>> /\ Head(lock[t]) \in Ops
  BY HeadIsOp DEF GateAnswers, ReminderReady, SendEnds, Waiting, Running
<1>1. ASSUME NEW phase, Advance(t, phase), \A u \in Targets : Exists(u)' <=> Exists(u)
      PROVE  OrphanRowsAreCollected'
  BY <1>1 DEF Advance, OrphanRowsAreCollected
<1>2. ASSUME NEW outcome \in AllOutcomes, End(t, outcome),
             outcome \in {"dispatched", "unchanged", "held"} => Exists(t),
             \A u \in Targets : Exists(u)' <=> Exists(u)
      PROVE  OrphanRowsAreCollected'
  BY <1>0, <1>2, ConcludeOrphans DEF End
<1>3. target' = target => \A u \in Targets : Exists(u)' <=> Exists(u)
  BY DEF Exists
<1>4. Exists(t) /\ target' \in {[target EXCEPT ![t] = "offline"], [target EXCEPT ![t] = "active"]}
         => \A u \in Targets : Exists(u)' <=> Exists(u)
  BY DEF Exists, TypeOK
<1>5. {"offline", "paused", "deferred", "unchanged"} \subseteq AllOutcomes
      /\ Outcomes \subseteq AllOutcomes
  BY DEF AllOutcomes, Outcomes
<1>6. ASSUME NEW answer \in Answers, GateAnswers(t, answer) PROVE OrphanRowsAreCollected'
  <2>1. CASE End(t, "paused") /\ UNCHANGED target
    BY <1>2, <1>3, <1>5, <2>1
  <2>2. CASE End(t, "offline") /\ UNCHANGED target
    BY <1>2, <1>3, <1>5, <2>2
  <2>3. CASE Exists(t) /\ End(t, "offline") /\ Fall(t)
    BY <1>2, <1>4, <1>5, <2>3 DEF Fall
  <2>4. CASE Advance(t, IF answer = "defer" THEN "defer" ELSE "remind") /\ UNCHANGED target
    BY <1>1, <1>3, <2>4
  <2> QED BY <1>6, <2>1, <2>2, <2>3, <2>4 DEF GateAnswers
<1>7. CASE ReminderReady(t)
  <2>1. target' = target
    BY <1>7 DEF ReminderReady
  <2>2. \/ End(t, "paused") \/ End(t, "offline") \/ End(t, "deferred")
        \/ Exists(t) /\ End(t, "unchanged")
        \/ Advance(t, "send")
    BY <1>7 DEF ReminderReady
  <2> QED BY <1>1, <1>2, <1>3, <1>5, <2>1, <2>2
<1>8. ASSUME NEW outcome \in Outcomes, SendEnds(t, outcome) PROVE OrphanRowsAreCollected'
  <2>1. CASE Exists(t)
    <3>1. End(t, outcome)
      BY <1>8, <2>1 DEF SendEnds
    <3>2. target' \in {target, [target EXCEPT ![t] = "offline"], [target EXCEPT ![t] = "active"]}
      BY <1>8, <2>1 DEF SendEnds, TypeOK
    <3> QED BY <1>2, <1>3, <1>4, <1>5, <2>1, <3>1, <3>2
  <2>2. CASE ~Exists(t)
    <3>1. End(t, "offline") /\ target' = target
      BY <1>8, <2>2 DEF SendEnds
    <3> QED BY <1>2, <1>3, <1>5, <3>1
  <2> QED BY <2>1, <2>2
<1> QED BY <1>6, <1>7, <1>8

\* So does every step under the lock of a target.
LEMMA NotifyingOrphans ==
    ASSUME TypeOK, OrphanRowsAreCollected, NEW t \in Targets, Notifying(t)
    PROVE  OrphanRowsAreCollected'
<1> DEFINE s == dispatchState[t]
<1>1. CASE FencedTurn(t) \/ DrainTurn(t) \/ FlushNothing(t)
  <2>1. UNCHANGED <<dispatchState, target>>
    BY <1>1 DEF FencedTurn, DrainTurn, FlushNothing, persisted
  <2> QED BY <2>1 DEF OrphanRowsAreCollected, Exists
<1>2. CASE FlushDiscards(t)
  <2>1. target' = target /\ (dispatchState' = dispatchState \/ SetState(t, NoState))
    BY <1>2 DEF FlushDiscards
  <2>2. CASE dispatchState' = dispatchState
    BY <2>1, <2>2 DEF OrphanRowsAreCollected, Exists
  <2>3. CASE SetState(t, NoState)
    BY <2>1, <2>3, WriteOrphans
  <2> QED BY <2>1, <2>2, <2>3
<1>3. CASE FlushMerges(t)
  BY <1>3, WriteOrphans DEF FlushMerges
<1>4. CASE FlushDispatches(t)
  <2> DEFINE batch == buffer[t].pending
             op    == [Head(lock[t]) EXCEPT
                        !.batch = batch, !.snap = s, !.sent = Unacked,
                        !.new = batch \cup s.pending,
                        !.subIds = SubsOf(batch) \cup s.subIds]
  <2>0. lock[t] # <<>>
    BY <1>4 DEF FlushDispatches, Turn
  <2>1. op \in Ops
    BY <2>0, RowParts, SubsOfIsTyped, DispatchedOpIsTyped
  <2>2. StartDispatch(t, op, Spliced(t)) /\ target' = target
    BY <1>4 DEF FlushDispatches
  <2> HIDE DEF op
  <2> QED BY <2>0, <2>1, <2>2, StartOrphans
<1>5. CASE RetrySettles(t)
  <2> DEFINE kind == Head(lock[t]).kind
             new  == IF NotDue(kind, s) THEN s ELSE StateWithoutDispatch(t, kind, s)
  <2>1. Exists(t) \/ new = NoState \/ new = s
    BY DEF StateWithoutDispatch, Hopeless, Effective, Exists
  <2>2. SetState(t, new) /\ target' = target
    BY <1>5 DEF RetrySettles
  <2> HIDE DEF new
  <2> QED BY <2>1, <2>2, WriteOrphans
<1>6. CASE RetryDispatches(t)
  <2> DEFINE op == [Head(lock[t]) EXCEPT !.snap = s, !.sent = Unacked,
                       !.new = PendingOf(s), !.subIds = s.subIds]
  <2>0. lock[t] # <<>> /\ PendingOf(s) \in SUBSET Entries
    BY <1>6, RowParts, UnackedIsTyped DEF RetryDispatches, Turn, PendingOf
  <2>1. op \in Ops
    BY <2>0, RowParts, DispatchedOpIsTyped
  <2>2. StartDispatch(t, op, buffer[t]) /\ target' = target
    BY <1>6 DEF RetryDispatches
  <2> HIDE DEF op
  <2> QED BY <2>0, <2>1, <2>2, StartOrphans
<1>7. CASE CatchUpSettles(t)
  <2>1. target' = target
    BY <1>7 DEF CatchUpSettles
  <2>2. CASE SetState(t, NoState)
    BY <2>1, <2>2, WriteOrphans
  <2>3. CASE SetState(t, [s EXCEPT !.pending = Unacked, !.subIds = SubsOf(Unacked)])
    <3> DEFINE new == [s EXCEPT !.pending = Unacked, !.subIds = SubsOf(Unacked)]
    <3>1. new.status = s.status /\ new.lease = s.lease
      BY DEF TypeOK, DispatchStates
    <3>2. dispatchState' = [dispatchState EXCEPT ![t] = new]
      BY <2>3 DEF SetState
    <3> HIDE DEF new
    <3> QED BY <2>1, <3>1, <3>2 DEF OrphanRowsAreCollected, Exists, TypeOK
  <2> QED BY <1>7, <2>2, <2>3 DEF CatchUpSettles
<1>8. CASE CatchUpDispatches(t)
  <2> DEFINE op == [Head(lock[t]) EXCEPT !.snap = s, !.sent = Unacked, !.new = Unacked,
                       !.subIds = SubsOf(Unacked)]
  <2>0. lock[t] # <<>>
    BY <1>8 DEF CatchUpDispatches, Turn
  <2>1. op \in Ops
    BY <2>0, UnackedIsTyped, SubsOfIsTyped, DispatchedOpIsTyped
  <2>2. StartDispatch(t, op, NoBuffer) /\ target' = target
    BY <1>8 DEF CatchUpDispatches
  <2> HIDE DEF op
  <2> QED BY <2>0, <2>1, <2>2, StartOrphans
<1> QED BY <1>1, <1>2, <1>3, <1>4, <1>5, <1>6, <1>7, <1>8, AwaitOrphans DEF Notifying

\* And so does every step.
LEMMA OrphanStep ==
    ASSUME TypeOK, OrphanRowsAreCollected, [Next]_vars
    PROVE  OrphanRowsAreCollected'
<1>1. ASSUME UNCHANGED <<dispatchState, target>> PROVE OrphanRowsAreCollected'
  BY <1>1 DEF OrphanRowsAreCollected, Exists
<1>2. ASSUME NEW e \in Entries, Arrival(e) \/ Ack(e) PROVE OrphanRowsAreCollected'
  BY <1>1, <1>2 DEF Arrival, PollReads, PollStores, PollEnqueues, DirectMessage, Ack, persisted
<1>3. ASSUME NEW t \in Targets,
             TimerFires(t) \/ LeaseTick(t) \/ AckFollowUp(t) \/ ResumeRetries(t)
      PROVE  OrphanRowsAreCollected'
  BY <1>1, <1>3 DEF TimerFires, LeaseTick, AckFollowUp, ResumeRetries, persisted
<1>4. ASSUME NEW t \in Targets, LeaseExpires(t) PROVE OrphanRowsAreCollected'
  <2> DEFINE new == [dispatchState[t] EXCEPT !.lease = "expired"]
  <2>1. new.status = dispatchState[t].status /\ new.lease = "expired"
    BY DEF TypeOK, DispatchStates
  <2>2. dispatchState' = [dispatchState EXCEPT ![t] = new] /\ target' = target
    BY <1>4 DEF LeaseExpires, SetState
  <2> HIDE DEF new
  <2> QED BY <2>1, <2>2 DEF OrphanRowsAreCollected, Exists, TypeOK
<1>5. ASSUME NEW t \in Targets, AddTarget(t) \/ ResumeTarget(t) PROVE OrphanRowsAreCollected'
  <2>1. target' = [target EXCEPT ![t] = "active"] /\ dispatchState' = dispatchState
    BY <1>5 DEF AddTarget, ResumeTarget
  <2> QED BY <2>1 DEF OrphanRowsAreCollected, Exists, TypeOK
<1>6. ASSUME NEW t \in Targets, RemoveTarget(t) PROVE OrphanRowsAreCollected'
  BY <1>6 DEF RemoveTarget, SetState, OrphanRowsAreCollected, Exists, TypeOK, NoState
<1>7. ASSUME NEW t \in Targets, NEW n \in Thresholds, UpdatePolicy(t, n)
      PROVE  OrphanRowsAreCollected'
  BY <1>1, <1>7 DEF UpdatePolicy
<1>8. CASE Pause \/ ResumeBegins \/ ResumeEnds
  BY <1>1, <1>8 DEF Pause, ResumeBegins, ResumeEnds, persisted
<1>9. CASE Unpause
  <2>1. \A t \in Targets :
           \/ dispatchState'[t] = dispatchState[t]
           \/ dispatchState'[t].status = "dirty" /\ dispatchState'[t].lease \in {"live", "expired"}
    BY <1>9 DEF Unpause, Dirty
  <2>2. target' = target
    BY <1>9 DEF Unpause
  <2> QED BY <2>1, <2>2 DEF OrphanRowsAreCollected, Exists
<1>10. ASSUME NEW s \in Subs, RemoveSubscription(s) PROVE OrphanRowsAreCollected'
  <2>1. \A t \in Targets :
           dispatchState'[t] = dispatchState[t] \/ dispatchState'[t] = NoState
    BY <1>10 DEF RemoveSubscription
  <2>2. target' = target
    BY <1>10 DEF RemoveSubscription
  <2> QED BY <2>1, <2>2 DEF OrphanRowsAreCollected, Exists, NoState
<1>11. CASE Crash
  BY <1>1, <1>11 DEF Crash, persisted
<1>12. CASE UNCHANGED vars
  BY <1>1, <1>12 DEF vars, persisted
<1> QED BY <1>2, <1>3, <1>4, <1>5, <1>6, <1>7, <1>8, <1>9, <1>10, <1>11, <1>12,
           NotifyingOrphans DEF Next

\* The types of all variables, and: a row that outlives its target is dirty and has a
\* lease, so the next tick finds it due and collects it (service.ts:4148).
THEOREM RowsAreSoundAlways == Spec => []RowsAreSound
<1>1. Init => RowsAreSound
  <2>1. Init => \A t \in Targets : dispatchState[t].status = "none"
    BY DEF Init, NoState
  <2> QED BY <2>1, TypeInit DEF RowsAreSound, OrphanRowsAreCollected
<1>2. RowsAreSound /\ [Next]_vars => RowsAreSound'
  BY TypeStep, OrphanStep DEF RowsAreSound
<1> QED BY <1>1, <1>2, PTL DEF Spec

-----------------------------------------------------------------------------
(* Who starts a request *)

\* Leaving the lock starts no request: what comes next on it is queued.
LEMMA PopSendsNothing ==
    ASSUME TypeOK, NEW v \in Targets, lock[v] # <<>>, Pop(v), NEW t \in Targets
    PROVE  ~SendStarts(t)
<1>1. CASE t = v
  <2>1. lock'[t] = Tail(lock[t]) /\ lock[t] \in Seq(Ops) /\ OnlyHeadRuns(Tail(lock[t]))
    BY <1>1, TypesOfMachinery, PopKeeps DEF Pop, MachineryOK
  <2>2. Tail(lock[t]) # <<>> => Head(Tail(lock[t])) = lock[t][2] /\ 2 \in 2..Len(lock[t])
    BY <1>1, <2>1, PopFacts
  <2>3. Tail(lock[t]) # <<>> => Head(Tail(lock[t])).phase = "queued"
    BY <2>1, <2>2 DEF TypeOK
  <2> QED BY <2>1, <2>3 DEF SendStarts
<1>2. CASE t # v
  <2>1. lock'[t] = lock[t]
    BY <1>2 DEF Pop, TypeOK
  <2> QED BY <2>1 DEF SendStarts, Waiting, Running
<1> QED BY <1>1, <1>2

\* A queue that does not change starts no notification.
LEMMA SameSendsNothing ==
    ASSUME NEW t \in Targets, lock'[t] = lock[t]
    PROVE  ~SendStarts(t)
  BY DEF SendStarts, Waiting, Running

\* Nor does queueing on it.
LEMMA PushSendsNothing ==
    ASSUME TypeOK, NEW t \in Targets, NEW kind \in OpKinds, lock'[t] = Push(lock[t], kind)
    PROVE  ~SendStarts(t)
<1>1. Head(Push(lock[t], kind)) = IF lock[t] = <<>> THEN NewOp(kind) ELSE Head(lock[t])
  BY PushFacts DEF TypeOK
<1>2. NewOp(kind).phase = "queued"
  BY OpTypes
<1>3. CASE lock[t] = <<>>
  BY <1>1, <1>2, <1>3 DEF SendStarts
<1>4. CASE lock[t] # <<>>
  BY <1>1, <1>4 DEF SendStarts, Waiting, Running
<1> QED BY <1>3, <1>4

\* A dispatch of t starts, with the operation op at the head.
Starts(t, op) ==
    /\ lock[t] # <<>> /\ Head(lock[t]).phase = "queued" /\ Allowed(t)
    /\ \/ FlushDispatches(t)
       \/ RetryDispatches(t)
       \/ CatchUpDispatches(t)
    /\ op.kind = Head(lock[t]).kind /\ op.gen = Head(lock[t]).gen
    /\ op.snap = dispatchState[t] /\ op.sent = Unacked

\* Where a request of t can start: in a dispatch, whose input was taken in the
\* same step, or when the reminder of a running one is ready.
RequestStarts(t) ==
    LET op == Head(lock'[t])
    IN  \/ Starts(t, op)
        \/ /\ Waiting(t, {"remind"}) /\ Allowed(t)
           /\ op = [Head(lock[t]) EXCEPT !.phase = "send"]

\* The head a dispatch leaves, where it goes on.
LEMMA StartedHead ==
    ASSUME TypeOK, NEW t \in Targets, lock[t] # <<>>, NEW op \in Ops, NEW b,
           StartDispatch(t, op, b), SendStarts(t)
    PROVE  Head(lock'[t]) = [op EXCEPT !.phase = "send"]
<1>1. CASE Verdict(t, op) # "go"
  BY <1>1, PopSendsNothing DEF StartDispatch, Conclude
<1>2. CASE Verdict(t, op) = "go"
  <2> DEFINE running == [op EXCEPT !.phase = IF t \in Terminals THEN "gate" ELSE "send"]
  <2>1. running \in Ops
    BY DEF Ops, OpPhases
  <2>2. lock' = [lock EXCEPT ![t] = [lock[t] EXCEPT ![1] = running]]
    BY <1>2 DEF StartDispatch
  <2>3. Head(lock'[t]) = running
    <3> HIDE DEF running
    <3> QED BY <2>1, <2>2, HeadFacts DEF TypeOK
  <2>4. running.phase = "send"
    <3> HIDE DEF running
    <3> QED BY <2>3 DEF SendStarts
  <2>5. t \notin Terminals
    BY <2>4 DEF Ops
  <2> QED BY <2>3, <2>5
<1> QED BY <1>1, <1>2

\* A dispatch that starts for v starts no notification of another target.
LEMMA StartElsewhere ==
    ASSUME TypeOK, NEW v \in Targets, NEW t \in Targets, v # t, lock[v] # <<>>,
           NEW op, NEW b, StartDispatch(v, op, b)
    PROVE  lock'[t] = lock[t]
  BY DEF StartDispatch, Conclude, Pop, TypeOK

\* Which notifications the beginning of a dispatch starts.
LEMMA DispatchSends ==
    ASSUME TypeOK, NEW v \in Targets, NEW t \in Targets, SendStarts(t),
           FlushDispatches(v) \/ RetryDispatches(v) \/ CatchUpDispatches(v)
    PROVE  RequestStarts(t)
<1> DEFINE s == dispatchState[v]
<1>0. lock[v] # <<>> /\ Head(lock[v]) \in Ops /\ Head(lock[v]).phase = "queued" /\ Allowed(v)
  BY HeadIsOp DEF FlushDispatches, RetryDispatches, CatchUpDispatches, Turn
<1>1. \E op \in Ops : \E b :
         /\ StartDispatch(v, op, b)
         /\ op.kind = Head(lock[v]).kind /\ op.gen = Head(lock[v]).gen
         /\ op.snap = s /\ op.sent = Unacked
  <2>1. CASE FlushDispatches(v)
    <3> DEFINE batch == buffer[v].pending
               op    == [Head(lock[v]) EXCEPT
                          !.batch = batch, !.snap = s, !.sent = Unacked,
                          !.new = batch \cup s.pending,
                          !.subIds = SubsOf(batch) \cup s.subIds]
    <3>1. op \in Ops
      BY <1>0, RowParts, SubsOfIsTyped, DispatchedOpIsTyped
    <3>2. StartDispatch(v, op, Spliced(v))
      BY <2>1 DEF FlushDispatches
    <3>3. op.kind = Head(lock[v]).kind /\ op.gen = Head(lock[v]).gen
          /\ op.snap = s /\ op.sent = Unacked
      BY <1>0 DEF Ops
    <3> HIDE DEF op
    <3> QED BY <3>1, <3>2, <3>3
  <2>2. CASE RetryDispatches(v)
    <3> DEFINE op == [Head(lock[v]) EXCEPT !.snap = s, !.sent = Unacked,
                         !.new = PendingOf(s), !.subIds = s.subIds]
    <3>1. op \in Ops
      <4>1. PendingOf(s) \in SUBSET Entries
        BY RowParts, UnackedIsTyped DEF PendingOf
      <4> QED BY <1>0, <4>1, RowParts, DispatchedOpIsTyped
    <3>2. StartDispatch(v, op, buffer[v])
      BY <2>2 DEF RetryDispatches
    <3>3. op.kind = Head(lock[v]).kind /\ op.gen = Head(lock[v]).gen
          /\ op.snap = s /\ op.sent = Unacked
      BY <1>0 DEF Ops
    <3> HIDE DEF op
    <3> QED BY <3>1, <3>2, <3>3
  <2>3. CASE CatchUpDispatches(v)
    <3> DEFINE op == [Head(lock[v]) EXCEPT !.snap = s, !.sent = Unacked, !.new = Unacked,
                         !.subIds = SubsOf(Unacked)]
    <3>1. op \in Ops
      BY <1>0, UnackedIsTyped, SubsOfIsTyped, DispatchedOpIsTyped
    <3>2. StartDispatch(v, op, NoBuffer)
      BY <2>3 DEF CatchUpDispatches
    <3>3. op.kind = Head(lock[v]).kind /\ op.gen = Head(lock[v]).gen
          /\ op.snap = s /\ op.sent = Unacked
      BY <1>0 DEF Ops
    <3> HIDE DEF op
    <3> QED BY <3>1, <3>2, <3>3
  <2> QED BY <2>1, <2>2, <2>3
<1>2. PICK op \in Ops : \E b :
         /\ StartDispatch(v, op, b)
         /\ op.kind = Head(lock[v]).kind /\ op.gen = Head(lock[v]).gen
         /\ op.snap = s /\ op.sent = Unacked
  BY <1>1
<1>3. t = v
  BY <1>0, <1>2, StartElsewhere, SameSendsNothing
<1>4. Head(lock'[t]) = [op EXCEPT !.phase = "send"]
  BY <1>0, <1>2, <1>3, StartedHead
<1>5. /\ Head(lock'[t]).kind = op.kind /\ Head(lock'[t]).gen = op.gen
      /\ Head(lock'[t]).snap = op.snap /\ Head(lock'[t]).sent = op.sent
  BY <1>4 DEF Ops
<1> QED BY <1>0, <1>2, <1>3, <1>5 DEF RequestStarts, Starts

\* What advances at v in an await.
LEMMA AdvancedHead ==
    ASSUME TypeOK, NEW v \in Targets, lock[v] # <<>>, NEW phase \in OpPhases, Advance(v, phase)
    PROVE  /\ Head(lock'[v]) = [Head(lock[v]) EXCEPT !.phase = phase]
           /\ lock'[v] # <<>> /\ Len(lock'[v]) = Len(lock[v])
           /\ \A i \in 2..Len(lock[v]) : lock'[v][i] = lock[v][i]
           /\ \A t \in Targets \ {v} : lock'[t] = lock[t]
<1> DEFINE op == [Head(lock[v]) EXCEPT !.phase = phase]
<1>1. op \in Ops
  BY HeadIsOp DEF Ops
<1>2. lock' = [lock EXCEPT ![v] = [lock[v] EXCEPT ![1] = op]]
  <2>1. lock' = [lock EXCEPT ![v] = [lock[v] EXCEPT ![1] = [lock[v][1] EXCEPT !.phase = phase]]]
    BY HeadIsOp DEF Advance, TypeOK
  <2> QED BY <2>1, HeadIsOp
<1>3. lock'[v] = [lock[v] EXCEPT ![1] = op] /\ \A t \in Targets \ {v} : lock'[t] = lock[t]
  <2> HIDE DEF op
  <2> QED BY <1>2 DEF TypeOK
<1>4. lock[v] \in Seq(Ops)
  BY DEF TypeOK
<1> HIDE DEF op
<1>5. Head(lock'[v]) = op /\ lock'[v] # <<>> /\ Len(lock'[v]) = Len(lock[v])
      /\ \A i \in 2..Len(lock[v]) : lock'[v][i] = lock[v][i]
  BY <1>1, <1>3, <1>4, HeadFacts
<1> QED BY <1>3, <1>5 DEF op

\* Which notifications the end of an await starts.
LEMMA AwaitSends ==
    ASSUME TypeOK, NEW v \in Targets, NEW t \in Targets, SendStarts(t),
           \/ \E answer \in Answers : GateAnswers(v, answer)
           \/ ReminderReady(v)
           \/ \E outcome \in Outcomes : SendEnds(v, outcome)
    PROVE  RequestStarts(t)
<1>0. lock[v] # <<>> /\ Head(lock[v]) \in Ops
  BY HeadIsOp DEF GateAnswers, ReminderReady, SendEnds, Waiting, Running
<1>1. ASSUME NEW outcome, End(v, outcome) PROVE FALSE
  BY <1>0, <1>1, PopSendsNothing DEF End, Conclude
<1>2. ASSUME NEW phase \in {"defer", "remind"}, Advance(v, phase) PROVE FALSE
  <2>1. Head(lock'[v]).phase = phase /\ \A u \in Targets \ {v} : lock'[u] = lock[u]
    BY <1>0, <1>2, AdvancedHead DEF OpPhases, Ops
  <2> QED BY <2>1, SameSendsNothing DEF SendStarts
<1>3. ASSUME Advance(v, "send"), Waiting(v, {"remind", "defer"}), Allowed(v),
             Head(lock[v]).phase = "remind"
      PROVE  RequestStarts(t)
  <2>1. Head(lock'[v]) = [Head(lock[v]) EXCEPT !.phase = "send"]
        /\ \A u \in Targets \ {v} : lock'[u] = lock[u]
    BY <1>0, <1>3, AdvancedHead DEF OpPhases
  <2>2. t = v
    BY <2>1, SameSendsNothing
  <2> QED BY <1>3, <2>1, <2>2 DEF RequestStarts, Waiting
<1>4. ASSUME NEW answer \in Answers, GateAnswers(v, answer) PROVE FALSE
  BY <1>1, <1>2, <1>4 DEF GateAnswers
<1>5. ASSUME ReminderReady(v) PROVE RequestStarts(t)
  BY <1>1, <1>3, <1>5 DEF ReminderReady
<1>6. ASSUME NEW outcome \in Outcomes, SendEnds(v, outcome) PROVE FALSE
  BY <1>1, <1>6 DEF SendEnds
<1> QED BY <1>4, <1>5, <1>6

\* No other step starts a notification.
LEMMA WhoSends ==
    ASSUME TypeOK, [Next]_vars, NEW t \in Targets, SendStarts(t)
    PROVE  RequestStarts(t)
<1>1. ASSUME lock' = lock PROVE FALSE
  BY <1>1, SameSendsNothing
<1>2. ASSUME NEW v \in Targets, lock[v] # <<>>, Pop(v) PROVE FALSE
  BY <1>2, PopSendsNothing
<1>3. ASSUME NEW S, NEW kind \in OpKinds,
             lock' = [u \in Targets |-> IF u \in S THEN Push(lock[u], kind) ELSE lock[u]]
      PROVE  FALSE
  <2>1. lock'[t] = lock[t] \/ lock'[t] = Push(lock[t], kind)
    BY <1>3
  <2> QED BY <2>1, SameSendsNothing, PushSendsNothing
<1>4. ASSUME NEW v \in Targets, NEW kind \in OpKinds, Queue(v, kind) PROVE FALSE
  <2>1. lock'[t] = lock[t] \/ lock'[t] = Push(lock[t], kind)
    BY <1>4 DEF Queue, TypeOK
  <2> QED BY <2>1, SameSendsNothing, PushSendsNothing
<1>5. {"flush", "lease", "ack", "resume", "drain", "catchup"} \subseteq OpKinds
  BY DEF OpKinds
<1>6. ASSUME NEW v \in Targets, Notifying(v) PROVE RequestStarts(t)
  <2>1. ASSUME FencedTurn(v) \/ DrainTurn(v) \/ FlushNothing(v) PROVE FALSE
    BY <1>2, <2>1 DEF FencedTurn, DrainTurn, FlushNothing, Turn
  <2>2. ASSUME FlushDiscards(v) \/ FlushMerges(v) \/ RetrySettles(v) \/ CatchUpSettles(v) PROVE FALSE
    BY <1>2, <2>2 DEF FlushDiscards, FlushMerges, RetrySettles, CatchUpSettles, Turn
  <2> QED BY <1>6, <2>1, <2>2, DispatchSends, AwaitSends DEF Notifying
<1>7. ASSUME NEW e \in Entries, Arrival(e) \/ Ack(e) PROVE FALSE
  <2>1. ASSUME NEW to, EnqueueAll(e, to) PROVE FALSE
    <3> DEFINE S == {u \in to : Full(u, e)}
    <3>1. lock' = lock
          \/ lock' = [u \in Targets |-> IF u \in S THEN Push(lock[u], "flush") ELSE lock[u]]
      BY <2>1 DEF EnqueueAll
    <3> HIDE DEF S
    <3> QED BY <1>1, <1>3, <1>5, <3>1
  <2> QED BY <1>1, <1>7, <2>1 DEF Arrival, PollReads, PollStores, PollEnqueues, DirectMessage, Ack
<1>8. ASSUME NEW v \in Targets,
             TimerFires(v) \/ LeaseTick(v) \/ AckFollowUp(v) \/ ResumeRetries(v)
      PROVE  FALSE
  BY <1>1, <1>4, <1>5, <1>8 DEF TimerFires, LeaseTick, AckFollowUp, ResumeRetries
<1>9. ASSUME NEW v \in Targets,
             \/ LeaseExpires(v) \/ AddTarget(v) \/ ResumeTarget(v) \/ RemoveTarget(v)
             \/ \E n \in Thresholds : UpdatePolicy(v, n)
      PROVE  FALSE
  BY <1>1, <1>9 DEF LeaseExpires, AddTarget, ResumeTarget, RemoveTarget, UpdatePolicy, volatile
<1>10. ASSUME Pause \/ ResumeEnds PROVE FALSE
  BY <1>1, <1>10 DEF Pause, ResumeEnds
<1>11. ASSUME ResumeBegins \/ Unpause PROVE FALSE
  BY <1>3, <1>5, <1>11 DEF ResumeBegins, Unpause
<1>12. ASSUME NEW s \in Subs, RemoveSubscription(s) PROVE FALSE
  <2>1. \/ lock'[t] = lock[t]
        \/ /\ lock[t] # <<>>
           /\ lock'[t] = [lock[t] EXCEPT ![1] = [lock[t][1] EXCEPT !.lostBuffer = TRUE]]
    <3>1. lock'[t] = IF Emptied(t, s) /\ InFlight(t)
                     THEN [lock[t] EXCEPT ![1] = [lock[t][1] EXCEPT !.lostBuffer = TRUE]]
                     ELSE lock[t]
      BY <1>12, HeadIsOp DEF RemoveSubscription
    <3>2. InFlight(t) => lock[t] # <<>>
      BY DEF InFlight, Running
    <3> QED BY <3>1, <3>2
  <2>2. ASSUME lock[t] # <<>>,
               lock'[t] = [lock[t] EXCEPT ![1] = [lock[t][1] EXCEPT !.lostBuffer = TRUE]]
        PROVE  FALSE
    <3> DEFINE op == [lock[t][1] EXCEPT !.lostBuffer = TRUE]
    <3>1. op \in Ops /\ op.phase = lock[t][1].phase
      BY <2>2, HeadIsOp DEF Ops
    <3>2. Head(lock'[t]) = op
      <4>1. lock'[t] = [lock[t] EXCEPT ![1] = op] /\ lock[t] \in Seq(Ops)
        BY <2>2 DEF TypeOK
      <4> HIDE DEF op
      <4> QED BY <2>2, <3>1, <4>1, HeadFacts
    <3> HIDE DEF op
    <3> QED BY <2>2, <3>1, <3>2, HeadIsOp DEF SendStarts, Waiting, Running
  <2> QED BY <2>1, <2>2, SameSendsNothing
<1>13. ASSUME Crash PROVE FALSE
  BY <1>13 DEF Crash, SendStarts
<1>14. ASSUME UNCHANGED vars PROVE FALSE
  BY <1>1, <1>14 DEF vars, volatile
<1> QED BY <1>6, <1>7, <1>8, <1>9, <1>10, <1>11, <1>12, <1>13, <1>14 DEF Next

\* No request starts while the agent is paused, nor one that was decided before a pause,
\* whatever was awaited in between (service.ts:3652).
THEOREM SendsAreFenced == Spec => FencedSend
<1>1. ASSUME TypeOK, [Next]_vars, NEW t \in Targets, SendStarts(t)
      PROVE  ~paused /\ Head(lock'[t]).gen = generation
  <2>1. CASE Starts(t, Head(lock'[t]))
    BY <2>1 DEF Starts, Allowed, DeliveryAllowed
  <2>2. CASE Waiting(t, {"remind"}) /\ Allowed(t)
             /\ Head(lock'[t]) = [Head(lock[t]) EXCEPT !.phase = "send"]
    <3>1. Head(lock'[t]).gen = Head(lock[t]).gen
      <4>1. Head(lock[t]) \in Ops
        BY <2>2, HeadIsOp, <1>1 DEF Waiting, Running
      <4> QED BY <2>2, <4>1 DEF Ops
    <3> QED BY <2>2, <3>1 DEF Allowed, DeliveryAllowed
  <2> QED BY <1>1, <2>1, <2>2, WhoSends DEF RequestStarts
<1>2. TypeOK /\ [Next]_vars =>
         [\A t \in Targets : SendStarts(t) => ~paused /\ Head(lock'[t]).gen = generation]_vars
  BY <1>1
<1>3. Spec => []TypeOK
  BY RowsAreSoundAlways, PTL DEF RowsAreSound
<1> QED BY <1>2, <1>3, PTL DEF Spec, FencedSend

-----------------------------------------------------------------------------
(* The row, the buffer and the queue of one target *)

\* Entries that are stored or acked meanwhile disturb no row.
LEMMA RowMonotone ==
    ASSUME NEW s, NEW b, NEW q, NEW stored, NEW done, NEW stored2, NEW done2,
           RowOK(s, b, q, stored, done), stored \subseteq stored2, done \subseteq done2
    PROVE  RowOK(s, b, q, stored2, done2)
  BY DEF RowOK, RunsOn

\* What is left behind by an operation that leaves the lock only has to be well formed.
LEMMA RowAfterPop ==
    ASSUME NEW q, OnlyHeadRuns(q), q # <<>>, NEW s, NEW b, NEW stored, NEW done,
           WellFormed(s), s.pending \subseteq stored, b.pending \subseteq stored
    PROVE  RowOK(s, b, Tail(q), stored, done)
<1>1. q \in Seq(Ops) /\ OnlyHeadRuns(Tail(q))
  BY PopKeeps DEF OnlyHeadRuns
<1>2. Tail(q) # <<>> => Head(Tail(q)) = q[2] /\ 2 \in 2..Len(q)
  BY <1>1, PopFacts
<1>3. ~HeadRuns(Tail(q))
  BY <1>2 DEF HeadRuns, OnlyHeadRuns
<1> QED BY <1>3 DEF RowOK, HeadFlushes

\* What Append gives.
LEMMA AppendFacts ==
    ASSUME NEW q \in Seq(Ops), NEW o \in Ops, o.phase = "queued"
    PROVE  LET r == Append(q, o)
           IN  /\ r # <<>> /\ Len(r) = Len(q) + 1
               /\ \A i \in 1..Len(q) : r[i] = q[i]
               /\ r[Len(r)] = o
               /\ Head(r) = IF q = <<>> THEN o ELSE Head(q)
               /\ HeadRuns(r) <=> HeadRuns(q)
               /\ HeadFlushes(r) <=> HeadFlushes(q)
<1>1. /\ Append(q, o) # <<>> /\ Len(Append(q, o)) = Len(q) + 1
      /\ \A i \in 1..Len(q) : Append(q, o)[i] = q[i]
      /\ Append(q, o)[Len(Append(q, o))] = o
      /\ Head(Append(q, o)) = IF q = <<>> THEN o ELSE Head(q)
  OBVIOUS
<1>2. HeadRuns(Append(q, o)) <=> HeadRuns(q)
  BY <1>1 DEF HeadRuns
<1>3. HeadFlushes(Append(q, o)) <=> HeadFlushes(q)
  BY <1>1, <1>2 DEF HeadFlushes, HeadRuns
<1> QED BY <1>1, <1>2, <1>3

\* A row, after an operation joined the queue of its target.
LEMMA RowAfterPush ==
    ASSUME NEW q \in Seq(Ops), NEW o \in Ops, o.phase = "queued",
           NEW s, NEW b, NEW b2, NEW stored, NEW done, RowOK(s, b, q, stored, done),
           b2.pending \subseteq stored, HeadFlushes(q) => b2.timer = "none"
    PROVE  RowOK(s, b2, Append(q, o), stored, done)
<1>1. (HeadRuns(Append(q, o)) <=> HeadRuns(q)) /\ (HeadFlushes(Append(q, o)) <=> HeadFlushes(q))
  BY AppendFacts
<1>2. HeadRuns(q) => Head(Append(q, o)) = Head(q)
  BY AppendFacts DEF HeadRuns
<1> QED BY <1>1, <1>2 DEF RowOK

\* A row, after entries joined the buffer of its target.
LEMMA RowAfterBuffer ==
    ASSUME NEW q, NEW s, NEW b, NEW b2, NEW stored, NEW done, RowOK(s, b, q, stored, done),
           b2.pending \subseteq stored, HeadFlushes(q) => b2.timer = "none"
    PROVE  RowOK(s, b2, q, stored, done)
  BY DEF RowOK

\* A row may be cleared, or its lease expire, under a running operation.
LEMMA RowAfterClear ==
    ASSUME NEW q, NEW s, NEW b, NEW stored, NEW done, RowOK(s, b, q, stored, done)
    PROVE  RowOK(NoState, b, q, stored, done)
  BY DEF RowOK, RunsOn, WellFormed, NoState

\* A row whose lease expired.
LEMMA RowAfterExpiry ==
    ASSUME NEW q, OnlyHeadRuns(q), NEW s \in DispatchStates, NEW b, NEW stored, NEW done,
           RowOK(s, b, q, stored, done), s.lease = "live"
    PROVE  RowOK([s EXCEPT !.lease = "expired"], b, q, stored, done)
<1> DEFINE s2 == [s EXCEPT !.lease = "expired"]
<1>1. s2.status = s.status /\ s2.pending = s.pending /\ s # NoState
  BY DEF DispatchStates, NoState
<1>2. WellFormed(s2) /\ s2.pending \subseteq stored
  BY <1>1 DEF RowOK, WellFormed
<1>3. ASSUME HeadRuns(q) PROVE RunsOn(Head(q), s2, stored, done)
  <2>1. Head(q) \in Ops
    BY <1>3 DEF HeadRuns, OnlyHeadRuns
  <2>2. Head(q).snap \in DispatchStates
    BY <2>1 DEF Ops
  <2>3. s = Head(q).snap
    BY <1>1, <1>3, <2>2 DEF RowOK, RunsOn, DispatchStates
  <2> QED BY <1>3, <2>3 DEF RowOK, RunsOn
<1> QED BY <1>2, <1>3 DEF RowOK

\* The first operation starts to run, or keeps running.
LEMMA RowAfterHead ==
    ASSUME NEW q \in Seq(Ops), q # <<>>, NEW op \in Ops,
           NEW s, NEW b, NEW stored, NEW done,
           WellFormed(s), s.pending \subseteq stored, b.pending \subseteq stored,
           RunsOn(op, s, stored, done),
           op.kind = "flush" /\ ~op.lostBuffer => b.timer = "none"
    PROVE  RowOK(s, b, [q EXCEPT ![1] = op], stored, done)
<1>1. Head([q EXCEPT ![1] = op]) = op
  BY HeadFacts
<1> QED BY <1>1 DEF RowOK, HeadFlushes

\* A queue whose head left.
LEMMA QueueAfterPop ==
    ASSUME NEW t, NEW q, OnlyHeadRuns(q), q # <<>>, NEW s, NEW s2, NEW res, NEW done, NEW done2,
           QueueOK(t, q, s, res, done)
    PROVE  QueueOK(t, Tail(q), s2, res, done2)
<1>1. /\ q \in Seq(Ops) /\ Tail(q) \in Seq(Ops) /\ Len(Tail(q)) = Len(q) - 1
      /\ \A i \in DOMAIN Tail(q) : i + 1 \in DOMAIN q /\ Tail(q)[i] = q[i + 1] /\ i + 1 # 1
      /\ Tail(q) # <<>> => Tail(q)[Len(Tail(q))] = q[Len(q)]
  BY PopFacts DEF OnlyHeadRuns
<1>2. \A i \in DOMAIN Tail(q) : Tail(q)[i].kind # "catchup"
  BY <1>1 DEF QueueOK
<1>3. \A i \in DOMAIN Tail(q) :
         Tail(q)[i].kind = "drain" => res.phase = "drain" /\ t \in res.to
  BY <1>1 DEF QueueOK
<1>4. res.phase = "drain" /\ t \in res.to /\ Tail(q) # <<>> => Tail(q)[Len(Tail(q))].kind = "drain"
  BY <1>1 DEF QueueOK
<1>5. Tail(q) # <<>> => Head(Tail(q)).kind # "catchup"
  <2>1. Tail(q) # <<>> => 1 \in DOMAIN Tail(q) /\ Head(Tail(q)) = Tail(q)[1]
    BY <1>1
  <2> QED BY <1>2, <2>1
<1> QED BY <1>2, <1>3, <1>4, <1>5 DEF QueueOK

\* A queue an operation joined.
LEMMA QueueAfterPush ==
    ASSUME NEW t, NEW q \in Seq(Ops), NEW o \in Ops, o.phase = "queued",
           o.kind \notin {"drain", "catchup"}, NEW s, NEW res, NEW done,
           QueueOK(t, q, s, res, done), ~(res.phase = "drain")
    PROVE  QueueOK(t, Append(q, o), s, res, done)
<1> DEFINE r == Append(q, o)
<1>1. /\ r # <<>> /\ DOMAIN r = 1..(Len(q) + 1)
      /\ \A i \in DOMAIN r : (i \in DOMAIN q /\ r[i] = q[i]) \/ r[i] = o
      /\ Head(r) = IF q = <<>> THEN o ELSE Head(q)
      /\ HeadRuns(r) <=> HeadRuns(q)
  <2>1. \A i \in 1..(Len(q) + 1) : i \in 1..Len(q) \/ i = Len(q) + 1
    BY DEF OnlyHeadRuns
  <2> QED BY <2>1, AppendFacts
<1> HIDE DEF r
<1>2. \A i \in DOMAIN r :
         /\ r[i].kind = "drain" => res.phase = "drain" /\ t \in res.to
         /\ r[i].kind = "catchup" => i = 1 /\ res.phase = "catchup" /\ t \in res.to
  BY <1>1 DEF QueueOK
<1>3. r # <<>> /\ Head(r).kind = "catchup" /\ ~HeadRuns(r) =>
         q # <<>> /\ Head(q).kind = "catchup" /\ ~HeadRuns(q)
  BY <1>1
<1>4. QueueOK(t, r, s, res, done)
  BY <1>2, <1>3 DEF QueueOK
<1> QED BY <1>4 DEF r

\* A queue whose head goes on.
LEMMA QueueAfterHead ==
    ASSUME NEW t, NEW q \in Seq(Ops), q # <<>>, NEW op \in Ops,
           op.kind = Head(q).kind, op.phase # "queued", NEW s, NEW s2, NEW res, NEW done,
           QueueOK(t, q, s, res, done)
    PROVE  QueueOK(t, [q EXCEPT ![1] = op], s2, res, done)
<1> DEFINE r == [q EXCEPT ![1] = op]
<1>1. /\ DOMAIN r = DOMAIN q /\ Len(r) = Len(q)
      /\ \A i \in DOMAIN q : r[i].kind = q[i].kind
      /\ Len(q) \in DOMAIN q /\ HeadRuns(r)
  <2>1. r \in Seq(Ops) /\ Len(r) = Len(q) /\ r # <<>> /\ Head(r) = op
    BY HeadFacts
  <2>2. \A i \in DOMAIN q : r[i].kind = q[i].kind
    OBVIOUS
  <2>3. DOMAIN r = DOMAIN q /\ Len(q) \in DOMAIN q
    OBVIOUS
  <2> QED BY <2>1, <2>2, <2>3 DEF HeadRuns
<1> HIDE DEF r
<1>2. QueueOK(t, r, s2, res, done)
  BY <1>1 DEF QueueOK
<1> QED BY <1>2 DEF r

\* More acks, a cleared row or an expired lease do not disturb the queue.
LEMMA QueueMonotone ==
    ASSUME NEW t, NEW q, NEW s, NEW s2, NEW res, NEW done, NEW done2,
           QueueOK(t, q, s, res, done), done \subseteq done2,
           s2 = s \/ s2 = NoState \/ (s2.status = s.status /\ s2.lease = "expired")
    PROVE  QueueOK(t, q, s2, res, done2)
  BY DEF QueueOK, NoState, RowBacksOff

-----------------------------------------------------------------------------
(* The invariant is inductive *)

\* A stored entry is unacked or acked.
LEMMA StoredIsUnackedOrDone ==
    ASSUME TypeOK
    PROVE  Stored = Unacked \cup Done /\ Unacked \cap Done = {}
  BY DEF TypeOK, Stored, Unacked, Done

\* A target a step does not touch.
LEMMA Frame ==
    ASSUME Inv, NEW u \in Targets, resume' = resume,
           lock'[u] = lock[u], dispatchState'[u] = dispatchState[u], buffer'[u] = buffer[u],
           Stored \subseteq Stored', Done \subseteq Done'
    PROVE  RowInv(u)' /\ QueueInv(u)'
<1>1. RowOK(dispatchState[u], buffer[u], lock[u], Stored, Done)
      /\ QueueOK(u, lock[u], dispatchState[u], resume, Done)
  BY DEF Inv, RowInv, QueueInv
<1>2. RowOK(dispatchState[u], buffer[u], lock[u], Stored', Done')
  BY <1>1, RowMonotone
<1>3. QueueOK(u, lock[u], dispatchState[u], resume, Done')
  BY <1>1, QueueMonotone
<1> QED BY <1>2, <1>3 DEF RowInv, QueueInv

\* A step of one target.
LEMMA LocalStep ==
    ASSUME Inv, NEW t \in Targets, UNCHANGED <<inbox, resume, arriving, paused>>,
           \A u \in Targets \ {t} :
              lock'[u] = lock[u] /\ dispatchState'[u] = dispatchState[u] /\ buffer'[u] = buffer[u],
           RowOK(dispatchState'[t], buffer'[t], lock'[t], Stored, Done),
           QueueOK(t, lock'[t], dispatchState'[t], resume, Done)
    PROVE  Inv'
<1>1. Stored' = Stored /\ Done' = Done
  BY DEF Stored, Done
<1>2. ASSUME NEW u \in Targets PROVE RowInv(u)' /\ QueueInv(u)'
  <2>1. CASE u = t
    BY <1>1, <2>1 DEF RowInv, QueueInv
  <2>2. CASE u # t
    BY <1>1, <2>2, Frame
  <2> QED BY <2>1, <2>2
<1> QED BY <1>2 DEF Inv, ArrivingInv

\* The row an operation leaves is well formed.
LEMMA EndedRow ==
    ASSUME TypeOK, NEW t \in Targets, WellFormed(dispatchState[t]),
           dispatchState[t].pending \subseteq Stored,
           NEW op \in Ops, RunsOn(op, dispatchState[t], Stored, Done),
           NEW outcome \in AllOutcomes
    PROVE  LET s == StateAfter(t, op, outcome)
           IN  WellFormed(s) /\ s.pending \subseteq Stored
<1> DEFINE s == StateAfter(t, op, outcome)
<1>0. op.new # {} /\ op.new \subseteq Stored /\ op.snap \in DispatchStates
  BY StoredIsUnackedOrDone DEF RunsOn, Ops
<1>1. CASE outcome \in {"dispatched", "unchanged"}
  BY <1>1 DEF StateAfter, Notified, WellFormed
<1>2. CASE outcome \in {"held", "deferred"}
  BY <1>0, <1>2 DEF StateAfter, Dirty, WellFormed
<1>3. CASE outcome = "retry"
  <2>1. CASE op.kind \in {"flush", "catchup"}
    BY <1>0, <1>3, <2>1 DEF StateAfter, Dirty, WellFormed
  <2>2. CASE op.kind \notin {"flush", "catchup"}
    <3>1. op.kind \in Retries
      BY <2>2 DEF RunsOn, Retries, Ops, OpKinds
    <3>2. op.snap.status = "dirty" /\ op.snap.pending = op.new
      BY <3>1 DEF RunsOn
    <3>3. s = [op.snap EXCEPT !.status = "dirty", !.lease = "live"]
      BY <1>3, <2>2 DEF StateAfter
    <3>4. s.status = "dirty" /\ s.pending = op.new
      BY <1>0, <3>2, <3>3 DEF DispatchStates
    <3> QED BY <1>0, <3>4 DEF WellFormed
  <2> QED BY <2>1, <2>2
<1>4. CASE outcome \in {"offline", "paused", "skipped", "error"}
  <2>1. s = NoState \/ s = dispatchState[t]
    BY <1>4 DEF StateAfter
  <2> QED BY <2>1 DEF WellFormed, NoState
<1> QED BY <1>1, <1>2, <1>3, <1>4 DEF AllOutcomes

\* The buffer an operation leaves holds stored entries.
LEMMA EndedBuffer ==
    ASSUME NEW op \in Ops, NEW outcome, NEW b \in Buffers, NEW s, NEW stored, NEW done,
           done \subseteq stored, RunsOn(op, s, stored, done), b.pending \subseteq stored
    PROVE  BufferAfter(op, outcome, b).pending \subseteq stored
<1>1. op.kind = "flush" => op.batch \subseteq stored
  BY DEF RunsOn
<1>2. CASE op.kind # "flush"
  BY <1>2 DEF BufferAfter
<1>3. CASE op.kind = "flush" /\ outcome = "error" /\ ~op.lostBuffer
  <2>1. BufferAfter(op, outcome, b).pending = b.pending \cup op.batch
    BY <1>3 DEF BufferAfter, Buffers
  <2> QED BY <1>1, <1>3, <2>1
<1>4. CASE op.kind = "flush" /\ ~(outcome = "error" /\ ~op.lostBuffer)
  <2>1. BufferAfter(op, outcome, b) \in {b, [b EXCEPT !.timer = "armed"], NoBuffer}
    BY <1>4 DEF BufferAfter
  <2>2. BufferAfter(op, outcome, b).pending \in {b.pending, {}}
    BY <2>1 DEF Buffers, NoBuffer
  <2> QED BY <2>2
<1> QED BY <1>2, <1>3, <1>4

\* The end of a dispatch keeps the invariant.
LEMMA ConcludeInv ==
    ASSUME TypeOK, Inv, NEW t \in Targets, lock[t] # <<>>,
           NEW op \in Ops, RunsOn(op, dispatchState[t], Stored, Done),
           NEW outcome \in AllOutcomes, NEW b \in Buffers, b.pending \subseteq Stored,
           Conclude(t, op, outcome, b), UNCHANGED <<inbox, resume, arriving, paused>>
    PROVE  Inv'
<1> DEFINE s2 == StateAfter(t, op, outcome)
           b2 == BufferAfter(op, outcome, b)
<1>1. RowInv(t) /\ QueueInv(t) /\ OnlyHeadRuns(lock[t])
  BY TypesOfMachinery DEF Inv, MachineryOK
<1>2. WellFormed(s2) /\ s2.pending \subseteq Stored
  BY <1>1, EndedRow DEF RowInv, RowOK
<1>3. b2.pending \subseteq Stored
  BY EndedBuffer, StoredIsUnackedOrDone
<1>4. RowOK(s2, b2, Tail(lock[t]), Stored, Done) /\ QueueOK(t, Tail(lock[t]), s2, resume, Done)
  <2> HIDE DEF s2, b2
  <2> QED BY <1>1, <1>2, <1>3, RowAfterPop, QueueAfterPop DEF QueueInv
<1>5. /\ dispatchState' = [dispatchState EXCEPT ![t] = s2] /\ buffer' = [buffer EXCEPT ![t] = b2]
      /\ lock' = [lock EXCEPT ![t] = Tail(lock[t])]
  BY DEF Conclude, SetState, Pop
<1> HIDE DEF s2, b2
<1>6. /\ dispatchState'[t] = s2 /\ buffer'[t] = b2 /\ lock'[t] = Tail(lock[t])
      /\ \A u \in Targets \ {t} :
            lock'[u] = lock[u] /\ dispatchState'[u] = dispatchState[u] /\ buffer'[u] = buffer[u]
  BY <1>5 DEF TypeOK
<1> QED BY <1>4, <1>6, LocalStep

\* So does its beginning, of an operation that fits its row.
LEMMA StartInv ==
    ASSUME TypeOK, Inv, NEW t \in Targets, lock[t] # <<>>,
           NEW op \in Ops, RunsOn(op, dispatchState[t], Stored, Done),
           op.kind = Head(lock[t]).kind,
           NEW b \in Buffers, b.pending \subseteq Stored, op.kind = "flush" => b.timer = "none",
           StartDispatch(t, op, b), UNCHANGED <<inbox, resume, arriving, paused>>
    PROVE  Inv'
<1>1. CASE Verdict(t, op) # "go"
  <2>1. Verdict(t, op) \in AllOutcomes /\ Conclude(t, op, Verdict(t, op), b)
    BY <1>1, VerdictIsOutcome DEF AllOutcomes, StartDispatch
  <2> QED BY <2>1, ConcludeInv
<1>2. CASE Verdict(t, op) = "go"
  <2> DEFINE running == [op EXCEPT !.phase = IF t \in Terminals THEN "gate" ELSE "send"]
             s       == dispatchState[t]
  <2>1. /\ running \in Ops /\ running.phase # "queued" /\ running.kind = op.kind
        /\ running.snap = op.snap /\ running.new = op.new /\ running.sent = op.sent
        /\ running.batch = op.batch
    BY DEF Ops, OpPhases
  <2>2. /\ lock' = [lock EXCEPT ![t] = [lock[t] EXCEPT ![1] = running]]
        /\ buffer' = [buffer EXCEPT ![t] = b] /\ dispatchState' = dispatchState
    BY <1>2 DEF StartDispatch
  <2> HIDE DEF running
  <2>3. RunsOn(running, s, Stored, Done)
    BY <2>1 DEF RunsOn
  <2>4. RowInv(t) /\ QueueInv(t) /\ lock[t] \in Seq(Ops)
    BY DEF Inv, TypeOK
  <2>5. /\ RowOK(s, b, [lock[t] EXCEPT ![1] = running], Stored, Done)
        /\ QueueOK(t, [lock[t] EXCEPT ![1] = running], s, resume, Done)
    BY <2>1, <2>3, <2>4, RowAfterHead, QueueAfterHead DEF RowInv, RowOK, QueueInv
  <2>6. /\ dispatchState'[t] = s /\ buffer'[t] = b /\ lock'[t] = [lock[t] EXCEPT ![1] = running]
        /\ \A u \in Targets \ {t} :
              lock'[u] = lock[u] /\ dispatchState'[u] = dispatchState[u] /\ buffer'[u] = buffer[u]
    BY <2>2 DEF TypeOK
  <2> QED BY <2>5, <2>6, LocalStep
<1> QED BY <1>1, <1>2

\* A step that leaves the lock of t and writes its row and its buffer.
LEMMA PopInv ==
    ASSUME TypeOK, Inv, NEW t \in Targets, lock[t] # <<>>, Pop(t),
           NEW s, WellFormed(s), s.pending \subseteq Stored,
           NEW b, b.pending \subseteq Stored,
           dispatchState' = [dispatchState EXCEPT ![t] = s],
           buffer' = [buffer EXCEPT ![t] = b],
           UNCHANGED <<inbox, resume, arriving, paused>>
    PROVE  Inv'
<1>1. QueueInv(t) /\ OnlyHeadRuns(lock[t])
  BY TypesOfMachinery DEF Inv, MachineryOK
<1>2. RowOK(s, b, Tail(lock[t]), Stored, Done) /\ QueueOK(t, Tail(lock[t]), s, resume, Done)
  BY <1>1, RowAfterPop, QueueAfterPop DEF QueueInv
<1>3. /\ dispatchState'[t] = s /\ buffer'[t] = b /\ lock'[t] = Tail(lock[t])
      /\ \A u \in Targets \ {t} :
            lock'[u] = lock[u] /\ dispatchState'[u] = dispatchState[u] /\ buffer'[u] = buffer[u]
  BY DEF TypeOK, Pop
<1> QED BY <1>2, <1>3, LocalStep

\* What the three handlers hand to a dispatch.
FlushOp(t) ==
    [Head(lock[t]) EXCEPT
        !.batch = buffer[t].pending, !.snap = dispatchState[t], !.sent = Unacked,
        !.new = buffer[t].pending \cup dispatchState[t].pending,
        !.subIds = SubsOf(buffer[t].pending) \cup dispatchState[t].subIds]
RetryOp(t) ==
    [Head(lock[t]) EXCEPT
        !.snap = dispatchState[t], !.sent = Unacked,
        !.new = PendingOf(dispatchState[t]), !.subIds = dispatchState[t].subIds]
CatchUpOp(t) ==
    [Head(lock[t]) EXCEPT
        !.snap = dispatchState[t], !.sent = Unacked, !.new = Unacked,
        !.subIds = SubsOf(Unacked)]

\* A flush that dispatches fits its row.
LEMMA FlushRuns ==
    ASSUME TypeOK, Inv, NEW t \in Targets, FlushDispatches(t)
    PROVE  /\ lock[t] # <<>> /\ FlushOp(t) \in Ops /\ FlushOp(t).kind = "flush"
           /\ Head(lock[t]).kind = "flush" /\ FlushOp(t).gen = Head(lock[t]).gen
           /\ FlushOp(t).new = buffer[t].pending \cup dispatchState[t].pending
           /\ FlushOp(t).snap = dispatchState[t]
           /\ StartDispatch(t, FlushOp(t), Spliced(t))
           /\ RunsOn(FlushOp(t), dispatchState[t], Stored, Done)
<1> DEFINE op == FlushOp(t)
           s  == dispatchState[t]
           batch == buffer[t].pending
<1>1. lock[t] # <<>> /\ Head(lock[t]).kind = "flush" /\ batch # {} /\ MayNotifyNow(s)
      /\ StartDispatch(t, op, Spliced(t))
  BY DEF FlushDispatches, Turn, FlushOp
<1>2. op \in Ops
  BY <1>1, RowParts, SubsOfIsTyped, DispatchedOpIsTyped DEF FlushOp
<1>3. /\ op.kind = "flush" /\ op.snap = s /\ op.new = batch \cup s.pending /\ op.batch = batch
      /\ op.sent = Unacked /\ op.gen = Head(lock[t]).gen
  BY <1>1, HeadIsOp DEF FlushOp, Ops
<1>4. RowInv(t) /\ Stored = Unacked \cup Done
  BY StoredIsUnackedOrDone DEF Inv
<1> HIDE DEF op
<1>5. RunsOn(op, s, Stored, Done)
  BY <1>1, <1>3, <1>4 DEF RunsOn, RowInv, RowOK, Retries
<1> QED BY <1>1, <1>2, <1>3, <1>5 DEF op

\* So does a retry.
LEMMA RetryRuns ==
    ASSUME TypeOK, Inv, NEW t \in Targets, RetryDispatches(t)
    PROVE  /\ lock[t] # <<>> /\ RetryOp(t) \in Ops /\ RetryOp(t).kind = Head(lock[t]).kind
           /\ RetryOp(t).kind \in Retries /\ RetryOp(t).gen = Head(lock[t]).gen
           /\ RetryOp(t).new = dispatchState[t].pending
           /\ RetryOp(t).snap = dispatchState[t]
           /\ StartDispatch(t, RetryOp(t), buffer[t])
           /\ RunsOn(RetryOp(t), dispatchState[t], Stored, Done)
<1> DEFINE op == RetryOp(t)
           s  == dispatchState[t]
<1>1. lock[t] # <<>> /\ Head(lock[t]).kind \in Retries
  BY DEF RetryDispatches, Turn
<1>2. op \in Ops
  <2>1. PendingOf(s) \in SUBSET Entries
    BY RowParts, UnackedIsTyped DEF PendingOf
  <2> QED BY <1>1, <2>1, RowParts, DispatchedOpIsTyped DEF RetryOp
<1>3. /\ op.kind = Head(lock[t]).kind /\ op.snap = s /\ op.new = PendingOf(s)
      /\ op.sent = Unacked /\ op.gen = Head(lock[t]).gen
  BY <1>1, HeadIsOp DEF RetryOp, Ops
<1>4. Dispatches(t, op.kind, s) /\ StartDispatch(t, op, buffer[t])
  BY DEF RetryDispatches, RetryOp
<1>5. RowInv(t) /\ Stored = Unacked \cup Done /\ s.status \in {"none", "notified", "dirty"}
  BY StoredIsUnackedOrDone, RowParts DEF Inv
<1> HIDE DEF op
<1>6. s.status = "dirty" /\ (op.kind # "ack" => s.lease = "expired")
  BY <1>1, <1>3, <1>4, <1>5 DEF Dispatches, NotDue, NothingNew, Retries
<1>7. op.new = s.pending /\ s.pending # {}
  BY <1>3, <1>5, <1>6 DEF RowInv, RowOK, WellFormed, PendingOf
<1>8. RunsOn(op, s, Stored, Done)
  BY <1>1, <1>3, <1>5, <1>6, <1>7 DEF RunsOn, RowInv, RowOK, Retries
<1> QED BY <1>1, <1>2, <1>3, <1>4, <1>7, <1>8 DEF op

\* So does a catch-up.
LEMMA CatchUpRuns ==
    ASSUME TypeOK, Inv, NEW t \in Targets, CatchUpDispatches(t)
    PROVE  /\ lock[t] # <<>> /\ CatchUpOp(t) \in Ops /\ CatchUpOp(t).kind = "catchup"
           /\ Head(lock[t]).kind = "catchup" /\ CatchUpOp(t).gen = Head(lock[t]).gen
           /\ CatchUpOp(t).new = Unacked /\ CatchUpOp(t).snap = dispatchState[t]
           /\ StartDispatch(t, CatchUpOp(t), NoBuffer)
           /\ RunsOn(CatchUpOp(t), dispatchState[t], Stored, Done)
<1> DEFINE op == CatchUpOp(t)
           s  == dispatchState[t]
<1>1. /\ lock[t] # <<>> /\ Head(lock[t]).kind = "catchup" /\ Unacked # {}
      /\ ~HeadRuns(lock[t]) /\ ~(t \in resume.backoff /\ s.status # "none")
      /\ StartDispatch(t, op, NoBuffer)
  BY DEF CatchUpDispatches, Turn, CatchUpOp, HeadRuns
<1>2. op \in Ops
  BY <1>1, UnackedIsTyped, SubsOfIsTyped, DispatchedOpIsTyped DEF CatchUpOp
<1>3. /\ op.kind = "catchup" /\ op.snap = s /\ op.new = Unacked
      /\ op.sent = Unacked /\ op.gen = Head(lock[t]).gen
  BY <1>1, HeadIsOp DEF CatchUpOp, Ops
<1>4. RowInv(t) /\ QueueInv(t) /\ Stored = Unacked \cup Done /\ Unacked \cap Done = {}
  BY StoredIsUnackedOrDone DEF Inv
<1> HIDE DEF op
<1>5. RowBacksOff(s) => s.pending \subseteq Done
  BY <1>1, <1>4 DEF QueueInv, QueueOK, RowBacksOff
<1>6. RunsOn(op, s, Stored, Done)
  BY <1>1, <1>3, <1>4, <1>5 DEF RunsOn, RowInv, RowOK, Retries
<1> QED BY <1>1, <1>2, <1>3, <1>6 DEF op

\* What a step under the lock of a target leaves alone.
LEMMA NotifyingLeaves ==
    ASSUME NEW t \in Targets, Notifying(t)
    PROVE  UNCHANGED <<inbox, subs, minUnacked, paused, generation, resume, arriving, ackDue, crashes>>
<1>1. CASE FencedTurn(t) \/ DrainTurn(t) \/ FlushNothing(t)
  BY <1>1 DEF FencedTurn, DrainTurn, FlushNothing, persisted
<1>2. CASE FlushDiscards(t) \/ FlushDispatches(t) \/ FlushMerges(t)
  BY <1>2 DEF FlushDiscards, FlushDispatches, FlushMerges
<1>3. CASE RetrySettles(t) \/ RetryDispatches(t)
  BY <1>3 DEF RetrySettles, RetryDispatches
<1>4. CASE CatchUpSettles(t) \/ CatchUpDispatches(t)
  BY <1>4 DEF CatchUpSettles, CatchUpDispatches
<1>5. CASE AwaitStep(t)
  BY <1>5 DEF AwaitStep
<1> QED BY <1>1, <1>2, <1>3, <1>4, <1>5, AwaitsAdvanceOrEnd DEF Notifying

\* What follows an await keeps the invariant.
LEMMA AwaitInv ==
    ASSUME TypeOK, Inv, NEW t \in Targets, AwaitStep(t)
    PROVE  Inv'
<1>0. /\ lock[t] # <<>> /\ Head(lock[t]) \in Ops /\ Head(lock[t]).phase # "queued"
      /\ HeadRuns(lock[t]) /\ RowInv(t) /\ QueueInv(t)
      /\ UNCHANGED <<inbox, resume, arriving, paused>>
  BY HeadIsOp DEF AwaitStep, Running, HeadRuns, Inv
<1>1. RunsOn(Head(lock[t]), dispatchState[t], Stored, Done) /\ buffer[t].pending \subseteq Stored
  BY <1>0 DEF RowInv, RowOK
<1>2. ASSUME NEW outcome \in AllOutcomes, End(t, outcome) PROVE Inv'
  BY <1>0, <1>1, <1>2, ConcludeInv DEF End, TypeOK
<1>3. ASSUME NEW phase \in OpPhases \ {"queued"}, Advance(t, phase) PROVE Inv'
  <2> DEFINE op == [Head(lock[t]) EXCEPT !.phase = phase]
             s  == dispatchState[t]
  <2>1. /\ op \in Ops /\ op.phase # "queued" /\ op.kind = Head(lock[t]).kind
        /\ op.snap = Head(lock[t]).snap /\ op.new = Head(lock[t]).new
        /\ op.sent = Head(lock[t]).sent /\ op.batch = Head(lock[t]).batch
        /\ op.lostBuffer = Head(lock[t]).lostBuffer
    BY <1>0 DEF Ops
  <2>2. lock' = [lock EXCEPT ![t] = [lock[t] EXCEPT ![1] = op]]
    <3>1. lock' = [lock EXCEPT ![t] = [lock[t] EXCEPT ![1] = [lock[t][1] EXCEPT !.phase = phase]]]
      BY <1>0, <1>3, HeadIsOp DEF Advance, TypeOK
    <3> QED BY <1>0, <3>1, HeadIsOp
  <2> HIDE DEF op
  <2>3. RunsOn(op, s, Stored, Done)
    BY <1>1, <2>1 DEF RunsOn
  <2>4. op.kind = "flush" /\ ~op.lostBuffer => buffer[t].timer = "none"
    BY <1>0, <2>1 DEF RowInv, RowOK, HeadFlushes
  <2>5. /\ RowOK(s, buffer[t], [lock[t] EXCEPT ![1] = op], Stored, Done)
        /\ QueueOK(t, [lock[t] EXCEPT ![1] = op], s, resume, Done)
    <3>1. lock[t] \in Seq(Ops) /\ WellFormed(s) /\ s.pending \subseteq Stored
          /\ QueueOK(t, lock[t], s, resume, Done)
      BY <1>0, HeadIsOp DEF RowInv, RowOK, QueueInv
    <3>2. RowOK(s, buffer[t], [lock[t] EXCEPT ![1] = op], Stored, Done)
      BY <1>0, <1>1, <2>1, <2>3, <2>4, <3>1, RowAfterHead
    <3>3. QueueOK(t, [lock[t] EXCEPT ![1] = op], s, resume, Done)
      BY <1>0, <2>1, <3>1, QueueAfterHead
    <3> QED BY <3>2, <3>3
  <2>6. /\ dispatchState'[t] = s /\ buffer'[t] = buffer[t]
        /\ lock'[t] = [lock[t] EXCEPT ![1] = op]
        /\ \A u \in Targets \ {t} :
              lock'[u] = lock[u] /\ dispatchState'[u] = dispatchState[u] /\ buffer'[u] = buffer[u]
    BY <1>3, <2>2 DEF TypeOK, Advance
  <2> QED BY <1>0, <2>5, <2>6, LocalStep
<1> QED BY <1>2, <1>3 DEF AwaitStep

\* So does every step under the lock of a target.
LEMMA NotifyingInv ==
    ASSUME TypeOK, Inv, NEW t \in Targets, Notifying(t)
    PROVE  Inv'
<1> DEFINE s == dispatchState[t]
<1>0. UNCHANGED <<inbox, resume, arriving, paused>> /\ RowInv(t) /\ QueueInv(t)
      /\ WellFormed(s) /\ s.pending \subseteq Stored /\ buffer[t].pending \subseteq Stored
      /\ Unacked \subseteq Stored /\ NoBuffer.pending = {} /\ NoState.pending = {}
      /\ WellFormed(NoState)
  BY NotifyingLeaves, StoredIsUnackedOrDone DEF Inv, RowInv, RowOK, NoBuffer, NoState, WellFormed
<1>1. CASE FencedTurn(t) \/ DrainTurn(t) \/ FlushNothing(t)
  <2>1. lock[t] # <<>> /\ Pop(t) /\ dispatchState' = dispatchState /\ buffer' = buffer
    BY <1>1 DEF FencedTurn, DrainTurn, FlushNothing, Turn, persisted
  <2> DEFINE b == buffer[t]
  <2>2. dispatchState' = [dispatchState EXCEPT ![t] = s] /\ buffer' = [buffer EXCEPT ![t] = b]
    BY <2>1 DEF TypeOK
  <2>3. WellFormed(s) /\ s.pending \subseteq Stored /\ b.pending \subseteq Stored
    BY <1>0
  <2> HIDE DEF s, b
  <2> QED BY <1>0, <2>1, <2>2, <2>3, PopInv
<1>2. CASE FlushDiscards(t)
  <2>1. lock[t] # <<>> /\ Pop(t) /\ buffer' = [buffer EXCEPT ![t] = NoBuffer]
        /\ dispatchState' \in {dispatchState, [dispatchState EXCEPT ![t] = NoState]}
    BY <1>2 DEF FlushDiscards, Turn, SetState
  <2>2. dispatchState' = [dispatchState EXCEPT ![t] = s]
        \/ dispatchState' = [dispatchState EXCEPT ![t] = NoState]
    BY <2>1 DEF TypeOK
  <2>3. CASE dispatchState' = [dispatchState EXCEPT ![t] = s]
    BY <1>0, <2>1, <2>3, PopInv
  <2>4. CASE dispatchState' = [dispatchState EXCEPT ![t] = NoState]
    BY <1>0, <2>1, <2>4, PopInv
  <2> QED BY <2>2, <2>3, <2>4
<1>3. CASE FlushMerges(t)
  <2> DEFINE new == Dirty(s.lease, s.fingerprint, s.pending \cup buffer[t].pending,
                          s.subIds \cup SubsOf(buffer[t].pending))
  <2>1. lock[t] # <<>> /\ Pop(t) /\ buffer' = [buffer EXCEPT ![t] = NoBuffer]
        /\ dispatchState' = [dispatchState EXCEPT ![t] = new]
    BY <1>3 DEF FlushMerges, Turn, SetState
  <2>2. WellFormed(new) /\ new.pending \subseteq Stored
    BY <1>0, <1>3 DEF FlushMerges, WellFormed, Dirty
  <2>3. NoBuffer.pending \subseteq Stored /\ UNCHANGED <<inbox, resume, arriving, paused>>
    BY <1>0
  <2> HIDE DEF new
  <2> QED BY <2>1, <2>2, <2>3, PopInv
<1>4. CASE FlushDispatches(t)
  <2>1. Spliced(t) \in Buffers /\ Spliced(t).pending \subseteq Stored /\ Spliced(t).timer = "none"
    BY DEF Spliced, Buffers
  <2> QED BY <1>0, <1>4, <2>1, FlushRuns, StartInv
<1>5. CASE RetrySettles(t)
  <2> DEFINE kind == Head(lock[t]).kind
             new  == IF NotDue(kind, s) THEN s ELSE StateWithoutDispatch(t, kind, s)
  <2>1. lock[t] # <<>> /\ Pop(t) /\ buffer' = buffer
        /\ dispatchState' = [dispatchState EXCEPT ![t] = new]
    BY <1>5 DEF RetrySettles, Turn, SetState
  <2>2. WellFormed(new) /\ new.pending \subseteq Stored
    <3>1. CASE new = s \/ new = NoState
      BY <1>0, <3>1
    <3>2. CASE Unacked # {} /\ new = Dirty("null", s.fingerprint, PendingOf(s), s.subIds)
      BY <1>0, <3>2 DEF WellFormed, Dirty, PendingOf
    <3>3. CASE s.status = "notified" /\ new = [s EXCEPT !.lease = "live"]
      <4>1. new.status = "notified" /\ new.pending = s.pending
        BY <3>3 DEF TypeOK, DispatchStates
      <4> QED BY <1>0, <3>3, <4>1 DEF WellFormed
    <3> QED BY <3>1, <3>2, <3>3 DEF StateWithoutDispatch, Hopeless
  <2>3. buffer' = [buffer EXCEPT ![t] = buffer[t]]
    BY <2>1 DEF TypeOK
  <2> HIDE DEF new
  <2> QED BY <1>0, <2>1, <2>2, <2>3, PopInv
<1>6. CASE RetryDispatches(t)
  <2>1. buffer[t] \in Buffers
    BY DEF TypeOK
  <2>2. \A k \in Retries : k # "flush"
    BY DEF Retries
  <2> QED BY <1>0, <1>6, <2>1, <2>2, RetryRuns, StartInv
<1>7. CASE CatchUpSettles(t)
  <2> DEFINE new == [s EXCEPT !.pending = Unacked, !.subIds = SubsOf(Unacked)]
  <2>1. lock[t] # <<>> /\ Pop(t) /\ buffer' = [buffer EXCEPT ![t] = NoBuffer]
        /\ Head(lock[t]).kind = "catchup" /\ ~HeadRuns(lock[t])
    BY <1>7 DEF CatchUpSettles, Turn, HeadRuns
  <2>2. CASE SetState(t, NoState)
    BY <1>0, <2>1, <2>2, PopInv DEF SetState
  <2>3. CASE Unacked # {} /\ t \in resume.backoff /\ s.status # "none" /\ SetState(t, new)
    <3>1. s.status = "dirty"
      BY <1>0, <2>1, <2>3 DEF QueueInv, QueueOK
    <3>2. new.status = "dirty" /\ new.pending = Unacked
      BY <3>1 DEF TypeOK, DispatchStates
    <3>3. WellFormed(new) /\ new.pending \subseteq Stored
      <4> HIDE DEF new
      <4> QED BY <1>0, <2>3, <3>2 DEF WellFormed
    <3>4. dispatchState' = [dispatchState EXCEPT ![t] = new]
      BY <2>3 DEF SetState
    <3> HIDE DEF new
    <3> QED BY <1>0, <2>1, <3>3, <3>4, PopInv
  <2> QED BY <1>7, <2>2, <2>3 DEF CatchUpSettles
<1>8. CASE CatchUpDispatches(t)
  BY <1>0, <1>8, CatchUpRuns, StartInv, NothingIsTyped
<1> QED BY <1>1, <1>2, <1>3, <1>4, <1>5, <1>6, <1>7, <1>8, AwaitsAdvanceOrEnd, AwaitInv
        DEF Notifying

\* Queueing one operation that is neither a drain nor a catch-up: it happens only while
\* the agent is not paused, so never on a lock that a resume drains.
LEMMA QueuedTarget ==
    ASSUME TypeOK, Inv, NEW u \in Targets, NEW kind \in OpKinds \ {"drain", "catchup"}, ~paused,
           lock'[u] = Push(lock[u], kind),
           dispatchState'[u] = dispatchState[u], resume' = resume,
           buffer'[u].pending \subseteq Stored',
           HeadFlushes(lock[u]) => buffer'[u].timer = "none",
           Stored \subseteq Stored', Done \subseteq Done'
    PROVE  RowInv(u)' /\ QueueInv(u)'
<1> DEFINE o == NewOp(kind)
<1>1. o \in Ops /\ o.phase = "queued" /\ o.kind = kind
  BY OpTypes
<1>2. lock'[u] = Append(lock[u], o) /\ lock[u] \in Seq(Ops) /\ ~(resume.phase = "drain")
  BY DEF Push, TypeOK, Inv
<1>3. RowOK(dispatchState[u], buffer[u], lock[u], Stored, Done)
      /\ QueueOK(u, lock[u], dispatchState[u], resume, Done)
  BY DEF Inv, RowInv, QueueInv
<1> HIDE DEF o
<1>4. RowOK(dispatchState[u], buffer[u], lock[u], Stored', Done')
      /\ QueueOK(u, lock[u], dispatchState[u], resume, Done')
  BY <1>3, RowMonotone, QueueMonotone
<1>5. RowOK(dispatchState[u], buffer'[u], Append(lock[u], o), Stored', Done')
  BY <1>1, <1>2, <1>4, RowAfterPush
<1>6. QueueOK(u, Append(lock[u], o), dispatchState[u], resume, Done')
  BY <1>1, <1>2, <1>4, QueueAfterPush
<1> QED BY <1>2, <1>5, <1>6 DEF RowInv, QueueInv

\* So does enqueueActivationTarget.
LEMMA EnqueueInv ==
    ASSUME TypeOK, Inv, NEW e \in Entries, NEW to \in SUBSET Targets, EnqueueAll(e, to),
           UNCHANGED <<dispatchState, resume, paused>>, e \in Stored',
           Stored \subseteq Stored', Done \subseteq Done'
    PROVE  \A u \in Targets : RowInv(u)' /\ QueueInv(u)'
<1> SUFFICES ASSUME NEW u \in Targets PROVE RowInv(u)' /\ QueueInv(u)'
  OBVIOUS
<1>1. CASE paused \/ u \notin to
  <2>1. lock'[u] = lock[u] /\ buffer'[u] = buffer[u]
    BY <1>1 DEF EnqueueAll, TypeOK
  <2> QED BY <2>1, Frame
<1>2. CASE ~paused /\ u \in to
  <2>1. /\ buffer'[u] = Enqueued(u, e)
        /\ lock'[u] = IF Full(u, e) THEN Push(lock[u], "flush") ELSE lock[u]
    BY <1>2 DEF EnqueueAll
  <2>2. RowOK(dispatchState[u], buffer[u], lock[u], Stored, Done)
        /\ QueueOK(u, lock[u], dispatchState[u], resume, Done)
    BY DEF Inv, RowInv, QueueInv
  <2>3. buffer'[u].pending = buffer[u].pending \cup {e}
    BY <2>1 DEF Enqueued
  <2>4. buffer'[u].pending \subseteq Stored'
    BY <2>2, <2>3 DEF RowOK
  <2>5. HeadFlushes(lock[u]) <=> InFlight(u)
    BY DEF HeadFlushes, HeadRuns, InFlight, Running
  <2>6. HeadFlushes(lock[u]) => buffer'[u].timer = "none"
    BY <2>1, <2>2, <2>5 DEF RowOK, Enqueued
  <2>7. CASE Full(u, e)
    <3>1. "flush" \in OpKinds \ {"drain", "catchup"}
      BY DEF OpKinds
    <3> QED BY <1>2, <2>1, <2>4, <2>6, <2>7, <3>1, QueuedTarget
  <2>8. CASE ~Full(u, e)
    <3>1. lock'[u] = lock[u]
      BY <2>1, <2>8
    <3>2. RowOK(dispatchState[u], buffer[u], lock[u], Stored', Done')
          /\ QueueOK(u, lock[u], dispatchState[u], resume, Done')
      BY <2>2, RowMonotone, QueueMonotone
    <3>3. RowOK(dispatchState[u], buffer'[u], lock[u], Stored', Done')
      BY <2>4, <2>6, <3>2, RowAfterBuffer
    <3> QED BY <3>1, <3>2, <3>3 DEF RowInv, QueueInv
  <2> QED BY <2>7, <2>8
<1> QED BY <1>1, <1>2

\* So does the arrival of an entry.
LEMMA ArrivalInv ==
    ASSUME TypeOK, Inv, NEW e \in Entries, Arrival(e) \/ Ack(e)
    PROVE  Inv'
<1>1. CASE PollReads(e)
  <2>1. UNCHANGED <<inbox, paused, resume, lock, dispatchState, buffer>>
        /\ arriving' = [arriving EXCEPT ![e] = [step |-> "read", to |-> Effective]]
    BY <1>1 DEF PollReads, persisted
  <2>2. Stored' = Stored /\ Done' = Done
    BY <2>1 DEF Stored, Done
  <2>3. \A u \in Targets : RowInv(u)' /\ QueueInv(u)'
    BY <2>1, <2>2, Frame
  <2>4. \A x \in Entries : ArrivingInv(x)'
    <3>1. inbox[e] = "none" /\ SubOf[e] \in Subs
      BY <1>1 DEF PollReads, TypeOK
    <3> QED BY <2>1, <3>1 DEF Inv, ArrivingInv, TypeOK
  <2> QED BY <2>1, <2>3, <2>4 DEF Inv
<1>2. CASE PollStores(e)
  <2>1. UNCHANGED <<paused, resume, lock, dispatchState, buffer>>
        /\ arriving' = [arriving EXCEPT ![e] = [arriving[e] EXCEPT !.step = "stored"]]
        /\ inbox' = [inbox EXCEPT ![e] = "unacked"]
    BY <1>2 DEF PollStores
  <2>2. arriving[e].step = "read"
    BY <1>2 DEF PollStores
  <2>3. inbox[e] # "acked" => Stored \subseteq Stored' /\ Done \subseteq Done'
    BY <2>1 DEF Stored, Done, TypeOK
  <2>4. \A x \in Entries \ {e} : arriving'[x] = arriving[x] /\ inbox'[x] = inbox[x]
    BY <2>1 DEF TypeOK
  <2>5. \A x \in Entries : ArrivingInv(x)'
    <3>1. arriving'[e].step = "stored" /\ inbox'[e] = "unacked"
      BY <2>1 DEF TypeOK
    <3> QED BY <2>4, <3>1 DEF Inv, ArrivingInv
  <2>6. inbox[e] # "acked"
    BY <2>2 DEF Inv, ArrivingInv
  <2>7. \A u \in Targets : RowInv(u)' /\ QueueInv(u)'
    BY <2>1, <2>3, <2>6, Frame
  <2> QED BY <2>1, <2>5, <2>7 DEF Inv
<1>3. CASE PollEnqueues(e)
  <2>1. UNCHANGED <<inbox, paused, dispatchState, resume>> /\ EnqueueAll(e, arriving[e].to)
        /\ arriving' = [arriving EXCEPT ![e] = [step |-> "idle", to |-> {}]]
        /\ arriving[e].step = "stored" /\ arriving[e].to \in SUBSET Targets
    BY <1>3 DEF PollEnqueues, persisted, TypeOK
  <2>2. Stored' = Stored /\ Done' = Done /\ e \in Stored
    BY <2>1 DEF Stored, Done, Inv, ArrivingInv
  <2>3. \A u \in Targets : RowInv(u)' /\ QueueInv(u)'
    BY <2>1, <2>2, EnqueueInv
  <2>4. \A x \in Entries : ArrivingInv(x)'
    BY <2>1 DEF Inv, ArrivingInv, TypeOK
  <2> QED BY <2>1, <2>3, <2>4 DEF Inv
<1>4. CASE DirectMessage(e)
  <2>1. UNCHANGED <<paused, dispatchState, resume, arriving>> /\ EnqueueAll(e, Effective)
        /\ inbox[e] = "none" /\ inbox' = [inbox EXCEPT ![e] = "unacked"]
    BY <1>4 DEF DirectMessage
  <2>2. Stored \subseteq Stored' /\ Done \subseteq Done' /\ e \in Stored'
    BY <2>1 DEF Stored, Done, TypeOK
  <2>3. \A u \in Targets : RowInv(u)' /\ QueueInv(u)'
    BY <2>1, <2>2, EnqueueInv, EffectiveIsTyped
  <2>4. \A x \in Entries : ArrivingInv(x)'
    <3>1. arriving[e].step # "read"
      BY <1>4, DeliveryAssumption DEF DirectMessage, Inv, ArrivingInv
    <3> QED BY <2>1, <3>1 DEF Inv, ArrivingInv, TypeOK
  <2> QED BY <2>1, <2>3, <2>4 DEF Inv
<1>5. CASE Ack(e)
  <2>1. UNCHANGED <<paused, resume, lock, dispatchState, buffer, arriving>>
        /\ inbox[e] = "unacked" /\ inbox' = [inbox EXCEPT ![e] = "acked"]
    BY <1>5 DEF Ack
  <2>2. Stored \subseteq Stored' /\ Done \subseteq Done'
    BY <2>1 DEF Stored, Done, TypeOK
  <2>3. \A u \in Targets : RowInv(u)' /\ QueueInv(u)'
    BY <2>1, <2>2, Frame
  <2>4. \A x \in Entries : ArrivingInv(x)'
    BY <2>1 DEF Inv, ArrivingInv, TypeOK
  <2> QED BY <2>1, <2>3, <2>4 DEF Inv
<1> QED BY <1>1, <1>2, <1>3, <1>4, <1>5 DEF Arrival

\* So do timers, ticks, leases and retries.
LEMMA QueueingInv ==
    ASSUME TypeOK, Inv, NEW t \in Targets,
           TimerFires(t) \/ LeaseTick(t) \/ AckFollowUp(t) \/ ResumeRetries(t)
    PROVE  Inv'
<1>1. /\ UNCHANGED <<inbox, paused, dispatchState, resume, arriving>>
      /\ \A u \in Targets \ {t} : buffer'[u] = buffer[u]
      /\ buffer'[t] = buffer[t] \/ (buffer[t].timer = "armed" /\
                                    buffer'[t] = [buffer[t] EXCEPT !.timer = "fired"])
  BY DEF TimerFires, LeaseTick, AckFollowUp, ResumeRetries, persisted, TypeOK
<1>2. Stored' = Stored /\ Done' = Done
  BY <1>1 DEF Stored, Done
<1>3. lock' = lock \/ (~paused /\ \E kind \in {"flush", "lease", "ack", "resume"} : Queue(t, kind))
  BY DEF TimerFires, LeaseTick, AckFollowUp, ResumeRetries
<1>4. {"flush", "lease", "ack", "resume"} \subseteq OpKinds \ {"drain", "catchup"}
  BY DEF OpKinds
<1>5. RowOK(dispatchState[t], buffer[t], lock[t], Stored, Done)
      /\ QueueOK(t, lock[t], dispatchState[t], resume, Done) /\ buffer[t] \in Buffers
  BY DEF Inv, RowInv, QueueInv, TypeOK
<1>6. buffer'[t].pending = buffer[t].pending
      /\ (HeadFlushes(lock[t]) => buffer'[t].timer = "none")
  BY <1>1, <1>5 DEF RowOK, Buffers
<1>7. buffer'[t].pending \subseteq Stored
  BY <1>5, <1>6 DEF RowOK
<1>8. ASSUME NEW u \in Targets PROVE RowInv(u)' /\ QueueInv(u)'
  <2>1. CASE u # t
    <3>1. lock'[u] = lock[u]
      BY <1>3, <2>1 DEF Queue, TypeOK
    <3> QED BY <1>1, <1>2, <2>1, <3>1, Frame
  <2>2. CASE u = t /\ lock' = lock
    <3>1. RowOK(dispatchState[t], buffer'[t], lock[t], Stored, Done)
      BY <1>5, <1>6, <1>7, RowAfterBuffer
    <3> QED BY <1>1, <1>2, <1>5, <2>2, <3>1 DEF RowInv, QueueInv
  <2>3. CASE u = t /\ lock' # lock
    <3>1. PICK kind \in {"flush", "lease", "ack", "resume"} : ~paused /\ Queue(t, kind)
      BY <1>3, <2>3
    <3>2. lock'[t] = Push(lock[t], kind)
      BY <3>1 DEF Queue, TypeOK
    <3> QED BY <1>1, <1>2, <1>4, <1>6, <1>7, <2>3, <3>1, <3>2, QueuedTarget
  <2> QED BY <2>1, <2>2, <2>3
<1> QED BY <1>1, <1>8 DEF Inv, ArrivingInv

\* So do acks and what the user does to targets.
LEMMA UserInv ==
    ASSUME TypeOK, Inv, NEW t \in Targets,
           \/ LeaseExpires(t) \/ AddTarget(t) \/ ResumeTarget(t) \/ RemoveTarget(t)
           \/ \E n \in Thresholds : UpdatePolicy(t, n)
    PROVE  Inv'
<1> DEFINE s == dispatchState[t]
<1>1. /\ UNCHANGED <<inbox, paused, resume, arriving, lock, buffer>>
      /\ \A u \in Targets \ {t} : dispatchState'[u] = dispatchState[u]
      /\ \/ dispatchState'[t] = s
         \/ dispatchState'[t] = NoState
         \/ s.lease = "live" /\ dispatchState'[t] = [s EXCEPT !.lease = "expired"]
  BY DEF LeaseExpires, AddTarget, ResumeTarget, RemoveTarget, UpdatePolicy, volatile, SetState, TypeOK
<1>2. /\ RowOK(s, buffer[t], lock[t], Stored, Done) /\ QueueOK(t, lock[t], s, resume, Done)
      /\ s \in DispatchStates /\ OnlyHeadRuns(lock[t])
  BY TypesOfMachinery DEF Inv, RowInv, QueueInv, MachineryOK
<1>3. RowOK(dispatchState'[t], buffer[t], lock[t], Stored, Done)
  BY <1>1, <1>2, RowAfterClear, RowAfterExpiry
<1>4. QueueOK(t, lock[t], dispatchState'[t], resume, Done)
  <2>1. dispatchState'[t] = s \/ dispatchState'[t] = NoState
        \/ (dispatchState'[t].status = s.status /\ dispatchState'[t].lease = "expired")
    BY <1>1, <1>2 DEF DispatchStates
  <2> QED BY <1>2, <2>1, QueueMonotone
<1> QED BY <1>1, <1>3, <1>4, LocalStep

\* So does the removal of a subscription.
LEMMA RemovalInv ==
    ASSUME TypeOK, Inv, NEW s \in Subs, RemoveSubscription(s)
    PROVE  Inv'
<1>1. UNCHANGED <<inbox, paused, resume, arriving>>
  BY DEF RemoveSubscription
<1>2. Stored' = Stored /\ Done' = Done
  BY <1>1 DEF Stored, Done
<1>3. ASSUME NEW t \in Targets PROVE RowInv(t)' /\ QueueInv(t)'
  <2> DEFINE row == dispatchState[t]
             b   == buffer[t]
             q   == lock[t]
  <2>1. /\ RowOK(row, b, q, Stored, Done) /\ QueueOK(t, q, row, resume, Done)
        /\ OnlyHeadRuns(q) /\ b \in Buffers
    BY TypesOfMachinery DEF Inv, RowInv, QueueInv, MachineryOK
  <2>2. dispatchState'[t] = row \/ dispatchState'[t] = NoState
    BY DEF RemoveSubscription
  <2>3. /\ buffer'[t].pending \subseteq Stored
        /\ HeadFlushes(q) => buffer'[t].timer = "none"
    <3>1. \/ buffer'[t] = NoBuffer
          \/ buffer'[t] = [b EXCEPT !.pending = Retained(t, s)]
      BY DEF RemoveSubscription
    <3>2. Retained(t, s) \subseteq b.pending
      BY DEF Retained
    <3> QED BY <2>1, <3>1, <3>2 DEF RowOK, NoBuffer, Buffers
  <2>4. RowOK(dispatchState'[t], buffer'[t], q, Stored, Done)
        /\ QueueOK(t, q, dispatchState'[t], resume, Done)
    <3>1. RowOK(dispatchState'[t], b, q, Stored, Done)
      BY <2>1, <2>2, RowAfterClear
    <3>2. QueueOK(t, q, dispatchState'[t], resume, Done)
      BY <2>1, <2>2, QueueMonotone
    <3> QED BY <2>3, <3>1, <3>2, RowAfterBuffer
  <2>5. CASE ~(Emptied(t, s) /\ InFlight(t))
    <3>1. lock'[t] = q
      BY <2>5 DEF RemoveSubscription
    <3> QED BY <1>1, <1>2, <2>4, <3>1 DEF RowInv, QueueInv
  <2>6. CASE Emptied(t, s) /\ InFlight(t)
    <3> DEFINE op == [q[1] EXCEPT !.lostBuffer = TRUE]
    <3>1. q # <<>> /\ Head(q).phase # "queued" /\ HeadRuns(q)
      BY <2>6 DEF InFlight, Running, HeadRuns
    <3>2. Head(q) \in Ops /\ Head(q) = q[1] /\ q \in Seq(Ops)
      BY <3>1, HeadIsOp
    <3>3. lock'[t] = [q EXCEPT ![1] = op]
      BY <2>6 DEF RemoveSubscription
    <3>4. /\ op \in Ops /\ op.phase # "queued" /\ op.kind = Head(q).kind
          /\ op.snap = Head(q).snap /\ op.new = Head(q).new
          /\ op.sent = Head(q).sent /\ op.batch = Head(q).batch /\ op.lostBuffer
      BY <3>1, <3>2 DEF Ops
    <3> HIDE DEF op
    <3>5. RunsOn(Head(q), dispatchState'[t], Stored, Done)
      BY <2>4, <3>1 DEF RowOK
    <3>6. RunsOn(op, dispatchState'[t], Stored, Done)
      BY <3>4, <3>5 DEF RunsOn
    <3>7. RowOK(dispatchState'[t], buffer'[t], [q EXCEPT ![1] = op], Stored, Done)
      <4>1. WellFormed(dispatchState'[t]) /\ dispatchState'[t].pending \subseteq Stored
        BY <2>4 DEF RowOK
      <4> QED BY <2>3, <3>1, <3>2, <3>4, <3>6, <4>1, RowAfterHead
    <3>8. QueueOK(t, [q EXCEPT ![1] = op], dispatchState'[t], resume, Done)
      BY <2>1, <3>1, <3>2, <3>4, QueueAfterHead
    <3> QED BY <1>1, <1>2, <3>3, <3>7, <3>8 DEF RowInv, QueueInv
  <2> QED BY <2>5, <2>6
<1> QED BY <1>1, <1>3 DEF Inv, ArrivingInv

\* So do pauses and resumes.
LEMMA ResumeInv ==
    ASSUME TypeOK, Inv, Pause \/ ResumeBegins \/ Unpause \/ ResumeEnds
    PROVE  Inv'
<1>0. UNCHANGED <<inbox, buffer, arriving>>
  BY DEF Pause, ResumeBegins, Unpause, ResumeEnds, persisted
<1>1. Stored' = Stored /\ Done' = Done
  BY <1>0 DEF Stored, Done
<1>2. CASE Pause
  <2>1. paused' /\ UNCHANGED <<dispatchState, lock, resume>>
    BY <1>2 DEF Pause
  <2>2. \A t \in Targets : RowInv(t)' /\ QueueInv(t)'
    BY <1>0, <1>1, <2>1, Frame
  <2> QED BY <1>0, <2>1, <2>2 DEF Inv, ArrivingInv
<1>3. CASE ResumeBegins
  <2>1. /\ paused /\ resume.phase = "idle" /\ UNCHANGED <<dispatchState, paused>>
        /\ resume' = [phase |-> "drain", to |-> Effective, backoff |-> {}]
        /\ lock' = [t \in Targets |->
                      IF t \in Effective THEN Push(lock[t], "drain") ELSE lock[t]]
    BY <1>3 DEF ResumeBegins, persisted
  <2>2. ASSUME NEW t \in Targets PROVE RowInv(t)' /\ QueueInv(t)'
    <3> DEFINE row == dispatchState[t]
               q   == lock[t]
               o   == NewOp("drain")
    <3>1. /\ RowOK(row, buffer[t], q, Stored, Done) /\ QueueOK(t, q, row, resume, Done)
          /\ q \in Seq(Ops)
      BY DEF Inv, RowInv, QueueInv, TypeOK
    <3>2. \A i \in DOMAIN q : q[i].kind \notin {"drain", "catchup"}
      BY <2>1, <3>1 DEF QueueOK
    <3>3. q # <<>> => Head(q).kind # "catchup"
      <4>1. q # <<>> => 1 \in DOMAIN q /\ Head(q) = q[1]
        BY <3>1
      <4> QED BY <3>2, <4>1
    <3>4. CASE t \notin Effective
      <4>1. lock'[t] = q
        BY <2>1, <3>4
      <4>2. QueueOK(t, q, row, resume', Done)
        BY <2>1, <3>2, <3>3, <3>4 DEF QueueOK
      <4> QED BY <1>0, <1>1, <2>1, <3>1, <4>1, <4>2 DEF RowInv, QueueInv
    <3>5. CASE t \in Effective
      <4>1. o \in Ops /\ o.phase = "queued" /\ o.kind = "drain"
        BY OpTypes DEF OpKinds
      <4>2. lock'[t] = Append(q, o)
        BY <2>1, <3>5 DEF Push
      <4> HIDE DEF o
      <4>3. RowOK(row, buffer[t], Append(q, o), Stored, Done)
        <5>1. buffer[t].pending \subseteq Stored /\ (HeadFlushes(q) => buffer[t].timer = "none")
          BY <3>1 DEF RowOK
        <5> QED BY <3>1, <4>1, <5>1, RowAfterPush
      <4>4. QueueOK(t, Append(q, o), row, resume', Done)
        <5> DEFINE r == Append(q, o)
        <5>1. /\ r[Len(r)] = o /\ Head(r) = (IF q = <<>> THEN o ELSE Head(q))
              /\ \A i \in DOMAIN r : r[i] = o \/ (i \in DOMAIN q /\ r[i] = q[i])
          <6>1. \A i \in 1..(Len(q) + 1) : i \in 1..Len(q) \/ i = Len(q) + 1
            BY <3>1
          <6> QED BY <3>1, <4>1, <6>1, AppendFacts
        <5> HIDE DEF r
        <5>2. /\ \A i \in DOMAIN r : r[i].kind # "catchup"
              /\ resume'.phase = "drain" /\ t \in resume'.to
              /\ Head(r).kind # "catchup" /\ r[Len(r)].kind = "drain"
          BY <2>1, <3>2, <3>3, <3>5, <4>1, <5>1
        <5>3. QueueOK(t, r, row, resume', Done)
          BY <5>2 DEF QueueOK
        <5> QED BY <5>3 DEF r
      <4> QED BY <1>0, <1>1, <2>1, <4>2, <4>3, <4>4 DEF RowInv, QueueInv
    <3> QED BY <3>4, <3>5
  <2> QED BY <1>0, <2>1, <2>2 DEF Inv, ArrivingInv
<1>4. CASE Unpause
  <2>1. /\ resume.phase = "drain" /\ \A t \in resume.to : ~QueuedOn(t, "drain")
        /\ resume' = [resume EXCEPT !.phase = "catchup",
                        !.backoff = {t \in resume.to : Unacked # {} /\ BackingOff(t)}]
    BY <1>4 DEF Unpause
  <2>2. resume'.phase = "catchup" /\ resume'.to = resume.to
        /\ resume'.backoff = {t \in resume.to : Unacked # {} /\ BackingOff(t)}
    BY <2>1 DEF TypeOK
  <2>3. ASSUME NEW t \in Targets PROVE RowInv(t)' /\ QueueInv(t)'
    <3> DEFINE row == dispatchState[t]
               q   == lock[t]
               o   == NewOp("catchup")
    <3>1. /\ RowOK(row, buffer[t], q, Stored, Done) /\ QueueOK(t, q, row, resume, Done)
          /\ q \in Seq(Ops)
      BY DEF Inv, RowInv, QueueInv, TypeOK
    <3>2. CASE t \notin resume.to
      <4>1. lock'[t] = q /\ dispatchState'[t] = row
        BY <1>4, <3>2 DEF Unpause
      <4>2. \A i \in DOMAIN q : q[i].kind \notin {"drain", "catchup"}
        BY <2>1, <3>1, <3>2 DEF QueueOK
      <4>3. q # <<>> => Head(q).kind # "catchup"
        <5>1. q # <<>> => 1 \in DOMAIN q /\ Head(q) = q[1]
          BY <3>1
        <5> QED BY <4>2, <5>1
      <4>4. QueueOK(t, q, row, resume', Done)
        BY <2>2, <3>2, <4>2, <4>3 DEF QueueOK
      <4> QED BY <1>0, <1>1, <3>1, <4>1, <4>4 DEF RowInv, QueueInv
    <3>3. CASE t \in resume.to
      <4>1. q = <<>>
        <5>1. q # <<>> => Len(q) \in DOMAIN q /\ q[Len(q)].kind = "drain"
          BY <2>1, <3>1, <3>3 DEF QueueOK
        <5> QED BY <2>1, <3>3, <5>1 DEF QueuedOn
      <4>2. lock'[t] = <<o>>
        <5>1. lock'[t] = Append(q, o)
          BY <1>4, <3>3 DEF Unpause, Push
        <5>2. Append(<<>>, o) = <<o>>
          OBVIOUS
        <5> HIDE DEF o
        <5> QED BY <4>1, <5>1, <5>2
      <4>3. o.phase = "queued" /\ o.kind = "catchup"
        BY OpTypes DEF OpKinds
      <4> HIDE DEF o
      <4>4. dispatchState'[t] = IF Unacked # {}
                                THEN Dirty(IF BackingOff(t) THEN "live" ELSE "expired", {}, Unacked,
                                           SubsOf(Unacked))
                                ELSE row
        BY <1>4, <3>3 DEF Unpause
      <4>5. /\ HeadRuns(<<o>>) = FALSE /\ HeadFlushes(<<o>>) = FALSE
            /\ DOMAIN <<o>> = {1} /\ Head(<<o>>) = o /\ <<o>>[1] = o
        BY <4>3 DEF HeadRuns, HeadFlushes
      <4>6. WellFormed(dispatchState'[t]) /\ dispatchState'[t].pending \subseteq Stored
        BY <3>1, <4>4, StoredIsUnackedOrDone DEF RowOK, WellFormed, Dirty
      <4>7. RowOK(dispatchState'[t], buffer[t], <<o>>, Stored, Done)
        BY <3>1, <4>5, <4>6 DEF RowOK
      <4>8. IF t \in resume'.backoff
            THEN dispatchState'[t].status \in {"none", "dirty"}
            ELSE RowBacksOff(dispatchState'[t]) => dispatchState'[t].pending \subseteq Done
        <5>1. CASE Unacked = {}
          BY <2>2, <4>4, <4>6, <5>1, StoredIsUnackedOrDone
        <5>2. CASE Unacked # {}
          BY <2>2, <3>3, <4>4, <5>2 DEF Dirty, RowBacksOff
        <5> QED BY <5>1, <5>2
      <4>9. QueueOK(t, <<o>>, dispatchState'[t], resume', Done)
        BY <2>2, <3>3, <4>3, <4>5, <4>8 DEF QueueOK
      <4> QED BY <1>0, <1>1, <4>2, <4>7, <4>9 DEF RowInv, QueueInv
    <3> QED BY <3>2, <3>3
  <2> QED BY <1>0, <2>2, <2>3 DEF Inv, ArrivingInv
<1>5. CASE ResumeEnds
  <2>1. /\ resume.phase = "catchup" /\ \A t \in resume.to : ~QueuedOn(t, "catchup")
        /\ resume' = Idle /\ UNCHANGED <<lock, dispatchState, paused>>
    BY <1>5 DEF ResumeEnds, persisted
  <2>2. ASSUME NEW t \in Targets PROVE RowInv(t)' /\ QueueInv(t)'
    <3> DEFINE q == lock[t]
    <3>1. /\ RowOK(dispatchState[t], buffer[t], q, Stored, Done)
          /\ QueueOK(t, q, dispatchState[t], resume, Done) /\ q \in Seq(Ops)
      BY DEF Inv, RowInv, QueueInv, TypeOK
    <3>2. \A i \in DOMAIN q : q[i].kind \notin {"drain", "catchup"}
      BY <2>1, <3>1 DEF QueueOK, QueuedOn
    <3>3. q # <<>> => Head(q).kind # "catchup"
      <4>1. q # <<>> => 1 \in DOMAIN q /\ Head(q) = q[1]
        BY <3>1
      <4> QED BY <3>2, <4>1
    <3>4. QueueOK(t, q, dispatchState[t], resume', Done)
      BY <2>1, <3>2, <3>3 DEF QueueOK, Idle
    <3> QED BY <1>0, <1>1, <2>1, <3>1, <3>4 DEF RowInv, QueueInv
  <2> QED BY <1>0, <2>1, <2>2 DEF Inv, ArrivingInv, Idle
<1> QED BY <1>2, <1>3, <1>4, <1>5

\* Empty locks and buffers: after the start and after a crash.
LEMMA FreshInv ==
    ASSUME NEW t, NEW s, NEW stored, NEW done, WellFormed(s), s.pending \subseteq stored
    PROVE  RowOK(s, NoBuffer, <<>>, stored, done) /\ QueueOK(t, <<>>, s, Idle, done)
  BY DEF RowOK, QueueOK, HeadRuns, HeadFlushes, NoBuffer, Idle

\* So does a restart.
LEMMA CrashInv ==
    ASSUME TypeOK, Inv, Crash
    PROVE  Inv'
<1>1. /\ UNCHANGED <<inbox, dispatchState, paused>> /\ resume' = Idle
      /\ \A t \in Targets : lock'[t] = <<>> /\ buffer'[t] = NoBuffer
      /\ \A e \in Entries : arriving'[e].step = "idle"
  BY DEF Crash, persisted
<1>2. \A t \in Targets : WellFormed(dispatchState[t]) /\ dispatchState[t].pending \subseteq Stored
  BY DEF Inv, RowInv, RowOK
<1>3. Stored' = Stored /\ Done' = Done
  BY <1>1 DEF Stored, Done
<1>4. ASSUME NEW t \in Targets PROVE RowInv(t)' /\ QueueInv(t)'
  BY <1>1, <1>2, <1>3, FreshInv DEF RowInv, QueueInv
<1>5. resume'.phase = "idle"
  BY <1>1 DEF Idle
<1>6. \A e \in Entries : ArrivingInv(e)'
  BY <1>1 DEF ArrivingInv
<1> QED BY <1>4, <1>5, <1>6 DEF Inv

\* So does every step.
LEMMA InvStep ==
    ASSUME TypeOK, Inv, [Next]_vars
    PROVE  Inv'
<1>1. CASE UNCHANGED vars
  <2>1. UNCHANGED <<inbox, paused, dispatchState, buffer, lock, resume, arriving>>
    BY <1>1 DEF vars, persisted, volatile
  <2>2. \A t \in Targets : RowInv(t)' /\ QueueInv(t)'
    BY <2>1, Frame DEF Stored, Done
  <2> QED BY <2>1, <2>2 DEF Inv, ArrivingInv
<1> QED BY <1>1, NotifyingInv, ArrivalInv, QueueingInv, UserInv, RemovalInv, ResumeInv, CrashInv
        DEF Next

\* The inductive invariant: types, collectable rows, and what the operations, the rows
\* and the queues know of each other.
THEOREM Invariance == Spec => []IInv
<1>1. Init => IInv
  <2>1. Init => RowsAreSound
    <3>1. Init => \A t \in Targets : dispatchState[t].status = "none"
      BY DEF Init, NoState
    <3> QED BY <3>1, TypeInit DEF RowsAreSound, OrphanRowsAreCollected
  <2>2. ASSUME Init PROVE Inv
    <3>1. /\ \A t \in Targets : /\ dispatchState[t] = NoState /\ buffer[t] = NoBuffer
                                /\ lock[t] = <<>>
          /\ resume = Idle /\ \A e \in Entries : arriving[e].step = "idle"
      BY <2>2 DEF Init
    <3>2. WellFormed(NoState) /\ NoState.pending = {}
      BY DEF WellFormed, NoState
    <3>3. \A t \in Targets : RowInv(t) /\ QueueInv(t)
      BY <3>1, <3>2, FreshInv DEF RowInv, QueueInv
    <3> QED BY <3>1, <3>3 DEF Inv, ArrivingInv, Idle
  <2> QED BY <2>1, <2>2 DEF IInv
<1>2. IInv /\ [Next]_vars => IInv'
  BY TypeStep, OrphanStep, InvStep DEF IInv, RowsAreSound
<1> QED BY <1>1, <1>2, PTL DEF Spec

-----------------------------------------------------------------------------
(* Backoffs *)

\* Only two kinds of operations can run on a row that backs off.
LEMMA RunsOnBackoff ==
    ASSUME NEW op \in Ops, NEW s \in DispatchStates, NEW stored, NEW done,
           RunsOn(op, s, stored, done), RowBacksOff(s)
    PROVE  op.kind = "ack" \/ (op.kind = "catchup" /\ s.pending \cap op.sent = {})
<1>1. op.snap \in DispatchStates
  BY DEF Ops
<1>2. s = op.snap
  BY <1>1 DEF RunsOn, RowBacksOff, NoState, DispatchStates
<1>3. op.kind # "flush"
  BY <1>2 DEF RunsOn, RowBacksOff, MayNotifyNow
<1>4. op.kind \in Retries => op.kind = "ack"
  BY <1>2 DEF RunsOn, RowBacksOff
<1>5. op.kind = "catchup" => s.pending \cap op.sent = {}
  BY <1>2 DEF RunsOn
<1> QED BY <1>3, <1>4, <1>5 DEF Ops, OpKinds, Retries, RunsOn

\* A target that failed or deferred is not asked again before its backoff is over,
\* whatever was queued for it meanwhile, but by an ack, or by a catch-up when all that
\* the backoff was about has been acked (service.ts:3351-3356).
THEOREM BackoffsAreRespected == Spec => BackoffRespected
<1> DEFINE Respected(t) == LET op == Head(lock'[t])
                           IN  SendStarts(t) =>
                                  \/ op.kind = "ack"
                                  \/ ~BackingOff(t)
                                  \/ op.kind = "catchup" /\ dispatchState[t].pending \cap op.sent = {}
<1>1. ASSUME IInv, IInv', [Next]_vars, NEW t \in Targets, SendStarts(t), BackingOff(t)
      PROVE  LET op == Head(lock'[t])
             IN  op.kind = "ack" \/ (op.kind = "catchup" /\ dispatchState[t].pending \cap op.sent = {})
  <2> DEFINE op == Head(lock'[t])
             s  == dispatchState[t]
  <2>0. TypeOK /\ TypeOK' /\ Inv /\ Inv' /\ s \in DispatchStates /\ RowBacksOff(s)
    BY <1>1 DEF IInv, RowsAreSound, TypeOK, BackingOff, RowBacksOff
  <2>1. op \in Ops /\ HeadRuns(lock'[t])
    BY <1>1, <2>0 DEF SendStarts, HeadRuns, TypeOK
  <2>2. RunsOn(op, dispatchState'[t], Stored', Done')
    BY <2>0, <2>1 DEF Inv, RowInv, RowOK
  <2>3. CASE Starts(t, op)
    <3>1. op.snap = s
      BY <2>3 DEF Starts
    <3>2. RunsOn(op, s, Stored', Done')
      BY <2>2, <3>1 DEF RunsOn
    <3> QED BY <2>0, <2>1, <3>2, RunsOnBackoff
  <2>4. CASE Waiting(t, {"remind"}) /\ op = [Head(lock[t]) EXCEPT !.phase = "send"]
    <3>1. HeadRuns(lock[t]) /\ lock[t] # <<>>
      BY <2>4 DEF Waiting, Running, HeadRuns
    <3>2. Head(lock[t]) \in Ops /\ RunsOn(Head(lock[t]), s, Stored, Done)
      BY <2>0, <3>1, HeadIsOp DEF Inv, RowInv, RowOK
    <3>3. op.kind = Head(lock[t]).kind /\ op.sent = Head(lock[t]).sent
      BY <2>4, <3>2 DEF Ops
    <3> QED BY <2>0, <3>2, <3>3, RunsOnBackoff
  <2> QED BY <1>1, <2>0, <2>3, <2>4, WhoSends DEF RequestStarts
<1>2. IInv /\ IInv' /\ [Next]_vars => [\A t \in Targets : Respected(t)]_vars
  BY <1>1
<1> QED BY <1>2, Invariance, PTL DEF Spec, BackoffRespected

-----------------------------------------------------------------------------
(* Entries are carried until they are announced *)

\* HasTimer and Carried, of the buffer, the queue and the row of a target.
FlushQueued(q, gen) ==
    \E i \in DOMAIN q : q[i].kind = "flush" /\ q[i].phase = "queued" /\ q[i].gen = gen
TimerOn(b, q, gen) == b.timer = "armed" \/ HeadFlushes(q) \/ FlushQueued(q, gen)
CarriedBy(e, b, q, s, gen, stopped) ==
    \/ e \in b.pending /\ TimerOn(b, q, gen)
    \/ HeadRuns(q) /\ ~stopped /\ Head(q).gen = gen /\ e \in Head(q).new
    \/ s.status = "dirty" /\ e \in s.pending

AboutToEnqueue(t, e) == arriving[e].step = "stored" /\ t \in arriving[e].to

\* HasTimer, of the state.
LEMMA TimerIsOn ==
    ASSUME NEW t
    PROVE  HasTimer(t) <=> TimerOn(buffer[t], lock[t], generation)
  BY DEF HasTimer, TimerOn, FlushQueued, InFlight, Running, HeadFlushes, HeadRuns

\* Carried, of the state,
LEMMA CarriedNow ==
    ASSUME NEW t, NEW e \in Entries
    PROVE  e \in Carried(t) <=>
              \/ AboutToEnqueue(t, e)
              \/ CarriedBy(e, buffer[t], lock[t], dispatchState[t], generation, paused)
<1>1. HasTimer(t) <=> TimerOn(buffer[t], lock[t], generation)
  BY TimerIsOn
<1>2. Running(t) /\ Allowed(t) /\ e \in Head(lock[t]).new <=>
         HeadRuns(lock[t]) /\ ~paused /\ Head(lock[t]).gen = generation /\ e \in Head(lock[t]).new
  BY DEF Running, Allowed, DeliveryAllowed, HeadRuns
<1> QED BY <1>1, <1>2 DEF Carried, CarriedBy, AboutToEnqueue

\* and of the next state.
LEMMA CarriedNext ==
    ASSUME NEW t, NEW e \in Entries
    PROVE  e \in Carried(t)' <=>
              \/ arriving'[e].step = "stored" /\ t \in arriving'[e].to
              \/ CarriedBy(e, buffer'[t], lock'[t], dispatchState'[t], generation', paused')
<1>1. /\ (HasTimer(t))' <=>
             \/ buffer'[t].timer = "armed"
             \/ HeadFlushes(lock'[t])
             \/ FlushQueued(lock'[t], generation')
      /\ (Running(t) /\ Allowed(t))' <=>
             HeadRuns(lock'[t]) /\ ~paused' /\ Head(lock'[t]).gen = generation'
  BY DEF HasTimer, FlushQueued, InFlight, Running, HeadFlushes, HeadRuns, Allowed, DeliveryAllowed
<1> QED BY <1>1 DEF Carried, CarriedBy, TimerOn

\* What leaving the lock, appending to it and starting its head do to a queued flush.
LEMMA PopKeepsFlush ==
    ASSUME NEW q \in Seq(Ops), q # <<>>, NEW gen, FlushQueued(q, gen),
           ~(Head(q).kind = "flush" /\ Head(q).phase = "queued" /\ Head(q).gen = gen)
    PROVE  FlushQueued(Tail(q), gen)
<1>1. PICK i \in DOMAIN q : q[i].kind = "flush" /\ q[i].phase = "queued" /\ q[i].gen = gen
  BY DEF FlushQueued
<1>2. i # 1 /\ i \in 1..Len(q)
  BY <1>1
<1>3. i - 1 \in DOMAIN Tail(q) /\ Tail(q)[i - 1] = q[i]
  <2>1. Len(Tail(q)) = Len(q) - 1 /\ \A j \in 1..Len(Tail(q)) : Tail(q)[j] = q[j + 1]
        /\ Tail(q) \in Seq(Ops)
    BY PopFacts
  <2>2. i - 1 \in 1..Len(Tail(q)) /\ (i - 1) + 1 = i
    BY <1>2, <2>1
  <2> QED BY <2>1, <2>2
<1> QED BY <1>1, <1>3 DEF FlushQueued

\* A flush stays queued when an operation joins its queue,
LEMMA PushKeepsFlush ==
    ASSUME NEW q \in Seq(Ops), NEW o \in Ops, o.phase = "queued", NEW gen,
           FlushQueued(q, gen) \/ (o.kind = "flush" /\ o.gen = gen)
    PROVE  FlushQueued(Append(q, o), gen)
<1> DEFINE r == Append(q, o)
<1>1. /\ \A i \in DOMAIN q : i \in DOMAIN r /\ r[i] = q[i]
      /\ Len(r) \in DOMAIN r /\ r[Len(r)] = o
  <2>1. DOMAIN q = 1..Len(q) /\ DOMAIN r = 1..(Len(q) + 1) /\ Len(q) \in Nat
    BY AppendFacts
  <2>2. 1..Len(q) \subseteq 1..(Len(q) + 1) /\ Len(q) + 1 \in 1..(Len(q) + 1)
    BY <2>1
  <2> QED BY <2>1, <2>2, AppendFacts
<1> HIDE DEF r
<1>2. FlushQueued(r, gen)
  BY <1>1 DEF FlushQueued
<1> QED BY <1>2 DEF r

\* and when another operation that is first goes on.
LEMMA HeadKeepsFlush ==
    ASSUME NEW q \in Seq(Ops), q # <<>>, NEW op \in Ops, NEW gen, FlushQueued(q, gen),
           ~(Head(q).kind = "flush" /\ Head(q).phase = "queued" /\ Head(q).gen = gen)
    PROVE  FlushQueued([q EXCEPT ![1] = op], gen)
<1>1. PICK i \in DOMAIN q : q[i].kind = "flush" /\ q[i].phase = "queued" /\ q[i].gen = gen
  BY DEF FlushQueued
<1>2. i # 1
  BY <1>1
<1>3. i \in DOMAIN [q EXCEPT ![1] = op] /\ [q EXCEPT ![1] = op][i] = q[i]
  BY <1>2
<1> QED BY <1>1, <1>3 DEF FlushQueued

\* Appending an operation to the queue drops nothing.
LEMMA PushKeepsCarried ==
    ASSUME NEW q \in Seq(Ops), NEW o \in Ops, o.phase = "queued", NEW gen, NEW stopped,
           NEW e, NEW b, NEW s, CarriedBy(e, b, q, s, gen, stopped)
    PROVE  CarriedBy(e, b, Append(q, o), s, gen, stopped)
<1>1. /\ HeadRuns(Append(q, o)) <=> HeadRuns(q)
      /\ HeadFlushes(Append(q, o)) <=> HeadFlushes(q)
      /\ HeadRuns(q) => Head(Append(q, o)) = Head(q)
  BY AppendFacts DEF HeadRuns
<1>2. FlushQueued(q, gen) => FlushQueued(Append(q, o), gen)
  BY PushKeepsFlush
<1> QED BY <1>1, <1>2 DEF CarriedBy, TimerOn

\* The reasons of NoSilentDrop.
Excused(t, e) == e \notin Unacked' \/ Announced(t, e) \/ LetGo(t)

\* A target whose row, buffer and queue a step leaves as they are.
LEMMA UntouchedCarries ==
    ASSUME NEW t, NEW e \in Entries, e \in Carried(t), ~LetGo(t),
           arriving'[e] = arriving[e], generation' = generation,
           dispatchState'[t] = dispatchState[t], buffer'[t] = buffer[t], lock'[t] = lock[t]
    PROVE  e \in Carried(t)'
<1>1. ~paused'
  BY DEF LetGo
<1> QED BY <1>1, CarriedNow, CarriedNext DEF AboutToEnqueue, CarriedBy

\* A running operation of which ~LetGo says that it lost nothing.
LEMMA RunningKeepsItsRow ==
    ASSUME TypeOK, Inv, NEW t \in Targets, HeadRuns(lock[t]), ~LetGo(t),
           NEW e \in dispatchState[t].pending \cup Head(lock[t]).new, e \notin Done
    PROVE  LET op == Head(lock[t])
           IN  /\ e \in op.new /\ e \in op.sent /\ ~op.lostBuffer
               /\ op.kind = "flush" /\ e \notin op.batch => e \in dispatchState[t].pending
<1> DEFINE op == Head(lock[t])
           s  == dispatchState[t]
<1>1. RunsOn(op, s, Stored, Done) /\ op \in Ops
  BY HeadIsOp DEF Inv, RowInv, RowOK, HeadRuns
<1>2. op.snap \in DispatchStates
  BY <1>1 DEF Ops
<1>3. s = NoState \/ s.pending = op.snap.pending
  BY <1>1, <1>2 DEF RunsOn, DispatchStates
<1>4. e \in op.new /\ e \in op.sent
  BY <1>1, <1>3 DEF RunsOn, NoState
<1>5. ~op.lostBuffer /\ ~(op.snap.status # "none" /\ s = NoState)
  BY DEF LetGo, Running, HeadRuns
<1>6. op.kind = "flush" /\ e \notin op.batch => e \in s.pending
  <2>1. op.kind = "flush" /\ e \notin op.batch => e \in op.snap.pending
    BY <1>1, <1>4 DEF RunsOn
  <2>2. e \in op.snap.pending => op.snap.status = "dirty"
    BY <1>1 DEF RunsOn, WellFormed
  <2> QED BY <1>3, <1>5, <2>1, <2>2
<1> QED BY <1>4, <1>5, <1>6

\* The buffer of an operation that ends keeps what it held, under a timer.
LEMMA EndKeepsBuffer ==
    ASSUME NEW q, OnlyHeadRuns(q), HeadRuns(q), NEW b \in Buffers, NEW gen, NEW e,
           NEW outcome, ~Head(q).lostBuffer, outcome = "error" => Head(q).kind = "flush",
           HeadFlushes(q) => b.timer = "none",
           \/ e \in b.pending /\ TimerOn(b, q, gen)
           \/ outcome = "error" /\ e \in Head(q).batch
    PROVE  LET b2 == BufferAfter(Head(q), outcome, b)
           IN  e \in b2.pending /\ TimerOn(b2, Tail(q), gen)
<1> DEFINE op == Head(q)
           b2 == BufferAfter(op, outcome, b)
<1>1. CASE op.kind # "flush"
  <2>1. b2 = b /\ ~HeadFlushes(q) /\ q \in Seq(Ops) /\ q # <<>>
    BY <1>1 DEF BufferAfter, HeadFlushes, HeadRuns, OnlyHeadRuns
  <2>2. FlushQueued(q, gen) => FlushQueued(Tail(q), gen)
    BY <1>1, <2>1, PopKeepsFlush
  <2> QED BY <1>1, <2>1, <2>2 DEF TimerOn
<1>2. CASE op.kind = "flush"
  <2>1. b.timer = "none"
    BY <1>2 DEF HeadFlushes
  <2>2. CASE outcome = "error"
    <3>1. b2.pending = b.pending \cup op.batch /\ b2.timer = "armed"
      BY <1>2, <2>1, <2>2 DEF BufferAfter, Buffers
    <3> QED BY <2>2, <3>1 DEF TimerOn
  <2>3. CASE outcome # "error"
    <3>1. b2.pending = b.pending /\ b2.timer = "armed"
      BY <1>2, <2>3 DEF BufferAfter, Buffers
    <3> QED BY <2>3, <3>1 DEF TimerOn
  <2> QED BY <2>2, <2>3
<1> QED BY <1>1, <1>2

\* The end of a dispatch that ran.
LEMMA EndCarries ==
    ASSUME TypeOK, Inv, NEW t \in Targets, HeadRuns(lock[t]),
           NEW outcome \in AllOutcomes \ {"held", "skipped"}, End(t, outcome),
           UNCHANGED <<inbox, arriving, generation, paused>>,
           outcome = "error" => Head(lock[t]).kind = "flush",
           outcome = "offline" => t \notin Effective',
           outcome = "paused" => ~Allowed(t),
           NEW e \in Entries, e \in Carried(t)
    PROVE  e \in Carried(t)' \/ Excused(t, e)
<1> SUFFICES ASSUME e \in Unacked', ~LetGo(t), ~Announced(t, e) PROVE e \in Carried(t)'
  BY DEF Excused
<1> DEFINE op == Head(lock[t])
           s  == dispatchState[t]
           b  == buffer[t]
           s2 == StateAfter(t, op, outcome)
           b2 == BufferAfter(op, outcome, b)
<1>1. /\ lock[t] # <<>> /\ lock[t] \in Seq(Ops) /\ op \in Ops /\ OnlyHeadRuns(lock[t])
      /\ b \in Buffers /\ op.snap \in DispatchStates
  <2>1. lock[t] # <<>>
    BY DEF HeadRuns
  <2> QED BY <2>1, HeadIsOp, TypesOfMachinery DEF MachineryOK, Ops
<1>2. /\ dispatchState'[t] = s2 /\ buffer'[t] = b2 /\ lock'[t] = Tail(lock[t])
  BY DEF End, Conclude, SetState, Pop, TypeOK
<1>3. /\ e \notin Done /\ ~paused /\ ~op.lostBuffer /\ Running(t)
  BY StoredIsUnackedOrDone DEF LetGo, Unacked, Done, Running, HeadRuns
<1>4. RowOK(s, b, lock[t], Stored, Done) /\ RunsOn(op, s, Stored, Done)
  BY DEF Inv, RowInv, RowOK
<1>5. CASE AboutToEnqueue(t, e)
  BY <1>5, CarriedNext DEF AboutToEnqueue
<1>6. CASE e \in b.pending /\ TimerOn(b, lock[t], generation)
  <2>1. e \in b2.pending /\ TimerOn(b2, Tail(lock[t]), generation)
    BY <1>1, <1>3, <1>4, <1>6, EndKeepsBuffer DEF RowOK
  <2> HIDE DEF b2, s2
  <2> QED BY <1>2, <2>1, CarriedNext DEF CarriedBy
<1>7. CASE \/ op.gen = generation /\ e \in op.new
           \/ s.status = "dirty" /\ e \in s.pending
  <2>1. /\ e \in op.new /\ e \in op.sent
        /\ op.kind = "flush" /\ e \notin op.batch => e \in s.pending
    BY <1>3, <1>7, RunningKeepsItsRow
  <2>2. CASE outcome \in {"dispatched", "unchanged"}
    <3>1. s2.status = "notified"
      BY <2>2 DEF StateAfter, Notified
    <3> HIDE DEF s2
    <3> QED BY <1>2, <1>3, <2>1, <3>1 DEF Announced
  <2>3. CASE outcome \in {"deferred", "retry"}
    <3>1. s2.status = "dirty" /\ s2.pending = op.new
      <4>1. CASE outcome = "deferred" \/ op.kind \in {"flush", "catchup"}
        BY <2>3, <4>1 DEF StateAfter, Dirty
      <4>2. CASE outcome = "retry" /\ op.kind \notin {"flush", "catchup"}
        <5>1. op.kind \in Retries
          BY <1>1, <1>4, <4>2 DEF RunsOn, Retries, Ops, OpKinds
        <5>2. op.snap.pending = op.new /\ s2 = [op.snap EXCEPT !.status = "dirty", !.lease = "live"]
          BY <1>4, <4>2, <5>1 DEF RunsOn, StateAfter
        <5> QED BY <1>1, <5>2 DEF DispatchStates
      <4> QED BY <2>3, <4>1, <4>2
    <3> HIDE DEF s2
    <3> QED BY <1>2, <2>1, <3>1, CarriedNext DEF CarriedBy
  <2>4. CASE outcome = "offline"
    BY <2>4 DEF LetGo
  <2>5. CASE outcome = "paused"
    <3>1. s2 = s /\ op.gen # generation
      BY <1>3, <2>5 DEF StateAfter, Allowed, DeliveryAllowed
    <3> QED BY <1>2, <1>7, <3>1, CarriedNext DEF CarriedBy
  <2>6. CASE outcome = "error"
    <3>1. s2 = s /\ op.kind = "flush"
      BY <2>6 DEF StateAfter
    <3>2. CASE e \in op.batch
      <4>1. e \in b2.pending /\ TimerOn(b2, Tail(lock[t]), generation)
        BY <1>1, <1>3, <1>4, <2>6, <3>2, EndKeepsBuffer DEF RowOK
      <4> HIDE DEF b2, s2
      <4> QED BY <1>2, <4>1, CarriedNext DEF CarriedBy
    <3>3. CASE e \notin op.batch
      <4>1. e \in s.pending /\ s.status = "dirty"
        BY <1>4, <2>1, <3>1, <3>3 DEF RowOK, WellFormed
      <4> HIDE DEF b2
      <4> QED BY <1>2, <3>1, <4>1, CarriedNext DEF CarriedBy
    <3> QED BY <3>2, <3>3
  <2> QED BY <2>2, <2>3, <2>4, <2>5, <2>6 DEF AllOutcomes
<1> QED BY <1>5, <1>6, <1>7, CarriedNow DEF CarriedBy

\* A dispatch that advances.
LEMMA AdvanceCarries ==
    ASSUME TypeOK, NEW t \in Targets, HeadRuns(lock[t]),
           NEW phase \in OpPhases \ {"queued"}, Advance(t, phase),
           UNCHANGED <<arriving, generation, paused>>,
           NEW e \in Entries, e \in Carried(t)
    PROVE  e \in Carried(t)'
<1> DEFINE q  == lock[t]
           op == [Head(q) EXCEPT !.phase = phase]
<1>1. q # <<>> /\ q \in Seq(Ops) /\ Head(q) \in Ops
  BY HeadIsOp DEF HeadRuns
<1>2. /\ op \in Ops /\ op.phase # "queued" /\ op.kind = Head(q).kind /\ op.new = Head(q).new
      /\ op.gen = Head(q).gen /\ op.lostBuffer = Head(q).lostBuffer
  BY <1>1 DEF Ops
<1>3. lock'[t] = [q EXCEPT ![1] = op] /\ dispatchState'[t] = dispatchState[t]
      /\ buffer'[t] = buffer[t]
  <2>1. lock' = [lock EXCEPT ![t] = [lock[t] EXCEPT ![1] = [lock[t][1] EXCEPT !.phase = phase]]]
    BY <1>1, HeadIsOp DEF Advance, TypeOK
  <2> QED BY <1>1, <2>1, HeadIsOp DEF Advance, TypeOK
<1> HIDE DEF op
<1>4. Head(lock'[t]) = op /\ lock'[t] # <<>>
  BY <1>1, <1>2, <1>3, HeadFacts
<1>5. HeadRuns(lock'[t]) /\ (HeadFlushes(lock'[t]) <=> HeadFlushes(q))
  BY <1>2, <1>4 DEF HeadRuns, HeadFlushes
<1>6. FlushQueued(q, generation) => FlushQueued(lock'[t], generation)
  BY <1>1, <1>2, <1>3, HeadKeepsFlush DEF HeadRuns
<1>7. TimerOn(buffer[t], q, generation) => TimerOn(buffer[t], lock'[t], generation)
  BY <1>5, <1>6 DEF TimerOn
<1>8. CarriedBy(e, buffer[t], q, dispatchState[t], generation, paused)
         => CarriedBy(e, buffer[t], lock'[t], dispatchState[t], generation, paused)
  BY <1>2, <1>4, <1>5, <1>7 DEF CarriedBy
<1> QED BY <1>3, <1>8, CarriedNow, CarriedNext DEF AboutToEnqueue

\* A dispatch that begins: what the target held is among the entries of the operation
\* or stays in the buffer.
LEMMA StartCarries ==
    ASSUME TypeOK, NEW t \in Targets, lock[t] # <<>>, Head(lock[t]).phase = "queued",
           Allowed(t), NEW op \in Ops, op.gen = Head(lock[t]).gen, op.kind = Head(lock[t]).kind,
           NEW b, StartDispatch(t, op, b),
           UNCHANGED <<target, arriving, generation, paused>>,
           NEW e \in Entries, ~LetGo(t),
           \/ AboutToEnqueue(t, e)
           \/ e \in op.new
           \/ op.kind # "flush" /\ b = buffer[t] /\ e \in b.pending /\ TimerOn(b, lock[t], generation)
    PROVE  e \in Carried(t)'
<1> DEFINE q == lock[t]
<1>1. q \in Seq(Ops) /\ ~HeadRuns(q) /\ ~HeadFlushes(q)
  BY DEF TypeOK, HeadRuns, HeadFlushes
<1>2. t \in Effective
  BY DEF LetGo, Effective
<1>3. CASE AboutToEnqueue(t, e)
  BY <1>3, CarriedNext DEF AboutToEnqueue
<1>4. CASE Verdict(t, op) # "go"
  <2>1. Verdict(t, op) = "held"
    BY <1>2, <1>4 DEF Verdict, Effective
  <2>2. /\ dispatchState'[t] = StateAfter(t, op, "held")
        /\ buffer'[t] = BufferAfter(op, "held", b) /\ lock'[t] = Tail(q)
    BY <2>1 DEF StartDispatch, Conclude, SetState, Pop, TypeOK
  <2>3. CASE e \in op.new
    <3>1. dispatchState'[t].status = "dirty" /\ e \in dispatchState'[t].pending
      BY <2>2, <2>3 DEF StateAfter, Dirty
    <3> QED BY <3>1, CarriedNext DEF CarriedBy
  <2>4. CASE op.kind # "flush" /\ b = buffer[t] /\ e \in b.pending /\ TimerOn(b, q, generation)
    <3>1. buffer'[t] = b
      BY <2>2, <2>4 DEF BufferAfter
    <3>2. FlushQueued(q, generation) => FlushQueued(Tail(q), generation)
      BY <1>1, <2>4, PopKeepsFlush
    <3>3. TimerOn(b, Tail(q), generation)
      BY <1>1, <2>4, <3>2 DEF TimerOn
    <3> QED BY <2>2, <2>4, <3>1, <3>3, CarriedNext DEF CarriedBy
  <2> QED BY <1>3, <2>3, <2>4
<1>5. CASE Verdict(t, op) = "go"
  <2> DEFINE running == [op EXCEPT !.phase = IF t \in Terminals THEN "gate" ELSE "send"]
  <2>1. running \in Ops /\ running.phase # "queued" /\ running.new = op.new /\ running.gen = op.gen
    BY DEF Ops, OpPhases
  <2>2. lock'[t] = [q EXCEPT ![1] = running] /\ buffer'[t] = b
    BY <1>5 DEF StartDispatch, TypeOK
  <2> HIDE DEF running
  <2>3. Head(lock'[t]) = running /\ HeadRuns(lock'[t])
    BY <1>1, <2>1, <2>2, HeadFacts DEF HeadRuns
  <2>4. CASE e \in op.new
    BY <2>1, <2>3, <2>4, CarriedNext DEF CarriedBy, Allowed, DeliveryAllowed
  <2>5. CASE op.kind # "flush" /\ b = buffer[t] /\ e \in b.pending /\ TimerOn(b, q, generation)
    <3>1. FlushQueued(q, generation) => FlushQueued(lock'[t], generation)
      BY <1>1, <2>1, <2>2, <2>5, HeadKeepsFlush
    <3>2. TimerOn(b, lock'[t], generation)
      BY <1>1, <2>5, <3>1 DEF TimerOn
    <3> QED BY <2>2, <2>5, <3>2, CarriedNext DEF CarriedBy
  <2> QED BY <1>3, <2>4, <2>5
<1> QED BY <1>4, <1>5

\* What follows an await drops nothing.
LEMMA AwaitCarries ==
    ASSUME TypeOK, Inv, NEW t \in Targets,
           \/ \E answer \in Answers : GateAnswers(t, answer)
           \/ ReminderReady(t)
           \/ \E outcome \in Outcomes : SendEnds(t, outcome),
           NEW e \in Entries, e \in Carried(t)
    PROVE  e \in Carried(t)' \/ Excused(t, e)
<1>0. AwaitStep(t) /\ HeadRuns(lock[t]) /\ UNCHANGED <<inbox, arriving, generation, paused>>
  BY AwaitsAdvanceOrEnd DEF AwaitStep, Running, HeadRuns
<1>1. target'[t] # "active" => t \notin Effective'
  BY DEF Effective
<1>2. ~Exists(t) => target[t] # "active"
  BY DEF Exists
<1>3. {"offline", "paused", "deferred", "unchanged"} \subseteq AllOutcomes \ {"held", "skipped"}
      /\ Outcomes \subseteq AllOutcomes \ {"held", "skipped"}
      /\ {"defer", "remind", "send"} \subseteq OpPhases \ {"queued"}
  BY DEF AllOutcomes, Outcomes, OpPhases
<1>4. ASSUME NEW answer \in Answers, GateAnswers(t, answer)
      PROVE  e \in Carried(t)' \/ Excused(t, e)
  <2>1. CASE ~Allowed(t) /\ End(t, "paused")
    BY <1>0, <1>3, <2>1, EndCarries
  <2>2. CASE ~Exists(t) /\ End(t, "offline") /\ UNCHANGED target
    BY <1>0, <1>1, <1>2, <1>3, <2>2, EndCarries
  <2>3. CASE End(t, "offline") /\ Fall(t)
    <3>1. target'[t] = "offline"
      BY <2>3 DEF Fall, TypeOK
    <3> QED BY <1>0, <1>1, <1>3, <2>3, <3>1, EndCarries
  <2>4. CASE Advance(t, IF answer = "defer" THEN "defer" ELSE "remind")
    BY <1>0, <1>3, <2>4, AdvanceCarries
  <2> QED BY <1>4, <2>1, <2>2, <2>3, <2>4 DEF GateAnswers
<1>5. CASE ReminderReady(t)
  <2>0. UNCHANGED target
    BY <1>5 DEF ReminderReady
  <2>1. CASE ~Allowed(t) /\ End(t, "paused")
    BY <1>0, <1>3, <2>1, EndCarries
  <2>2. CASE ~Exists(t) /\ End(t, "offline")
    BY <1>0, <1>1, <1>2, <1>3, <2>0, <2>2, EndCarries
  <2>3. CASE End(t, "deferred")
    BY <1>0, <1>3, <2>3, EndCarries
  <2>4. CASE End(t, "unchanged")
    BY <1>0, <1>3, <2>4, EndCarries
  <2>5. CASE Advance(t, "send")
    BY <1>0, <1>3, <2>5, AdvanceCarries
  <2> QED BY <1>5, <2>1, <2>2, <2>3, <2>4, <2>5 DEF ReminderReady
<1>6. ASSUME NEW outcome \in Outcomes, SendEnds(t, outcome)
      PROVE  e \in Carried(t)' \/ Excused(t, e)
  <2>1. CASE Exists(t)
    <3>1. /\ End(t, outcome) /\ (outcome = "error" => Head(lock[t]).kind = "flush")
          /\ outcome = "offline" => target'[t] = "offline"
      BY <1>6, <2>1 DEF SendEnds, TypeOK
    <3>2. outcome # "paused"
      BY DEF Outcomes
    <3> QED BY <1>0, <1>1, <1>3, <3>1, <3>2, EndCarries
  <2>2. CASE ~Exists(t)
    <3>1. End(t, "offline") /\ UNCHANGED target
      BY <1>6, <2>2 DEF SendEnds
    <3> QED BY <1>0, <1>1, <1>2, <1>3, <2>2, <3>1, EndCarries
  <2> QED BY <2>1, <2>2
<1> QED BY <1>4, <1>5, <1>6

\* Nor does any step under the lock of the target.
LEMMA NotifyingCarries ==
    ASSUME TypeOK, Inv, NEW t \in Targets, Notifying(t), NEW e \in Entries, e \in Carried(t)
    PROVE  e \in Carried(t)' \/ Excused(t, e)
<1> DEFINE s == dispatchState[t]
           b == buffer[t]
           q == lock[t]
           Held == CarriedBy(e, b, q, s, generation, paused)
<1>0. UNCHANGED <<inbox, subs, paused, generation, arriving, crashes>>
  BY NotifyingLeaves
<1>1. CASE \/ \E answer \in Answers : GateAnswers(t, answer)
           \/ ReminderReady(t)
           \/ \E outcome \in Outcomes : SendEnds(t, outcome)
  BY <1>1, AwaitCarries
<1> SUFFICES ASSUME ~(\/ \E answer \in Answers : GateAnswers(t, answer)
                      \/ ReminderReady(t)
                      \/ \E outcome \in Outcomes : SendEnds(t, outcome)),
                    e \in Unacked', ~LetGo(t)
             PROVE  e \in Carried(t)'
  BY <1>1 DEF Excused
<1>2. /\ e \in Unacked /\ ~paused
      /\ RowOK(s, b, q, Stored, Done) /\ QueueOK(t, q, s, resume, Done)
  BY <1>0 DEF Unacked, LetGo, Inv, RowInv, QueueInv
<1>3. AboutToEnqueue(t, e) => e \in Carried(t)'
  BY <1>0, CarriedNext DEF AboutToEnqueue
<1>4. AboutToEnqueue(t, e) \/ Held
  BY CarriedNow
<1>5. t \in Effective'
  BY DEF LetGo
<1>6. ASSUME q # <<>>, Head(q).phase = "queued"
      PROVE  /\ q \in Seq(Ops) /\ ~HeadRuns(q) /\ ~HeadFlushes(q)
             /\ Held => \/ e \in b.pending /\ TimerOn(b, q, generation)
                        \/ s.status = "dirty" /\ e \in s.pending
  BY <1>6 DEF TypeOK, HeadRuns, HeadFlushes, CarriedBy
\* The operation at the head leaves the lock and is no flush that may run now.
<1>7. ASSUME q # <<>>, Head(q).phase = "queued", Pop(t), buffer'[t] = b,
             ~(Head(q).kind = "flush" /\ Head(q).gen = generation),
             s.status = "dirty" /\ e \in s.pending =>
                dispatchState'[t].status = "dirty" /\ e \in dispatchState'[t].pending
      PROVE  e \in Carried(t)'
  <2>1. lock'[t] = Tail(q)
    BY <1>7 DEF Pop, TypeOK
  <2>2. FlushQueued(q, generation) => FlushQueued(Tail(q), generation)
    BY <1>6, <1>7, PopKeepsFlush
  <2>3. CASE e \in b.pending /\ TimerOn(b, q, generation)
    <3>1. TimerOn(b, Tail(q), generation)
      BY <1>6, <1>7, <2>2, <2>3 DEF TimerOn
    <3> QED BY <1>0, <1>7, <2>1, <2>3, <3>1, CarriedNext DEF CarriedBy
  <2>4. CASE s.status = "dirty" /\ e \in s.pending
    BY <1>7, <2>4, CarriedNext DEF CarriedBy
  <2> QED BY <1>3, <1>4, <1>6, <1>7, <2>3, <2>4
<1>8. CASE FencedTurn(t)
  <2>1. q # <<>> /\ Head(q).phase = "queued" /\ Pop(t) /\ ~Allowed(t)
        /\ dispatchState' = dispatchState /\ buffer' = buffer
    BY <1>8 DEF FencedTurn, Turn, persisted
  <2>2. Head(q).gen # generation
    BY <1>2, <2>1 DEF Allowed, DeliveryAllowed
  <2> QED BY <1>7, <2>1, <2>2
<1>9. CASE DrainTurn(t)
  <2>1. q # <<>> /\ Head(q).phase = "queued" /\ Pop(t) /\ Head(q).kind = "drain"
        /\ dispatchState' = dispatchState /\ buffer' = buffer
    BY <1>9 DEF DrainTurn, Turn, persisted
  <2> QED BY <1>7, <2>1
<1>10. CASE FlushNothing(t)
  <2>1. q # <<>> /\ Head(q).phase = "queued" /\ Pop(t) /\ b.pending = {}
        /\ dispatchState' = dispatchState
    BY <1>10 DEF FlushNothing, Turn, persisted
  <2>2. Held => s.status = "dirty" /\ e \in s.pending
    BY <1>6, <2>1
  <2> QED BY <1>3, <1>4, <2>1, <2>2, CarriedNext DEF CarriedBy
<1>11. CASE FlushDiscards(t)
  <2>1. ~Exists(t) \/ Unacked = {}
    BY <1>11 DEF FlushDiscards
  <2>2. target' = target
    BY <1>11 DEF FlushDiscards
  <2> QED BY <1>2, <1>5, <2>1, <2>2 DEF Exists, Effective
<1>12. CASE FlushMerges(t)
  <2>1. /\ q # <<>> /\ Head(q).phase = "queued"
        /\ dispatchState'[t].status = "dirty" /\ dispatchState'[t].pending = s.pending \cup b.pending
    BY <1>12 DEF FlushMerges, Turn, SetState, Dirty, TypeOK
  <2>2. Held => e \in dispatchState'[t].pending
    BY <1>6, <2>1
  <2> QED BY <1>3, <1>4, <2>1, <2>2, CarriedNext DEF CarriedBy
<1>13. CASE FlushDispatches(t)
  <2>1. q # <<>> /\ Head(q).phase = "queued" /\ Allowed(t) /\ UNCHANGED target
    BY <1>13 DEF FlushDispatches, Turn
  <2>2. AboutToEnqueue(t, e) \/ e \in FlushOp(t).new
    BY <1>4, <1>6, <1>13, <2>1, FlushRuns
  <2> QED BY <1>0, <1>13, <2>1, <2>2, FlushRuns, StartCarries
<1>14. CASE RetrySettles(t)
  <2> DEFINE kind == Head(q).kind
             new  == IF NotDue(kind, s) THEN s ELSE StateWithoutDispatch(t, kind, s)
  <2>1. q # <<>> /\ Head(q).phase = "queued" /\ Pop(t) /\ buffer' = buffer /\ kind \in Retries
        /\ dispatchState'[t] = new /\ target' = target
    BY <1>14 DEF RetrySettles, Turn, SetState, TypeOK
  <2>2. t \in Effective
    BY <1>5, <2>1 DEF Effective
  <2>3. ASSUME s.status = "dirty", e \in s.pending PROVE new.status = "dirty" /\ e \in new.pending
    <3>1. new = s \/ new = Dirty("null", s.fingerprint, PendingOf(s), s.subIds)
      BY <1>2, <2>2, <2>3 DEF StateWithoutDispatch, Hopeless
    <3>2. PendingOf(s) = s.pending
      BY <2>3 DEF PendingOf
    <3> QED BY <2>3, <3>1, <3>2 DEF Dirty
  <2>4. kind # "flush"
    BY <2>1 DEF Retries
  <2> HIDE DEF new
  <2> QED BY <1>7, <2>1, <2>3, <2>4
<1>15. CASE RetryDispatches(t)
  <2>1. q # <<>> /\ Head(q).phase = "queued" /\ Allowed(t) /\ UNCHANGED target
    BY <1>15 DEF RetryDispatches, Turn
  <2>2. RetryOp(t).kind # "flush"
    BY <1>15, RetryRuns DEF Retries
  <2>3. \/ AboutToEnqueue(t, e) \/ e \in RetryOp(t).new
        \/ e \in b.pending /\ TimerOn(b, q, generation)
    BY <1>4, <1>6, <1>15, <2>1, RetryRuns
  <2> QED BY <1>0, <1>15, <2>1, <2>2, <2>3, RetryRuns, StartCarries
<1>16. CASE CatchUpSettles(t)
  <2>1. /\ q # <<>> /\ Head(q).kind = "catchup" /\ ~HeadRuns(q) /\ Unacked # {}
        /\ t \in resume.backoff /\ s.status # "none"
        /\ dispatchState' = [dispatchState EXCEPT ![t] =
                                [s EXCEPT !.pending = Unacked, !.subIds = SubsOf(Unacked)]]
    BY <1>2, <1>16 DEF CatchUpSettles, Turn, SetState, HeadRuns
  <2>2. s.status = "dirty"
    BY <1>2, <2>1 DEF QueueOK
  <2>3. dispatchState'[t].status = "dirty" /\ dispatchState'[t].pending = Unacked
    <3>1. [s EXCEPT !.pending = Unacked, !.subIds = SubsOf(Unacked)].status = "dirty"
          /\ [s EXCEPT !.pending = Unacked, !.subIds = SubsOf(Unacked)].pending = Unacked
      BY <2>2 DEF TypeOK, DispatchStates
    <3> QED BY <2>1, <3>1 DEF TypeOK
  <2> QED BY <1>2, <2>3, CarriedNext DEF CarriedBy
<1>17. CASE CatchUpDispatches(t)
  <2>1. q # <<>> /\ Head(q).phase = "queued" /\ Allowed(t) /\ UNCHANGED target
    BY <1>17 DEF CatchUpDispatches, Turn
  <2>2. e \in CatchUpOp(t).new
    BY <1>2, <1>17, CatchUpRuns
  <2> QED BY <1>0, <1>17, <2>1, <2>2, CatchUpRuns, StartCarries
<1> QED BY <1>8, <1>9, <1>10, <1>11, <1>12, <1>13, <1>14, <1>15, <1>16, <1>17 DEF Notifying

\* A step of v leaves the other targets alone.
LEMMA NotifyingElsewhere ==
    ASSUME TypeOK, Inv, NEW v \in Targets, NEW t \in Targets \ {v}, Notifying(v)
    PROVE  dispatchState'[t] = dispatchState[t] /\ buffer'[t] = buffer[t] /\ lock'[t] = lock[t]
<1>1. ASSUME NEW op, NEW outcome, NEW b, Conclude(v, op, outcome, b)
      PROVE  dispatchState'[t] = dispatchState[t] /\ buffer'[t] = buffer[t] /\ lock'[t] = lock[t]
  BY <1>1 DEF Conclude, SetState, Pop, TypeOK
<1>2. ASSUME NEW op, NEW b, StartDispatch(v, op, b)
      PROVE  dispatchState'[t] = dispatchState[t] /\ buffer'[t] = buffer[t] /\ lock'[t] = lock[t]
  BY <1>1, <1>2 DEF StartDispatch, TypeOK
<1>3. CASE FencedTurn(v) \/ DrainTurn(v) \/ FlushNothing(v)
  BY <1>3 DEF FencedTurn, DrainTurn, FlushNothing, persisted, Pop, TypeOK
<1>4. CASE FlushDiscards(v) \/ FlushMerges(v) \/ RetrySettles(v) \/ CatchUpSettles(v)
  BY <1>4 DEF FlushDiscards, FlushMerges, RetrySettles, CatchUpSettles, Pop, SetState, TypeOK
<1>5. CASE FlushDispatches(v) \/ RetryDispatches(v) \/ CatchUpDispatches(v)
  BY <1>2, <1>5, FlushRuns, RetryRuns, CatchUpRuns
<1>6. CASE AwaitStep(v)
  <2>1. ASSUME NEW phase, Advance(v, phase)
        PROVE  dispatchState'[t] = dispatchState[t] /\ buffer'[t] = buffer[t] /\ lock'[t] = lock[t]
    BY <2>1 DEF Advance, TypeOK
  <2> QED BY <1>1, <1>6, <2>1 DEF AwaitStep, End
<1> QED BY <1>3, <1>4, <1>5, <1>6, AwaitsAdvanceOrEnd DEF Notifying

\* A buffer that receives an entry has a timer, or a flush it just queued.
LEMMA EnqueuedHasTimer ==
    ASSUME TypeOK, NEW e0 \in Entries, NEW to \in SUBSET Targets, EnqueueAll(e0, to), ~paused,
           NEW t \in to, ~(buffer[t].timer = "fired" /\ ~HasTimer(t))
    PROVE  /\ buffer'[t].pending = buffer[t].pending \cup {e0}
           /\ TimerOn(buffer'[t], lock'[t], generation)
           /\ \/ lock'[t] = lock[t]
              \/ lock'[t] = Append(lock[t], NewOp("flush"))
<1>1. /\ buffer'[t] = Enqueued(t, e0)
      /\ lock'[t] = IF Full(t, e0) THEN Push(lock[t], "flush") ELSE lock[t]
  BY DEF EnqueueAll
<1>2. buffer'[t].pending = buffer[t].pending \cup {e0}
  BY <1>1 DEF Enqueued
<1>3. CASE Full(t, e0)
  <2>1. lock'[t] = Append(lock[t], NewOp("flush")) /\ lock[t] \in Seq(Ops)
    BY <1>1, <1>3 DEF Push, TypeOK
  <2>2. /\ NewOp("flush") \in Ops /\ NewOp("flush").phase = "queued"
        /\ NewOp("flush").kind = "flush" /\ NewOp("flush").gen = generation
    BY OpTypes DEF OpKinds
  <2>3. FlushQueued(lock'[t], generation)
    BY <2>1, <2>2, PushKeepsFlush
  <2> QED BY <1>2, <2>1, <2>3 DEF TimerOn
<1>4. CASE ~Full(t, e0)
  <2>1. lock'[t] = lock[t]
    BY <1>1, <1>4
  <2>2. buffer'[t].timer = IF buffer[t].timer = "none" /\ ~InFlight(t)
                           THEN "armed" ELSE buffer[t].timer
    BY <1>1, <1>4 DEF Enqueued, Full
  <2>3. InFlight(t) <=> HeadFlushes(lock[t])
    BY DEF HeadFlushes, HeadRuns, InFlight, Running
  <2>4. HasTimer(t) <=> TimerOn(buffer[t], lock[t], generation)
    BY TimerIsOn
  <2>5. buffer[t].timer \in {"none", "armed", "fired"}
    BY RowParts
  <2> QED BY <1>2, <2>1, <2>2, <2>3, <2>4, <2>5 DEF TimerOn
<1> QED BY <1>3, <1>4

\* Enqueueing an entry for some targets drops nothing, nor the entry itself.
LEMMA EnqueueCarries ==
    ASSUME TypeOK, NEW e0 \in Entries, NEW to \in SUBSET Targets, EnqueueAll(e0, to),
           UNCHANGED <<dispatchState, generation, paused>>,
           NEW t \in Targets, ~LetGo(t), NEW e \in Entries, e \in Carried(t),
           AboutToEnqueue(t, e) => arriving'[e] = arriving[e] \/ (e = e0 /\ t \in to)
    PROVE  e \in Carried(t)'
<1>1. ~paused' /\ ~paused /\ ~(buffer[t].timer = "fired" /\ ~HasTimer(t))
  BY DEF LetGo
<1>2. CASE AboutToEnqueue(t, e) /\ arriving'[e] = arriving[e]
  BY <1>2, CarriedNext DEF AboutToEnqueue
<1>3. CASE AboutToEnqueue(t, e) /\ e = e0 /\ t \in to
  <2>1. e \in buffer'[t].pending /\ TimerOn(buffer'[t], lock'[t], generation)
    BY <1>1, <1>3, EnqueuedHasTimer
  <2> QED BY <2>1, CarriedNext DEF CarriedBy
<1>4. CASE CarriedBy(e, buffer[t], lock[t], dispatchState[t], generation, paused)
  <2>1. CASE t \notin to
    <3>1. buffer'[t] = buffer[t] /\ lock'[t] = lock[t]
      BY <1>1, <2>1 DEF EnqueueAll
    <3> QED BY <1>1, <1>4, <3>1, CarriedNext
  <2>2. CASE t \in to
    <3>1. /\ buffer'[t].pending = buffer[t].pending \cup {e0}
          /\ TimerOn(buffer'[t], lock'[t], generation)
          /\ lock'[t] = lock[t] \/ lock'[t] = Append(lock[t], NewOp("flush"))
      BY <1>1, <2>2, EnqueuedHasTimer
    <3>2. HeadRuns(lock[t]) => HeadRuns(lock'[t]) /\ Head(lock'[t]) = Head(lock[t])
      <4>1. NewOp("flush") \in Ops /\ lock[t] \in Seq(Ops)
        BY OpTypes DEF OpKinds, TypeOK
      <4> QED BY <3>1, <4>1, AppendFacts DEF HeadRuns
    <3>3. CarriedBy(e, buffer'[t], lock'[t], dispatchState[t], generation, paused)
      BY <1>4, <3>1, <3>2 DEF CarriedBy
    <3> QED BY <3>3, CarriedNext
  <2> QED BY <2>1, <2>2
<1> QED BY <1>2, <1>3, <1>4, CarriedNow

\* The arrival of an entry.
LEMMA ArrivalCarries ==
    ASSUME TypeOK, NEW e0 \in Entries, Arrival(e0),
           NEW t \in Targets, NEW e \in Entries, e \in Carried(t)
    PROVE  e \in Carried(t)' \/ Excused(t, e)
<1> SUFFICES ASSUME ~LetGo(t) PROVE e \in Carried(t)'
  BY DEF Excused
<1>1. ~paused'
  BY DEF LetGo
<1>2. arriving \in [Entries -> [step : {"idle", "read", "stored"}, to : SUBSET Targets]]
  BY DEF TypeOK
<1>3. CASE PollReads(e0) \/ PollStores(e0)
  <2>1. UNCHANGED <<paused, dispatchState, generation, buffer, lock>>
    BY <1>3 DEF PollReads, PollStores, persisted
  <2>2. AboutToEnqueue(t, e) => arriving'[e].step = "stored" /\ t \in arriving'[e].to
    BY <1>2, <1>3 DEF PollReads, PollStores, AboutToEnqueue
  <2> QED BY <2>1, <2>2, CarriedNow, CarriedNext
<1>4. CASE PollEnqueues(e0)
  <2>1. /\ EnqueueAll(e0, arriving[e0].to) /\ arriving[e0].to \in SUBSET Targets
        /\ UNCHANGED <<dispatchState, generation, paused>>
    BY <1>2, <1>4 DEF PollEnqueues, persisted
  <2>2. AboutToEnqueue(t, e) =>
            arriving'[e] = arriving[e] \/ (e = e0 /\ t \in arriving[e0].to)
    BY <1>2, <1>4 DEF PollEnqueues, AboutToEnqueue
  <2> QED BY <2>1, <2>2, EnqueueCarries
<1>5. CASE DirectMessage(e0)
  <2>1. /\ EnqueueAll(e0, Effective)
        /\ UNCHANGED <<dispatchState, generation, paused, arriving>>
    BY <1>5 DEF DirectMessage
  <2> QED BY <2>1, EffectiveIsTyped, EnqueueCarries
<1> QED BY <1>3, <1>4, <1>5 DEF Arrival

\* An operation is queued on the lock of v and nothing else happens to it.
LEMMA QueueCarries ==
    ASSUME TypeOK, NEW v \in Targets, NEW kind \in OpKinds, Queue(v, kind),
           UNCHANGED <<paused, dispatchState, generation, buffer, arriving>>,
           NEW t \in Targets, NEW e \in Entries, e \in Carried(t)
    PROVE  e \in Carried(t)'
<1>1. \/ lock'[t] = lock[t]
      \/ lock'[t] = Append(lock[t], NewOp(kind))
  BY DEF Queue, Push, TypeOK
<1>2. NewOp(kind) \in Ops /\ NewOp(kind).phase = "queued" /\ lock[t] \in Seq(Ops)
  BY OpTypes DEF TypeOK
<1>3. CASE AboutToEnqueue(t, e)
  BY <1>3, CarriedNext DEF AboutToEnqueue
<1>4. CASE CarriedBy(e, buffer[t], lock[t], dispatchState[t], generation, paused)
  <2>1. CarriedBy(e, buffer[t], lock'[t], dispatchState[t], generation, paused)
    BY <1>1, <1>2, <1>4, PushKeepsCarried
  <2> QED BY <2>1, CarriedNext
<1> QED BY <1>3, <1>4, CarriedNow

\* A timer that fires hands its buffer over to a flush, unless the agent is paused.
LEMMA TimerCarries ==
    ASSUME TypeOK, NEW v \in Targets, TimerFires(v),
           NEW t \in Targets, ~LetGo(t), NEW e \in Entries, e \in Carried(t)
    PROVE  e \in Carried(t)'
<1>1. ~paused /\ UNCHANGED <<paused, dispatchState, generation, arriving>> /\ Queue(v, "flush")
  BY DEF TimerFires, persisted, LetGo
<1>2. CASE t # v
  <2>1. buffer'[t] = buffer[t] /\ lock'[t] = lock[t]
    BY <1>1, <1>2 DEF TimerFires, Queue, TypeOK
  <2> QED BY <1>1, <2>1, UntouchedCarries
<1>3. CASE t = v
  <2>1. buffer'[t].pending = buffer[t].pending
    BY <1>3 DEF TimerFires, TypeOK, Buffers
  <2>2. lock'[t] = Append(lock[t], NewOp("flush")) /\ lock[t] \in Seq(Ops)
    BY <1>1, <1>3 DEF Queue, Push, TypeOK
  <2>3. /\ NewOp("flush") \in Ops /\ NewOp("flush").phase = "queued"
        /\ NewOp("flush").kind = "flush" /\ NewOp("flush").gen = generation
    BY OpTypes DEF OpKinds
  <2>4. FlushQueued(lock'[t], generation)
    BY <2>2, <2>3, PushKeepsFlush
  <2>5. HeadRuns(lock[t]) => HeadRuns(lock'[t]) /\ Head(lock'[t]) = Head(lock[t])
    BY <2>2, <2>3, AppendFacts DEF HeadRuns
  <2> QED BY <1>1, <2>1, <2>4, <2>5, CarriedNow, CarriedNext
          DEF CarriedBy, TimerOn, AboutToEnqueue
<1> QED BY <1>2, <1>3

\* Timers, ticks, leases and retries.
LEMMA QueueingCarries ==
    ASSUME TypeOK, NEW v \in Targets,
           \/ TimerFires(v) \/ LeaseExpires(v) \/ LeaseTick(v)
           \/ AckFollowUp(v) \/ ResumeRetries(v),
           NEW t \in Targets, NEW e \in Entries, e \in Carried(t)
    PROVE  e \in Carried(t)' \/ Excused(t, e)
<1> SUFFICES ASSUME ~LetGo(t) PROVE e \in Carried(t)'
  BY DEF Excused
<1>1. CASE TimerFires(v)
  BY <1>1, TimerCarries
<1>2. CASE LeaseExpires(v)
  <2>1. UNCHANGED <<paused, generation, buffer, lock, arriving>>
    BY <1>2 DEF LeaseExpires, volatile
  <2>2. /\ dispatchState'[t].status = dispatchState[t].status
        /\ dispatchState'[t].pending = dispatchState[t].pending
    BY <1>2 DEF LeaseExpires, SetState, TypeOK, DispatchStates
  <2> QED BY <2>1, <2>2, CarriedNow, CarriedNext DEF CarriedBy, AboutToEnqueue
<1>3. CASE LeaseTick(v) \/ AckFollowUp(v) \/ ResumeRetries(v)
  <2>1. UNCHANGED <<paused, dispatchState, generation, buffer, arriving>>
    BY <1>3 DEF LeaseTick, AckFollowUp, ResumeRetries, persisted
  <2>2. CASE UNCHANGED lock
    <3>1. lock' = lock /\ buffer' = buffer /\ dispatchState' = dispatchState
          /\ arriving' = arriving /\ generation' = generation
      BY <2>1, <2>2
    <3> QED BY <3>1, UntouchedCarries
  <2>3. CASE \E kind \in {"lease", "ack", "resume"} : Queue(v, kind)
    <3>1. PICK kind \in OpKinds : Queue(v, kind)
      BY <2>3 DEF OpKinds
    <3> QED BY <2>1, <3>1, QueueCarries
  <2> QED BY <1>3, <2>2, <2>3 DEF LeaseTick, AckFollowUp, ResumeRetries
<1> QED BY <1>1, <1>2, <1>3

\* Acks and what the user does to targets and subscriptions.
LEMMA UserCarries ==
    ASSUME TypeOK,
           \/ \E e0 \in Entries : Ack(e0)
           \/ \E v \in Targets : \/ AddTarget(v) \/ ResumeTarget(v) \/ RemoveTarget(v)
                                 \/ \E n \in Thresholds : UpdatePolicy(v, n)
           \/ \E s0 \in Subs : RemoveSubscription(s0)
           \/ Crash,
           NEW t \in Targets, NEW e \in Entries, e \in Carried(t)
    PROVE  e \in Carried(t)' \/ Excused(t, e)
<1> SUFFICES ASSUME ~LetGo(t) PROVE e \in Carried(t)'
  BY DEF Excused
<1>1. CASE \/ \E e0 \in Entries : Ack(e0)
           \/ \E v \in Targets : \/ AddTarget(v) \/ ResumeTarget(v)
                                 \/ \E n \in Thresholds : UpdatePolicy(v, n)
  <2>1. UNCHANGED <<dispatchState, generation, buffer, lock, arriving>>
    BY <1>1 DEF Ack, AddTarget, ResumeTarget, UpdatePolicy, volatile
  <2> QED BY <2>1, UntouchedCarries
<1>2. ASSUME NEW v \in Targets, RemoveTarget(v) PROVE e \in Carried(t)'
  <2>1. UNCHANGED <<generation, buffer, lock, arriving>>
    BY <1>2 DEF RemoveTarget, volatile
  <2>2. t \in Effective'
    BY DEF LetGo
  <2>3. target'[v] = "removed"
    BY <1>2 DEF RemoveTarget, TypeOK
  <2>4. t # v
    BY <2>2, <2>3 DEF Effective
  <2>5. dispatchState'[t] = dispatchState[t]
    BY <1>2, <2>4 DEF RemoveTarget, SetState, TypeOK
  <2> QED BY <2>1, <2>5, UntouchedCarries
<1>3. ~\E s0 \in Subs : RemoveSubscription(s0)
  BY DEF RemoveSubscription, LetGo
<1>4. ~Crash
  BY DEF Crash, LetGo, TypeOK
<1> QED BY <1>1, <1>2, <1>3, <1>4

\* A resume makes everything unacked pending in the rows it catches up.
LEMMA ResumeCarries ==
    ASSUME TypeOK, Pause \/ ResumeBegins \/ Unpause \/ ResumeEnds,
           NEW t \in Targets, NEW e \in Entries, e \in Carried(t)
    PROVE  e \in Carried(t)' \/ Excused(t, e)
<1> SUFFICES ASSUME ~LetGo(t), e \in Unacked' PROVE e \in Carried(t)'
  BY DEF Excused
<1>1. ~Pause /\ ~ResumeBegins
  BY DEF LetGo, Pause, ResumeBegins, persisted
<1>2. CASE ResumeEnds
  <2>1. UNCHANGED <<dispatchState, generation, buffer, lock, arriving>>
    BY <1>2 DEF ResumeEnds, persisted
  <2> QED BY <2>1, UntouchedCarries
<1>3. CASE Unpause
  <2>1. UNCHANGED <<inbox, generation, buffer, arriving>>
    BY <1>3 DEF Unpause
  <2>2. CASE t \in resume.to
    <3>1. e \in Unacked
      BY <2>1 DEF Unacked
    <3>2. dispatchState'[t].status = "dirty" /\ dispatchState'[t].pending = Unacked
      BY <1>3, <2>2, <3>1 DEF Unpause, Dirty
    <3> QED BY <3>1, <3>2, CarriedNext DEF CarriedBy
  <2>3. CASE t \notin resume.to
    <3>1. dispatchState'[t] = dispatchState[t] /\ lock'[t] = lock[t]
      BY <1>3, <2>3 DEF Unpause
    <3> QED BY <2>1, <3>1, UntouchedCarries
  <2> QED BY <2>2, <2>3
<1> QED BY <1>1, <1>2, <1>3

\* A step of the specification drops no entry it does not announce or let go of.
LEMMA StepCarries ==
    ASSUME TypeOK, Inv, Next, NEW t \in Targets, NEW e \in Entries, e \in Carried(t)
    PROVE  e \in Carried(t)' \/ Excused(t, e)
<1>1. ASSUME NEW v \in Targets, Notifying(v) PROVE e \in Carried(t)' \/ Excused(t, e)
  <2>1. CASE v = t
    BY <1>1, <2>1, NotifyingCarries
  <2>2. CASE v # t
    <3>1. t \in Targets \ {v}
      BY <2>2
    <3>2. dispatchState'[t] = dispatchState[t] /\ buffer'[t] = buffer[t] /\ lock'[t] = lock[t]
      BY <1>1, <3>1, NotifyingElsewhere
    <3>3. UNCHANGED <<generation, arriving>>
      BY <1>1, NotifyingLeaves
    <3> QED BY <3>2, <3>3, UntouchedCarries DEF Excused
  <2> QED BY <2>1, <2>2
<1> QED BY <1>1, ArrivalCarries, QueueingCarries, UserCarries, ResumeCarries DEF Next

\* An unacked entry held for a target is not forgotten before a notification announced
\* it, but in the cases LetGo lists: whatever polls, flushes, acks, ticks, pauses and
\* resumes do in between (flushNotificationBufferLocked, retryActivationDispatchState,
\* resumeAgentNow of src/src/service.ts).
THEOREM NothingIsSilentlyDropped == Spec => NoSilentDrop
<1> DEFINE NoDrop(t) == \A e \in Carried(t) \ Carried(t)' :
                           e \notin Unacked' \/ Announced(t, e) \/ LetGo(t)
<1>1. ASSUME IInv, Next, NEW t \in Targets PROVE NoDrop(t)
  <2>1. TypeOK /\ Inv
    BY <1>1 DEF IInv, RowsAreSound
  <2>2. Carried(t) \subseteq Entries
    BY DEF Carried
  <2> QED BY <1>1, <2>1, <2>2, StepCarries DEF Excused
<1>2. IInv /\ [Next]_vars => [\A t \in Targets : NoDrop(t)]_vars
  BY <1>1
<1> QED BY <1>2, Invariance, PTL DEF Spec, NoSilentDrop
=============================================================================
