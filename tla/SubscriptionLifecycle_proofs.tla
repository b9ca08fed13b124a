-------------------- MODULE SubscriptionLifecycle_proofs --------------------
(***************************************************************************)
(* Proofs of the safety properties of SubscriptionLifecycle, for any       *)
(* subscriptions, policies, templates and limits.                          *)
(*                                                                         *)
(* That no retirement outlives its subscription, and that a template that  *)
(* failed leaves none of its members, are not inductive.  IInv adds what   *)
(* the calls under way may rely on: a poll that schedules has a signal, a  *)
(* collection pass has the row it will write back, the members of a        *)
(* template are registered in their order, one at a time, and so none is   *)
(* under way once the template has failed.                                 *)
(***************************************************************************)
EXTENDS SubscriptionLifecycle, DataLemmas

-----------------------------------------------------------------------------
(* The inductive invariant *)

SignalOK == \A s \in Subs : poll[s].at = "schedule" => poll[s].signal # NoRow

PassOK == gcPass.at = "pause" => gcPass.row # NoRow

\* A member has begun only when those before it are registered.
BegunInOrder(m) ==
    \E k \in 1..Len(Members) :
        Members[k] = m /\ \A j \in 1..(k - 1) : reg[Members[j]] = "done"
Sequential == group = "running" => \A m \in MemberSet : reg[m] # "none" => BegunInOrder(m)

Settled == {"none", "done", "failed"}
NoneUnderWay == group \in {"rollback", "failed"} => \A m \in MemberSet : reg[m] \in Settled

GroupOK == Sequential /\ NoneUnderWay

IInv == EndsAreComplete /\ SignalOK /\ PassOK /\ GroupOK

-----------------------------------------------------------------------------
(* The helpers *)

\* A batch ends in the log.
LEMMA ThroughIsInLog ==
    ASSUME log \in Seq(Kinds), Len(log) <= MaxEvents, NEW from \in Nat \ {0}
    PROVE  Through(from) \in 0..MaxEvents
<1>1. MaxEvents \in Nat /\ Len(log) \in Nat
  BY ConstantsAssumption
<1>2. CASE PoisonIn(from) = {}
  BY <1>1, <1>2 DEF Through
<1>3. CASE PoisonIn(from) # {}
  <2>1. PoisonIn(from) \in SUBSET (0..MaxEvents)
    BY <1>1 DEF PoisonIn
  <2>2. \E i \in PoisonIn(from) : \A j \in PoisonIn(from) : i <= j
    BY <1>1, <1>3, <2>1, LeastAndGreatest
  <2>3. Through(from) \in PoisonIn(from)
    BY <1>3, <2>2 DEF Through
  <2> QED BY <2>1, <2>3
<1> QED BY <1>2, <1>3

\* A signal is an instant of its terminal events.
LEMMA SignalIsInstant ==
    ASSUME NEW from, NEW through
    PROVE  SignalOf(from, through) \in 0..MaxClock \cup {NoRow}
<1> DEFINE at == {RetireTime[log[i]] : i \in {j \in from..through : log[j] \in Terminal}}
<1>1. at \in SUBSET (0..MaxClock)
  BY ConstantsAssumption DEF Terminal
<1>2. CASE at = {}
  BY <1>2 DEF SignalOf
<1>3. CASE at # {}
  <2> HIDE DEF at
  <2>1. \E t \in at : \A u \in at : u <= t
    BY <1>1, <1>3, LeastAndGreatest, ConstantsAssumption
  <2>2. (CHOOSE t \in at : \A u \in at : u <= t) \in at
    BY <2>1
  <2>3. SignalOf(from, through) = IF at = {} THEN NoRow ELSE CHOOSE t \in at : \A u \in at : u <= t
    BY DEF SignalOf, at
  <2> QED BY <1>1, <1>3, <2>2, <2>3
<1> QED BY <1>2, <1>3

-----------------------------------------------------------------------------
(* Types *)

\* The blank values of calls, and the changes actions make to the record of one.
LEMMA CallsAreTyped ==
    /\ NoPoll \in Polls /\ NoOp \in SrcOps /\ NoPass \in Passes
    /\ \A p \in Polls : \A at \in {"none", "read", "commit", "schedule", "lost"} :
          [p EXCEPT !.at = at] \in Polls
    /\ \A o \in SrcOps :
          /\ \A at \in {"none", "rmSubs", "rmDelete"} : [o EXCEPT !.at = at] \in SrcOps
          /\ \A s \in Subs : [o EXCEPT !.list = @ \ {s}] \in SrcOps
<1>1. 0 \in 0..MaxEvents
  BY ConstantsAssumption
<1>2. NoPoll \in Polls /\ NoOp \in SrcOps /\ NoPass \in Passes
  BY <1>1 DEF NoPoll, Polls, NoOp, SrcOps, NoPass, Passes
<1>3. \A p \in Polls : \A at \in {"none", "read", "commit", "schedule", "lost"} :
          [p EXCEPT !.at = at] \in Polls
  BY DEF Polls
<1>4. \A o \in SrcOps : \A at \in {"none", "rmSubs", "rmDelete"} : [o EXCEPT !.at = at] \in SrcOps
  BY DEF SrcOps
<1>5. \A o \in SrcOps : \A s \in Subs : [o EXCEPT !.list = @ \ {s}] \in SrcOps
  BY DEF SrcOps
<1> QED BY <1>2, <1>3, <1>4, <1>5

\* An idle row is written with an instant there is.
LEMMA IdleIsTyped ==
    ASSUME TypeOK, NEW rest
    PROVE  IdleAfter(source, rest) \in IdleRows \cup {NoRow}
<1>1. Cap(clock + 1) \in 0..MaxClock
  BY ConstantsAssumption DEF TypeOK, Cap
<1> QED BY <1>1 DEF IdleAfter, IdleRows

\* Deleting subscriptions keeps the types of the tables.
LEMMA DeleteIsTyped ==
    ASSUME TypeOK, NEW gone, Delete(gone)
    PROVE  /\ subs' \subseteq Subs
           /\ consumer' \in [Subs -> 0..MaxEvents + 1]
           /\ retire' \in [Subs -> 0..MaxClock \cup {NoRow}]
  BY ConstantsAssumption DEF TypeOK, Delete, ConsumersWithout, RetireWithout

\* Ensuring a consumer gives it an offset in the log or the next one.
LEMMA ConsumerIsTyped ==
    ASSUME TypeOK, NEW s \in Subs
    PROVE  /\ WithConsumer(s) \in [Subs -> 0..MaxEvents + 1]
           /\ WithConsumer(s)[s] \in Nat \ {0}
<1>1. Len(log) + 1 \in 0..MaxEvents + 1 /\ Len(log) + 1 # 0
  BY ConstantsAssumption DEF TypeOK
<1> QED BY <1>1, ConstantsAssumption DEF TypeOK, WithConsumer

\* Starting to remove a subscription keeps the types.
LEMMA StartRemoveIsTyped ==
    ASSUME TypeOK, NEW s \in Subs, StartRemove(s)
    PROVE  consumer' \in [Subs -> 0..MaxEvents + 1] /\ removing' \subseteq Subs
<1>1. 0 \in 0..MaxEvents + 1
  BY ConstantsAssumption
<1> QED BY <1>1 DEF TypeOK, StartRemove

\* The members of a template are subscriptions.
LEMMA MembersAreSubs ==
    MemberSet \subseteq Subs /\ \A i \in 1..Len(Members) : Members[i] \in Subs
  BY ConstantsAssumption DEF MemberSet

\* A registration keeps the types.
LEMMA RegisteringTypes ==
    ASSUME TypeOK, NEW s \in Subs, Registering(s)
    PROVE  TypeOK'
<1>1. CASE Register(s)
  BY <1>1 DEF Register, StartRegister, TypeOK, RegSteps, rows
<1>2. CASE Validated(s)
  <2>1. subs' \subseteq Subs /\ idle' \in IdleRows \cup {NoRow} /\ reg' \in [Subs -> RegSteps]
    BY <1>2 DEF Validated, InsertRow, TypeOK, RegSteps
  <2> QED BY <1>2, <2>1 DEF Validated, TypeOK
<1>3. CASE RegisterRefused(s)
  BY <1>3 DEF RegisterRefused, TypeOK, RegSteps, rows
<1>4. CASE ResumedForRegister(s)
  <2>1. subs' \subseteq Subs /\ idle' = NoRow /\ reg' \in [Subs -> RegSteps]
    BY <1>4 DEF ResumedForRegister, InsertRow, TypeOK, RegSteps
  <2>2. source' \in {"running", "paused", "gone"}
    BY <1>4 DEF ResumedForRegister, TypeOK
  <2> QED BY <1>4, <2>1, <2>2 DEF ResumedForRegister, TypeOK
<1>5. CASE ConsumeForRegister(s)
  <2>1. reg' \in [Subs -> RegSteps] /\ consumer' \in [Subs -> 0..MaxEvents + 1]
    BY <1>5, ConsumerIsTyped DEF ConsumeForRegister, TypeOK, RegSteps
  <2>2. poll' \in [Subs -> Polls]
    <3>1. poll' = poll \/ poll' = [poll EXCEPT ![s] = [poll[s] EXCEPT !.at = "lost"]]
      BY <1>5 DEF ConsumeForRegister
    <3>2. [poll[s] EXCEPT !.at = "lost"] \in Polls
      BY CallsAreTyped DEF TypeOK
    <3> QED BY <3>1, <3>2 DEF TypeOK
  <2> QED BY <1>5, <2>1, <2>2 DEF ConsumeForRegister, TypeOK
<1>6. CASE RegisterUndone(s)
  <2>1. reg' \in [Subs -> RegSteps] /\ idle' \in IdleRows \cup {NoRow}
    BY <1>6, IdleIsTyped DEF RegisterUndone, TypeOK, RegSteps
  <2>2. Delete({s})
    BY <1>6 DEF RegisterUndone
  <2> QED BY <1>6, <2>1, <2>2, DeleteIsTyped DEF RegisterUndone, TypeOK
<1>7. CASE FinishRegister(s)
  BY <1>7 DEF FinishRegister, TypeOK, RegSteps
<1> QED BY <1>1, <1>2, <1>3, <1>4, <1>5, <1>6, <1>7 DEF Registering

\* A template keeps the types.
LEMMA GroupingTypes ==
    ASSUME TypeOK, Grouping
    PROVE  TypeOK'
<1>1. CASE StartGroup \/ GroupEnds \/ RollbackEnds
  BY <1>1 DEF StartGroup, GroupEnds, GroupOutcome, RollbackEnds, TypeOK, rows
<1>2. ASSUME NEW i \in 1..Len(Members), RegisterMember(i) \/ MemberRefused(i)
      PROVE  TypeOK'
  <2>1. reg' \in [Subs -> RegSteps]
    BY <1>2, MembersAreSubs DEF RegisterMember, StartRegister, MemberRefused, TypeOK, RegSteps
  <2> QED BY <1>2, <2>1 DEF RegisterMember, StartRegister, MemberRefused, TypeOK, rows
<1>3. ASSUME NEW s \in Subs, Rollback(s)
      PROVE  TypeOK'
  <2>1. StartRemove(s)
    BY <1>3 DEF Rollback
  <2> QED BY <1>3, <2>1, StartRemoveIsTyped DEF Rollback, TypeOK
<1> QED BY <1>1, <1>2, <1>3 DEF Grouping

\* A poll keeps the types.
LEMMA PollingTypes ==
    ASSUME TypeOK, SignalOK, NEW s \in Subs, Polling(s)
    PROVE  TypeOK'
<1>1. CASE PollStart(s)
  <2>1. poll' = [poll EXCEPT ![s] = [poll[s] EXCEPT !.at = "read"]]
    BY <1>1 DEF PollStart
  <2>2. poll' \in [Subs -> Polls]
    BY <2>1, CallsAreTyped DEF TypeOK
  <2> QED BY <1>1, <2>2 DEF PollStart, TypeOK, rows
<1>2. CASE PollRead(s)
  <2>1. consumer' \in [Subs -> 0..MaxEvents + 1] /\ consumer'[s] \in Nat \ {0}
    BY <1>2, ConsumerIsTyped DEF PollRead
  <2>2. Through(consumer'[s]) \in 0..MaxEvents
    BY <2>1, ThroughIsInLog DEF TypeOK
  <2>3. [at |-> "commit", through |-> Through(consumer'[s]),
         signal |-> SignalOf(consumer'[s], Through(consumer'[s]))] \in Polls
    BY <2>2, SignalIsInstant DEF Polls
  <2>4. poll' \in [Subs -> Polls]
    BY <1>2, <2>3, CallsAreTyped DEF PollRead, TypeOK
  <2> QED BY <1>2, <2>1, <2>4 DEF PollRead, TypeOK
<1>3. CASE PollCommit(s)
  <2>1. poll' = [poll EXCEPT ![s] = NoPoll]
        \/ poll' = [poll EXCEPT ![s] = [poll[s] EXCEPT !.at = "schedule"]]
    BY <1>3 DEF PollCommit
  <2>2. poll' \in [Subs -> Polls]
    <3>1. [poll[s] EXCEPT !.at = "schedule"] \in Polls /\ NoPoll \in Polls
      BY CallsAreTyped DEF TypeOK
    <3> QED BY <2>1, <3>1 DEF TypeOK
  <2>3. CommittedTo(s) \in 0..MaxEvents + 1
    BY ConstantsAssumption DEF TypeOK, Polls, CommittedTo
  <2>4. consumer' \in [Subs -> 0..MaxEvents + 1]
    BY <1>3, <2>3 DEF PollCommit, TypeOK
  <2> QED BY <1>3, <2>2, <2>4 DEF PollCommit, TypeOK
<1>4. CASE Schedule(s)
  <2>1. poll[s].signal \in 0..MaxClock
    BY <1>4 DEF Schedule, SignalOK, TypeOK, Polls
  <2>2. \A r \in Subs : EarlierOf(retire[r], poll[s].signal) \in 0..MaxClock \cup {NoRow}
    BY <2>1 DEF TypeOK, EarlierOf
  <2>3. retire' \in [Subs -> 0..MaxClock \cup {NoRow}]
    BY <1>4, <2>2 DEF Schedule, TypeOK
  <2>4. poll' \in [Subs -> Polls]
    BY <1>4, CallsAreTyped DEF Schedule, TypeOK
  <2> QED BY <1>4, <2>3, <2>4 DEF Schedule, TypeOK
<1>5. CASE PollFails(s)
  <2>1. poll' \in [Subs -> Polls]
    BY <1>5, CallsAreTyped DEF PollFails, TypeOK
  <2>2. StartRemove(s) \/ UNCHANGED <<consumer, removing>>
    BY <1>5 DEF PollFails, Heal
  <2>3. consumer' \in [Subs -> 0..MaxEvents + 1] /\ removing' \subseteq Subs
    BY <2>2, StartRemoveIsTyped DEF TypeOK
  <2> QED BY <1>5, <2>1, <2>3 DEF PollFails, TypeOK
<1> QED BY <1>1, <1>2, <1>3, <1>4, <1>5 DEF Polling

\* The collection passes keep the types.
LEMMA CollectingTypes ==
    ASSUME TypeOK, PassOK, GcTick \/ GcPaused \/ GcPauseFails \/ ManualGc
    PROVE  TypeOK'
<1>1. CASE GcTick
  <2>1. Delete(Due)
    BY <1>1 DEF GcTick
  <2> DEFINE row == IF Due = {} THEN idle ELSE IdleAfter(source, subs \ Due)
  <2>2. row \in IdleRows \cup {NoRow} /\ IdlePass(row, subs \ Due)
    BY <1>1, IdleIsTyped DEF GcTick, TypeOK
  <2> HIDE DEF row
  <2>3. \A x \in IdleRows : [x EXCEPT !.auto = TRUE] \in IdleRows
    BY DEF IdleRows
  <2>4. idle' \in IdleRows \cup {NoRow}
    BY <2>2, <2>3 DEF IdlePass
  <2>5. gcPass' = gcPass \/ gcPass' = [at |-> "pause", row |-> row]
    BY <2>2 DEF IdlePass
  <2>6. gcPass' \in Passes
    BY <2>2, <2>5 DEF Passes, TypeOK
  <2> QED BY <1>1, <2>1, <2>4, <2>6, DeleteIsTyped DEF GcTick, TypeOK
<1>2. CASE GcPaused
  <2>1. [gcPass.row EXCEPT !.auto = TRUE] \in IdleRows
    BY <1>2 DEF GcPaused, PassOK, TypeOK, Passes, IdleRows
  <2>2. source' \in {"running", "paused", "gone"} /\ idle' \in IdleRows \cup {NoRow}
    BY <1>2, <2>1 DEF GcPaused, TypeOK
  <2> QED BY <1>2, <2>2, CallsAreTyped DEF GcPaused, TypeOK
<1>3. CASE GcPauseFails
  BY <1>3, CallsAreTyped DEF GcPauseFails, TypeOK, rows
<1>4. CASE ManualGc
  <2>1. Delete(Due) /\ ops' \in 0..MaxOps
    BY <1>4, ConstantsAssumption DEF ManualGc, TypeOK
  <2> QED BY <1>4, <2>1, DeleteIsTyped DEF ManualGc, TypeOK, procs
<1> QED BY <1>1, <1>2, <1>3, <1>4

\* Requests on the source and removals keep the types.
LEMMA RequestTypes ==
    ASSUME TypeOK, PassOK, Requests
    PROVE  TypeOK'
<1>1. ASSUME NEW at \in {"pause", "resume", "rmPause"}, SrcStart(at)
      PROVE  TypeOK'
  <2>1. srcOp' \in SrcOps /\ ops' \in 0..MaxOps
    BY <1>1, ConstantsAssumption DEF SrcStart, SrcOps, TypeOK
  <2> QED BY <1>1, <2>1 DEF SrcStart, TypeOK, rows
<1>2. CASE SrcPaused
  <2>1. source' \in {"running", "paused", "gone"} /\ idle' = NoRow
    BY <1>2 DEF SrcPaused, TypeOK
  <2>2. [srcOp EXCEPT !.at = "none"] \in SrcOps /\ [srcOp EXCEPT !.at = "rmSubs"] \in SrcOps
    BY CallsAreTyped DEF TypeOK
  <2>3. srcOp' \in SrcOps
    BY <1>2, <2>2, CallsAreTyped DEF SrcPaused
  <2> QED BY <1>2, <2>1, <2>3 DEF SrcPaused, TypeOK
<1>3. CASE SrcResumed
  BY <1>3, CallsAreTyped DEF SrcResumed, TypeOK
<1>4. CASE SrcFails
  BY <1>4, CallsAreTyped DEF SrcFails, TypeOK, rows
<1>5. CASE SrcSubsRemoved
  <2>1. srcOp' \in SrcOps
    BY <1>5, CallsAreTyped DEF SrcSubsRemoved, TypeOK
  <2> QED BY <1>5, <2>1 DEF SrcSubsRemoved, TypeOK, rows
<1>6. CASE SrcDeleted
  <2>1. consumer' \in [Subs -> 0..MaxEvents + 1]
    BY <1>6, ConstantsAssumption DEF SrcDeleted, ConsumersWithout, TypeOK
  <2>2. log' \in Seq(Kinds) /\ Len(log') <= MaxEvents
    BY <1>6, ConstantsAssumption DEF SrcDeleted
  <2> QED BY <1>6, <2>1, <2>2, CallsAreTyped DEF SrcDeleted, TypeOK
<1>7. ASSUME NEW s \in Subs, SrcRemoveSub(s)
      PROVE  TypeOK'
  <2>1. StartRemove(s) \/ UNCHANGED <<consumer, removing>>
    BY <1>7 DEF SrcRemoveSub
  <2>2. consumer' \in [Subs -> 0..MaxEvents + 1] /\ removing' \subseteq Subs
    BY <2>1, StartRemoveIsTyped DEF TypeOK
  <2>3. srcOp' = NoOp \/ srcOp' = [srcOp EXCEPT !.list = @ \ {s}]
    BY <1>7 DEF SrcRemoveSub
  <2>4. srcOp' \in SrcOps
    <3>1. [srcOp EXCEPT !.list = @ \ {s}] \in SrcOps /\ NoOp \in SrcOps
      BY CallsAreTyped DEF TypeOK
    <3> QED BY <2>3, <3>1
  <2> QED BY <1>7, <2>2, <2>4 DEF SrcRemoveSub, TypeOK
<1>8. ASSUME NEW s \in Subs, RemoveSubscription(s)
      PROVE  TypeOK'
  <2>1. StartRemove(s) /\ ops' \in 0..MaxOps
    BY <1>8, ConstantsAssumption DEF RemoveSubscription, TypeOK
  <2> QED BY <1>8, <2>1, StartRemoveIsTyped DEF RemoveSubscription, TypeOK
<1>9. ASSUME NEW s \in Subs, RemoveRow(s)
      PROVE  TypeOK'
  <2>1. /\ consumer' \in [Subs -> 0..MaxEvents + 1]
        /\ retire' \in [Subs -> 0..MaxClock \cup {NoRow}]
    BY <1>9, ConstantsAssumption DEF RemoveRow, ConsumersWithout, RetireWithout, TypeOK
  <2>2. idle' \in IdleRows \cup {NoRow} /\ subs' \subseteq Subs /\ removing' \subseteq Subs
    BY <1>9, IdleIsTyped DEF RemoveRow, TypeOK
  <2> QED BY <1>9, <2>1, <2>2 DEF RemoveRow, TypeOK
<1>10. CASE RemoveAgent
  <2>1. Delete(subs) /\ ops' \in 0..MaxOps
    BY <1>10, ConstantsAssumption DEF RemoveAgent, TypeOK
  <2>2. idle' \in IdleRows \cup {NoRow}
    BY <1>10, IdleIsTyped DEF RemoveAgent, TypeOK
  <2> QED BY <1>10, <2>1, <2>2, DeleteIsTyped DEF RemoveAgent, TypeOK, procs
<1> QED BY <1>1, <1>2, <1>3, <1>4, <1>5, <1>6, <1>7, <1>8, <1>9, <1>10, CollectingTypes
        DEF Requests

\* Every step keeps the types.
LEMMA TypeStep ==
    ASSUME TypeOK, SignalOK, PassOK, Next
    PROVE  TypeOK'
<1>1. ASSUME NEW k \in Kinds, Arrive(k)
      PROVE  TypeOK'
  <2>1. log' \in Seq(Kinds) /\ Len(log') <= MaxEvents
    BY <1>1, ConstantsAssumption DEF Arrive, TypeOK
  <2> QED BY <1>1, <2>1 DEF Arrive, TypeOK, procs
<1>2. CASE Tick
  BY <1>2, ConstantsAssumption DEF Tick, TypeOK, rows, procs
<1>3. CASE Crash
  <2>1. reg' \in [Subs -> RegSteps]
    BY <1>3 DEF Crash, TypeOK, RegSteps
  <2>3. poll' \in [Subs -> Polls]
    BY <1>3, CallsAreTyped DEF Crash
  <2>4. crashes' \in 0..MaxCrashes
    BY <1>3, ConstantsAssumption DEF Crash, TypeOK
  <2>2. group' \in {"none", "running", "rollback", "done", "failed", "cut"}
    BY <1>3 DEF Crash, TypeOK
  <2> QED BY <1>3, <2>1, <2>2, <2>3, <2>4, CallsAreTyped DEF Crash, TypeOK, rows
<1> QED BY <1>1, <1>2, <1>3, RegisteringTypes, PollingTypes, GroupingTypes, RequestTypes,
           CollectingTypes DEF Next

-----------------------------------------------------------------------------
(* Calls under way *)

\* A poll goes on to schedule only with a signal.
LEMMA SignalStep ==
    ASSUME TypeOK, SignalOK, Next
    PROVE  SignalOK'
<1>1. CASE UNCHANGED poll
  BY <1>1 DEF SignalOK
<1>2. ASSUME NEW s \in Subs, Registering(s) \/ Polling(s), poll' # poll
      PROVE  SignalOK'
  <2>1. CASE ConsumeForRegister(s)
    <3>1. poll' = [poll EXCEPT ![s] = [poll[s] EXCEPT !.at = "lost"]]
      BY <1>2, <2>1 DEF ConsumeForRegister
    <3>2. [poll[s] EXCEPT !.at = "lost"].at = "lost"
      BY DEF TypeOK, Polls
    <3> QED BY <3>1, <3>2 DEF SignalOK, TypeOK
  <2>2. CASE PollStart(s)
    <3>1. poll' = [poll EXCEPT ![s] = [poll[s] EXCEPT !.at = "read"]]
      BY <2>2 DEF PollStart
    <3>2. [poll[s] EXCEPT !.at = "read"].at = "read"
      BY DEF TypeOK, Polls
    <3> QED BY <3>1, <3>2 DEF SignalOK, TypeOK
  <2>3. CASE PollRead(s)
    <3>1. \A r \in Subs \ {s} : poll'[r] = poll[r]
      BY <2>3 DEF PollRead, TypeOK
    <3>2. poll'[s].at # "schedule"
      BY <2>3 DEF PollRead, TypeOK, NoPoll
    <3> QED BY <3>1, <3>2 DEF SignalOK
  <2>4. CASE PollCommit(s)
    <3> DEFINE ends == poll[s].signal = NoRow \/ log[poll[s].through] = "poison"
    <3>1. CASE ends
      <4>1. poll' = [poll EXCEPT ![s] = NoPoll]
        BY <2>4, <3>1 DEF PollCommit
      <4> QED BY <4>1 DEF SignalOK, TypeOK, NoPoll
    <3>2. CASE ~ends
      <4>1. poll' = [poll EXCEPT ![s] = [poll[s] EXCEPT !.at = "schedule"]]
        BY <2>4, <3>2 DEF PollCommit
      <4>2. [poll[s] EXCEPT !.at = "schedule"].signal # NoRow
        BY <3>2 DEF TypeOK, Polls
      <4> QED BY <4>1, <4>2 DEF SignalOK, TypeOK
    <3> QED BY <3>1, <3>2
  <2>5. CASE Schedule(s) \/ PollFails(s)
    <3>1. poll' = [poll EXCEPT ![s] = NoPoll]
      BY <2>5 DEF Schedule, PollFails
    <3> QED BY <3>1 DEF SignalOK, TypeOK, NoPoll
  <2>6. CASE Register(s) \/ Validated(s) \/ RegisterRefused(s) \/ ResumedForRegister(s)
             \/ RegisterUndone(s) \/ FinishRegister(s)
    BY <1>2, <2>6 DEF Register, StartRegister, Validated, RegisterRefused, ResumedForRegister,
                      RegisterUndone, FinishRegister
  <2> QED BY <1>2, <2>1, <2>2, <2>3, <2>4, <2>5, <2>6 DEF Registering, Polling
<1>3. CASE Crash
  BY <1>3 DEF Crash, SignalOK, NoPoll
<1>4. CASE Grouping
  BY <1>1, <1>4 DEF Grouping, StartGroup, GroupEnds, RollbackEnds, RegisterMember, StartRegister,
                    MemberRefused, Rollback
<1>5. CASE Requests
  BY <1>1, <1>5 DEF Requests, SrcStart, SrcPaused, SrcResumed, SrcFails, SrcSubsRemoved,
                    SrcDeleted, SrcRemoveSub, RemoveSubscription, RemoveRow, RemoveAgent, ManualGc, procs
<1>6. CASE GcTick \/ GcPaused \/ GcPauseFails \/ Tick \/ \E k \in Kinds : Arrive(k)
  BY <1>1, <1>6 DEF GcTick, GcPaused, GcPauseFails, Tick, Arrive, procs
<1> QED BY <1>1, <1>2, <1>3, <1>4, <1>5, <1>6 DEF Next

\* A pass pauses the source only with the row that made it due.
LEMMA PassStep ==
    ASSUME TypeOK, PassOK, Next
    PROVE  PassOK'
<1>1. CASE UNCHANGED gcPass
  BY <1>1 DEF PassOK
<1>2. CASE GcTick
  <2>1. \E row, rest : IdlePass(row, rest)
    BY <1>2 DEF GcTick
  <2> QED BY <2>1 DEF IdlePass, PassOK
<1>3. CASE GcPaused \/ GcPauseFails \/ Crash
  BY <1>3 DEF GcPaused, GcPauseFails, Crash, NoPass, PassOK
<1>4. ASSUME NEW s \in Subs, Registering(s) \/ Polling(s)
      PROVE  UNCHANGED gcPass
  BY <1>4 DEF Registering, Polling, Register, StartRegister, Validated, RegisterRefused,
              ResumedForRegister, ConsumeForRegister, RegisterUndone, FinishRegister,
              PollStart, PollRead, PollCommit, Schedule, PollFails
<1>5. CASE Grouping
  BY <1>5, <1>1 DEF Grouping, StartGroup, GroupEnds, RollbackEnds, RegisterMember, StartRegister,
                    MemberRefused, Rollback
<1>6. CASE Requests
  BY <1>6, <1>1 DEF Requests, SrcStart, SrcPaused, SrcResumed, SrcFails, SrcSubsRemoved,
                    SrcDeleted, SrcRemoveSub, RemoveSubscription, RemoveRow, RemoveAgent, ManualGc, procs
<1>7. CASE Tick \/ \E k \in Kinds : Arrive(k)
  BY <1>1, <1>7 DEF Tick, Arrive, procs
<1> QED BY <1>1, <1>2, <1>3, <1>4, <1>5, <1>6, <1>7 DEF Next

-----------------------------------------------------------------------------
(* Retirements *)

\* What deletes subscriptions deletes their retirements.
LEMMA DeleteRetires ==
    ASSUME TypeOK, RetirementsHaveSubs, NEW gone, Delete(gone)
    PROVE  RetirementsHaveSubs'
  BY DEF Delete, RetireWithout, RetirementsHaveSubs, TypeOK

\* Registrations only add subscriptions, or take back the one whose row they wrote.
LEMMA RegisteringRetires ==
    ASSUME TypeOK, RetirementsHaveSubs, NEW s \in Subs, Registering(s)
    PROVE  RetirementsHaveSubs'
<1>1. CASE RegisterUndone(s)
  <2>1. Delete({s})
    BY <1>1 DEF RegisterUndone
  <2> QED BY <2>1, DeleteRetires
<1>2. CASE Register(s) \/ RegisterRefused(s) \/ ConsumeForRegister(s) \/ FinishRegister(s)
  <2>1. UNCHANGED <<retire, subs>>
    BY <1>2 DEF Register, StartRegister, RegisterRefused, ConsumeForRegister, FinishRegister, rows
  <2> QED BY <2>1 DEF RetirementsHaveSubs
<1>3. CASE Validated(s) \/ ResumedForRegister(s)
  <2>1. retire' = retire /\ subs \subseteq subs'
    BY <1>3 DEF Validated, ResumedForRegister, InsertRow
  <2> QED BY <2>1 DEF RetirementsHaveSubs
<1> QED BY <1>1, <1>2, <1>3 DEF Registering

\* A signal retires subscriptions there are, a removal takes the retirement with the row.
LEMMA RetirementStep ==
    ASSUME TypeOK, RetirementsHaveSubs, Next
    PROVE  RetirementsHaveSubs'
<1>1. CASE UNCHANGED <<retire, subs>>
  BY <1>1 DEF RetirementsHaveSubs
<1>2. ASSUME NEW s \in Subs, Schedule(s)
      PROVE  RetirementsHaveSubs'
  BY <1>2 DEF Schedule, Tracked, RetirementsHaveSubs, TypeOK
<1>3. ASSUME NEW s \in Subs, RemoveRow(s)
      PROVE  RetirementsHaveSubs'
  BY <1>3 DEF RemoveRow, RetireWithout, RetirementsHaveSubs, TypeOK
<1>4. CASE GcTick \/ ManualGc \/ RemoveAgent
  <2>1. \E gone : Delete(gone)
    BY <1>4 DEF GcTick, ManualGc, RemoveAgent
  <2> QED BY <2>1, DeleteRetires
<1>5. ASSUME NEW s \in Subs, PollStart(s) \/ PollRead(s) \/ PollCommit(s) \/ PollFails(s)
      PROVE  UNCHANGED <<retire, subs>>
  BY <1>5 DEF PollStart, PollRead, PollCommit, PollFails, rows
<1>6. CASE Grouping
  <2>1. UNCHANGED <<retire, subs>>
    BY <1>6 DEF Grouping, StartGroup, GroupEnds, RollbackEnds, RegisterMember, StartRegister,
                MemberRefused, Rollback, rows
  <2> QED BY <2>1, <1>1
<1>7. ASSUME \/ SrcPaused \/ SrcResumed \/ SrcFails \/ SrcSubsRemoved \/ SrcDeleted
             \/ \E at \in {"pause", "resume", "rmPause"} : SrcStart(at)
             \/ \E s \in Subs : SrcRemoveSub(s) \/ RemoveSubscription(s)
      PROVE  UNCHANGED <<retire, subs>>
  BY <1>7 DEF SrcStart, SrcPaused, SrcResumed, SrcFails, SrcSubsRemoved, SrcDeleted,
              SrcRemoveSub, RemoveSubscription, rows
<1>8. CASE GcPaused \/ GcPauseFails \/ Tick \/ Crash \/ \E k \in Kinds : Arrive(k)
  <2>1. UNCHANGED <<retire, subs>>
    BY <1>8 DEF GcPaused, GcPauseFails, Tick, Crash, Arrive, rows
  <2> QED BY <2>1, <1>1
<1> QED BY <1>1, <1>2, <1>3, <1>4, <1>5, <1>6, <1>7, <1>8, RegisteringRetires
        DEF Next, Polling, Requests

-----------------------------------------------------------------------------
(* Templates *)

\* Nothing has begun of a template that has none of its members.
LEMMA StartInOrder ==
    ASSUME TypeOK, GroupOK, StartGroup
    PROVE  GroupOK'
  BY DEF StartGroup, GroupOK, Sequential, NoneUnderWay, rows

\* A step in the registration of one subscription, which has begun and goes on.
LEMMA GoOnInOrder ==
    ASSUME TypeOK, GroupOK, NEW s \in Subs, NEW step, reg[s] \in RegSteps \ {"none", "done", "failed"},
           reg' = [reg EXCEPT ![s] = step], group' = group
    PROVE  GroupOK'
<1>1. \A m \in Subs : (reg'[m] = IF m = s THEN step ELSE reg[m])
  BY DEF TypeOK
<1>2. Sequential'
  <2> SUFFICES ASSUME group = "running", NEW m \in MemberSet, reg'[m] # "none"
               PROVE  BegunInOrder(m)'
    BY DEF Sequential
  <2>1. reg[m] # "none"
    BY <1>1, MembersAreSubs
  <2>2. PICK k \in 1..Len(Members) :
            Members[k] = m /\ \A j \in 1..(k - 1) : reg[Members[j]] = "done"
    BY <2>1 DEF GroupOK, Sequential, BegunInOrder
  <2>3. \A j \in 1..(k - 1) : reg'[Members[j]] = "done"
    BY <1>1, <2>2
  <2> QED BY <2>2, <2>3 DEF BegunInOrder
<1>3. NoneUnderWay'
  BY <1>1, MembersAreSubs DEF GroupOK, NoneUnderWay, Settled
<1> QED BY <1>2, <1>3 DEF GroupOK

\* A registration of its own is not one of a template that runs or has failed.
LEMMA RegisteringInOrder ==
    ASSUME TypeOK, GroupOK, NEW s \in Subs, Registering(s)
    PROVE  GroupOK'
<1>1. CASE Register(s)
  BY <1>1 DEF Register, StartRegister, GroupOK, Sequential, NoneUnderWay
<1>2. CASE ~Register(s)
  <2>1. group' = group /\ reg[s] \in RegSteps \ {"none", "done", "failed"}
        /\ \E step : reg' = [reg EXCEPT ![s] = step]
    BY <1>2 DEF Registering, Validated, RegisterRefused, ResumedForRegister, ConsumeForRegister,
                RegisterUndone, FinishRegister, InsertRow, RegSteps
  <2> QED BY <2>1, GoOnInOrder
<1> QED BY <1>1, <1>2

\* The next member begins, or is refused, when those before it are registered.
LEMMA MemberInOrder ==
    ASSUME TypeOK, GroupOK, NEW i \in 1..Len(Members), RegisterMember(i) \/ MemberRefused(i)
    PROVE  GroupOK'
<1>1. /\ group = "running" /\ group' = "running" /\ reg[Members[i]] = "none"
      /\ \A j \in 1..(i - 1) : reg[Members[j]] = "done"
      /\ \E step : reg' = [reg EXCEPT ![Members[i]] = step]
  BY DEF RegisterMember, StartRegister, MemberRefused
<1>2. \A m \in Subs : m # Members[i] => reg'[m] = reg[m]
  BY <1>1 DEF TypeOK
<1>3. ASSUME NEW k \in 1..Len(Members), \A j \in 1..(k - 1) : reg[Members[j]] = "done"
      PROVE  \A j \in 1..(k - 1) : reg'[Members[j]] = "done"
  <2> TAKE j \in 1..(k - 1)
  <2>1. reg[Members[j]] = "done" /\ Members[j] \in Subs /\ Members[j] # Members[i]
    BY <1>1, <1>3, MembersAreSubs
  <2> QED BY <1>2, <2>1
<1>4. Sequential'
  <2> SUFFICES ASSUME NEW m \in MemberSet, reg'[m] # "none" PROVE BegunInOrder(m)'
    BY DEF Sequential
  <2>1. CASE m = Members[i]
    BY <1>1, <1>3, <2>1 DEF BegunInOrder
  <2>2. CASE m # Members[i]
    <3>1. BegunInOrder(m)
      BY <1>1, <1>2, <2>2, MembersAreSubs DEF GroupOK, Sequential
    <3> QED BY <1>3, <3>1 DEF BegunInOrder
  <2> QED BY <2>1, <2>2
<1> QED BY <1>1, <1>4 DEF GroupOK, NoneUnderWay

\* When one member has failed, those before it are registered and no other has begun.
LEMMA EndInOrder ==
    ASSUME TypeOK, GroupOK, GroupEnds
    PROVE  GroupOK'
<1>1. group = "running" /\ reg' = reg /\ group' = (IF MemberFailed THEN "rollback" ELSE "done")
  BY DEF GroupEnds, GroupOutcome
<1>2. ASSUME MemberFailed, NEW m \in MemberSet
      PROVE  reg[m] \in Settled
  <2>1. PICK f \in MemberSet : reg[f] = "failed"
    BY <1>2 DEF MemberFailed
  <2>2. PICK i \in 1..Len(Members) :
            Members[i] = f /\ \A j \in 1..(i - 1) : reg[Members[j]] = "done"
    BY <1>1, <2>1 DEF GroupOK, Sequential, BegunInOrder
  <2> SUFFICES ASSUME reg[m] # "none" PROVE reg[m] \in Settled
    BY DEF Settled
  <2>3. PICK k \in 1..Len(Members) :
            Members[k] = m /\ \A j \in 1..(k - 1) : reg[Members[j]] = "done"
    BY <1>1 DEF GroupOK, Sequential, BegunInOrder
  <2>4. i \in Nat /\ k \in Nat /\ 1 <= i /\ 1 <= k
    BY ConstantsAssumption
  <2>5. CASE i < k
    <3>1. i \in 1..(k - 1)
      BY <2>4, <2>5
    <3> QED BY <2>1, <2>2, <2>3, <3>1
  <2>6. CASE k < i
    <3>1. k \in 1..(i - 1)
      BY <2>4, <2>6
    <3> QED BY <2>2, <2>3, <3>1 DEF Settled
  <2>7. CASE i = k
    BY <2>1, <2>2, <2>3, <2>7 DEF Settled
  <2> QED BY <2>4, <2>5, <2>6, <2>7
<1> QED BY <1>1, <1>2 DEF GroupOK, Sequential, NoneUnderWay

\* A step of another action leaves a template as it is, or a restart cuts it off.
LEMMA GroupStep ==
    ASSUME TypeOK, GroupOK, Next
    PROVE  GroupOK'
<1>1. CASE UNCHANGED <<reg, group>>
  BY <1>1 DEF GroupOK, Sequential, NoneUnderWay, BegunInOrder
<1>2. CASE Grouping
  <2>1. CASE RollbackEnds
    BY <2>1 DEF RollbackEnds, GroupOK, Sequential, NoneUnderWay
  <2>2. CASE \E s \in Subs : Rollback(s)
    BY <2>2, <1>1 DEF Rollback
  <2> QED BY <1>2, <2>1, <2>2, StartInOrder, EndInOrder, MemberInOrder DEF Grouping
<1>3. CASE Crash
  <2>1. group' \notin {"running", "rollback"} /\ \A m \in Subs : reg'[m] \in Settled
    BY <1>3 DEF Crash, Settled
  <2> QED BY <2>1, MembersAreSubs DEF GroupOK, Sequential, NoneUnderWay
<1>4. ASSUME NEW s \in Subs, Polling(s)
      PROVE  UNCHANGED <<reg, group>>
  BY <1>4 DEF Polling, PollStart, PollRead, PollCommit, Schedule, PollFails
<1>5. CASE Requests
  <2>1. UNCHANGED <<reg, group>>
    BY <1>5 DEF Requests, SrcStart, SrcPaused, SrcResumed, SrcFails, SrcSubsRemoved,
                SrcDeleted, SrcRemoveSub, RemoveSubscription, RemoveRow, RemoveAgent, ManualGc, procs
  <2> QED BY <1>1, <2>1
<1>6. CASE GcTick \/ GcPaused \/ GcPauseFails \/ Tick \/ \E k \in Kinds : Arrive(k)
  <2>1. UNCHANGED <<reg, group>>
    BY <1>6 DEF GcTick, GcPaused, GcPauseFails, Tick, Arrive, procs
  <2> QED BY <1>1, <2>1
<1> QED BY <1>1, <1>2, <1>3, <1>4, <1>5, <1>6, RegisteringInOrder DEF Next

\* A member of a template that failed has no row left: its registration is over, and
\* the rollback ended without one.
LEMMA RollbackStep ==
    ASSUME TypeOK, GroupOK, RollbackComplete, Next
    PROVE  RollbackComplete'
<1>1. ASSUME group = "failed", reg' = reg, group' = group, subs' \subseteq subs
      PROVE  RollbackComplete'
  BY <1>1 DEF RollbackComplete, Created
<1>2. ASSUME group' # "failed"
      PROVE  RollbackComplete'
  BY <1>2 DEF RollbackComplete
<1>3. CASE RollbackEnds
  BY <1>3 DEF RollbackEnds, RollbackComplete, Created, rows
<1>4. CASE group # "failed" /\ ~RollbackEnds
  <2>1. group' # "failed"
    <3>1. CASE group' = group
      BY <1>4, <3>1
    <3>2. CASE StartGroup \/ GroupEnds \/ Crash
      BY <1>4, <3>2 DEF StartGroup, GroupEnds, GroupOutcome, Crash
    <3>3. ASSUME NEW s \in Subs, Registering(s) \/ Polling(s) \/ Rollback(s)
          PROVE  group' = group
      BY <3>3 DEF Registering, Register, StartRegister, Validated, RegisterRefused,
                  ResumedForRegister, ConsumeForRegister, RegisterUndone, FinishRegister, Polling,
                  PollStart, PollRead, PollCommit, Schedule, PollFails, Rollback
    <3>4. ASSUME NEW i \in 1..Len(Members), RegisterMember(i) \/ MemberRefused(i)
          PROVE  group' = group
      BY <3>4 DEF RegisterMember, StartRegister, MemberRefused
    <3>5. ASSUME Requests \/ GcTick \/ GcPaused \/ GcPauseFails \/ Tick \/ \E k \in Kinds : Arrive(k)
          PROVE  group' = group
      BY <3>5 DEF Requests, SrcStart, SrcPaused, SrcResumed, SrcFails, SrcSubsRemoved, SrcDeleted,
                  SrcRemoveSub, RemoveSubscription, RemoveRow, RemoveAgent, ManualGc, GcTick, GcPaused,
                  GcPauseFails, Tick, Arrive, procs
    <3> QED BY <1>4, <3>1, <3>2, <3>3, <3>4, <3>5 DEF Next, Grouping
  <2> QED BY <1>2, <2>1
<1>5. CASE group = "failed"
  <2>1. ASSUME NEW s \in Subs, Registering(s)
        PROVE  RollbackComplete'
    <3>1. ~Register(s)
      BY <1>5 DEF Register
    <3>2. group' = group /\ reg[s] \notin Settled /\ (\E step : reg' = [reg EXCEPT ![s] = step])
          /\ subs' \subseteq subs \cup {s}
      BY <2>1, <3>1 DEF Registering, Validated, RegisterRefused, ResumedForRegister,
                        ConsumeForRegister, RegisterUndone, FinishRegister, InsertRow, Delete,
                        Settled, rows
    <3>3. s \notin MemberSet
      BY <1>5, <3>2 DEF GroupOK, NoneUnderWay
    <3>4. \A m \in MemberSet : reg'[m] = reg[m]
      BY <3>2, <3>3, MembersAreSubs DEF TypeOK
    <3>5. Created' = Created
      BY <3>4 DEF Created, MemberSet
    <3>6. s \notin Created
      BY <3>3 DEF Created
    <3> QED BY <1>5, <3>2, <3>5, <3>6 DEF RollbackComplete
  <2>2. ASSUME NEW s \in Subs, Polling(s)
        PROVE  UNCHANGED <<reg, group, subs>>
    BY <2>2 DEF Polling, PollStart, PollRead, PollCommit, Schedule, PollFails, rows
  <2>3. CASE Grouping
    BY <1>5, <1>1, <2>3 DEF Grouping, StartGroup, GroupEnds, RollbackEnds, RegisterMember,
                            StartRegister, MemberRefused, Rollback
  <2>4. ASSUME Requests \/ GcTick
        PROVE  UNCHANGED <<reg, group>> /\ subs' \subseteq subs
    <3>1. CASE \/ \E at \in {"pause", "resume", "rmPause"} : SrcStart(at)
               \/ SrcPaused \/ SrcResumed \/ SrcFails \/ SrcSubsRemoved \/ SrcDeleted
               \/ \E s \in Subs : SrcRemoveSub(s) \/ RemoveSubscription(s)
      BY <3>1 DEF SrcStart, SrcPaused, SrcResumed, SrcFails, SrcSubsRemoved, SrcDeleted,
                  SrcRemoveSub, RemoveSubscription, rows
    <3>2. CASE (\E s \in Subs : RemoveRow(s)) \/ RemoveAgent \/ ManualGc \/ GcTick
      BY <3>2 DEF RemoveRow, RemoveAgent, ManualGc, GcTick, Delete, procs
    <3> QED BY <2>4, <3>1, <3>2 DEF Requests
  <2>5. CASE GcPaused \/ GcPauseFails \/ Tick \/ \E k \in Kinds : Arrive(k)
    <3>1. UNCHANGED <<reg, group, subs>>
      BY <2>5 DEF GcPaused, GcPauseFails, Tick, Arrive, rows, procs
    <3> QED BY <1>1, <1>5, <3>1
  <2>6. CASE Crash
    <3>1. group' = "failed" /\ subs' = subs
      BY <1>5, <2>6 DEF Crash, rows
    <3>2. Created' = Created
      BY <1>5, <2>6, MembersAreSubs DEF Crash, Created, MemberSet, GroupOK, NoneUnderWay, Settled
    <3> QED BY <1>5, <3>1, <3>2 DEF RollbackComplete
  <2> QED BY <1>1, <1>5, <2>1, <2>2, <2>3, <2>4, <2>5, <2>6 DEF Next
<1> QED BY <1>3, <1>4, <1>5

-----------------------------------------------------------------------------
(* Theorems *)

\* The initial states are sound.
LEMMA InitSound ==
    ASSUME Init
    PROVE  IInv
<1>1. TypeOK
  BY CallsAreTyped, ConstantsAssumption DEF Init, Nothing, TypeOK, RegSteps
<1>2. RetirementsHaveSubs /\ RollbackComplete
  BY DEF Init, Nothing, RetirementsHaveSubs, RollbackComplete
<1>3. SignalOK /\ PassOK /\ GroupOK
  BY DEF Init, Nothing, SignalOK, NoPoll, PassOK, NoPass, GroupOK, Sequential, NoneUnderWay
<1> QED BY <1>1, <1>2, <1>3 DEF IInv, EndsAreComplete

\* Every step keeps the invariant.
LEMMA SoundStep ==
    ASSUME IInv, [Next]_vars
    PROVE  IInv'
<1>1. CASE Next
  BY <1>1, TypeStep, RetirementStep, RollbackStep, SignalStep, PassStep, GroupStep
     DEF IInv, EndsAreComplete
<1>2. CASE UNCHANGED vars
  BY <1>2 DEF vars, IInv, EndsAreComplete, TypeOK, RetirementsHaveSubs, RollbackComplete, Created,
              SignalOK, PassOK, GroupOK, Sequential, NoneUnderWay, BegunInOrder
<1> QED BY <1>1, <1>2

\* The inductive invariant: types, retirements, and what the calls under way rely on.
THEOREM Invariance == Spec => []IInv
<1>1. Init => IInv
  BY InitSound
<1>2. IInv /\ [Next]_vars => IInv'
  BY SoundStep
<1> QED BY <1>1, <1>2, PTL DEF Spec

\* No retirement outlives its subscription, and a template that failed has left none of
\* its members, whoever removes, retires or collects them meanwhile
\* (rollbackRegisteredSubscriptions, runLifecycleCleanupPass of src/src/service.ts).
THEOREM EndsAreCompleteAlways == Spec => []EndsAreComplete
<1>1. IInv => EndsAreComplete
  BY DEF IInv
<1> QED BY <1>1, Invariance, PTL

\* Deleting a subscription is the one thing that takes its retirement.
LEMMA DeleteKeepsOthers ==
    ASSUME TypeOK, NEW gone, Delete(gone)
    PROVE  \A s \in Subs : s \in subs' => retire'[s] = retire[s]
  BY DEF Delete, RetireWithout

\* A retirement is only moved forward, whatever events and polls follow the one that
\* set it (upsertSubscriptionLifecycleRetirement of src/src/store.ts).
LEMMA RetirementOnlyEarlier ==
    ASSUME IInv, Next, NEW s \in Subs, retire[s] # NoRow, s \in subs'
    PROVE  retire'[s] # NoRow /\ retire'[s] <= retire[s]
<1>1. TypeOK /\ SignalOK /\ RetirementsHaveSubs
  BY DEF IInv, EndsAreComplete
<1>2. retire[s] \in 0..MaxClock /\ retire[s] \in Nat
  BY <1>1 DEF TypeOK
<1>3. CASE retire'[s] = retire[s]
  BY <1>2, <1>3
<1>4. ASSUME NEW r \in Subs, Schedule(r)
      PROVE  retire'[s] # NoRow /\ retire'[s] <= retire[s]
  <2>1. poll[r].signal \in 0..MaxClock
    BY <1>1, <1>4 DEF Schedule, SignalOK, TypeOK, Polls
  <2>2. retire'[s] \in {retire[s], EarlierOf(retire[s], poll[r].signal)}
    BY <1>4 DEF Schedule
  <2>3. poll[r].signal \in Nat /\ poll[r].signal # NoRow
    BY <2>1, ConstantsAssumption
  <2> QED BY <1>2, <2>2, <2>3 DEF EarlierOf
<1>5. ASSUME NEW r \in Subs, RemoveRow(r)
      PROVE  retire'[s] = retire[s]
  BY <1>5 DEF RemoveRow, RetireWithout
<1>6. CASE GcTick \/ ManualGc \/ RemoveAgent
  <2>1. \E gone : Delete(gone)
    BY <1>6 DEF GcTick, ManualGc, RemoveAgent
  <2> QED BY <1>1, <1>3, <2>1, DeleteKeepsOthers
<1>7. ASSUME NEW r \in Subs, Registering(r)
      PROVE  retire'[s] = retire[s]
  <2>1. CASE RegisterUndone(r)
    BY <1>1, <2>1, DeleteKeepsOthers DEF RegisterUndone
  <2>2. CASE ~RegisterUndone(r)
    BY <1>7, <2>2 DEF Registering, Register, StartRegister, Validated, RegisterRefused,
                      ResumedForRegister, ConsumeForRegister, FinishRegister, rows
  <2> QED BY <2>1, <2>2
<1>8. ASSUME NEW r \in Subs, PollStart(r) \/ PollRead(r) \/ PollCommit(r) \/ PollFails(r)
      PROVE  retire' = retire
  BY <1>8 DEF PollStart, PollRead, PollCommit, PollFails, rows
<1>9. ASSUME Grouping
      PROVE  retire' = retire
  BY <1>9 DEF Grouping, StartGroup, GroupEnds, RollbackEnds, RegisterMember, StartRegister,
              MemberRefused, Rollback, rows
<1>10. ASSUME \/ SrcPaused \/ SrcResumed \/ SrcFails \/ SrcSubsRemoved \/ SrcDeleted
              \/ \E at \in {"pause", "resume", "rmPause"} : SrcStart(at)
              \/ \E r \in Subs : SrcRemoveSub(r) \/ RemoveSubscription(r)
       PROVE  retire' = retire
  BY <1>10 DEF SrcStart, SrcPaused, SrcResumed, SrcFails, SrcSubsRemoved, SrcDeleted,
               SrcRemoveSub, RemoveSubscription, rows
<1>11. ASSUME GcPaused \/ GcPauseFails \/ Tick \/ Crash \/ \E k \in Kinds : Arrive(k)
       PROVE  retire' = retire
  BY <1>11 DEF GcPaused, GcPauseFails, Tick, Crash, Arrive, rows
<1> QED BY <1>3, <1>4, <1>5, <1>6, <1>7, <1>8, <1>9, <1>10, <1>11 DEF Next, Polling, Requests

\* A later terminal event of a resource never postpones the retirement of its
\* subscriptions, and nothing but their end takes it back.
THEOREM NeverPostponed == Spec => RetirementNeverPostponed
<1>1. IInv /\ [Next]_vars =>
        [\A s \in Subs : retire[s] # NoRow /\ s \in subs'
             => retire'[s] # NoRow /\ retire'[s] <= retire[s]]_vars
  BY RetirementOnlyEarlier
<1> QED BY <1>1, Invariance, PTL DEF Spec, RetirementNeverPostponed
=============================================================================
