---------------------------- MODULE DigestThreads ----------------------------
(***************************************************************************)
(* The digest threads of one group of one inbox: src/src/service.ts        *)
(* (materializeInboxEntryForItem to flushDigestThreadLocked, the digest    *)
(* sync, the effects of an ack) over the tables of src/src/store.ts.       *)
(*                                                                         *)
(* An item of a poll either becomes an entry of its own or joins the open  *)
(* thread of its group.  A flush asks the source module whether to publish *)
(* and how to summarise, awaiting it both times, and then publishes the    *)
(* unacked items of the thread as a new snapshot that supersedes the last. *)
(* Appends, flushes and repairs of a group run one at a time, in the order *)
(* they asked for the group lock.  Acks, collection, removals and crashes  *)
(* take no lock and fall between any two awaits.                           *)
(*                                                                         *)
(* Abstractions.  Items have no content; their order is that of sets.  A   *)
(* deadline is null, in the future or past; time may pass at any moment.   *)
(* The module's answers are free, failures included.  Its notification     *)
(* state, stored with a snapshot, is left out.                             *)
(***************************************************************************)
EXTENDS Naturals, Sequences, FiniteSets

CONSTANTS
    Items,       \* matched events
    MaxItems,    \* policy.maxItems
    MaxThreads,  \* bound on threads
    MaxEntries,  \* bound on entries
    MaxPolls,    \* polls of the agent's subscriptions that may run at once
    MaxOps,      \* bound on the operations holding or awaiting the lock
    MaxAging,    \* bound on the passing of maxThreadAgeMs
    MaxCrashes,  \* bound on restarts
    Removable    \* which of "source" and "inbox" a user may remove

ASSUME DigestAssumption ==
    /\ IsFiniteSet(Items)
    /\ {MaxItems, MaxThreads, MaxEntries, MaxPolls, MaxOps, MaxAging, MaxCrashes}
         \subseteq Nat
    /\ MaxItems > 0
    /\ Removable \subseteq {"source", "inbox"}

VARIABLES
    removed,   \* which of the rows of the source and of the inbox are gone
    unseen,    \* events no poll has stored yet
    items,     \* the rows of inbox_items
    acks,      \* the acked ones among them, by acked_at, oldest first
    threads,   \* the rows of digest_threads and digest_thread_items
    entries,   \* the rows of inbox_entries and inbox_entry_items
    deriving,  \* stored items whose grouping is being awaited
    lock,      \* the group lock: its holder and those in wait
    letGo,     \* items the code has given up, see LetGo (history)
    aging, crashes

counters == <<aging, crashes>>
vars == <<removed, unseen, items, acks, threads, entries, deriving, lock, letGo,
          counters>>

-----------------------------------------------------------------------------
ThreadIds == 1..MaxThreads
EntryIds  == 1..MaxEntries

\* old: created maxThreadAgeMs ago.  An id is never used twice.
Thread == [status : {"unused", "open", "closed", "deleted"}, items : SUBSET Items,
           latest : {0} \cup EntryIds, revision : 0..MaxEntries,
           deadline : {"none", "set", "due"}, old : BOOLEAN]

\* An entry of kind item has thread 0; an entry without items has no row.
Entry == [used : BOOLEAN, thread : {0} \cup ThreadIds, revision : 0..MaxEntries,
          items : SUBSET Items, superseded : BOOLEAN]

Op == [kind : {"append", "flush", "reconcile"}, item : SUBSET Items,
       thread : {0} \cup ThreadIds, hint : {"none", "normal", "evaluate", "immediate"},
       phase : {"queued", "gate", "summary"}, candidate : SUBSET Items,
       revision : 0..MaxEntries]

BlankThread == [status |-> "unused", items |-> {}, latest |-> 0, revision |-> 0,
                deadline |-> "none", old |-> FALSE]
BlankEntry == [used |-> FALSE, thread |-> 0, revision |-> 0, items |-> {},
               superseded |-> FALSE]
BlankOp == [kind |-> "flush", item |-> {}, thread |-> 0, hint |-> "none",
            phase |-> "queued", candidate |-> {}, revision |-> 0]

Acked   == UNION {acks[k] : k \in DOMAIN acks}
Open    == {t \in ThreadIds : threads[t].status = "open"}
Rows    == {e \in EntryIds : entries[e].items # {}}
Visible == {e \in Rows : ~entries[e].superseded /\ ~(entries[e].items \subseteq Acked)}

\* What the store lists and counts of a thread.
Unacked(t)   == (threads[t].items \cap items) \ Acked
Published(t) == UNION {entries[e].items : e \in {f \in Rows : entries[f].thread = t}}
Pending(t)   == Unacked(t) \ Published(t)

Unused(t) == threads[t].status = "unused" /\ \A u \in 1..(t - 1) : threads[u].status # "unused"
NextEntry(e) == ~entries[e].used /\ \A f \in 1..(e - 1) : entries[f].used

Queued(kind) == {k \in DOMAIN lock : lock[k].kind = kind /\ lock[k].phase = "queued"}
Waiting == UNION {lock[k].item : k \in Queued("append")}

Init ==
    /\ removed = {}
    /\ unseen = Items
    /\ items = {} /\ acks = <<>>
    /\ threads = [t \in ThreadIds |-> BlankThread]
    /\ entries = [e \in EntryIds |-> BlankEntry]
    /\ deriving = {} /\ lock = <<>>
    /\ letGo = {}
    /\ aging = 0 /\ crashes = 0

-----------------------------------------------------------------------------
(* An item on its way into the inbox. *)

\* A poll stores a matching event and asks for its grouping.
Arrives(i) ==
    /\ i \in unseen
    /\ Cardinality(deriving) + Cardinality({k \in DOMAIN lock : lock[k].kind = "append"})
         < MaxPolls
    /\ unseen' = unseen \ {i}
    /\ items' = items \cup {i}
    /\ deriving' = deriving \cup {i}
    /\ UNCHANGED <<removed, acks, threads, entries, lock, letGo, counters>>

\* Not groupable: it is an entry of its own.
Ungrouped(i) ==
    /\ i \in deriving
    /\ deriving' = deriving \ {i}
    /\ \E e \in EntryIds :
         /\ NextEntry(e)
         /\ entries' = [entries EXCEPT ![e] =
              [BlankEntry EXCEPT !.used = TRUE, !.items = {i}]]
    /\ UNCHANGED <<removed, unseen, items, acks, threads, lock, letGo, counters>>

\* Groupable: it waits for the group lock.
Grouped(i, hint) ==
    /\ i \in deriving
    /\ Len(lock) < MaxOps
    /\ deriving' = deriving \ {i}
    /\ lock' = Append(lock, [BlankOp EXCEPT !.kind = "append", !.item = {i}, !.hint = hint])
    /\ UNCHANGED <<removed, unseen, items, acks, threads, entries, letGo, counters>>

\* The module throws: the poll commits past the event, and no entry is made.
GroupingFails(i) ==
    /\ i \in deriving
    /\ deriving' = deriving \ {i}
    /\ letGo' = letGo \cup {i}
    /\ UNCHANGED <<removed, unseen, items, acks, threads, entries, lock, counters>>

-----------------------------------------------------------------------------
(* Under the lock. *)

Holds(kind, phases) == lock # <<>> /\ Head(lock).kind \in kind /\ Head(lock).phase \in phases
Release == lock' = Tail(lock)

Closed(t) == [threads EXCEPT ![t].status = "closed", ![t].deadline = "none"]

\* An old open thread is left for a new one, unless something in it is pending.
Rotates(t) == threads[t].old /\ Pending(t) = {}
Outgrown   == {t \in Open : Rotates(t)}
Current    == Open \ Outgrown

\* createDigestThread writes the row, addItemToDigestThread its item and deadline.
WithNewThread(t, S) ==
    [u \in ThreadIds |->
        CASE u = t -> [BlankThread EXCEPT !.status = "open", !.items = S, !.deadline = "set"]
          [] u \in Outgrown -> [threads[u] EXCEPT !.status = "closed", !.deadline = "none"]
          [] OTHER -> threads[u]]

\* The operation goes on as a flush of t, whose items are then S: an immediate
\* hint spares the gate.
Flushing(t, S) ==
    [Head(lock) EXCEPT !.thread = t, !.candidate = S, !.revision = threads[t].revision,
        !.phase = IF Head(lock).hint = "immediate" THEN "summary" ELSE "gate"]

\* appendDigestThreadItem, up to the first await of the flush it may lead to.
AppendItem ==
    /\ Holds({"append"}, {"queued"})
    /\ "inbox" \notin removed
    /\ \E t \in ThreadIds :
         LET i == Head(lock).item
             S == IF t \in Current THEN Unacked(t) \cup i ELSE i
             n == Cardinality(IF t \in Current THEN Pending(t) \cup i ELSE i)
             flushes == Head(lock).hint # "normal" \/ n >= MaxItems
         IN  /\ IF Current # {} THEN t \in Current ELSE Unused(t)
             /\ threads' = IF t \in Current
                  THEN [threads EXCEPT ![t].items = @ \cup i, ![t].deadline = "set"]
                  ELSE WithNewThread(t, i)
             /\ IF flushes THEN lock' = <<Flushing(t, S)>> \o Tail(lock) ELSE Release
    /\ UNCHANGED <<removed, unseen, items, acks, entries, deriving, letGo, counters>>

AppendRefused ==
    /\ Holds({"append"}, {"queued"})
    /\ "inbox" \in removed
    /\ Release
    /\ UNCHANGED <<removed, unseen, items, acks, threads, entries, deriving, letGo, counters>>

\* The start of a flush that the digest sync asked for.
FlushSettles ==
    /\ Holds({"flush"}, {"queued"})
    /\ LET t == Head(lock).thread
       IN  /\ t \notin Open \/ "inbox" \in removed \/ Pending(t) = {}
           /\ threads' = IF t \in Open /\ "inbox" \notin removed /\ Unacked(t) = {}
                           THEN Closed(t) ELSE threads
    /\ Release
    /\ UNCHANGED <<removed, unseen, items, acks, entries, deriving, letGo, counters>>

FlushAsks ==
    /\ Holds({"flush"}, {"queued"})
    /\ "inbox" \notin removed
    /\ LET t == Head(lock).thread
       IN  /\ t \in Open /\ Pending(t) # {}
           /\ lock' = <<Flushing(t, Unacked(t))>> \o Tail(lock)
    /\ UNCHANGED <<removed, unseen, items, acks, threads, entries, deriving, letGo, counters>>

\* Mutation: the candidate is not compared again.
CandidateUnchecked == Head(lock).thread \in Open /\ "inbox" \notin removed

\* candidateIsCurrent, of the flush that holds the lock.
CandidateIsCurrent ==
    LET op == Head(lock)
    IN  /\ op.thread \in Open
        /\ threads[op.thread].revision = op.revision
        /\ "inbox" \notin removed
        /\ Unacked(op.thread) = op.candidate

\* retryInvalidCandidate.
Retried(t) ==
    IF t \notin Open THEN threads
    ELSE IF Unacked(t) = {} THEN Closed(t)
    ELSE IF Pending(t) # {} /\ threads[t].deadline = "none"
      THEN [threads EXCEPT ![t].deadline = "set"]
    ELSE threads

\* After either await: something was acked or removed meanwhile.
CandidateIsStale ==
    /\ Holds({"append", "flush"}, {"gate", "summary"})
    /\ ~CandidateIsCurrent
    /\ threads' = Retried(Head(lock).thread)
    /\ Release
    /\ UNCHANGED <<removed, unseen, items, acks, entries, deriving, letGo, counters>>

\* Mutation: a denied flush is not asked for again.
DeniedForGood(t) == [threads EXCEPT ![t].deadline = "none"]

Denied(t) == [threads EXCEPT ![t].deadline = "set"]

GateDenies ==
    /\ Holds({"append", "flush"}, {"gate"})
    /\ CandidateIsCurrent
    /\ threads' = Denied(Head(lock).thread)
    /\ Release
    /\ UNCHANGED <<removed, unseen, items, acks, entries, deriving, letGo, counters>>

GateApproves ==
    /\ Holds({"append", "flush"}, {"gate"})
    /\ CandidateIsCurrent
    /\ lock' = [lock EXCEPT ![1].phase = "summary"]
    /\ UNCHANGED <<removed, unseen, items, acks, threads, entries, deriving, letGo, counters>>

\* Mutation: what a snapshot leaves out loses its deadline.
DeadlineCleared(t, S) == "none"

\* What a snapshot leaves out keeps its deadline.
DeadlineAfter(t, S) ==
    IF Pending(t) \subseteq S THEN "none"
    ELSE IF threads[t].deadline = "none" THEN "due"
    ELSE threads[t].deadline

\* materializeDigestSnapshot, one transaction.
Publish(t, S) ==
    LET past == threads[t].latest
    IN  \E e \in EntryIds :
          /\ NextEntry(e)
          /\ entries' = [f \in EntryIds |->
               CASE f = e -> [used |-> TRUE, thread |-> t, items |-> S, superseded |-> FALSE,
                              revision |-> threads[t].revision + 1]
                 [] f # e /\ f = past -> [entries[f] EXCEPT !.superseded = TRUE]
                 [] OTHER -> entries[f]]
          /\ threads' = [threads EXCEPT ![t].latest = e, ![t].revision = @ + 1,
                                        ![t].deadline = DeadlineAfter(t, S)]

\* A summary that came with the approval is not awaited.
SummaryReady ==
    /\ Holds({"append", "flush"}, {"gate", "summary"})
    /\ CandidateIsCurrent
    /\ Publish(Head(lock).thread, Head(lock).candidate)
    /\ Release
    /\ UNCHANGED <<removed, unseen, items, acks, deriving, letGo, counters>>

\* The module throws: the lock is released, the thread stays as it is.
HookFails ==
    /\ Holds({"append", "flush"}, {"gate", "summary"})
    /\ Release
    /\ UNCHANGED <<removed, unseen, items, acks, threads, entries, deriving, letGo, counters>>

\* reconcileDigestThreadsForInbox: a repair awaits nothing and publishes only
\* what was published before.
ReconcileCloses ==
    /\ Holds({"reconcile"}, {"queued"})
    /\ LET t == Head(lock).thread
       IN  /\ t \in Open
           /\ "source" \in removed \/ Unacked(t) = {}
           /\ threads' = Closed(t)
           /\ letGo' = letGo \cup Pending(t)
    /\ Release
    /\ UNCHANGED <<removed, unseen, items, acks, entries, deriving, counters>>

Known(t) == Unacked(t) \cap Published(t)

\* Mutation: only a set that grew is repaired.
NeedsMore(t) == threads[t].latest # 0 /\ ~(Known(t) \subseteq entries[threads[t].latest].items)

NeedsRepair(t) ==
    /\ threads[t].latest # 0 /\ Known(t) # {}
    /\ Known(t) # entries[threads[t].latest].items

ReconcileRepairs ==
    /\ Holds({"reconcile"}, {"queued"})
    /\ removed = {}
    /\ LET t == Head(lock).thread
       IN  t \in Open /\ NeedsRepair(t) /\ Publish(t, Known(t))
    /\ Release
    /\ UNCHANGED <<removed, unseen, items, acks, deriving, letGo, counters>>

ReconcileSettles ==
    /\ Holds({"reconcile"}, {"queued"})
    /\ LET t == Head(lock).thread
       IN  \/ t \notin Open
           \/ "source" \notin removed /\ Unacked(t) # {} /\ ~NeedsRepair(t)
    /\ Release
    /\ UNCHANGED <<removed, unseen, items, acks, threads, entries, deriving, letGo, counters>>

-----------------------------------------------------------------------------
(* Without the lock. *)

\* syncPendingDigestThreads, of a thread it found due.
SyncFlushes(t) ==
    /\ t \in Open /\ threads[t].deadline = "due"
    /\ "source" \notin removed
    /\ Len(lock) < MaxOps
    /\ lock' = Append(lock, [BlankOp EXCEPT !.kind = "flush", !.thread = t])
    /\ UNCHANGED <<removed, unseen, items, acks, threads, entries, deriving, letGo, counters>>

SyncCloses(t) ==
    /\ t \in Open /\ threads[t].deadline = "due"
    /\ "source" \in removed
    /\ threads' = Closed(t)
    /\ letGo' = letGo \cup Pending(t)
    /\ UNCHANGED <<removed, unseen, items, acks, entries, deriving, lock, counters>>

\* The items of the named entries are acked, and the open thread is to be looked
\* at: ackInboxEntries and the first steps of handleInboxAckEffects.
Ack(E) ==
    LET now == ((UNION {entries[e].items : e \in E}) \cap items) \ Acked
    IN  /\ "inbox" \notin removed
        /\ now # {}
        /\ acks' = Append(acks, now)
        /\ \/ Open = {} /\ UNCHANGED lock
           \/ \E t \in Open :
                /\ Len(lock) < MaxOps
                /\ lock' = Append(lock, [BlankOp EXCEPT !.kind = "reconcile", !.thread = t])
        /\ UNCHANGED <<removed, unseen, items, threads, entries, deriving, letGo, counters>>

\* An entry by its id, superseded or not, or all that are visible through one.
Boundaries == {{e} : e \in Rows} \cup {{f \in Visible : f <= e} : e \in Rows}
Acks == \E E \in Boundaries : Ack(E)

\* deleteInboxItemsAndEntryArtifacts, of the first n acks.
Kept(n) == items \ UNION {acks[k] : k \in 1..n}

\* Mutation: an entry goes with the first of its items.
EntriesWhole(S) ==
    [e \in EntryIds |->
        IF entries[e].items \subseteq S THEN entries[e]
        ELSE [BlankEntry EXCEPT !.used = entries[e].used]]

EntriesKeeping(S) ==
    [e \in EntryIds |->
        IF entries[e].items \cap S = {}
          THEN [BlankEntry EXCEPT !.used = entries[e].used]
          ELSE [entries[e] EXCEPT !.items = @ \cap S]]

\* Mutations: the order is the wrong way round, or there is no update.
FirstSnapshot(E) ==
    IF E = {} THEN 0
    ELSE CHOOSE e \in E : \A f \in E : entries[e].revision <= entries[f].revision
NoSnapshot(E) == 0

LastSnapshot(E) ==
    IF E = {} THEN 0
    ELSE CHOOSE e \in E : \A f \in E : entries[f].revision <= entries[e].revision

ThreadKeeping(t, S) ==
    LET left == {e \in EntryIds : entries[e].thread = t /\ entries[e].items \cap S # {}}
        top  == LastSnapshot(left)
    IN  IF threads[t].status \in {"unused", "deleted"} THEN threads[t]
        ELSE IF left = {} /\ threads[t].items \cap S = {}
          THEN [BlankThread EXCEPT !.status = "deleted"]
        ELSE [threads[t] EXCEPT !.items = @ \cap S, !.latest = top,
                !.revision = IF top = 0 THEN 0 ELSE entries[top].revision]

Collects(n) ==
    /\ n \in 1..Len(acks)
    /\ items' = Kept(n)
    /\ acks' = SubSeq(acks, n + 1, Len(acks))
    /\ entries' = EntriesKeeping(Kept(n))
    /\ threads' = [t \in ThreadIds |-> ThreadKeeping(t, Kept(n))]
    /\ UNCHANGED <<removed, unseen, deriving, lock, letGo, counters>>

DeadlinePasses(t) ==
    /\ t \in Open /\ threads[t].deadline = "set"
    /\ threads' = [threads EXCEPT ![t].deadline = "due"]
    /\ UNCHANGED <<removed, unseen, items, acks, entries, deriving, lock, letGo, counters>>

ThreadAges(t) ==
    /\ t \in Open /\ ~threads[t].old
    /\ aging < MaxAging
    /\ aging' = aging + 1
    /\ threads' = [threads EXCEPT ![t].old = TRUE]
    /\ UNCHANGED <<removed, unseen, items, acks, entries, deriving, lock, letGo, crashes>>

\* removeSource leaves the digest threads of the source; deleteAgent deletes the
\* items of the inbox and leaves its threads and entries.
RemoveSource ==
    /\ "source" \in Removable \ removed
    /\ removed' = removed \cup {"source"}
    /\ UNCHANGED <<unseen, items, acks, threads, entries, deriving, lock, letGo, counters>>

RemoveInbox ==
    /\ "inbox" \in Removable \ removed
    /\ removed' = removed \cup {"inbox"}
    /\ items' = {} /\ acks' = <<>>
    /\ UNCHANGED <<unseen, threads, entries, deriving, lock, letGo, counters>>

\* The polls and the lock are lost.  An event whose item is stored is a duplicate
\* to the poll that reads it again.  createDigestThread may have written the
\* thread and addItemToDigestThread not yet the item.
Crash ==
    /\ crashes < MaxCrashes
    /\ crashes' = crashes + 1
    /\ letGo' = letGo \cup deriving \cup Waiting
    /\ deriving' = {} /\ lock' = <<>>
    /\ \/ UNCHANGED threads
       \/ /\ Holds({"append"}, {"queued"}) /\ "inbox" \notin removed /\ Current = {}
          /\ \E t \in ThreadIds : Unused(t) /\ threads' = WithNewThread(t, {})
    /\ UNCHANGED <<removed, unseen, items, acks, entries, aging>>

-----------------------------------------------------------------------------
Materialize ==
    \E i \in Items :
        \/ Arrives(i) \/ Ungrouped(i) \/ GroupingFails(i)
        \/ \E hint \in {"normal", "evaluate", "immediate"} : Grouped(i, hint)
Flush ==
    \/ AppendItem \/ AppendRefused \/ FlushSettles \/ FlushAsks
    \/ CandidateIsStale \/ GateDenies \/ GateApproves \/ SummaryReady \/ HookFails
Reconcile == ReconcileCloses \/ ReconcileRepairs \/ ReconcileSettles
Sync == \E t \in ThreadIds : SyncFlushes(t) \/ SyncCloses(t)
Time == \E t \in ThreadIds : DeadlinePasses(t) \/ ThreadAges(t)
Collect == \E n \in DOMAIN acks : Collects(n)

Next ==
    \/ Materialize \/ Flush \/ Reconcile \/ Sync \/ Time
    \/ Acks \/ Collect \/ RemoveSource \/ RemoveInbox \/ Crash

Spec == Init /\ [][Next]_vars

Derived == \E i \in Items : \/ Ungrouped(i) \/ GroupingFails(i)
                            \/ \E hint \in {"normal", "evaluate", "immediate"} : Grouped(i, hint)

\* Awaits end, the sync interval and deadlines come round, and a module that is
\* asked again and again publishes in the end.
Fairness ==
    /\ WF_vars(Derived) /\ WF_vars(Flush \/ Reconcile)
    /\ SF_vars(SummaryReady)
    /\ \A t \in ThreadIds :
         SF_vars(SyncFlushes(t)) /\ WF_vars(SyncCloses(t)) /\ WF_vars(DeadlinePasses(t))

FairSpec == Spec /\ Fairness

-----------------------------------------------------------------------------
(* Properties. *)

\* Types, and the references of the rows to one another: the latest entry of a
\* thread exists, carries its revision, and is the last of its snapshots.  The
\* collection of old items must keep latest_entry_id and latest_revision so.
TypeOK ==
    /\ removed \subseteq Removable
    /\ unseen \subseteq Items /\ items \subseteq Items
    /\ deriving \subseteq Items /\ letGo \subseteq Items
    /\ acks \in Seq(SUBSET items)
    /\ threads \in [ThreadIds -> Thread]
    /\ entries \in [EntryIds -> Entry]
    /\ lock \in Seq(Op) /\ Len(lock) <= MaxOps
    /\ aging \in 0..MaxAging /\ crashes \in 0..MaxCrashes
    /\ \A t \in ThreadIds :
         LET S == {e \in Rows : entries[e].thread = t}
         IN  threads[t].latest \in (IF S = {} THEN {0} ELSE S) /\ \A e \in S :
               /\ e <= threads[t].latest
               /\ entries[e].revision <= threads[t].revision

\* An unacked item is never lost to its reader: it is still on its way, or in a
\* visible entry, or pending in an open thread that has a deadline, across
\* flushes, stale candidates, partial acks, repairs, rotation and collection.
LetGo(i) == i \in letGo
NothingLost ==
    "inbox" \notin removed =>
      \A i \in items \ Acked :
        \/ i \in deriving \cup Waiting
        \/ \E e \in Visible : i \in entries[e].items
        \/ \E t \in Open : i \in Pending(t) /\ threads[t].deadline # "none"
        \/ LetGo(i)

\* A reader never sees two snapshots of one thread, and a group has one open
\* thread, whatever the order of flushes, repairs, rotations and collections.
OneVisible ==
    /\ \A e, f \in Visible :
         entries[e].thread # 0 /\ entries[e].thread = entries[f].thread => e = f
    /\ \A t, u \in Open : t = u

\* With the types of all variables.
EntriesAreSound == TypeOK /\ OneVisible

\* What is published is what there is to read when it is committed, not when
\* the module was asked: no acked item comes back, no published one is dropped.
SnapshotsAreCurrent ==
    [][\A e \in EntryIds : ~entries[e].used /\ entries'[e].used /\ entries'[e].thread # 0 =>
         LET t == entries'[e].thread
         IN  entries'[e].items \in {Unacked(t), Known(t)}]_vars

\* An unacked item that was in a snapshot of its thread stays so: superseding,
\* repair and collection never turn it back into a new one.
StaysPublished ==
    [][\A t \in ThreadIds : Known(t) \cap items' \subseteq Published(t)']_vars

\* An item in wait in an open thread is published, acked or given up in the end.
Surfaces ==
    \A i \in Items :
      (\E t \in Open : i \in Pending(t)) ~> ~(\E t \in Open : i \in Pending(t))

\* The snapshot a reader sees of an open thread is repaired after an ack of some
\* of its items, unless a restart forgets it.
ShowsAcked(t) ==
    /\ t \in Open /\ threads[t].latest \in Visible
    /\ entries[threads[t].latest].items \cap Acked # {}
AcksAreRepaired ==
    \A t \in ThreadIds :
      ShowsAcked(t) /\ removed = {} ~> ~ShowsAcked(t) \/ removed # {} \/ crashes > 0

\* The RFC lets a cleanup flush what is pending.  The code closes the thread of a
\* removed source, at its deadline or at the next ack, and what was pending in
\* it is in no entry.  NOT a property of the code: no thread is closed with something
\* pending.
CleanupFlushes ==
    [][\A t \in Open : t \notin Open' /\ "inbox" \notin removed => Pending(t) = {}]_vars
=============================================================================
