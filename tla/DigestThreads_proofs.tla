------------------------- MODULE DigestThreads_proofs -------------------------
(***************************************************************************)
(* Proofs of the safety properties of DigestThreads, for any number of     *)
(* items, threads, entries, polls and operations.                          *)
(*                                                                         *)
(* The inductive invariant has a part per table.  ThreadsOK: the snapshots *)
(* of a thread have rising revisions, only its latest one is not           *)
(* superseded, and they hold items of the thread.  QueueOK: what waits for *)
(* the lock or was taken up under it can still be published.  AcksOK and   *)
(* ArrivingOK: an item is acked once, and one that is still on its way is  *)
(* in no thread and in no entry, so that it cannot pass for published.     *)
(***************************************************************************)
EXTENDS DigestThreads, FiniteSetTheorems, WellFoundedInduction, TLAPS

-----------------------------------------------------------------------------
(* The inductive invariant *)

\* A snapshot belongs to its thread, and is superseded unless it is the latest.
SnapshotOK(e) ==
    LET t == entries[e].thread
    IN  t # 0 => /\ entries[e].items # {} /\ entries[e].items \subseteq threads[t].items
                 /\ e # threads[t].latest => entries[e].superseded

ThreadsOK ==
    /\ \A e \in EntryIds :
          /\ ~entries[e].used => entries[e] = BlankEntry
          /\ SnapshotOK(e)
          /\ \A f \in 1..(e - 1) : entries[e].used => entries[f].used
    /\ \A e, f \in Rows : entries[e].thread = entries[f].thread /\ entries[e].thread # 0 /\ e < f
          => entries[e].revision < entries[f].revision
    /\ \A t \in ThreadIds :
          /\ \A e \in EntryIds : ~entries[e].used => threads[t].revision < e
          /\ threads[t].status \in {"unused", "deleted"}
                => threads[t].items = {} /\ threads[t].latest = 0
    /\ \A t, u \in Open : t = u

OpOK(op) ==
    /\ op.kind = "append" <=> op.item # {}
    /\ op.phase # "queued" => op.candidate # {}

\* The queued appends of a queue, and the items they bring.
Appends(q)  == {k \in DOMAIN q : q[k].kind = "append" /\ q[k].phase = "queued"}
Bringing(q) == UNION {q[k].item : k \in Appends(q)}

QueueOK(q) ==
    /\ \A k \in DOMAIN q : OpOK(q[k])
    /\ \A j, k \in Appends(q) : j # k => q[j].item \cap q[k].item = {}

AcksOK == \A j, k \in DOMAIN acks : j # k => acks[j] \cap acks[k] = {}

\* An item on its way is at one place only.
ArrivingOK ==
    /\ unseen \cap deriving = {} /\ unseen \cap Waiting = {} /\ deriving \cap Waiting = {}
    /\ \A t \in ThreadIds : threads[t].items \cap (unseen \cup deriving \cup Waiting) = {}
    /\ \A e \in EntryIds : entries[e].items \cap (unseen \cup deriving \cup Waiting) = {}

Inv == ThreadsOK /\ QueueOK(lock) /\ AcksOK /\ ArrivingOK

IInv == TypeOK /\ Inv /\ NothingLost

-----------------------------------------------------------------------------
(* Types *)

\* TypeOK, by table.
TableTypes == threads \in [ThreadIds -> Thread] /\ entries \in [EntryIds -> Entry]

LatestOK(t) ==
    LET S == {e \in Rows : entries[e].thread = t}
    IN  threads[t].latest \in (IF S = {} THEN {0} ELSE S) /\ \A e \in S :
          /\ e <= threads[t].latest
          /\ entries[e].revision <= threads[t].revision

Tables == TableTypes /\ (\A t \in ThreadIds : LatestOK(t)) /\ ThreadsOK

LockTypes == lock \in Seq(Op) /\ Len(lock) <= MaxOps

ItemTypes ==
    /\ removed \subseteq Removable
    /\ unseen \subseteq Items /\ items \subseteq Items
    /\ deriving \subseteq Items /\ letGo \subseteq Items
    /\ aging \in 0..MaxAging /\ crashes \in 0..MaxCrashes

AckTypes == acks \in Seq(SUBSET items)

\* The tables together are TypeOK.
LEMMA TypesByTable ==
    TypeOK /\ ThreadsOK <=> Tables /\ LockTypes /\ ItemTypes /\ AckTypes
  BY DEF TypeOK, Tables, TableTypes, LatestOK, LockTypes, ItemTypes, AckTypes

\* The bounds are natural numbers.
LEMMA BoundsAreNaturals ==
    /\ MaxThreads \in Nat /\ MaxEntries \in Nat /\ MaxOps \in Nat
    /\ MaxAging \in Nat /\ MaxCrashes \in Nat
  BY DigestAssumption

\* The parts of a thread.
LEMMA ThreadParts ==
    ASSUME TableTypes, NEW t \in ThreadIds
    PROVE  /\ threads[t] \in Thread
           /\ threads[t].status \in {"unused", "open", "closed", "deleted"}
           /\ threads[t].items \subseteq Items
           /\ threads[t].latest \in {0} \cup EntryIds
           /\ threads[t].revision \in 0..MaxEntries
           /\ threads[t].deadline \in {"none", "set", "due"}
           /\ threads[t].old \in BOOLEAN
  BY DEF TableTypes, Thread

\* The parts of an entry.
LEMMA EntryParts ==
    ASSUME TableTypes, NEW e \in EntryIds
    PROVE  /\ entries[e] \in Entry
           /\ entries[e].used \in BOOLEAN
           /\ entries[e].thread \in {0} \cup ThreadIds
           /\ entries[e].revision \in 0..MaxEntries
           /\ entries[e].items \subseteq Items
           /\ entries[e].superseded \in BOOLEAN
  BY DEF TableTypes, Entry

\* The blank rows have types.
LEMMA BlanksAreTyped ==
    BlankThread \in Thread /\ BlankEntry \in Entry /\ BlankOp \in Op
<1>1. 0 \in 0..MaxEntries
  BY BoundsAreNaturals
<1> QED BY <1>1 DEF BlankThread, Thread, BlankEntry, Entry, BlankOp, Op

\* An entry that is not in use is blank, and so is no row.
LEMMA RowsAreUsed ==
    ASSUME ThreadsOK, NEW e \in EntryIds, ~entries[e].used
    PROVE  e \notin Rows /\ entries[e].items = {} /\ entries[e].thread = 0
  BY DEF ThreadsOK, Rows, BlankEntry

-----------------------------------------------------------------------------
(* Threads and entries *)

\* A thread may get an item while it is open, and may be closed.
Steady(t) ==
    /\ threads[t].items \subseteq threads'[t].items
    /\ threads'[t].latest = threads[t].latest
    /\ threads'[t].revision = threads[t].revision
    /\ \/ threads'[t].status = threads[t].status
       \/ threads[t].status = "open" /\ threads'[t].status = "closed"
    /\ threads[t].status # "open" => threads'[t].items = threads[t].items

\* Steady threads keep the tables as they must be.
LEMMA SteadyTables ==
    ASSUME Tables, threads' \in [ThreadIds -> Thread], \A t \in ThreadIds : Steady(t),
           entries' = entries
    PROVE  Tables'
<1>1. TableTypes'
  BY DEF Tables, TableTypes
<1>2. Rows' = Rows
  BY DEF Rows
<1>3. ASSUME NEW t \in ThreadIds PROVE LatestOK(t)'
  BY <1>2 DEF Tables, LatestOK, Steady
<1>4. ASSUME NEW e \in EntryIds PROVE SnapshotOK(e)'
  <2>1. entries[e].thread \in {0} \cup ThreadIds
    BY EntryParts DEF Tables
  <2> QED BY <2>1 DEF Tables, ThreadsOK, SnapshotOK, Steady
<1>5. \A t, u \in Open' : t = u
  BY DEF Tables, ThreadsOK, Open, Steady
<1>6. ASSUME NEW t \in ThreadIds
      PROVE  /\ \A e \in EntryIds : ~entries'[e].used => threads'[t].revision < e
             /\ threads'[t].status \in {"unused", "deleted"}
                   => threads'[t].items = {} /\ threads'[t].latest = 0
  BY DEF Tables, ThreadsOK, Steady
<1>7. ThreadsOK'
  BY <1>2, <1>4, <1>5, <1>6 DEF Tables, ThreadsOK
<1> QED BY <1>1, <1>3, <1>7 DEF Tables

\* Most steps leave them alone.
LEMMA UnchangedTables ==
    ASSUME Tables, UNCHANGED <<threads, entries>>
    PROVE  Tables'
<1>1. threads' \in [ThreadIds -> Thread] /\ \A t \in ThreadIds : Steady(t)
  BY DEF Tables, TableTypes, Steady
<1> QED BY <1>1, SteadyTables

\* Closing a thread, or setting its deadline.
LEMMA TouchedTables ==
    ASSUME Tables, NEW t \in ThreadIds, entries' = entries,
           \/ t \in Open /\ threads' = Closed(t)
           \/ \E d \in {"none", "set", "due"} : threads' = [threads EXCEPT ![t].deadline = d]
           \/ threads' = [threads EXCEPT ![t].old = TRUE]
    PROVE  Tables' /\ \A u \in ThreadIds : Steady(u) /\ threads'[u].items = threads[u].items
<1>1. ASSUME NEW u \in ThreadIds PROVE Steady(u) /\ threads'[u].items = threads[u].items
  BY DEF Tables, TableTypes, Closed, Steady, Open, Thread
<1>2. threads' \in [ThreadIds -> Thread]
  <2>1. threads \in [ThreadIds -> Thread]
    BY DEF Tables, TableTypes
  <2>2. ASSUME NEW d \in {"none", "set", "due"}, threads' = [threads EXCEPT ![t].deadline = d]
        PROVE  threads' \in [ThreadIds -> Thread]
    <3>1. [threads[t] EXCEPT !.deadline = d] \in Thread
      BY <2>1 DEF Thread
    <3> QED BY <2>1, <2>2, <3>1
  <2>3. CASE threads' = [threads EXCEPT ![t].old = TRUE]
    <3>1. [threads[t] EXCEPT !.old = TRUE] \in Thread
      BY <2>1 DEF Thread
    <3> QED BY <2>1, <2>3, <3>1
  <2>4. CASE threads' = Closed(t)
    <3>1. [[threads[t] EXCEPT !.status = "closed"] EXCEPT !.deadline = "none"] \in Thread
      BY <2>1, ZenonT(30) DEF Thread
    <3>2. threads' = [threads EXCEPT ![t] =
                        [[threads[t] EXCEPT !.status = "closed"] EXCEPT !.deadline = "none"]]
      BY <2>1, <2>4 DEF Closed
    <3> QED BY <2>1, <3>1, <3>2
  <2> QED BY <2>2, <2>3, <2>4
<1> QED BY <1>1, <1>2, SteadyTables

\* An item joins the current thread.
LEMMA JoinedTables ==
    ASSUME Tables, NEW t \in Open, NEW S \in SUBSET Items, entries' = entries,
           threads' = [threads EXCEPT ![t].items = @ \cup S, ![t].deadline = "set"]
    PROVE  Tables'
<1>1. ASSUME NEW u \in ThreadIds PROVE Steady(u)
  BY DEF Tables, TableTypes, Steady, Open, Thread
<1>2. threads' \in [ThreadIds -> Thread]
  <2>1. threads \in [ThreadIds -> Thread] /\ t \in ThreadIds
    BY DEF Tables, TableTypes, Open
  <2>2. [[threads[t] EXCEPT !.items = @ \cup S] EXCEPT !.deadline = "set"] \in Thread
    BY <2>1 DEF Thread
  <2>3. threads' = [threads EXCEPT ![t] =
                      [[threads[t] EXCEPT !.items = @ \cup S] EXCEPT !.deadline = "set"]]
    BY <2>1
  <2> QED BY <2>1, <2>2, <2>3
<1> QED BY <1>1, <1>2, SteadyTables

\* A thread that is unused or deleted has no snapshot.
LEMMA NoSnapshots ==
    ASSUME Tables, NEW t \in ThreadIds, threads[t].latest = 0
    PROVE  \A e \in EntryIds : entries[e].thread # t
<1>1. 0 \notin EntryIds /\ t # 0
  BY BoundsAreNaturals DEF EntryIds, ThreadIds
<1>2. {e \in Rows : entries[e].thread = t} = {}
  BY <1>1 DEF Tables, LatestOK, Rows
<1> QED BY <1>1, <1>2 DEF Tables, ThreadsOK, SnapshotOK, Rows

\* A new thread takes the place of those that are too old.
LEMMA NewThreadTables ==
    ASSUME Tables, NEW t \in ThreadIds, Unused(t), Current = {}, NEW S \in SUBSET Items,
           threads' = WithNewThread(t, S), entries' = entries
    PROVE  Tables'
<1>0. TableTypes
  BY DEF Tables
<1>1. threads[t].status = "unused" /\ threads[t].latest = 0 /\ t \notin Open
  BY DEF Unused, Tables, ThreadsOK, Open
<1>2. /\ threads'[t] = [BlankThread EXCEPT !.status = "open", !.items = S, !.deadline = "set"]
      /\ threads'[t].items = S /\ threads'[t].status = "open" /\ threads'[t].latest = 0
      /\ threads'[t].revision = 0
  <2>1. t \notin Outgrown
    BY <1>1 DEF Outgrown
  <2>2. threads'[t] = [BlankThread EXCEPT !.status = "open", !.items = S, !.deadline = "set"]
    BY <2>1 DEF WithNewThread
  <2> QED BY <2>2 DEF BlankThread
<1>3. ASSUME NEW u \in ThreadIds, u # t
      PROVE  Steady(u) /\ u \notin Open' /\ threads'[u].items = threads[u].items
  <2>1. CASE u \in Outgrown
    <3>1. threads'[u] = [threads[u] EXCEPT !.status = "closed", !.deadline = "none"]
      BY <1>3, <2>1 DEF WithNewThread
    <3>2. threads[u].status = "open"
      BY <2>1 DEF Outgrown, Open
    <3> QED BY <1>0, <3>1, <3>2, ThreadParts DEF Steady, Open, Thread
  <2>2. CASE u \notin Outgrown
    <3>1. threads'[u] = threads[u]
      BY <1>3, <2>2 DEF WithNewThread
    <3>2. u \notin Open
      BY <2>2 DEF Current
    <3> QED BY <3>1, <3>2 DEF Steady, Open
  <2> QED BY <2>1, <2>2
<1>4. TableTypes'
  <2>1. ASSUME NEW u \in ThreadIds PROVE threads'[u] \in Thread
    <3>1. CASE u = t
      <4>1. BlankThread \in Thread
        BY BlanksAreTyped
      <4>2. [BlankThread EXCEPT !.status = "open", !.items = S, !.deadline = "set"] \in Thread
        BY <4>1 DEF Thread
      <4> QED BY <1>2, <3>1, <4>2
    <3>2. CASE u # t /\ u \in Outgrown
      <4>1. threads'[u] = [threads[u] EXCEPT !.status = "closed", !.deadline = "none"]
        BY <3>2 DEF WithNewThread
      <4> QED BY <1>0, <4>1, ThreadParts DEF Thread
    <3>3. CASE u # t /\ u \notin Outgrown
      <4>1. threads'[u] = threads[u]
        BY <3>3 DEF WithNewThread
      <4> QED BY <1>0, <4>1, ThreadParts
    <3> QED BY <3>1, <3>2, <3>3
  <2>2. threads' = [u \in ThreadIds |-> threads'[u]]
    <3> DEFINE F(u) == CASE u = t -> [BlankThread EXCEPT !.status = "open", !.items = S,
                                                         !.deadline = "set"]
                         [] u \in Outgrown -> [threads[u] EXCEPT !.status = "closed",
                                                                 !.deadline = "none"]
                         [] OTHER -> threads[u]
    <3>1. threads' = [u \in ThreadIds |-> F(u)]
      BY DEF WithNewThread
    <3> HIDE DEF F
    <3> QED BY <3>1
  <2> QED BY <1>0, <2>1, <2>2 DEF TableTypes
<1>5. Rows' = Rows
  BY DEF Rows
<1>6. \A e \in EntryIds : entries[e].thread # t
  BY <1>1, NoSnapshots
<1>7. ASSUME NEW u \in ThreadIds PROVE LatestOK(u)'
  <2>1. CASE u = t
    <3>1. {e \in Rows : entries[e].thread = t} = {}
      BY <1>6 DEF Rows
    <3> QED BY <1>2, <1>5, <2>1, <3>1 DEF LatestOK
  <2>2. CASE u # t
    BY <1>3, <1>5, <2>2, ZenonT(30) DEF Tables, LatestOK, Steady
  <2> QED BY <2>1, <2>2
<1>8. ASSUME NEW e \in EntryIds PROVE SnapshotOK(e)'
  <2>1. entries[e].thread \in {0} \cup ThreadIds /\ entries[e].thread # t
    BY <1>0, <1>6, EntryParts
  <2> QED BY <1>3, <2>1 DEF Tables, ThreadsOK, SnapshotOK, Steady
<1>9. ASSUME NEW u \in ThreadIds
      PROVE  /\ \A e \in EntryIds : ~entries'[e].used => threads'[u].revision < e
             /\ threads'[u].status \in {"unused", "deleted"}
                   => threads'[u].items = {} /\ threads'[u].latest = 0
  <2>1. CASE u = t
    <3>1. \A e \in EntryIds : 0 < e
      BY BoundsAreNaturals DEF EntryIds
    <3> QED BY <1>2, <2>1, <3>1
  <2>2. CASE u # t
    BY <1>3, <2>2 DEF Tables, ThreadsOK, Steady
  <2> QED BY <2>1, <2>2
<1>10. \A u, v \in Open' : u = v
  BY <1>3 DEF Open
<1>11. ThreadsOK'
  BY <1>5, <1>8, <1>9, <1>10 DEF Tables, ThreadsOK
<1> QED BY <1>4, <1>7, <1>11 DEF Tables

\* An entry that takes the next id, of an item that is not grouped.
LEMMA SingleTables ==
    ASSUME Tables, NEW e \in EntryIds, NextEntry(e), NEW i \in Items, threads' = threads,
           entries' = [entries EXCEPT ![e] = [BlankEntry EXCEPT !.used = TRUE, !.items = {i}]]
    PROVE  Tables'
<1>0. TableTypes
  BY DEF Tables
<1>1. /\ entries'[e] = [BlankEntry EXCEPT !.used = TRUE, !.items = {i}]
      /\ \A f \in EntryIds \ {e} : entries'[f] = entries[f]
  BY <1>0 DEF TableTypes
<1>2. entries'[e].thread = 0 /\ entries'[e].used /\ entries'[e].items = {i}
  BY <1>1, ZenonT(30) DEF BlankEntry
<1>3. TableTypes'
  <2>2. BlankEntry \in Entry
    BY BlanksAreTyped
  <2>3. [BlankEntry EXCEPT !.used = TRUE, !.items = {i}] \in Entry
    BY <2>2 DEF Entry
  <2> QED BY <1>0, <2>3 DEF TableTypes
<1>4. Rows' = Rows \cup {e} /\ e \notin Rows
  <2>1. ~entries[e].used
    BY DEF NextEntry
  <2>2. e \notin Rows
    BY <2>1, RowsAreUsed DEF Tables
  <2> QED BY <1>1, <1>2, <2>2 DEF Rows
<1>5. ASSUME NEW t \in ThreadIds PROVE LatestOK(t)'
  <2>1. t # 0
    BY DEF ThreadIds
  <2>2. {f \in Rows' : entries'[f].thread = t} = {f \in Rows : entries[f].thread = t}
    BY <1>1, <1>2, <1>4, <2>1 DEF Rows
  <2>3. \A f \in Rows : entries'[f] = entries[f]
    BY <1>1, <1>4 DEF Rows
  <2> QED BY <2>2, <2>3 DEF Tables, LatestOK
<1>6. ASSUME NEW f \in EntryIds
      PROVE  /\ ~entries'[f].used => entries'[f] = BlankEntry
             /\ SnapshotOK(f)'
             /\ \A g \in 1..(f - 1) : entries'[f].used => entries'[g].used
  <2>1. (~entries'[f].used => entries'[f] = BlankEntry) /\ SnapshotOK(f)'
    BY <1>1, <1>2 DEF Tables, ThreadsOK, SnapshotOK
  <2>2. \A g \in EntryIds : entries'[g].used <=> entries[g].used \/ g = e
    BY <1>1, <1>2
  <2>3. \A g \in 1..(f - 1) : g \in EntryIds
    BY BoundsAreNaturals DEF EntryIds
  <2>4. \A g \in 1..(f - 1) : entries[f].used \/ f = e => entries[g].used
    BY DEF Tables, ThreadsOK, NextEntry
  <2> QED BY <2>1, <2>2, <2>3, <2>4
<1>7. \A f, g \in Rows' :
         entries'[f].thread = entries'[g].thread /\ entries'[f].thread # 0 /\ f < g
             => entries'[f].revision < entries'[g].revision
  BY <1>1, <1>2, <1>4 DEF Tables, ThreadsOK, Rows
<1>8. \A t \in ThreadIds : \A f \in EntryIds : ~entries'[f].used => threads'[t].revision < f
  BY <1>1, <1>2 DEF Tables, ThreadsOK
<1>9. Open' = Open
  BY DEF Open
<1>10. ThreadsOK'
  BY <1>6, <1>7, <1>8, <1>9 DEF Tables, ThreadsOK
<1> QED BY <1>3, <1>5, <1>10 DEF Tables

\* An entry that is not in use comes after all that are.
LEMMA UsedBeforeUnused ==
    ASSUME ThreadsOK, NEW e \in EntryIds, NEW f \in EntryIds, entries[f].used, ~entries[e].used
    PROVE  f < e
<1>1. e \in Nat /\ f \in Nat /\ e \in 1..MaxEntries
  BY BoundsAreNaturals DEF EntryIds
<1>2. e \notin 1..(f - 1)
  BY DEF ThreadsOK
<1>3. e # f
  OBVIOUS
<1> QED BY <1>1, <1>2, <1>3 DEF EntryIds

\* What a snapshot of t writes.
LEMMA PublishFacts ==
    ASSUME Tables, NEW t \in Open, NEW S \in SUBSET threads[t].items, Publish(t, S)
    PROVE  \E e \in EntryIds :
              /\ NextEntry(e)
              /\ entries'[e] = [used |-> TRUE, thread |-> t, items |-> S, superseded |-> FALSE,
                                revision |-> threads[t].revision + 1]
              /\ e # threads[t].latest
              /\ \A f \in EntryIds \ {e} :
                    /\ f # threads[t].latest => entries'[f] = entries[f]
                    /\ f = threads[t].latest =>
                          entries'[f] = [entries[f] EXCEPT !.superseded = TRUE]
              /\ threads'[t] = [threads[t] EXCEPT !.latest = e, !.revision = @ + 1,
                                                  !.deadline = DeadlineAfter(t, S)]
              /\ \A u \in ThreadIds \ {t} : threads'[u] = threads[u]
              /\ threads' = [u \in ThreadIds |-> threads'[u]]
              /\ entries' = [f \in EntryIds |-> entries'[f]]
<1>0. TableTypes /\ t \in ThreadIds
  BY DEF Tables, Open
<1> DEFINE past == threads[t].latest
           F(e, f) == CASE f = e -> [used |-> TRUE, thread |-> t, items |-> S,
                                     superseded |-> FALSE,
                                     revision |-> threads[t].revision + 1]
                        [] f # e /\ f = past -> [entries[f] EXCEPT !.superseded = TRUE]
                        [] OTHER -> entries[f]
<1>1. PICK e \in EntryIds :
         /\ NextEntry(e)
         /\ entries' = [f \in EntryIds |-> F(e, f)]
         /\ threads' = [threads EXCEPT ![t].latest = e, ![t].revision = @ + 1,
                                       ![t].deadline = DeadlineAfter(t, S)]
  BY DEF Publish
<1>2. e # past
  <2>1. ~entries[e].used
    BY <1>1 DEF NextEntry
  <2>2. e \notin Rows /\ e # 0
    BY <2>1, RowsAreUsed DEF Tables, EntryIds
  <2> QED BY <1>0, <2>2 DEF Tables, LatestOK
<1>3. F(e, e) = [used |-> TRUE, thread |-> t, items |-> S, superseded |-> FALSE,
                 revision |-> threads[t].revision + 1]
  OBVIOUS
<1>4. \A f \in EntryIds \ {e} :
         /\ f # past => F(e, f) = entries[f]
         /\ f = past => F(e, f) = [entries[f] EXCEPT !.superseded = TRUE]
  OBVIOUS
<1>5. entries' = [f \in EntryIds |-> entries'[f]] /\ \A f \in EntryIds : entries'[f] = F(e, f)
  <2> HIDE DEF F
  <2> QED BY <1>1
<1>6. /\ threads'[t] = [threads[t] EXCEPT !.latest = e, !.revision = @ + 1,
                                          !.deadline = DeadlineAfter(t, S)]
      /\ \A u \in ThreadIds \ {t} : threads'[u] = threads[u]
      /\ threads' = [u \in ThreadIds |-> threads'[u]]
  BY <1>0, <1>1 DEF TableTypes
<1> HIDE DEF F
<1> QED BY <1>1, <1>2, <1>3, <1>4, <1>5, <1>6

\* materializeDigestSnapshot, of what belongs to the thread.
LEMMA PublishTables ==
    ASSUME Tables, NEW t \in Open, NEW S \in SUBSET threads[t].items, S # {}, Publish(t, S)
    PROVE  Tables'
<1>0. TableTypes /\ t \in ThreadIds /\ t # 0
  BY DEF Tables, Open, ThreadIds
<1> DEFINE past == threads[t].latest
<1>1. PICK e \in EntryIds :
              /\ NextEntry(e)
              /\ entries'[e] = [used |-> TRUE, thread |-> t, items |-> S, superseded |-> FALSE,
                                revision |-> threads[t].revision + 1]
              /\ e # past
              /\ \A f \in EntryIds \ {e} :
                    /\ f # past => entries'[f] = entries[f]
                    /\ f = past => entries'[f] = [entries[f] EXCEPT !.superseded = TRUE]
              /\ threads'[t] = [threads[t] EXCEPT !.latest = e, !.revision = @ + 1,
                                                  !.deadline = DeadlineAfter(t, S)]
              /\ \A u \in ThreadIds \ {t} : threads'[u] = threads[u]
              /\ threads' = [u \in ThreadIds |-> threads'[u]]
              /\ entries' = [f \in EntryIds |-> entries'[f]]
  BY PublishFacts
<1>2. /\ entries'[e].used /\ entries'[e].thread = t /\ entries'[e].items = S
      /\ ~entries'[e].superseded /\ entries'[e].revision = threads[t].revision + 1
  BY <1>1
<1>3. /\ threads'[t].latest = e /\ threads'[t].revision = threads[t].revision + 1
      /\ threads'[t].items = threads[t].items /\ threads'[t].status = threads[t].status
  BY <1>0, <1>1, ThreadParts DEF Thread
<1>4. ASSUME NEW f \in EntryIds \ {e}
      PROVE  /\ entries'[f].used = entries[f].used /\ entries'[f].thread = entries[f].thread
             /\ entries'[f].items = entries[f].items
             /\ entries'[f].revision = entries[f].revision
             /\ entries[f].superseded => entries'[f].superseded
             /\ f = past => entries'[f].superseded
  BY <1>0, <1>1, EntryParts DEF Entry
<1>5. ~entries[e].used /\ e \notin Rows /\ threads[t].revision < e
      /\ threads[t].revision \in 0..MaxEntries /\ e \in 1..MaxEntries
  <2>1. ~entries[e].used
    BY <1>1 DEF NextEntry
  <2> QED BY <1>0, <2>1, RowsAreUsed, ThreadParts DEF Tables, ThreadsOK, EntryIds
<1>6. Rows' = Rows \cup {e}
  BY <1>2, <1>4 DEF Rows
<1>7. \A f \in EntryIds : entries[f].used => f < e
  BY <1>5, UsedBeforeUnused DEF Tables
<1>8. \A f \in Rows : entries[f].used /\ f < e /\ f \in EntryIds \ {e}
  BY <1>5, <1>7, RowsAreUsed DEF Tables, Rows
<1>9. TableTypes'
  <2>1. threads[t].revision + 1 \in 0..MaxEntries
    BY <1>5, BoundsAreNaturals
  <2>2. threads'[t] \in Thread
    <3>1. DeadlineAfter(t, S) \in {"none", "set", "due"}
      BY <1>0, ThreadParts DEF DeadlineAfter
    <3> QED BY <1>0, <1>1, <2>1, <3>1, ThreadParts DEF Thread
  <2>3. entries'[e] \in Entry
    BY <1>0, <1>1, <2>1, ThreadParts DEF Entry
  <2>4. ASSUME NEW f \in EntryIds \ {e} PROVE entries'[f] \in Entry
    <3>1. entries[f] \in Entry
      BY <1>0, EntryParts
    <3>2. [entries[f] EXCEPT !.superseded = TRUE] \in Entry
      BY <3>1 DEF Entry
    <3> QED BY <1>1, <3>1, <3>2
  <2>5. \A u \in ThreadIds : threads'[u] \in Thread
    BY <1>0, <1>1, <2>2, ThreadParts
  <2> QED BY <1>1, <2>3, <2>4, <2>5 DEF TableTypes
<1>10. ASSUME NEW u \in ThreadIds PROVE LatestOK(u)'
  <2> DEFINE R(v)  == {f \in Rows : entries[f].thread = v}
             R2(v) == {f \in Rows' : entries'[f].thread = v}
  <2>1. CASE u # t
    <3>1. R2(u) = R(u)
      BY <1>2, <1>4, <1>6, <1>8, <2>1
    <3>2. \A f \in R(u) : entries'[f].revision = entries[f].revision
      BY <1>4, <1>8
    <3>3. threads'[u] = threads[u]
      BY <1>1, <2>1
    <3>4. LatestOK(u)
      BY DEF Tables
    <3> HIDE DEF R2
    <3> SUFFICES threads'[u].latest \in (IF R2(u) = {} THEN {0} ELSE R2(u)) /\ \A f \in R2(u) :
                     f <= threads'[u].latest /\ entries'[f].revision <= threads'[u].revision
      BY DEF LatestOK, R2
    <3> QED BY <3>1, <3>2, <3>3, <3>4 DEF LatestOK
  <2>2. CASE u = t
    <3>1. R2(t) = R(t) \cup {e}
      BY <1>2, <1>4, <1>6, <1>8
    <3>2. ASSUME NEW f \in R(t)
          PROVE  f <= e /\ entries'[f].revision <= threads[t].revision + 1
      <4>1. entries'[f].revision = entries[f].revision /\ f < e
        BY <1>4, <1>8
      <4>2. entries[f].revision <= threads[t].revision
        BY <1>0 DEF Tables, LatestOK
      <4>3. entries[f].revision \in Nat /\ f \in Nat /\ e \in Nat /\ threads[t].revision \in Nat
        BY <1>0, <1>5, <1>8, EntryParts, BoundsAreNaturals DEF EntryIds
      <4> QED BY <4>1, <4>2, <4>3
    <3>3. threads'[t].latest = e /\ threads'[t].revision = threads[t].revision + 1
      BY <1>3
    <3>4. e <= e /\ entries'[e].revision <= threads[t].revision + 1
      BY <1>2, <1>5
    <3> HIDE DEF R, R2
    <3> SUFFICES threads'[t].latest \in (IF R2(t) = {} THEN {0} ELSE R2(t)) /\ \A f \in R2(t) :
                     f <= threads'[t].latest /\ entries'[f].revision <= threads'[t].revision
      BY <2>2 DEF LatestOK, R2
    <3> QED BY <3>1, <3>2, <3>3, <3>4
  <2> QED BY <2>1, <2>2
<1>11. ASSUME NEW f \in EntryIds
       PROVE  /\ ~entries'[f].used => entries'[f] = BlankEntry
              /\ SnapshotOK(f)'
              /\ \A g \in 1..(f - 1) : entries'[f].used => entries'[g].used
  <2>1. CASE f = e
    <3>1. \A g \in 1..(e - 1) : g \in EntryIds \ {e} /\ entries[g].used
      BY <1>1, BoundsAreNaturals DEF NextEntry, EntryIds
    <3> QED BY <1>2, <1>3, <1>4, <2>1, <3>1 DEF SnapshotOK
  <2>2. CASE f # e
    <3>1. ~entries'[f].used => entries'[f] = BlankEntry
      <4>1. ~entries[f].used => entries[f] = BlankEntry /\ f \notin Rows /\ f # past
        <5>1. ~entries[f].used => f \notin Rows /\ f # 0
          BY RowsAreUsed DEF Tables, EntryIds
        <5>2. past \in {0} \cup Rows
          BY <1>0 DEF Tables, LatestOK
        <5>3. ~entries[f].used => entries[f] = BlankEntry
          BY DEF Tables, ThreadsOK
        <5> QED BY <5>1, <5>2, <5>3
      <4> QED BY <1>1, <1>4, <2>2, <4>1
    <3>2. SnapshotOK(f)'
      <4>1. entries'[f].thread = entries[f].thread /\ entries'[f].items = entries[f].items
            /\ entries[f].thread \in {0} \cup ThreadIds
            /\ (entries[f].superseded => entries'[f].superseded)
            /\ (f = past => entries'[f].superseded)
        BY <1>0, <1>4, <2>2, EntryParts
      <4>2. \A u \in ThreadIds : threads'[u].items = threads[u].items
        BY <1>1, <1>3
      <4>3. SnapshotOK(f)
        BY DEF Tables, ThreadsOK
      <4>4. CASE entries[f].thread = t
        BY <4>1, <4>2, <4>3, <4>4, <1>0 DEF SnapshotOK
      <4>5. CASE entries[f].thread # t
        BY <1>1, <4>1, <4>2, <4>3, <4>5 DEF SnapshotOK
      <4> QED BY <4>4, <4>5
    <3>3. \A g \in 1..(f - 1) : entries'[f].used => entries'[g].used
      <4>1. \A g \in 1..(f - 1) : g \in EntryIds
        BY BoundsAreNaturals DEF EntryIds
      <4> QED BY <1>2, <1>4, <2>2, <4>1 DEF Tables, ThreadsOK
    <3> QED BY <3>1, <3>2, <3>3
  <2> QED BY <2>1, <2>2
<1>12. ASSUME NEW f \in Rows', NEW g \in Rows', entries'[f].thread = entries'[g].thread,
              entries'[f].thread # 0, f < g
       PROVE  entries'[f].revision < entries'[g].revision
  <2>1. f \in Rows
    <3>1. CASE f = e
      <4>1. g \in Rows
        BY <1>6, <1>12, <3>1, <1>5
      <4> QED BY <4>1, <3>1, <1>8, <1>12, <1>5 DEF EntryIds
    <3> QED BY <1>6, <3>1
  <2>2. CASE g = e
    <3>1. entries[f].thread = t /\ entries'[f].revision = entries[f].revision
      BY <1>2, <1>4, <1>8, <1>12, <2>1, <2>2
    <3>2. entries[f].revision <= threads[t].revision
      BY <1>0, <2>1, <3>1 DEF Tables, LatestOK
    <3>3. entries[f].revision \in Nat
      BY <1>0, <1>8, <2>1, EntryParts, BoundsAreNaturals
    <3> QED BY <1>2, <1>5, <2>2, <3>1, <3>2, <3>3
  <2>3. CASE g # e
    <3>1. g \in Rows
      BY <1>6, <2>3
    <3> QED BY <1>4, <1>8, <1>12, <2>1, <3>1 DEF Tables, ThreadsOK
  <2> QED BY <2>2, <2>3
<1>13. ASSUME NEW u \in ThreadIds
       PROVE  /\ \A f \in EntryIds : ~entries'[f].used => threads'[u].revision < f
              /\ threads'[u].status \in {"unused", "deleted"}
                    => threads'[u].items = {} /\ threads'[u].latest = 0
  <2>1. CASE u = t
    <3>1. threads'[t].status = "open"
      BY <1>3 DEF Open
    <3>2. ASSUME NEW f \in EntryIds, ~entries'[f].used PROVE threads[t].revision + 1 < f
      <4>1. f # e /\ ~entries[f].used
        BY <1>2, <1>4, <3>2
      <4>2. ~(f < e)
        <5>1. f < e => f \in 1..(e - 1)
          BY <1>5, BoundsAreNaturals DEF EntryIds
        <5> QED BY <1>1, <4>1, <5>1 DEF NextEntry
      <4>3. f \in Nat
        BY BoundsAreNaturals DEF EntryIds
      <4> QED BY <1>5, <4>1, <4>2, <4>3
    <3> QED BY <1>3, <2>1, <3>1, <3>2
  <2>2. CASE u # t
    BY <1>1, <1>2, <1>4, <2>2 DEF Tables, ThreadsOK
  <2> QED BY <2>1, <2>2
<1>14. Open' = Open
  <2>1. \A u \in ThreadIds : threads'[u].status = threads[u].status
    BY <1>1, <1>3
  <2> QED BY <2>1 DEF Open
<1>15. ThreadsOK'
  BY <1>11, <1>12, <1>13, <1>14 DEF Tables, ThreadsOK
<1> QED BY <1>9, <1>10, <1>15 DEF Tables

-----------------------------------------------------------------------------
(* Collection *)

\* The last of some rows: of the rows above one of them, a minimal set is empty.
LEMMA GreatestRevision ==
    ASSUME TableTypes, NEW S \in SUBSET EntryIds, S # {}
    PROVE  \E e \in S : \A f \in S : entries[f].revision <= entries[e].revision
<1> DEFINE Above(e) == {f \in S : entries[f].revision > entries[e].revision}
           T == {Above(e) : e \in S}
           R == StrictSubsetOrdering(S)
<1>1. \A e \in S : entries[e].revision \in Nat
  BY EntryParts, BoundsAreNaturals
<1>2. IsWellFoundedOn(R, SUBSET S)
  <2>1. IsFiniteSet(EntryIds)
    BY BoundsAreNaturals, FS_Interval DEF EntryIds
  <2>2. IsFiniteSet(S)
    BY <2>1, FS_Subset
  <2> QED BY <2>2, FS_StrictSubsetOrderingWellFounded, FS_FiniteSubsetsOfFinite
<1>3. T \subseteq SUBSET S /\ T # {}
  OBVIOUS
<1>4. PICK A \in T : \A B \in T : <<B, A>> \notin R
  <2> HIDE DEF T, R
  <2> QED BY <1>2, <1>3, WFMin
<1>5. PICK m \in S : A = Above(m)
  BY <1>4
<1>6. ASSUME NEW p \in S, ~(entries[p].revision <= entries[m].revision) PROVE FALSE
  <2>1. Above(p) \subseteq Above(m)
    <3>1. ASSUME NEW q \in S, entries[q].revision > entries[p].revision
          PROVE  entries[q].revision > entries[m].revision
      BY <1>1, <1>6, <3>1
    <3> QED BY <3>1
  <2>2. p \in Above(m) /\ p \notin Above(p)
    BY <1>1, <1>6
  <2>3. <<Above(p), Above(m)>> \in R
    BY <2>1, <2>2 DEF StrictSubsetOrdering
  <2> QED BY <2>3, <1>4, <1>5
<1> QED BY <1>6

\* LastSnapshot is the last of the rows, or 0.
LEMMA LastIsLast ==
    ASSUME TableTypes, NEW S \in SUBSET EntryIds
    PROVE  LET top == LastSnapshot(S)
           IN  /\ S = {} => top = 0
               /\ S # {} => top \in S /\ \A f \in S : entries[f].revision <= entries[top].revision
<1>1. CASE S = {}
  BY <1>1 DEF LastSnapshot
<1>2. CASE S # {}
  <2>1. \E e \in S : \A f \in S : entries[f].revision <= entries[e].revision
    BY <1>2, GreatestRevision
  <2> QED BY <1>2, <2>1 DEF LastSnapshot
<1> QED BY <1>1, <1>2

\* What is left of an entry.
LEMMA EntryLeft ==
    ASSUME TableTypes, NEW S, entries' = EntriesKeeping(S), NEW e \in EntryIds
    PROVE  /\ entries'[e].used = entries[e].used
           /\ entries'[e].items = entries[e].items \cap S
           /\ entries[e].items \cap S # {} =>
                 /\ entries'[e].thread = entries[e].thread
                 /\ entries'[e].revision = entries[e].revision
                 /\ entries'[e].superseded = entries[e].superseded
           /\ entries[e].items \cap S = {} =>
                 entries'[e] = [BlankEntry EXCEPT !.used = entries[e].used]
           /\ entries'[e] \in Entry
<1>0. entries[e] \in Entry /\ BlankEntry \in Entry
  BY EntryParts, BlanksAreTyped
<1>1. CASE entries[e].items \cap S = {}
  <2>1. entries'[e] = [BlankEntry EXCEPT !.used = entries[e].used]
    BY <1>1 DEF EntriesKeeping
  <2>2. entries'[e].used = entries[e].used /\ entries'[e].items = {}
    BY <2>1 DEF BlankEntry
  <2>3. entries'[e] \in Entry
    BY <1>0, <2>1 DEF Entry
  <2> QED BY <1>1, <2>1, <2>2, <2>3
<1>2. CASE entries[e].items \cap S # {}
  <2>1. entries'[e] = [entries[e] EXCEPT !.items = @ \cap S]
    BY <1>2 DEF EntriesKeeping
  <2> QED BY <1>0, <1>2, <2>1 DEF Entry
<1> QED BY <1>1, <1>2

\* What is left of a thread.
SnapshotsLeft(t, S) == {e \in EntryIds : entries[e].thread = t /\ entries[e].items \cap S # {}}

\* A thread keeps its deadline and status while it keeps an item, and its latest entry
\* is the last that is left.
LEMMA ThreadLeft ==
    ASSUME Tables, NEW S, NEW t \in ThreadIds
    PROVE  LET now == ThreadKeeping(t, S)
               top == LastSnapshot(SnapshotsLeft(t, S))
           IN  /\ now \in Thread
               /\ now.items = threads[t].items \cap S
               /\ now.latest = top
               /\ SnapshotsLeft(t, S) # {} => now.revision = entries[top].revision
               /\ now.revision <= threads[t].revision
               /\ now.status \in {"unused", "deleted"} => now.items = {} /\ now.latest = 0
               /\ now.status = "open" => threads[t].status = "open"
               /\ threads[t].status = "open" /\ threads[t].items \cap S # {} =>
                      now.status = "open" /\ now.deadline = threads[t].deadline
<1> USE DEF SnapshotsLeft
<1> DEFINE left == SnapshotsLeft(t, S)
           top  == LastSnapshot(left)
           now  == ThreadKeeping(t, S)
<1>0. TableTypes /\ threads[t] \in Thread /\ t # 0 /\ BlankThread \in Thread
  BY ThreadParts, BlanksAreTyped DEF Tables, ThreadIds
<1>1. left \in SUBSET EntryIds
  OBVIOUS
<1>2. /\ left = {} => top = 0
      /\ left # {} => top \in left
      /\ top # 0 => left # {}
  <2> HIDE DEF left
  <2>1. 0 \notin EntryIds
    BY BoundsAreNaturals DEF EntryIds
  <2> QED BY <1>0, <1>1, <2>1, LastIsLast
<1>3. CASE threads[t].status \in {"unused", "deleted"}
  <2>1. threads[t].items = {} /\ threads[t].latest = 0 /\ now = threads[t]
    BY <1>3 DEF Tables, ThreadsOK, ThreadKeeping
  <2>2. left = {}
    BY <2>1, NoSnapshots
  <2>3. threads[t].revision <= threads[t].revision
    BY <1>0, BoundsAreNaturals DEF Thread
  <2> HIDE DEF left, top
  <2> QED BY <1>0, <1>2, <1>3, <2>1, <2>2, <2>3 DEF left, top
<1>4. CASE threads[t].status \notin {"unused", "deleted"} /\ left = {} /\ threads[t].items \cap S = {}
  <2>1. now = [BlankThread EXCEPT !.status = "deleted"]
    BY <1>4 DEF ThreadKeeping
  <2>2. /\ now.status = "deleted" /\ now.items = {} /\ now.latest = 0 /\ now.revision = 0
        /\ now \in Thread
    BY <1>0, <2>1 DEF BlankThread, Thread
  <2>3. 0 <= threads[t].revision
    BY <1>0, BoundsAreNaturals DEF Thread
  <2> QED BY <1>2, <1>4, <2>2, <2>3
<1>5. CASE /\ threads[t].status \notin {"unused", "deleted"}
           /\ ~(left = {} /\ threads[t].items \cap S = {})
  <2>1. now = [threads[t] EXCEPT !.items = @ \cap S, !.latest = top,
                  !.revision = IF top = 0 THEN 0 ELSE entries[top].revision]
    BY <1>5 DEF ThreadKeeping
  <2>2. top \in {0} \cup EntryIds
    BY <1>1, <1>2
  <2>3. (IF top = 0 THEN 0 ELSE entries[top].revision) \in 0..MaxEntries
    BY <1>0, <2>2, EntryParts, BoundsAreNaturals
  <2>4. 0 \notin EntryIds
    BY BoundsAreNaturals DEF EntryIds
  <2>5. (IF top = 0 THEN 0 ELSE entries[top].revision) <= threads[t].revision
    <3>1. CASE top = 0
      BY <1>0, <3>1, BoundsAreNaturals DEF Thread
    <3>2. CASE top # 0
      <4>1. top \in Rows /\ entries[top].thread = t
        BY <1>2, <3>2 DEF Rows
      <4> QED BY <3>2, <4>1 DEF Tables, LatestOK
    <3> QED BY <3>1, <3>2
  <2> DEFINE rev == IF top = 0 THEN 0 ELSE entries[top].revision
  <2>6. now = [threads[t] EXCEPT !.items = @ \cap S, !.latest = top, !.revision = rev]
    BY <2>1
  <2>7. left # {} => top # 0 /\ rev = entries[top].revision
    BY <1>2, <2>4
  <2> HIDE DEF left, top, rev, now
  <2>8. /\ now \in Thread /\ now.items = threads[t].items \cap S /\ now.latest = top
        /\ now.revision = rev /\ now.status = threads[t].status
        /\ now.deadline = threads[t].deadline
    BY <1>0, <2>2, <2>3, <2>6 DEF Thread, rev
  <2>9. /\ left # {} => now.revision = entries[top].revision
        /\ now.revision <= threads[t].revision
    BY <2>5, <2>7, <2>8 DEF rev
  <2>10. now.status \notin {"unused", "deleted"}
    BY <1>5, <2>8
  <2> QED BY <2>8, <2>9, <2>10 DEF left, top, now
<1> QED BY <1>3, <1>4, <1>5

\* deleteInboxItemsAndEntryArtifacts.
LEMMA CollectTables ==
    ASSUME Tables, NEW S, entries' = EntriesKeeping(S),
           threads' = [t \in ThreadIds |-> ThreadKeeping(t, S)]
    PROVE  Tables'
<1>0. TableTypes /\ 0 \notin EntryIds
  BY BoundsAreNaturals DEF Tables, EntryIds
<1> DEFINE left(t) == SnapshotsLeft(t, S)
<1>1. ASSUME NEW t \in ThreadIds
      PROVE  /\ threads'[t] \in Thread
             /\ threads'[t].items = threads[t].items \cap S
             /\ threads'[t].latest = LastSnapshot(left(t))
             /\ left(t) # {} => threads'[t].revision = entries[LastSnapshot(left(t))].revision
             /\ threads'[t].revision <= threads[t].revision
             /\ threads'[t].status \in {"unused", "deleted"}
                    => threads'[t].items = {} /\ threads'[t].latest = 0
             /\ threads'[t].status = "open" => threads[t].status = "open"
  <2> DEFINE now == ThreadKeeping(t, S)
             top == LastSnapshot(left(t))
  <2>1. threads'[t] = now
    OBVIOUS
  <2>2. /\ now \in Thread
        /\ now.items = threads[t].items \cap S
        /\ now.latest = top
        /\ left(t) # {} => now.revision = entries[top].revision
        /\ now.revision <= threads[t].revision
        /\ now.status \in {"unused", "deleted"} => now.items = {} /\ now.latest = 0
        /\ now.status = "open" => threads[t].status = "open"
    BY ThreadLeft
  <2> HIDE DEF now, left
  <2> QED BY <2>1, <2>2
<1> USE DEF SnapshotsLeft
<1>2. ASSUME NEW e \in EntryIds
      PROVE  /\ entries'[e].used = entries[e].used
             /\ entries'[e].items = entries[e].items \cap S
             /\ entries[e].items \cap S # {} =>
                   /\ entries'[e].thread = entries[e].thread
                   /\ entries'[e].revision = entries[e].revision
                   /\ entries'[e].superseded = entries[e].superseded
             /\ entries[e].items \cap S = {} =>
                   entries'[e] = [BlankEntry EXCEPT !.used = entries[e].used]
             /\ entries'[e] \in Entry
  BY <1>0, EntryLeft
<1>3. ASSUME NEW t \in ThreadIds
      PROVE  LET top == LastSnapshot(left(t))
             IN  /\ left(t) = {} => top = 0
                 /\ left(t) # {} =>
                       top \in left(t) /\ \A f \in left(t) : entries[f].revision <= entries[top].revision
  <2>1. left(t) \in SUBSET EntryIds
    OBVIOUS
  <2> HIDE DEF left
  <2> QED BY <1>0, <2>1, LastIsLast
<1>4. ASSUME NEW t \in ThreadIds
      PROVE  {e \in Rows' : entries'[e].thread = t} = left(t)
  <2>1. ASSUME NEW e \in EntryIds, entries[e].items \cap S = {}
        PROVE  entries'[e].items = {}
    BY <1>2, <2>1
  <2>2. Rows' = {e \in EntryIds : entries[e].items \cap S # {}}
    BY <1>2, <2>1 DEF Rows
  <2> QED BY <1>2, <2>2
<1>5. TableTypes'
  <2>1. entries' = [e \in EntryIds |-> entries'[e]]
    <3> DEFINE F(e) == IF entries[e].items \cap S = {}
                       THEN [BlankEntry EXCEPT !.used = entries[e].used]
                       ELSE [entries[e] EXCEPT !.items = @ \cap S]
    <3>1. entries' = [e \in EntryIds |-> F(e)]
      BY DEF EntriesKeeping
    <3> HIDE DEF F
    <3> QED BY <3>1
  <2>2. threads' = [t \in ThreadIds |-> threads'[t]]
    OBVIOUS
  <2> HIDE DEF left
  <2> QED BY <1>1, <1>2, <2>1, <2>2 DEF TableTypes
<1>6. ASSUME NEW t \in ThreadIds, NEW e \in left(t), NEW f \in left(t), e < f
      PROVE  entries[e].revision < entries[f].revision
  <2>1. e \in Rows /\ f \in Rows /\ t # 0
    BY DEF Rows, ThreadIds
  <2> QED BY <1>6, <2>1 DEF Tables, ThreadsOK
<1>7. ASSUME NEW t \in ThreadIds PROVE LatestOK(t)'
  <2> DEFINE top == LastSnapshot(left(t))
  <2>1. ASSUME NEW e \in left(t)
        PROVE  e <= top /\ entries'[e].revision <= threads'[t].revision
    <3>1. top \in left(t) /\ entries[e].revision <= entries[top].revision
      BY <1>3
    <3>2. entries'[e].revision = entries[e].revision
      BY <1>2
    <3>3. threads'[t].revision = entries[top].revision
      BY <1>1
    <3>4. e \in Nat /\ top \in Nat /\ entries[e].revision \in Nat /\ entries[top].revision \in Nat
      BY <1>0, <3>1, EntryParts, BoundsAreNaturals DEF EntryIds
    <3>5. ~(top < e)
      BY <1>6, <3>1, <3>4
    <3> QED BY <3>1, <3>2, <3>3, <3>4, <3>5
  <2>2. threads'[t].latest \in (IF left(t) = {} THEN {0} ELSE left(t))
    BY <1>1, <1>3
  <2> HIDE DEF left
  <2> QED BY <1>1, <1>4, <2>1, <2>2 DEF LatestOK
<1>8. ASSUME NEW e \in EntryIds
      PROVE  /\ ~entries'[e].used => entries'[e] = BlankEntry
             /\ \A f \in 1..(e - 1) : entries'[e].used => entries'[f].used
  <2>1. ~entries[e].used => entries[e] = BlankEntry
    BY DEF Tables, ThreadsOK
  <2>2. ~entries[e].used => entries'[e] = [BlankEntry EXCEPT !.used = FALSE]
    <3>1. BlankEntry.items = {} /\ BlankEntry.used = FALSE
      BY DEF BlankEntry
    <3> QED BY <1>2, <2>1, <3>1, ZenonT(30)
  <2>3. [BlankEntry EXCEPT !.used = FALSE] = BlankEntry
    <3>1. BlankEntry \in Entry /\ BlankEntry.used = FALSE
      BY BlanksAreTyped DEF BlankEntry
    <3> QED BY <3>1 DEF Entry
  <2>4. \A f \in 1..(e - 1) : f \in EntryIds
    BY BoundsAreNaturals DEF EntryIds
  <2> QED BY <1>2, <2>2, <2>3, <2>4 DEF Tables, ThreadsOK
<1>9. ASSUME NEW e \in EntryIds PROVE SnapshotOK(e)'
  <2>1. CASE entries[e].items \cap S = {}
    <3>1. entries'[e].thread = 0
      BY <1>2, <2>1 DEF BlankEntry
    <3> QED BY <3>1 DEF SnapshotOK
  <2>2. CASE entries[e].items \cap S # {}
    <3> DEFINE t == entries[e].thread
    <3>1. t \in {0} \cup ThreadIds /\ entries'[e].thread = t
      BY <1>0, <1>2, <2>2, EntryParts
    <3>2. CASE t = 0
      BY <3>1, <3>2 DEF SnapshotOK
    <3>3. CASE t # 0
      <4>1. t \in ThreadIds /\ e \in left(t) /\ SnapshotOK(e)
        BY <2>2, <3>1, <3>3 DEF Tables, ThreadsOK
      <4>2. entries'[e].items = entries[e].items \cap S /\ threads'[t].items = threads[t].items \cap S
        BY <1>1, <1>2, <4>1
      <4>3. ASSUME e # threads'[t].latest PROVE entries[e].superseded
        <5>1. SUFFICES ASSUME e = threads[t].latest PROVE FALSE
          BY <3>3, <4>1 DEF SnapshotOK
        <5>2. threads'[t].latest \in left(t) /\ threads'[t].latest = LastSnapshot(left(t))
          BY <1>1, <1>3, <4>1, ZenonT(30)
        <5> DEFINE top == LastSnapshot(left(t))
        <5>3. top \in Rows /\ entries[top].thread = t
          BY <5>2 DEF Rows
        <5>4. top <= e
          BY <4>1, <5>1, <5>3 DEF Tables, LatestOK
        <5>5. top \in Nat /\ e \in Nat /\ entries[top].revision \in Nat /\ entries[e].revision \in Nat
          BY <1>0, <5>2, EntryParts, BoundsAreNaturals DEF EntryIds
        <5>6. entries[top].revision < entries[e].revision
          BY <1>6, <4>1, <4>3, <5>2, <5>4, <5>5
        <5>7. entries[e].revision <= entries[top].revision
          BY <1>3, <4>1
        <5> QED BY <5>5, <5>6, <5>7
      <4>4. entries'[e].superseded = entries[e].superseded /\ entries'[e].items # {}
        BY <1>2, <2>2
      <4> QED BY <2>2, <3>1, <4>1, <4>2, <4>3, <4>4 DEF SnapshotOK
    <3> QED BY <3>1, <3>2, <3>3
  <2> QED BY <2>1, <2>2
<1>10. ASSUME NEW e \in Rows', NEW f \in Rows', entries'[e].thread = entries'[f].thread,
              entries'[e].thread # 0, e < f
       PROVE  entries'[e].revision < entries'[f].revision
  <2>1. e \in EntryIds /\ f \in EntryIds /\ entries'[e].items # {} /\ entries'[f].items # {}
    BY DEF Rows
  <2>2. entries[e].items \cap S # {} /\ entries[f].items \cap S # {}
    BY <1>2, <2>1
  <2>3. entries[e].thread \in {0} \cup ThreadIds /\ entries'[e].thread = entries[e].thread
        /\ entries'[f].thread = entries[f].thread
    BY <1>0, <1>2, <2>1, <2>2, EntryParts
  <2>4. entries[e].thread \in ThreadIds /\ e \in left(entries[e].thread) /\ f \in left(entries[e].thread)
    BY <1>10, <2>1, <2>2, <2>3
  <2> QED BY <1>2, <1>6, <1>10, <2>1, <2>2, <2>4
<1>11. ASSUME NEW t \in ThreadIds
       PROVE  /\ \A e \in EntryIds : ~entries'[e].used => threads'[t].revision < e
              /\ threads'[t].status \in {"unused", "deleted"}
                    => threads'[t].items = {} /\ threads'[t].latest = 0
  <2>1. ASSUME NEW e \in EntryIds, ~entries'[e].used PROVE threads'[t].revision < e
    <3>1. threads[t].revision < e
      BY <1>2, <2>1 DEF Tables, ThreadsOK
    <3>2. threads[t].revision \in Nat /\ e \in Nat
      BY <1>0, ThreadParts, BoundsAreNaturals DEF EntryIds
    <3>3. threads'[t] \in Thread /\ threads'[t].revision <= threads[t].revision
      BY <1>1
    <3>4. threads'[t].revision \in Nat
      BY <3>3, BoundsAreNaturals DEF Thread
    <3> HIDE DEF left
    <3> QED BY <3>1, <3>2, <3>3, <3>4
  <2> QED BY <1>1, <2>1
<1>12. \A t, u \in Open' : t = u
  BY <1>1 DEF Tables, ThreadsOK, Open
<1>13. ThreadsOK'
  BY <1>8, <1>9, <1>10, <1>11, <1>12 DEF ThreadsOK
<1> QED BY <1>5, <1>7, <1>13 DEF Tables

-----------------------------------------------------------------------------
(* Every step keeps the tables *)

\* The head of the lock, if there is one.
LEMMA HeadParts ==
    ASSUME LockTypes, QueueOK(lock), lock # <<>>
    PROVE  /\ Head(lock) = lock[1] /\ 1 \in DOMAIN lock
           /\ Head(lock) \in Op /\ OpOK(Head(lock))
           /\ Head(lock).item \subseteq Items
           /\ Head(lock).thread \in {0} \cup ThreadIds
           /\ Head(lock).candidate \subseteq Items
<1>1. Head(lock) = lock[1] /\ 1 \in DOMAIN lock /\ Head(lock) \in Op
  BY DEF LockTypes
<1> QED BY <1>1 DEF QueueOK, Op

\* The snapshots of the two actions that publish.
LEMMA SummaryPublishes ==
    ASSUME Tables, LockTypes, QueueOK(lock), SummaryReady
    PROVE  LET t == Head(lock).thread
               S == Head(lock).candidate
           IN  /\ t \in Open /\ S = Unacked(t) /\ S \in SUBSET threads[t].items /\ S # {}
               /\ Publish(t, S)
<1>1. lock # <<>> /\ Head(lock).phase \in {"gate", "summary"}
  BY DEF SummaryReady, Holds
<1>2. Head(lock).candidate # {}
  BY <1>1, HeadParts DEF OpOK
<1> QED BY <1>2 DEF SummaryReady, CandidateIsCurrent, Unacked

\* A repair publishes what is unacked of what was published.
LEMMA RepairPublishes ==
    ASSUME ReconcileRepairs
    PROVE  LET t == Head(lock).thread
           IN  /\ t \in Open /\ Known(t) \in SUBSET threads[t].items /\ Known(t) # {}
               /\ Publish(t, Known(t))
  BY DEF ReconcileRepairs, NeedsRepair, Known, Unacked

\* What a step does to threads and entries.
LEMMA FlushTables ==
    ASSUME Tables, LockTypes, QueueOK(lock), Flush
    PROVE  Tables'
<1>0. TableTypes
  BY DEF Tables
<1>1. CASE AppendItem
  <2> DEFINE i == Head(lock).item
  <2>1. i \in SUBSET Items /\ entries' = entries
    BY <1>1, HeadParts DEF AppendItem, Holds
  <2>2. PICK t \in ThreadIds :
           /\ IF Current # {} THEN t \in Current ELSE Unused(t)
           /\ threads' = IF t \in Current
                         THEN [threads EXCEPT ![t].items = @ \cup i, ![t].deadline = "set"]
                         ELSE WithNewThread(t, i)
    BY <1>1 DEF AppendItem
  <2> HIDE DEF i
  <2>3. CASE t \in Current
    <3>1. t \in Open
      BY <2>3 DEF Current
    <3> QED BY <2>1, <2>2, <2>3, <3>1, JoinedTables
  <2>4. CASE t \notin Current
    BY <2>1, <2>2, <2>4, NewThreadTables
  <2> QED BY <2>3, <2>4
<1>2. CASE SummaryReady
  BY <1>2, SummaryPublishes, PublishTables
<1>3. CASE AppendRefused \/ FlushAsks \/ GateApproves \/ HookFails
  BY <1>3, UnchangedTables DEF AppendRefused, FlushAsks, GateApproves, HookFails
<1>4. CASE FlushSettles \/ CandidateIsStale \/ GateDenies
  <2>1. entries' = entries
    BY <1>4 DEF FlushSettles, CandidateIsStale, GateDenies
  <2>2. CASE UNCHANGED threads
    BY <2>1, <2>2, UnchangedTables
  <2>3. CASE \E t \in Open : threads' = Closed(t)
    <3>1. PICK t \in Open : threads' = Closed(t)
      BY <2>3
    <3> QED BY <2>1, <3>1, TouchedTables DEF Open
  <2>4. CASE \E t \in ThreadIds : threads' = [threads EXCEPT ![t].deadline = "set"]
    BY <2>1, <2>4, TouchedTables
  <2>5. \/ UNCHANGED threads
        \/ \E t \in Open : threads' = Closed(t)
        \/ \E t \in ThreadIds : threads' = [threads EXCEPT ![t].deadline = "set"]
    <3>1. CASE FlushSettles
      BY <3>1 DEF FlushSettles
    <3>2. CASE CandidateIsStale
      BY <3>2 DEF CandidateIsStale, Retried, Open
    <3>3. CASE GateDenies
      BY <3>3 DEF GateDenies, Denied, CandidateIsCurrent, Open
    <3> QED BY <1>4, <3>1, <3>2, <3>3
  <2> QED BY <2>2, <2>3, <2>4, <2>5
<1> QED BY <1>1, <1>2, <1>3, <1>4 DEF Flush

\* Every step keeps the tables.
LEMMA TablesStep ==
    ASSUME Tables, LockTypes, QueueOK(lock), [Next]_vars, deriving \subseteq Items
    PROVE  Tables'
<1>1. CASE \/ UNCHANGED vars
           \/ \E i \in Items : \/ Arrives(i) \/ GroupingFails(i)
                               \/ \E hint \in {"normal", "evaluate", "immediate"} : Grouped(i, hint)
           \/ ReconcileSettles \/ (\E t \in ThreadIds : SyncFlushes(t))
           \/ Acks \/ RemoveSource \/ RemoveInbox
  BY <1>1, UnchangedTables DEF vars, Arrives, GroupingFails, Grouped, ReconcileSettles, SyncFlushes,
                               Acks, Ack, RemoveSource, RemoveInbox
<1>2. ASSUME NEW i \in Items, Ungrouped(i) PROVE Tables'
  <2>1. PICK e \in EntryIds :
           /\ NextEntry(e)
           /\ entries' = [entries EXCEPT ![e] = [BlankEntry EXCEPT !.used = TRUE, !.items = {i}]]
    BY <1>2 DEF Ungrouped
  <2>2. threads' = threads
    BY <1>2 DEF Ungrouped
  <2> QED BY <2>1, <2>2, SingleTables
<1>3. CASE Flush
  BY <1>3, FlushTables
<1>4. CASE ReconcileCloses
  <2>1. Head(lock).thread \in Open /\ threads' = Closed(Head(lock).thread) /\ entries' = entries
    BY <1>4 DEF ReconcileCloses
  <2> QED BY <2>1, TouchedTables DEF Open
<1>5. CASE ReconcileRepairs
  BY <1>5, RepairPublishes, PublishTables
<1>6. ASSUME NEW t \in ThreadIds, SyncCloses(t) \/ DeadlinePasses(t) \/ ThreadAges(t) PROVE Tables'
  <2>1. /\ entries' = entries
        /\ \/ t \in Open /\ threads' = Closed(t)
           \/ threads' = [threads EXCEPT ![t].deadline = "due"]
           \/ threads' = [threads EXCEPT ![t].old = TRUE]
    BY <1>6 DEF SyncCloses, DeadlinePasses, ThreadAges
  <2> QED BY <2>1, TouchedTables
<1>7. CASE Collect
  <2>1. PICK n \in DOMAIN acks : Collects(n)
    BY <1>7 DEF Collect
  <2>2. /\ entries' = EntriesKeeping(Kept(n))
        /\ threads' = [t \in ThreadIds |-> ThreadKeeping(t, Kept(n))]
    BY <2>1 DEF Collects
  <2> HIDE DEF Kept
  <2> QED BY <2>2, CollectTables
<1>8. CASE Crash
  <2>1. CASE threads' = threads
    BY <1>8, <2>1, UnchangedTables DEF Crash
  <2>2. CASE threads' # threads
    <3>1. /\ Current = {} /\ entries' = entries
          /\ \E t \in ThreadIds : Unused(t) /\ threads' = WithNewThread(t, {})
      BY <1>8, <2>2 DEF Crash
    <3> QED BY <3>1, NewThreadTables
  <2> QED BY <2>1, <2>2
<1> QED BY <1>1, <1>2, <1>3, <1>4, <1>5, <1>6, <1>7, <1>8
        DEF Next, Materialize, Reconcile, Sync, Time

-----------------------------------------------------------------------------
(* The lock *)

Brings(op) == IF op.kind = "append" /\ op.phase = "queued" THEN op.item ELSE {}

\* What waits is what the queue brings.
LEMMA WaitingIsBringing ==
    Waiting = Bringing(lock)
  BY DEF Waiting, Queued, Bringing, Appends

\* An item in wait is brought by some operation of the queue.
LEMMA BringingFacts ==
    ASSUME NEW q, NEW i
    PROVE  i \in Bringing(q) <=> \E k \in DOMAIN q : i \in Brings(q[k])
  BY DEF Bringing, Appends, Brings

\* An operation asks for the lock,
LEMMA JoinFacts ==
    ASSUME NEW q \in Seq(Op), NEW op \in Op, QueueOK(q), OpOK(op),
           Brings(op) \cap Bringing(q) = {}
    PROVE  LET r == Append(q, op)
           IN  /\ r \in Seq(Op) /\ Len(r) = Len(q) + 1
               /\ QueueOK(r)
               /\ Bringing(r) = Bringing(q) \cup Brings(op)
<1> DEFINE r == Append(q, op)
           n == Len(q) + 1
<1>1. /\ r \in Seq(Op) /\ Len(r) = n /\ DOMAIN r = DOMAIN q \cup {n} /\ n \notin DOMAIN q
      /\ r[n] = op /\ \A k \in DOMAIN q : r[k] = q[k]
  OBVIOUS
<1> HIDE DEF r, n
<1>2. \A k \in DOMAIN r : OpOK(r[k])
  BY <1>1 DEF QueueOK
<1>3. ASSUME NEW i PROVE i \in Bringing(r) <=> i \in Bringing(q) \/ i \in Brings(op)
  <2>1. i \in Bringing(r) <=> \E k \in DOMAIN r : i \in Brings(r[k])
    BY BringingFacts
  <2>2. i \in Bringing(q) <=> \E k \in DOMAIN q : i \in Brings(q[k])
    BY BringingFacts
  <2> QED BY <1>1, <2>1, <2>2
<1>4. ASSUME NEW j \in Appends(r), NEW k \in Appends(r), j # k
      PROVE  r[j].item \cap r[k].item = {}
  <2>1. CASE j \in DOMAIN q /\ k \in DOMAIN q
    BY <1>1, <1>4, <2>1 DEF QueueOK, Appends
  <2>2. ASSUME NEW m \in Appends(r), m \in DOMAIN q PROVE q[m].item \subseteq Bringing(q)
    BY <1>1, <2>2 DEF Bringing, Appends
  <2>3. n \in Appends(r) => op.item = Brings(op)
    BY <1>1 DEF Appends, Brings
  <2>4. CASE j = n
    <3>1. k \in DOMAIN q /\ r[k] = q[k]
      BY <1>1, <1>4, <2>4 DEF Appends
    <3> QED BY <1>1, <2>2, <2>3, <2>4, <3>1
  <2>5. CASE k = n
    <3>1. j \in DOMAIN q /\ r[j] = q[j]
      BY <1>1, <1>4, <2>5 DEF Appends
    <3> QED BY <1>1, <2>2, <2>3, <2>5, <3>1
  <2> QED BY <1>1, <2>1, <2>4, <2>5 DEF Appends
<1>5. QueueOK(r)
  BY <1>2, <1>4 DEF QueueOK
<1> QED BY <1>1, <1>3, <1>5 DEF r, n

\* it leaves it,
LEMMA LeaveFacts ==
    ASSUME NEW q \in Seq(Op), q # <<>>, QueueOK(q)
    PROVE  LET r == Tail(q)
           IN  /\ r \in Seq(Op) /\ Len(r) = Len(q) - 1
               /\ QueueOK(r)
               /\ Bringing(r) = Bringing(q) \ Brings(Head(q))
<1> DEFINE r == Tail(q)
<1>1. /\ r \in Seq(Op) /\ Len(r) = Len(q) - 1 /\ 1 \in DOMAIN q /\ Head(q) = q[1]
      /\ \A k \in DOMAIN r : k + 1 \in DOMAIN q /\ k + 1 # 1 /\ r[k] = q[k + 1]
      /\ \A k \in DOMAIN q : k # 1 => k - 1 \in DOMAIN r /\ r[k - 1] = q[k]
      /\ \A j, k \in DOMAIN r : j # k => j + 1 # k + 1
  <2>1. /\ r \in Seq(Op) /\ Len(r) = Len(q) - 1 /\ 1 \in DOMAIN q /\ Head(q) = q[1]
    OBVIOUS
  <2>2. \A k \in DOMAIN r : k + 1 \in DOMAIN q /\ k + 1 # 1 /\ r[k] = q[k + 1]
    OBVIOUS
  <2>3. \A k \in DOMAIN q : k # 1 => k - 1 \in DOMAIN r /\ r[k - 1] = q[k]
    OBVIOUS
  <2>4. \A j, k \in DOMAIN r : j # k => j + 1 # k + 1
    OBVIOUS
  <2> QED BY <2>1, <2>2, <2>3, <2>4
<1> HIDE DEF r
<1>2. \A k \in DOMAIN r : OpOK(r[k])
  BY <1>1 DEF QueueOK
<1>3. ASSUME NEW j \in Appends(r), NEW k \in Appends(r), j # k
      PROVE  r[j].item \cap r[k].item = {}
  BY <1>1, <1>3 DEF QueueOK, Appends
<1>4. ASSUME NEW k \in DOMAIN q, k # 1 PROVE Brings(q[k]) \cap Brings(q[1]) = {}
  BY <1>1, <1>4 DEF QueueOK, Appends, Brings
<1>5. ASSUME NEW i PROVE i \in Bringing(r) <=> i \in Bringing(q) /\ i \notin Brings(Head(q))
  <2>1. i \in Bringing(r) <=> \E k \in DOMAIN r : i \in Brings(r[k])
    BY BringingFacts
  <2>2. i \in Bringing(q) <=> \E k \in DOMAIN q : i \in Brings(q[k])
    BY BringingFacts
  <2>3. ASSUME i \in Bringing(r) PROVE i \in Bringing(q) /\ i \notin Brings(Head(q))
    <3>1. PICK k \in DOMAIN r : i \in Brings(r[k])
      BY <2>1, <2>3
    <3>2. k + 1 \in DOMAIN q /\ k + 1 # 1 /\ i \in Brings(q[k + 1])
      BY <1>1, <3>1
    <3> QED BY <1>1, <1>4, <2>2, <3>2
  <2>4. ASSUME i \in Bringing(q), i \notin Brings(Head(q)) PROVE i \in Bringing(r)
    <3>1. PICK k \in DOMAIN q : i \in Brings(q[k])
      BY <2>2, <2>4
    <3>2. k # 1
      BY <1>1, <2>4, <3>1
    <3> QED BY <1>1, <2>1, <3>1, <3>2
  <2> QED BY <2>3, <2>4
<1> QED BY <1>1, <1>2, <1>3, <1>5 DEF QueueOK, r

\* and it goes on while it holds it.
LEMMA GoOnFacts ==
    ASSUME NEW q \in Seq(Op), q # <<>>, QueueOK(q), NEW r \in Seq(Op), Len(r) = Len(q),
           OpOK(r[1]), r[1].phase # "queued", \A k \in 2..Len(q) : r[k] = q[k]
    PROVE  /\ QueueOK(r)
           /\ Bringing(r) = Bringing(q) \ Brings(Head(q))
<1>1. /\ 1 \in DOMAIN q /\ Head(q) = q[1] /\ DOMAIN r = DOMAIN q /\ 1 \notin Appends(r)
      /\ \A k \in DOMAIN q : k # 1 => r[k] = q[k]
  BY DEF Appends
<1>2. \A k \in DOMAIN r : OpOK(r[k])
  BY <1>1 DEF QueueOK
<1>3. ASSUME NEW j \in Appends(r), NEW k \in Appends(r), j # k
      PROVE  r[j].item \cap r[k].item = {}
  BY <1>1, <1>3 DEF QueueOK, Appends
<1>4. ASSUME NEW k \in DOMAIN q, k # 1 PROVE Brings(q[k]) \cap Brings(q[1]) = {}
  BY <1>1, <1>4 DEF QueueOK, Appends, Brings
<1>5. ASSUME NEW i PROVE i \in Bringing(r) <=> i \in Bringing(q) /\ i \notin Brings(Head(q))
  <2>1. i \in Bringing(r) <=> \E k \in DOMAIN r : i \in Brings(r[k])
    BY BringingFacts
  <2>2. i \in Bringing(q) <=> \E k \in DOMAIN q : i \in Brings(q[k])
    BY BringingFacts
  <2>3. Brings(r[1]) = {}
    BY DEF Brings
  <2> QED BY <1>1, <1>4, <2>1, <2>2, <2>3
<1> QED BY <1>2, <1>3, <1>5 DEF QueueOK

LockOK == LockTypes /\ QueueOK(lock)

\* The operations that ask for the lock.
LEMMA AppendOp ==
    ASSUME NEW i \in Items, NEW hint \in {"normal", "evaluate", "immediate"}
    PROVE  LET op == [BlankOp EXCEPT !.kind = "append", !.item = {i}, !.hint = hint]
           IN  op \in Op /\ OpOK(op) /\ Brings(op) = {i}
<1>1. BlankOp \in Op
  BY BlanksAreTyped
<1>2. [BlankOp EXCEPT !.kind = "append", !.item = {i}, !.hint = hint] \in Op
  BY <1>1 DEF Op
<1> QED BY <1>2 DEF BlankOp, OpOK, Brings

\* Flushes and repairs bring nothing.
LEMMA ThreadOp ==
    ASSUME NEW t \in ThreadIds, NEW kind \in {"flush", "reconcile"}
    PROVE  LET op == [BlankOp EXCEPT !.kind = kind, !.thread = t]
           IN  op \in Op /\ OpOK(op) /\ Brings(op) = {}
<1>1. BlankOp \in Op
  BY BlanksAreTyped
<1>2. [BlankOp EXCEPT !.kind = kind, !.thread = t] \in Op
  BY <1>1 DEF Op
<1> QED BY <1>2 DEF BlankOp, OpOK, Brings

\* The same of the lock itself: an operation joins it,
LEMMA JoinWaits ==
    ASSUME LockOK, NEW op \in Op, OpOK(op), Brings(op) \cap Waiting = {},
           Len(lock) < MaxOps, lock' = Append(lock, op)
    PROVE  LockOK' /\ Waiting' = Waiting \cup Brings(op)
<1>1. lock \in Seq(Op) /\ QueueOK(lock) /\ Brings(op) \cap Bringing(lock) = {}
  BY WaitingIsBringing DEF LockOK, LockTypes
<1>2. /\ lock' \in Seq(Op) /\ Len(lock') = Len(lock) + 1 /\ QueueOK(lock')
      /\ Bringing(lock') = Bringing(lock) \cup Brings(op)
  BY <1>1, JoinFacts
<1>3. Waiting' = Bringing(lock') /\ Waiting = Bringing(lock)
  BY WaitingIsBringing DEF Waiting, Queued, Bringing, Appends
<1>4. Len(lock') <= MaxOps
  BY <1>1, <1>2, BoundsAreNaturals
<1> QED BY <1>2, <1>3, <1>4 DEF LockOK, LockTypes, QueueOK, Appends

\* the holder releases it,
LEMMA ReleaseWaits ==
    ASSUME LockOK, lock # <<>>, Release
    PROVE  LockOK' /\ Waiting' = Waiting \ Brings(Head(lock))
<1>1. lock \in Seq(Op) /\ QueueOK(lock) /\ lock' = Tail(lock) /\ Len(lock) <= MaxOps
  BY DEF LockOK, LockTypes, Release
<1>2. /\ lock' \in Seq(Op) /\ Len(lock') = Len(lock) - 1 /\ QueueOK(lock')
      /\ Bringing(lock') = Bringing(lock) \ Brings(Head(lock))
  BY <1>1, LeaveFacts
<1>3. Waiting' = Bringing(lock') /\ Waiting = Bringing(lock)
  BY WaitingIsBringing DEF Waiting, Queued, Bringing, Appends
<1>4. Len(lock') <= MaxOps
  BY <1>1, <1>2, BoundsAreNaturals
<1> QED BY <1>2, <1>3, <1>4 DEF LockOK, LockTypes, QueueOK, Appends

\* or goes on under it.
LEMMA HoldWaits ==
    ASSUME LockOK, lock # <<>>, lock' \in Seq(Op), Len(lock') = Len(lock),
           OpOK(lock'[1]), lock'[1].phase # "queued", \A k \in 2..Len(lock) : lock'[k] = lock[k]
    PROVE  LockOK' /\ Waiting' = Waiting \ Brings(Head(lock))
<1>1. lock \in Seq(Op) /\ QueueOK(lock) /\ Len(lock) <= MaxOps
  BY DEF LockOK, LockTypes
<1>2. QueueOK(lock') /\ Bringing(lock') = Bringing(lock) \ Brings(Head(lock))
  BY <1>1, GoOnFacts
<1>3. Waiting' = Bringing(lock') /\ Waiting = Bringing(lock)
  BY WaitingIsBringing DEF Waiting, Queued, Bringing, Appends
<1> QED BY <1>1, <1>2, <1>3 DEF LockOK, LockTypes, QueueOK, Appends

\* A digest sync and an ack bring nothing.
LEMMA AskingWaits ==
    ASSUME LockOK, Acks \/ \E t \in ThreadIds : SyncFlushes(t)
    PROVE  LockOK' /\ Waiting' = Waiting
<1>1. CASE lock' = lock
  BY <1>1 DEF LockOK, LockTypes, QueueOK, Appends, Waiting, Queued
<1>2. ASSUME NEW t \in ThreadIds, NEW kind \in {"flush", "reconcile"}, Len(lock) < MaxOps,
             lock' = Append(lock, [BlankOp EXCEPT !.kind = kind, !.thread = t])
      PROVE  LockOK' /\ Waiting' = Waiting
  <2> DEFINE op == [BlankOp EXCEPT !.kind = kind, !.thread = t]
  <2>1. op \in Op /\ OpOK(op) /\ Brings(op) = {}
    BY ThreadOp
  <2>2. lock' = Append(lock, op)
    BY <1>2
  <2> HIDE DEF op
  <2> QED BY <1>2, <2>1, <2>2, JoinWaits
<1>3. \/ lock' = lock
      \/ \E t \in ThreadIds : \E kind \in {"flush", "reconcile"} :
            /\ Len(lock) < MaxOps
            /\ lock' = Append(lock, [BlankOp EXCEPT !.kind = kind, !.thread = t])
  BY DEF Acks, Ack, SyncFlushes, Open
<1> QED BY <1>1, <1>2, <1>3

\* The operation goes on as a flush.
LEMMA FlushingWaits ==
    ASSUME LockOK, Tables, lock # <<>>, NEW t \in ThreadIds, NEW S \in SUBSET Items, S # {},
           lock' = <<Flushing(t, S)>> \o Tail(lock)
    PROVE  LockOK' /\ Waiting' = Waiting \ Brings(Head(lock))
<1> DEFINE op == Flushing(t, S)
<1>1. lock \in Seq(Op) /\ Head(lock) \in Op /\ OpOK(Head(lock))
  BY HeadParts DEF LockOK, LockTypes
<1>2. threads[t].revision \in 0..MaxEntries
  BY ThreadParts DEF Tables
<1>3. /\ op \in Op /\ op.candidate = S /\ op.phase \in {"summary", "gate"}
      /\ op.kind = Head(lock).kind /\ op.item = Head(lock).item
  BY <1>1, <1>2 DEF Flushing, Op
<1>4. OpOK(op) /\ op.phase # "queued"
  BY <1>1, <1>3 DEF OpOK
<1> HIDE DEF op
<1>5. /\ lock' \in Seq(Op) /\ Len(lock') = Len(lock) /\ lock'[1] = op
      /\ \A k \in 2..Len(lock) : lock'[k] = lock[k]
  <2>1. Tail(lock) \in Seq(Op) /\ Len(Tail(lock)) = Len(lock) - 1
        /\ \A k \in 1..(Len(lock) - 1) : Tail(lock)[k] = lock[k + 1]
    BY <1>1
  <2>2. <<op>> \in Seq(Op) /\ Len(<<op>>) = 1 /\ <<op>>[1] = op
    BY <1>3
  <2>3. lock' = <<op>> \o Tail(lock)
    BY DEF op
  <2>4. lock' \in Seq(Op) /\ Len(lock') = Len(lock)
    BY <1>1, <2>1, <2>2, <2>3
  <2>5. lock'[1] = op
    BY <2>1, <2>2, <2>3
  <2>6. ASSUME NEW k \in 2..Len(lock) PROVE lock'[k] = lock[k]
    <3>1. k - 1 \in 1..(Len(lock) - 1) /\ (k - 1) + 1 = k /\ k \in 1..Len(lock) /\ k > 1
      BY <1>1
    <3>2. lock'[k] = Tail(lock)[k - 1]
      BY <1>1, <2>1, <2>2, <2>3, <3>1
    <3> QED BY <2>1, <3>1, <3>2
  <2> QED BY <2>4, <2>5, <2>6
<1> QED BY <1>4, <1>5, HoldWaits

\* What a step under the lock does to those that wait for it.
LEMMA HolderWaits ==
    ASSUME LockOK, Tables, Flush \/ Reconcile
    PROVE  lock # <<>> /\ LockOK' /\ Waiting' = Waiting \ Brings(Head(lock))
<1>0. lock # <<>>
  BY DEF Flush, Reconcile, AppendItem, AppendRefused, FlushSettles, FlushAsks, CandidateIsStale,
         GateDenies, GateApproves, SummaryReady, HookFails, ReconcileCloses, ReconcileRepairs,
         ReconcileSettles, Holds
<1>1. CASE Release
  BY <1>0, <1>1, ReleaseWaits
<1>2. CASE AppendItem /\ ~Release
  <2>1. PICK t \in ThreadIds :
           LET i == Head(lock).item
               S == IF t \in Current THEN Unacked(t) \cup i ELSE i
           IN  lock' = <<Flushing(t, S)>> \o Tail(lock)
    BY <1>2 DEF AppendItem
  <2> DEFINE i == Head(lock).item
             S == IF t \in Current THEN Unacked(t) \cup i ELSE i
  <2>2. i \subseteq Items /\ i # {}
    BY <1>0, <1>2, HeadParts DEF LockOK, AppendItem, Holds, OpOK
  <2>3. threads[t].items \subseteq Items
    BY ThreadParts DEF Tables
  <2>4. S \in SUBSET Items /\ S # {}
    BY <2>2, <2>3 DEF Unacked
  <2> HIDE DEF S
  <2> QED BY <1>0, <2>1, <2>4, FlushingWaits DEF S
<1>3. CASE FlushAsks
  <2> DEFINE t == Head(lock).thread
  <2>1. /\ t \in ThreadIds /\ Pending(t) # {}
        /\ lock' = <<Flushing(t, Unacked(t))>> \o Tail(lock)
    BY <1>3 DEF FlushAsks, Open
  <2>2. Unacked(t) \in SUBSET Items /\ Unacked(t) # {}
    BY <2>1, ThreadParts DEF Tables, Unacked, Pending
  <2> QED BY <1>0, <2>1, <2>2, FlushingWaits
<1>4. CASE GateApproves
  <2>1. lock \in Seq(Op) /\ Head(lock) = lock[1] /\ lock[1] \in Op /\ OpOK(lock[1])
        /\ lock[1].phase = "gate"
    BY <1>0, <1>4, HeadParts DEF LockOK, LockTypes, GateApproves, Holds
  <2>2. lock' = [lock EXCEPT ![1] = [lock[1] EXCEPT !.phase = "summary"]]
    BY <1>4 DEF GateApproves
  <2> DEFINE op == [lock[1] EXCEPT !.phase = "summary"]
  <2>3. op \in Op /\ op.phase = "summary" /\ op.candidate = lock[1].candidate
        /\ op.kind = lock[1].kind /\ op.item = lock[1].item
    BY <2>1 DEF Op
  <2>4. OpOK(op)
    BY <2>1, <2>3 DEF OpOK
  <2> HIDE DEF op
  <2>5. /\ lock' \in Seq(Op) /\ Len(lock') = Len(lock) /\ lock'[1] = op
        /\ \A k \in 2..Len(lock) : lock'[k] = lock[k]
    BY <1>0, <2>1, <2>2, <2>3 DEF op
  <2> QED BY <1>0, <2>3, <2>4, <2>5, HoldWaits
<1> QED BY <1>1, <1>2, <1>3, <1>4
        DEF Flush, Reconcile, AppendItem, AppendRefused, FlushSettles, CandidateIsStale,
            GateDenies, SummaryReady, HookFails, ReconcileCloses, ReconcileRepairs, ReconcileSettles

-----------------------------------------------------------------------------
(* Items on their way *)

Ahead   == unseen \cup deriving \cup Waiting
Settled == {i \in Items : \/ \E t \in ThreadIds : i \in threads[t].items
                          \/ \E e \in EntryIds : i \in entries[e].items}

\* ArrivingOK, with the items that reached a thread or an entry.
LEMMA ArrivingIsApart ==
    ASSUME TableTypes
    PROVE  ArrivingOK <=> /\ unseen \cap deriving = {} /\ unseen \cap Waiting = {}
                          /\ deriving \cap Waiting = {}
                          /\ Settled \cap Ahead = {}
<1>1. /\ \A t \in ThreadIds : threads[t].items \subseteq Items
      /\ \A e \in EntryIds : entries[e].items \subseteq Items
  BY ThreadParts, EntryParts
<1> QED BY <1>1 DEF ArrivingOK, Settled, Ahead

\* Threads and entries that change their items only by losing some.
LEMMA NothingSettles ==
    ASSUME \A t \in ThreadIds : threads'[t].items \subseteq threads[t].items,
           \A e \in EntryIds : entries'[e].items \subseteq entries[e].items
    PROVE  Settled' \subseteq Settled
  BY DEF Settled

\* Closing a thread or moving its deadline settles nothing.
LEMMA TouchSettles ==
    ASSUME Tables, NEW t \in ThreadIds, entries' = entries,
           \/ t \in Open /\ threads' = Closed(t)
           \/ \E d \in {"none", "set", "due"} : threads' = [threads EXCEPT ![t].deadline = d]
           \/ threads' = [threads EXCEPT ![t].old = TRUE]
    PROVE  Settled' \subseteq Settled
  BY TouchedTables, NothingSettles

\* A snapshot is made of what is in its thread.
LEMMA PublishSettles ==
    ASSUME Tables, NEW t \in Open, NEW S \in SUBSET threads[t].items, Publish(t, S)
    PROVE  Settled' \subseteq Settled
<1>0. TableTypes /\ t \in ThreadIds
  BY DEF Tables, Open
<1>1. PICK e \in EntryIds :
              /\ entries'[e] = [used |-> TRUE, thread |-> t, items |-> S, superseded |-> FALSE,
                                revision |-> threads[t].revision + 1]
              /\ \A f \in EntryIds \ {e} :
                    /\ f # threads[t].latest => entries'[f] = entries[f]
                    /\ f = threads[t].latest =>
                          entries'[f] = [entries[f] EXCEPT !.superseded = TRUE]
              /\ threads'[t] = [threads[t] EXCEPT !.latest = e, !.revision = @ + 1,
                                                  !.deadline = DeadlineAfter(t, S)]
              /\ \A u \in ThreadIds \ {t} : threads'[u] = threads[u]
  BY PublishFacts
<1>2. entries'[e].items = S
  BY <1>1
<1>3. \A f \in EntryIds \ {e} : entries'[f].items = entries[f].items
  BY <1>0, <1>1, EntryParts, ZenonT(30) DEF Entry
<1>4. \A u \in ThreadIds : threads'[u].items = threads[u].items
  <2>1. threads[t] \in Thread
    BY <1>0, ThreadParts
  <2>2. threads'[t].items = threads[t].items
    BY <1>1, <2>1 DEF Thread
  <2> QED BY <1>1, <2>2
<1> QED BY <1>0, <1>2, <1>3, <1>4 DEF Settled

\* A new thread, and the threads it takes the place of.
LEMMA NewThreadItems ==
    ASSUME TableTypes, NEW t \in ThreadIds, Unused(t), NEW S, threads' = WithNewThread(t, S)
    PROVE  /\ threads'[t] = [BlankThread EXCEPT !.status = "open", !.items = S, !.deadline = "set"]
           /\ \A u \in ThreadIds \ {t} :
                 /\ threads'[u].items = threads[u].items
                 /\ u \in Outgrown => threads'[u].status = "closed"
                 /\ u \notin Outgrown => threads'[u] = threads[u]
<1>1. t \notin Outgrown
  BY DEF Unused, Outgrown, Open
<1>2. threads'[t] = [BlankThread EXCEPT !.status = "open", !.items = S, !.deadline = "set"]
  BY <1>1 DEF WithNewThread
<1>3. ASSUME NEW u \in ThreadIds \ {t}, u \in Outgrown
      PROVE  threads'[u].items = threads[u].items /\ threads'[u].status = "closed"
  <2>1. threads'[u] = [threads[u] EXCEPT !.status = "closed", !.deadline = "none"]
    BY <1>3 DEF WithNewThread
  <2> QED BY <2>1, ThreadParts DEF Thread
<1>4. ASSUME NEW u \in ThreadIds \ {t}, u \notin Outgrown PROVE threads'[u] = threads[u]
  BY <1>4 DEF WithNewThread
<1> QED BY <1>2, <1>3, <1>4

\* A new thread settles the items it is made with.
LEMMA NewThreadSettles ==
    ASSUME TableTypes, NEW t \in ThreadIds, Unused(t), NEW S \in SUBSET Items,
           threads' = WithNewThread(t, S), entries' = entries
    PROVE  Settled' \subseteq Settled \cup S
<1>1. threads'[t].items = S /\ \A u \in ThreadIds \ {t} : threads'[u].items = threads[u].items
  <2>1. threads'[t] = [BlankThread EXCEPT !.status = "open", !.items = S, !.deadline = "set"]
        /\ \A u \in ThreadIds \ {t} : threads'[u].items = threads[u].items
    BY NewThreadItems
  <2>2. threads'[t].items = S
    BY <2>1 DEF BlankThread
  <2> QED BY <2>1, <2>2
<1> QED BY <1>1 DEF Settled

\* An append settles the item it brought, and nothing else under the lock does.
LEMMA HolderSettles ==
    ASSUME Tables, LockOK, Flush \/ Reconcile
    PROVE  Settled' \subseteq Settled \cup Brings(Head(lock))
<1>0. TableTypes
  BY DEF Tables
<1>1. CASE AppendItem
  <2> DEFINE i == Head(lock).item
  <2>1. i \in SUBSET Items /\ entries' = entries /\ i = Brings(Head(lock))
    BY <1>1, HeadParts DEF AppendItem, Holds, Brings, LockOK
  <2>2. PICK t \in ThreadIds :
           /\ IF Current # {} THEN t \in Current ELSE Unused(t)
           /\ threads' = IF t \in Current
                         THEN [threads EXCEPT ![t].items = @ \cup i, ![t].deadline = "set"]
                         ELSE WithNewThread(t, i)
    BY <1>1 DEF AppendItem
  <2> HIDE DEF i
  <2>3. CASE t \in Current
    <3>1. /\ threads'[t].items = threads[t].items \cup i
          /\ \A u \in ThreadIds \ {t} : threads'[u] = threads[u]
      BY <1>0, <2>2, <2>3 DEF TableTypes, Thread
    <3> QED BY <2>1, <3>1 DEF Settled
  <2>4. CASE t \notin Current
    BY <1>0, <2>1, <2>2, <2>4, NewThreadSettles
  <2> QED BY <2>3, <2>4
<1>2. CASE SummaryReady
  <2>1. Settled' \subseteq Settled
    BY <1>2, SummaryPublishes, PublishSettles DEF LockOK
  <2> QED BY <2>1
<1>3. CASE ReconcileRepairs
  <2>1. Settled' \subseteq Settled
    BY <1>3, RepairPublishes, PublishSettles
  <2> QED BY <2>1
<1>4. CASE AppendRefused \/ FlushAsks \/ GateApproves \/ HookFails \/ ReconcileSettles
  BY <1>4 DEF AppendRefused, FlushAsks, GateApproves, HookFails, ReconcileSettles, Settled
<1>5. CASE FlushSettles \/ CandidateIsStale \/ GateDenies \/ ReconcileCloses
  <2>1. entries' = entries
    BY <1>5 DEF FlushSettles, CandidateIsStale, GateDenies, ReconcileCloses
  <2>2. \/ UNCHANGED threads
        \/ \E t \in Open : threads' = Closed(t)
        \/ \E t \in ThreadIds : threads' = [threads EXCEPT ![t].deadline = "set"]
    <3>1. CASE FlushSettles
      BY <3>1 DEF FlushSettles
    <3>2. CASE CandidateIsStale
      BY <3>2 DEF CandidateIsStale, Retried, Open
    <3>3. CASE GateDenies
      BY <3>3 DEF GateDenies, Denied, CandidateIsCurrent, Open
    <3>4. CASE ReconcileCloses
      BY <3>4 DEF ReconcileCloses
    <3> QED BY <1>5, <3>1, <3>2, <3>3, <3>4
  <2>3. CASE UNCHANGED threads
    BY <2>1, <2>3 DEF Settled
  <2>4. CASE \E t \in Open : threads' = Closed(t)
    <3>1. PICK t \in Open : threads' = Closed(t)
      BY <2>4
    <3>2. t \in ThreadIds
      BY DEF Open
    <3>3. Settled' \subseteq Settled
      BY <2>1, <3>1, <3>2, TouchSettles
    <3> QED BY <3>3
  <2>5. CASE \E t \in ThreadIds : threads' = [threads EXCEPT ![t].deadline = "set"]
    <3>1. Settled' \subseteq Settled
      BY <2>1, <2>5, TouchSettles
    <3> QED BY <3>1
  <2> QED BY <2>2, <2>3, <2>4, <2>5
<1> QED BY <1>1, <1>2, <1>3, <1>4, <1>5 DEF Flush, Reconcile

\* A step of a set of items that settle and leave those on their way.
LEMMA StaysApart ==
    ASSUME TableTypes, ArrivingOK, TableTypes', NEW G,
           Settled' \subseteq Settled \cup G, Ahead' \subseteq Ahead \ G,
           unseen' \cap deriving' = {}, unseen' \cap Waiting' = {}, deriving' \cap Waiting' = {}
    PROVE  ArrivingOK'
<1>1. Settled \cap Ahead = {}
  BY ArrivingIsApart
<1>2. Settled' \cap Ahead' = {}
  BY <1>1
<1>3. /\ \A t \in ThreadIds : threads'[t].items \subseteq Items
      /\ \A e \in EntryIds : entries'[e].items \subseteq Items
  BY DEF TableTypes, Thread, Entry
<1> QED BY <1>2, <1>3 DEF ArrivingOK, Settled, Ahead

\* Every step keeps the lock, and the items on their way apart from the settled ones.
LEMMA ArrivingStep ==
    ASSUME Tables, Tables', LockOK, ArrivingOK, deriving \subseteq Items, [Next]_vars
    PROVE  LockOK' /\ ArrivingOK'
<1>0. /\ TableTypes /\ TableTypes'
      /\ unseen \cap deriving = {} /\ unseen \cap Waiting = {} /\ deriving \cap Waiting = {}
  BY DEF Tables, ArrivingOK
<1>1. CASE Flush \/ Reconcile
  <2>1. LockOK' /\ Waiting' = Waiting \ Brings(Head(lock)) /\ lock # <<>>
    BY <1>1, HolderWaits
  <2>2. Settled' \subseteq Settled \cup Brings(Head(lock))
    BY <1>1, HolderSettles
  <2>3. UNCHANGED <<unseen, deriving>>
    BY <1>1 DEF Flush, Reconcile, AppendItem, AppendRefused, FlushSettles, FlushAsks,
                CandidateIsStale, GateDenies, GateApproves, SummaryReady, HookFails,
                ReconcileCloses, ReconcileRepairs, ReconcileSettles
  <2>4. Brings(Head(lock)) \subseteq Waiting
    <3>1. 1 \in DOMAIN lock /\ Head(lock) = lock[1]
      BY <2>1, HeadParts DEF LockOK
    <3> QED BY <3>1, BringingFacts, WaitingIsBringing
  <2>5. Ahead' \subseteq Ahead \ Brings(Head(lock))
    BY <1>0, <2>1, <2>3, <2>4 DEF Ahead
  <2> QED BY <1>0, <2>1, <2>2, <2>3, <2>5, StaysApart
<1>2. ASSUME NEW i \in Items, Arrives(i) \/ Ungrouped(i) \/ GroupingFails(i)
      PROVE  LockOK' /\ ArrivingOK'
  <2>1. lock' = lock
    BY <1>2 DEF Arrives, Ungrouped, GroupingFails
  <2>2. LockOK' /\ Waiting' = Waiting
    BY <2>1 DEF LockOK, LockTypes, QueueOK, Appends, Waiting, Queued
  <2>3. CASE Ungrouped(i)
    <3>1. PICK e \in EntryIds :
             entries' = [entries EXCEPT ![e] = [BlankEntry EXCEPT !.used = TRUE, !.items = {i}]]
      BY <2>3 DEF Ungrouped
    <3>2. /\ threads' = threads /\ entries'[e].items = {i} /\ unseen' = unseen
          /\ i \in deriving /\ deriving' = deriving \ {i}
          /\ \A f \in EntryIds \ {e} : entries'[f] = entries[f]
      BY <1>0, <2>3, <3>1 DEF Ungrouped, BlankEntry, TableTypes
    <3>3. Settled' \subseteq Settled \cup {i}
      BY <3>2 DEF Settled
    <3>4. Ahead' \subseteq Ahead \ {i}
      BY <1>0, <2>2, <3>2 DEF Ahead
    <3> QED BY <1>0, <2>2, <3>2, <3>3, <3>4, StaysApart
  <2>4. CASE Arrives(i) \/ GroupingFails(i)
    <3>1. UNCHANGED <<threads, entries>> /\ Ahead' \subseteq Ahead
          /\ unseen' \cap deriving' = {} /\ unseen' \cap Waiting' = {} /\ deriving' \cap Waiting' = {}
      BY <1>0, <2>2, <2>4 DEF Arrives, GroupingFails, Ahead
    <3>2. Settled' \subseteq Settled \cup {}
      BY <3>1 DEF Settled
    <3> QED BY <1>0, <2>2, <3>1, <3>2, StaysApart
  <2> QED BY <1>2, <2>3, <2>4
<1>3. ASSUME NEW i \in Items, NEW hint \in {"normal", "evaluate", "immediate"}, Grouped(i, hint)
      PROVE  LockOK' /\ ArrivingOK'
  <2> DEFINE op == [BlankOp EXCEPT !.kind = "append", !.item = {i}, !.hint = hint]
  <2>1. op \in Op /\ OpOK(op) /\ Brings(op) = {i}
    BY AppendOp
  <2>2. /\ i \in deriving /\ Len(lock) < MaxOps /\ lock' = Append(lock, op)
        /\ deriving' = deriving \ {i} /\ UNCHANGED <<unseen, threads, entries>>
    BY <1>3 DEF Grouped
  <2> HIDE DEF op
  <2>3. LockOK' /\ Waiting' = Waiting \cup {i}
    BY <1>0, <2>1, <2>2, JoinWaits
  <2>4. Ahead' \subseteq Ahead /\ Settled' \subseteq Settled \cup {}
    BY <2>2, <2>3 DEF Ahead, Settled
  <2> QED BY <1>0, <2>2, <2>3, <2>4, StaysApart
<1>4. CASE Acks \/ \E t \in ThreadIds : SyncFlushes(t)
  <2>1. UNCHANGED <<unseen, deriving, threads, entries>>
    BY <1>4 DEF Acks, Ack, SyncFlushes
  <2>2. LockOK' /\ Waiting' = Waiting
    BY <1>4, AskingWaits
  <2>3. Ahead' \subseteq Ahead /\ Settled' \subseteq Settled \cup {}
    BY <2>1, <2>2 DEF Ahead, Settled
  <2> QED BY <1>0, <2>1, <2>2, <2>3, StaysApart
<1>5. CASE \/ UNCHANGED vars \/ RemoveSource \/ RemoveInbox \/ Collect
           \/ \E t \in ThreadIds : SyncCloses(t) \/ DeadlinePasses(t) \/ ThreadAges(t)
  <2>1. UNCHANGED <<lock, unseen, deriving>>
    BY <1>5 DEF vars, RemoveSource, RemoveInbox, Collect, Collects, SyncCloses, DeadlinePasses,
                ThreadAges
  <2>2. LockOK' /\ Waiting' = Waiting
    BY <2>1 DEF LockOK, LockTypes, QueueOK, Appends, Waiting, Queued
  <2>3. Settled' \subseteq Settled \cup {}
    <3>1. CASE UNCHANGED <<threads, entries>>
      BY <3>1 DEF Settled
    <3>2. ASSUME NEW t \in ThreadIds, SyncCloses(t) \/ DeadlinePasses(t) \/ ThreadAges(t)
          PROVE  Settled' \subseteq Settled
      <4>1. /\ entries' = entries
            /\ \/ t \in Open /\ threads' = Closed(t)
               \/ threads' = [threads EXCEPT ![t].deadline = "due"]
               \/ threads' = [threads EXCEPT ![t].old = TRUE]
        BY <3>2 DEF SyncCloses, DeadlinePasses, ThreadAges
      <4> QED BY <4>1, TouchSettles
    <3>3. CASE Collect
      <4>1. PICK n \in DOMAIN acks : Collects(n)
        BY <3>3 DEF Collect
      <4> DEFINE S == Kept(n)
      <4>2. entries' = EntriesKeeping(S) /\ threads' = [t \in ThreadIds |-> ThreadKeeping(t, S)]
        BY <4>1 DEF Collects
      <4> HIDE DEF S
      <4>3. \A e \in EntryIds : entries'[e].items \subseteq entries[e].items
        BY <1>0, <4>2, EntryLeft
      <4>4. ASSUME NEW t \in ThreadIds PROVE threads'[t].items \subseteq threads[t].items
        <5>1. threads'[t] = ThreadKeeping(t, S)
          BY <4>2
        <5> QED BY <5>1, ThreadLeft
      <4> QED BY <4>3, <4>4, NothingSettles
    <3> QED BY <1>5, <3>1, <3>2, <3>3 DEF vars, RemoveSource, RemoveInbox
  <2>4. Ahead' \subseteq Ahead \ {}
    BY <2>1, <2>2 DEF Ahead
  <2> QED BY <1>0, <2>1, <2>2, <2>3, <2>4, StaysApart
<1>6. CASE Crash
  <2>1. /\ unseen' = unseen /\ deriving' = {} /\ lock' = <<>> /\ entries' = entries
    BY <1>6 DEF Crash
  <2>2. LockOK' /\ Waiting' = {}
    BY <2>1, BoundsAreNaturals DEF LockOK, LockTypes, QueueOK, Appends, Waiting, Queued
  <2>3. Settled' \subseteq Settled \cup {}
    <3>1. CASE threads' = threads
      BY <2>1, <3>1 DEF Settled
    <3>2. CASE threads' # threads
      <4>1. \E t \in ThreadIds : Unused(t) /\ threads' = WithNewThread(t, {})
        BY <1>6, <3>2 DEF Crash
      <4> QED BY <1>0, <2>1, <4>1, NewThreadSettles
    <3> QED BY <3>1, <3>2
  <2>4. Ahead' \subseteq Ahead \ {}
    BY <2>1, <2>2 DEF Ahead
  <2> QED BY <1>0, <2>1, <2>2, <2>3, <2>4, StaysApart
<1> QED BY <1>1, <1>2, <1>3, <1>4, <1>5, <1>6 DEF Next, Materialize, Sync, Time

-----------------------------------------------------------------------------
(* Acks *)

\* A sequence is one of what its elements are.
LEMMA SeqByElements ==
    ASSUME NEW S, NEW T, NEW q \in Seq(S), \A k \in DOMAIN q : q[k] \in T
    PROVE  q \in Seq(T)
  OBVIOUS

\* The elements of a suffix.
LEMMA SuffixFacts ==
    ASSUME NEW S, NEW q \in Seq(S), NEW n \in 1..Len(q)
    PROVE  LET r == SubSeq(q, n + 1, Len(q))
           IN  /\ r \in Seq(S)
               /\ \A k \in DOMAIN r : k + n \in DOMAIN q /\ r[k] = q[k + n] /\ k + n > n
               /\ \A k \in DOMAIN q : k > n => k - n \in DOMAIN r /\ r[k - n] = q[k]
<1> DEFINE r == SubSeq(q, n + 1, Len(q))
<1>1. r \in Seq(S) /\ Len(r) = Len(q) - n /\ DOMAIN r = 1..(Len(q) - n)
  OBVIOUS
<1>2. \A k \in 1..(Len(q) - n) : r[k] = q[k + n]
  OBVIOUS
<1>3. DOMAIN q = 1..Len(q) /\ Len(q) \in Nat
  OBVIOUS
<1> HIDE DEF r
<1>4. ASSUME NEW k \in DOMAIN r PROVE k + n \in DOMAIN q /\ r[k] = q[k + n] /\ k + n > n
  <2>1. k \in 1..(Len(q) - n) /\ k + n \in 1..Len(q) /\ k + n > n
    BY <1>1, <1>3
  <2> QED BY <1>2, <1>3, <2>1
<1>5. ASSUME NEW k \in DOMAIN q, k > n PROVE k - n \in DOMAIN r /\ r[k - n] = q[k]
  <2>1. k - n \in 1..(Len(q) - n) /\ (k - n) + n = k
    BY <1>3, <1>5
  <2> QED BY <1>1, <1>2, <2>1
<1> QED BY <1>1, <1>4, <1>5, Zenon DEF r

\* An acked item was acked by some ack.
LEMMA AckedFacts ==
    ASSUME NEW i
    PROVE  i \in Acked <=> \E k \in DOMAIN acks : i \in acks[k]
  BY DEF Acked

\* ackInboxEntries acks what was not acked.
LEMMA AckStepAcks ==
    ASSUME AckTypes, AcksOK, NEW E, Ack(E)
    PROVE  AckTypes' /\ AcksOK' /\ Acked \subseteq Acked'
<1> DEFINE now == ((UNION {entries[e].items : e \in E}) \cap items) \ Acked
           n   == Len(acks) + 1
<1>1. acks' = Append(acks, now) /\ items' = items /\ acks \in Seq(SUBSET items)
  BY DEF Ack, AckTypes
<1>2. now \in SUBSET items /\ now \cap Acked = {}
  OBVIOUS
<1> HIDE DEF now
<1>3. /\ acks' \in Seq(SUBSET items) /\ DOMAIN acks' = DOMAIN acks \cup {n} /\ n \notin DOMAIN acks
      /\ acks'[n] = now /\ \A k \in DOMAIN acks : acks'[k] = acks[k]
  BY <1>1, <1>2
<1>4. \A k \in DOMAIN acks : acks[k] \subseteq Acked
  BY AckedFacts
<1>5. AcksOK'
  BY <1>2, <1>3, <1>4 DEF AcksOK
<1>6. Acked \subseteq Acked'
  BY <1>3 DEF Acked
<1> QED BY <1>1, <1>3, <1>5, <1>6 DEF AckTypes

\* The collection forgets the first acks and their items.
LEMMA CollectsAcks ==
    ASSUME AckTypes, AcksOK, NEW n \in DOMAIN acks, Collects(n)
    PROVE  /\ AckTypes' /\ AcksOK'
           /\ items' \subseteq items /\ items' \cap Acked \subseteq Acked'
<1>1. /\ n \in 1..Len(acks) /\ acks \in Seq(SUBSET items)
      /\ acks' = SubSeq(acks, n + 1, Len(acks)) /\ items' = Kept(n)
  BY DEF Collects, AckTypes
<1>2. /\ acks' \in Seq(SUBSET items)
      /\ \A k \in DOMAIN acks' : k + n \in DOMAIN acks /\ acks'[k] = acks[k + n] /\ k + n > n
      /\ \A k \in DOMAIN acks : k > n => k - n \in DOMAIN acks' /\ acks'[k - n] = acks[k]
  BY <1>1, SuffixFacts
<1>3. \A k \in 1..n : k \in DOMAIN acks
  BY <1>1
<1>4. ASSUME NEW k \in DOMAIN acks' PROVE acks'[k] \in SUBSET items'
  <2>1. acks[k + n] \subseteq items /\ k + n \in DOMAIN acks
    <3>1. k + n \in DOMAIN acks
      BY <1>2
    <3>2. \A j \in DOMAIN acks : acks[j] \subseteq items
      BY DEF AckTypes
    <3> QED BY <3>1, <3>2
  <2>2. \A j \in 1..n : acks[j] \cap acks[k + n] = {}
    <3> DEFINE m == k + n
    <3>1. m > n /\ n \in Nat /\ m \in 1..Len(acks) /\ m \in DOMAIN acks
      <4>1. DOMAIN acks = 1..Len(acks) /\ Len(acks) \in Nat
        BY <1>1
      <4> QED BY <1>1, <1>2, <2>1, <4>1
    <3> HIDE DEF m
    <3>2. \A j \in 1..n : j # m
      BY <3>1
    <3>3. \A j \in 1..n : acks[j] \cap acks[m] = {}
      BY <1>3, <3>1, <3>2 DEF AcksOK
    <3> QED BY <3>3 DEF m
  <2>3. acks[k + n] \cap UNION {acks[j] : j \in 1..n} = {}
    BY <2>2
  <2>4. items' = items \ UNION {acks[j] : j \in 1..n}
    BY <1>1 DEF Kept
  <2> QED BY <1>2, <2>1, <2>3, <2>4
<1>5. acks' \in Seq(SUBSET items')
  BY <1>2, <1>4, SeqByElements
<1>6. AcksOK'
  <2>1. ASSUME NEW j \in DOMAIN acks', NEW k \in DOMAIN acks', j # k
        PROVE  acks'[j] \cap acks'[k] = {}
    <3>1. j + n # k + n
      BY <1>1, <1>2, <2>1
    <3> QED BY <1>2, <3>1 DEF AcksOK
  <2> QED BY <2>1 DEF AcksOK
<1>7. ASSUME NEW i \in items', i \in Acked PROVE i \in Acked'
  <2>1. PICK k \in DOMAIN acks : i \in acks[k]
    BY <1>7, AckedFacts
  <2>2. k \notin 1..n
    BY <1>1, <2>1 DEF Kept
  <2>3. k > n
    BY <1>1, <2>2
  <2>4. k - n \in DOMAIN acks' /\ i \in acks'[k - n]
    BY <1>2, <2>1, <2>3
  <2> QED BY <2>4 DEF Acked
<1> QED BY <1>1, <1>5, <1>6, <1>7 DEF AckTypes, Kept

\* The steps that leave items and acks alone.
LEMMA SameAcks ==
    ASSUME Next
    PROVE  \/ UNCHANGED <<items, acks>>
           \/ \E i \in Items : Arrives(i)
           \/ Acks \/ Collect \/ RemoveInbox
  BY DEF Next, Materialize, Ungrouped, GroupingFails, Grouped, Flush, AppendItem, AppendRefused,
         FlushSettles, FlushAsks, CandidateIsStale, GateDenies, GateApproves, SummaryReady,
         HookFails, Reconcile, ReconcileCloses, ReconcileRepairs, ReconcileSettles, Sync,
         SyncFlushes, SyncCloses, Time, DeadlinePasses, ThreadAges, RemoveSource, Crash

\* Every step keeps the acks apart.
LEMMA AckStep ==
    ASSUME AckTypes, AcksOK, [Next]_vars
    PROVE  AckTypes' /\ AcksOK'
<1>1. CASE UNCHANGED <<items, acks>>
  BY <1>1 DEF AckTypes, AcksOK
<1>2. ASSUME NEW i \in Items, Arrives(i) PROVE AckTypes' /\ AcksOK'
  <2>1. acks' = acks /\ items \subseteq items'
    BY <1>2 DEF Arrives
  <2>2. \A k \in DOMAIN acks : acks[k] \in SUBSET items'
    BY <2>1 DEF AckTypes
  <2>3. acks \in Seq(SUBSET items')
    BY <2>2, SeqByElements DEF AckTypes
  <2> QED BY <2>1, <2>3 DEF AckTypes, AcksOK
<1>3. CASE Acks
  BY <1>3, AckStepAcks DEF Acks
<1>4. CASE Collect
  BY <1>4, CollectsAcks DEF Collect
<1>5. CASE RemoveInbox
  BY <1>5 DEF RemoveInbox, AckTypes, AcksOK
<1> QED BY <1>1, <1>2, <1>3, <1>4, <1>5, SameAcks DEF vars

\* The types of the rest.
LEMMA ItemTypesStep ==
    ASSUME ItemTypes, TableTypes, LockTypes, AckTypes, AcksOK, [Next]_vars
    PROVE  ItemTypes'
<1>1. removed' \subseteq Removable
  BY DEF ItemTypes, Next, vars, Materialize, Arrives, Ungrouped, GroupingFails, Grouped, Flush,
         AppendItem, AppendRefused, FlushSettles, FlushAsks, CandidateIsStale, GateDenies,
         GateApproves, SummaryReady, HookFails, Reconcile, ReconcileCloses, ReconcileRepairs,
         ReconcileSettles, Sync, SyncFlushes, SyncCloses, Time, DeadlinePasses, ThreadAges,
         Acks, Ack, Collect, Collects, RemoveSource, RemoveInbox, Crash
<1>2. unseen' \subseteq Items /\ deriving' \subseteq Items
  BY DEF ItemTypes, Next, vars, Materialize, Arrives, Ungrouped, GroupingFails, Grouped, Flush,
         AppendItem, AppendRefused, FlushSettles, FlushAsks, CandidateIsStale, GateDenies,
         GateApproves, SummaryReady, HookFails, Reconcile, ReconcileCloses, ReconcileRepairs,
         ReconcileSettles, Sync, SyncFlushes, SyncCloses, Time, DeadlinePasses, ThreadAges,
         Acks, Ack, Collect, Collects, RemoveSource, RemoveInbox, Crash
<1>3. items' \subseteq Items
  <2>1. CASE Collect
    BY <2>1, CollectsAcks DEF Collect, ItemTypes
  <2> QED BY <2>1, SameAcks DEF vars, ItemTypes, Arrives, Acks, Ack, RemoveInbox
<1>4. letGo' \subseteq Items
  <2>1. \A t \in ThreadIds : Pending(t) \subseteq Items
    BY ThreadParts DEF Pending, Unacked
  <2>2. Waiting \subseteq Items
    <3>1. ASSUME NEW k \in DOMAIN lock PROVE lock[k].item \subseteq Items
      <4>1. lock[k] \in Op
        BY DEF LockTypes
      <4> QED BY <4>1 DEF Op
    <3> QED BY <3>1 DEF Waiting, Queued
  <2>3. \/ letGo' = letGo
        \/ \E i \in Items : letGo' = letGo \cup {i}
        \/ \E t \in ThreadIds : letGo' = letGo \cup Pending(t)
        \/ letGo' = letGo \cup deriving \cup Waiting
    BY DEF Next, vars, Materialize, Arrives, Ungrouped, GroupingFails, Grouped, Flush,
           AppendItem, AppendRefused, FlushSettles, FlushAsks, CandidateIsStale, GateDenies,
           GateApproves, SummaryReady, HookFails, Reconcile, ReconcileCloses, ReconcileRepairs,
           ReconcileSettles, Sync, SyncFlushes, SyncCloses, Time, DeadlinePasses, ThreadAges,
           Acks, Ack, Collect, Collects, RemoveSource, RemoveInbox, Crash, Open
  <2> QED BY <2>1, <2>2, <2>3 DEF ItemTypes
<1>5. aging' \in 0..MaxAging /\ crashes' \in 0..MaxCrashes
  <2>1. \/ UNCHANGED counters
        \/ crashes' = crashes /\ aging < MaxAging /\ aging' = aging + 1
        \/ aging' = aging /\ crashes < MaxCrashes /\ crashes' = crashes + 1
    BY DEF Next, vars, counters, Materialize, Arrives, Ungrouped, GroupingFails, Grouped, Flush,
           AppendItem, AppendRefused, FlushSettles, FlushAsks, CandidateIsStale, GateDenies,
           GateApproves, SummaryReady, HookFails, Reconcile, ReconcileCloses, ReconcileRepairs,
           ReconcileSettles, Sync, SyncFlushes, SyncCloses, Time, DeadlinePasses, ThreadAges,
           Acks, Ack, Collect, Collects, RemoveSource, RemoveInbox, Crash
  <2> QED BY <2>1, BoundsAreNaturals DEF ItemTypes, counters
<1> QED BY <1>1, <1>2, <1>3, <1>4, <1>5 DEF ItemTypes

-----------------------------------------------------------------------------
(* What is sound stays so *)

Sound == Tables /\ LockOK /\ ItemTypes /\ AckTypes /\ AcksOK /\ ArrivingOK

\* The inductive invariant, by table.
LEMMA InvariantByTable ==
    IInv <=> Sound /\ NothingLost
  BY TypesByTable DEF IInv, Inv, Sound, LockOK, Tables

\* It holds at first.
LEMMA InitSound ==
    Init => Sound /\ NothingLost
<1> SUFFICES ASSUME Init PROVE Sound /\ NothingLost
  OBVIOUS
<1>1. /\ BlankThread.status = "unused" /\ BlankThread.items = {} /\ BlankThread.latest = 0
      /\ BlankThread.revision = 0 /\ BlankEntry.used = FALSE /\ BlankEntry.items = {}
      /\ BlankEntry.thread = 0
  BY DEF BlankThread, BlankEntry
<1>2. /\ \A t \in ThreadIds : threads[t] = BlankThread
      /\ \A e \in EntryIds : entries[e] = BlankEntry
  BY DEF Init
<1>3. TableTypes
  BY BlanksAreTyped DEF Init, TableTypes
<1>4. Rows = {} /\ Open = {}
  BY <1>1, <1>2 DEF Rows, Open
<1>5. \A t \in ThreadIds : LatestOK(t)
  BY <1>1, <1>2, <1>4 DEF LatestOK
<1>6. ThreadsOK
  <2>1. \A e \in EntryIds : 0 < e
    BY BoundsAreNaturals DEF EntryIds
  <2> QED BY <1>1, <1>2, <1>4, <2>1 DEF ThreadsOK, SnapshotOK
<1>7. LockOK /\ Waiting = {}
  BY BoundsAreNaturals DEF Init, LockOK, LockTypes, QueueOK, Appends, Waiting, Queued
<1>8. ItemTypes /\ AckTypes /\ AcksOK
  BY BoundsAreNaturals DEF Init, ItemTypes, AckTypes, AcksOK
<1>9. ArrivingOK
  BY <1>1, <1>2, <1>7 DEF Init, ArrivingOK
<1>10. NothingLost
  BY DEF Init, NothingLost
<1> QED BY <1>3, <1>5, <1>6, <1>7, <1>8, <1>9, <1>10 DEF Sound, Tables

\* Every step keeps what is sound so.
LEMMA SoundStep ==
    ASSUME Sound, [Next]_vars
    PROVE  Sound'
<1>1. deriving \subseteq Items /\ TableTypes /\ LockTypes /\ QueueOK(lock)
  BY DEF Sound, ItemTypes, Tables, LockOK
<1>2. Tables'
  BY <1>1, TablesStep DEF Sound
<1>3. LockOK' /\ ArrivingOK'
  BY <1>1, <1>2, ArrivingStep DEF Sound
<1>4. AckTypes' /\ AcksOK'
  BY AckStep DEF Sound
<1>5. ItemTypes'
  BY <1>1, ItemTypesStep DEF Sound
<1> QED BY <1>2, <1>3, <1>4, <1>5 DEF Sound

-----------------------------------------------------------------------------
(* Nothing is lost *)

\* Where NothingLost says that an item is.
Found(i) ==
    \/ i \in deriving \cup Waiting
    \/ \E e \in Visible : i \in entries[e].items
    \/ \E t \in Open : i \in Pending(t) /\ threads[t].deadline # "none"
    \/ i \in letGo

\* A step acks items, takes them away, or brings a new one.
LEMMA UnackedBefore ==
    ASSUME AckTypes, AcksOK, Next, NEW i \in items' \ Acked'
    PROVE  i \in items \ Acked \/ Arrives(i)
<1>1. CASE UNCHANGED <<items, acks>>
  BY <1>1 DEF Acked
<1>2. ASSUME NEW j \in Items, Arrives(j) PROVE i \in items \ Acked \/ Arrives(i)
  BY <1>2 DEF Arrives, Acked
<1>3. ASSUME NEW E, Ack(E) PROVE i \in items \ Acked
  <2>1. Acked \subseteq Acked'
    BY <1>3, AckStepAcks
  <2> QED BY <1>3, <2>1 DEF Ack
<1>4. CASE Collect
  <2>1. items' \subseteq items /\ items' \cap Acked \subseteq Acked'
    BY <1>4, CollectsAcks DEF Collect
  <2> QED BY <2>1
<1>5. CASE RemoveInbox
  BY <1>5 DEF RemoveInbox
<1> QED BY <1>1, <1>2, <1>3, <1>4, <1>5, SameAcks DEF Acks

\* An entry that keeps an unacked item stays visible.
LEMMA StaysVisible ==
    ASSUME NEW i, i \notin Acked', NEW e \in EntryIds, i \in entries'[e].items,
           ~entries'[e].superseded
    PROVE  Found(i)'
  BY DEF Found, Visible, Rows

\* An item stays pending unless it is published.
LEMMA StaysPending ==
    ASSUME NEW i \in items' \ Acked', NEW t \in Open', i \in threads'[t].items,
           threads'[t].deadline # "none",
           \A e \in EntryIds : i \in entries'[e].items => entries'[e].thread # t
    PROVE  Found(i)'
  BY DEF Found, Pending, Unacked, Published, Rows

\* Where entries stay, only what becomes of waiting items and of threads matters.
LEMMA SameEntriesFound ==
    ASSUME entries' = entries, letGo \subseteq letGo', NEW i \in items' \ Acked', Found(i),
           i \in deriving \cup Waiting => Found(i)',
           \A t \in Open : i \in Pending(t) /\ threads[t].deadline # "none" =>
              \/ i \in letGo'
              \/ t \in Open' /\ i \in threads'[t].items /\ threads'[t].deadline # "none"
    PROVE  Found(i)'
<1>1. CASE i \in deriving \cup Waiting
  BY <1>1
<1>2. ASSUME NEW e \in Visible, i \in entries[e].items PROVE Found(i)'
  BY <1>2, StaysVisible DEF Visible, Rows
<1>3. ASSUME NEW t \in Open, i \in Pending(t), threads[t].deadline # "none" PROVE Found(i)'
  <2>1. CASE i \in letGo'
    BY <2>1 DEF Found
  <2>2. CASE t \in Open' /\ i \in threads'[t].items /\ threads'[t].deadline # "none"
    <3>1. \A e \in EntryIds : i \in entries'[e].items => entries'[e].thread # t
      BY <1>3 DEF Pending, Published, Rows
    <3> QED BY <2>2, <3>1, StaysPending
  <2> QED BY <1>3, <2>1, <2>2
<1>4. CASE i \in letGo
  BY <1>4 DEF Found
<1> QED BY <1>1, <1>2, <1>3, <1>4 DEF Found

\* What a snapshot writes, by field.
LEMMA PublishRows ==
    ASSUME Tables, NEW t \in Open, NEW S \in SUBSET threads[t].items, Publish(t, S)
    PROVE  \E e \in EntryIds :
              /\ ~entries[e].used /\ entries[e].items = {} /\ e # threads[t].latest
              /\ entries'[e].used /\ entries'[e].thread = t /\ entries'[e].items = S
              /\ ~entries'[e].superseded
              /\ \A f \in EntryIds \ {e} :
                    /\ entries'[f].used = entries[f].used
                    /\ entries'[f].thread = entries[f].thread
                    /\ entries'[f].items = entries[f].items
                    /\ f # threads[t].latest => entries'[f].superseded = entries[f].superseded
              /\ \A u \in ThreadIds :
                    /\ threads'[u].items = threads[u].items
                    /\ threads'[u].status = threads[u].status
                    /\ u # t => threads'[u].deadline = threads[u].deadline
              /\ threads'[t].deadline = DeadlineAfter(t, S)
<1>0. TableTypes /\ t \in ThreadIds /\ threads[t] \in Thread
  BY ThreadParts DEF Tables, Open
<1>1. PICK e \in EntryIds :
              /\ NextEntry(e)
              /\ entries'[e] = [used |-> TRUE, thread |-> t, items |-> S, superseded |-> FALSE,
                                revision |-> threads[t].revision + 1]
              /\ e # threads[t].latest
              /\ \A f \in EntryIds \ {e} :
                    /\ f # threads[t].latest => entries'[f] = entries[f]
                    /\ f = threads[t].latest =>
                          entries'[f] = [entries[f] EXCEPT !.superseded = TRUE]
              /\ threads'[t] = [threads[t] EXCEPT !.latest = e, !.revision = @ + 1,
                                                  !.deadline = DeadlineAfter(t, S)]
              /\ \A u \in ThreadIds \ {t} : threads'[u] = threads[u]
  BY PublishFacts
<1>2. ~entries[e].used /\ entries[e].items = {}
  BY <1>1, RowsAreUsed DEF NextEntry, Tables
<1>3. /\ entries'[e].used /\ entries'[e].thread = t /\ entries'[e].items = S
      /\ ~entries'[e].superseded
  BY <1>1
<1>4. ASSUME NEW f \in EntryIds \ {e}
      PROVE  /\ entries'[f].used = entries[f].used
             /\ entries'[f].thread = entries[f].thread
             /\ entries'[f].items = entries[f].items
             /\ f # threads[t].latest => entries'[f].superseded = entries[f].superseded
  BY <1>0, <1>1, EntryParts, ZenonT(30) DEF Entry
<1>5. ASSUME NEW u \in ThreadIds
      PROVE  /\ threads'[u].items = threads[u].items
             /\ threads'[u].status = threads[u].status
             /\ u # t => threads'[u].deadline = threads[u].deadline
  <2>1. threads'[t].items = threads[t].items /\ threads'[t].status = threads[t].status
    BY <1>0, <1>1 DEF Thread
  <2> QED BY <1>1, <2>1
<1>6. threads'[t].deadline = DeadlineAfter(t, S)
  BY <1>0, <1>1 DEF Thread
<1> QED BY <1>1, <1>2, <1>3, <1>4, <1>5, <1>6

\* A snapshot shows what it holds and what the superseded one showed, and what it
\* leaves out keeps a deadline.
LEMMA PublishFound ==
    ASSUME Tables, NEW t \in Open, NEW S \in {Unacked(t), Known(t)}, Publish(t, S),
           NEW i \in items \ Acked, UNCHANGED <<items, acks, deriving, letGo>>,
           Waiting' = Waiting, Found(i)
    PROVE  Found(i)'
<1>0. /\ TableTypes /\ t \in ThreadIds /\ t # 0 /\ i \in items' \ Acked'
      /\ S \in SUBSET threads[t].items
  BY DEF Tables, Open, ThreadIds, Acked, Known, Unacked
<1>1. PICK e \in EntryIds :
              /\ ~entries[e].used /\ entries[e].items = {} /\ e # threads[t].latest
              /\ entries'[e].used /\ entries'[e].thread = t /\ entries'[e].items = S
              /\ ~entries'[e].superseded
              /\ \A f \in EntryIds \ {e} :
                    /\ entries'[f].used = entries[f].used
                    /\ entries'[f].thread = entries[f].thread
                    /\ entries'[f].items = entries[f].items
                    /\ f # threads[t].latest => entries'[f].superseded = entries[f].superseded
              /\ \A u \in ThreadIds :
                    /\ threads'[u].items = threads[u].items
                    /\ threads'[u].status = threads[u].status
                    /\ u # t => threads'[u].deadline = threads[u].deadline
              /\ threads'[t].deadline = DeadlineAfter(t, S)
  BY <1>0, PublishRows
<1>2. CASE i \in S
  BY <1>0, <1>1, <1>2, StaysVisible
<1>3. ASSUME NEW f \in Visible, i \in entries[f].items, i \notin S PROVE Found(i)'
  <2>1. f \in EntryIds \ {e} /\ f \in Rows /\ ~entries[f].superseded
    BY <1>1, <1>3 DEF Visible, Rows
  <2>2. f # threads[t].latest
    <3>1. SUFFICES ASSUME f = threads[t].latest PROVE FALSE
      OBVIOUS
    <3>2. f # 0
      BY <2>1, BoundsAreNaturals DEF EntryIds
    <3>3. entries[f].thread = t
      BY <1>0, <3>1, <3>2 DEF Tables, LatestOK
    <3>4. i \in threads[t].items
      BY <1>0, <1>3, <2>1, <3>3 DEF Tables, ThreadsOK, SnapshotOK
    <3>5. i \in Unacked(t) /\ i \in Published(t)
      BY <1>3, <2>1, <3>3, <3>4 DEF Unacked, Published
    <3> QED BY <1>3, <3>5 DEF Known
  <2> QED BY <1>0, <1>1, <1>3, <2>1, <2>2, StaysVisible
<1>4. ASSUME NEW u \in Open, i \in Pending(u), threads[u].deadline # "none", i \notin S
      PROVE  Found(i)'
  <2>1. u \in ThreadIds /\ u \in Open' /\ i \in threads'[u].items
    BY <1>1, <1>4 DEF Open, Pending, Unacked
  <2>2. \A f \in EntryIds : i \in entries'[f].items => entries'[f].thread # u
    <3>1. \A f \in EntryIds : i \in entries[f].items => entries[f].thread # u
      BY <1>4 DEF Pending, Published, Rows
    <3> QED BY <1>1, <1>4, <3>1
  <2>3. threads'[u].deadline # "none"
    <3>1. CASE u = t
      <4>1. ~(Pending(t) \subseteq S)
        BY <1>4, <3>1
      <4> QED BY <1>1, <1>4, <3>1, <4>1 DEF DeadlineAfter
    <3> QED BY <1>1, <1>4, <2>1, <3>1
  <2> QED BY <1>0, <2>1, <2>2, <2>3, StaysPending
<1>5. CASE i \in deriving \cup Waiting \cup letGo
  BY <1>5 DEF Found
<1> QED BY <1>2, <1>3, <1>4, <1>5 DEF Found

\* An append puts its item into the current thread, or into a new one, with a
\* deadline; the threads left for a new one have nothing pending.
LEMMA AppendFound ==
    ASSUME Sound, AppendItem, NEW i \in items \ Acked, Found(i)
    PROVE  Found(i)'
<1> DEFINE b == Head(lock).item
<1>0. /\ TableTypes /\ LockOK /\ lock # <<>> /\ b = Brings(Head(lock)) /\ b \in SUBSET Items
      /\ ArrivingOK
  BY HeadParts DEF Sound, Tables, LockOK, AppendItem, Holds, Brings
<1>1. /\ UNCHANGED <<items, acks, entries, deriving, letGo>> /\ i \in items' \ Acked'
  BY DEF AppendItem, Acked
<1>2. Waiting' = Waiting \ b /\ b \subseteq Waiting
  <2>1. Waiting' = Waiting \ b
    BY <1>0, HolderWaits DEF Sound, Flush
  <2>2. 1 \in DOMAIN lock /\ Head(lock) = lock[1]
    BY <1>0, HeadParts DEF LockOK
  <2> QED BY <1>0, <2>1, <2>2, BringingFacts, WaitingIsBringing
<1>3. PICK t \in ThreadIds :
         /\ IF Current # {} THEN t \in Current ELSE Unused(t)
         /\ threads' = IF t \in Current
                       THEN [threads EXCEPT ![t].items = @ \cup b, ![t].deadline = "set"]
                       ELSE WithNewThread(t, b)
  BY DEF AppendItem
<1> HIDE DEF b
<1>4. /\ t \in Open' /\ b \subseteq threads'[t].items /\ threads'[t].deadline = "set"
      /\ \A u \in Open : i \in Pending(u) /\ threads[u].deadline # "none" =>
            u \in Open' /\ i \in threads'[u].items /\ threads'[u].deadline # "none"
  <2>1. CASE t \in Current
    <3>1. /\ threads'[t].items = threads[t].items \cup b /\ threads'[t].deadline = "set"
          /\ threads'[t].status = "open"
          /\ \A u \in ThreadIds \ {t} : threads'[u] = threads[u]
      BY <1>0, <1>3, <2>1 DEF TableTypes, Thread, Current, Open
    <3> QED BY <3>1 DEF Open, Pending, Unacked
  <2>2. CASE t \notin Current
    <3>1. /\ threads'[t] = [BlankThread EXCEPT !.status = "open", !.items = b, !.deadline = "set"]
          /\ \A u \in ThreadIds \ {t} : u \notin Outgrown => threads'[u] = threads[u]
          /\ Unused(t)
      BY <1>0, <1>3, <2>2, NewThreadItems
    <3>2. /\ threads'[t].items = b /\ threads'[t].deadline = "set"
          /\ threads'[t].status = "open" /\ t \notin Open
      BY <3>1 DEF BlankThread, Unused, Open
    <3>3. ASSUME NEW u \in Open, i \in Pending(u) PROVE threads'[u] = threads[u]
      BY <3>1, <3>2, <3>3 DEF Outgrown, Rotates, Open
    <3> QED BY <3>2, <3>3 DEF Open, Pending, Unacked
  <2> QED BY <2>1, <2>2
<1>5. ASSUME i \in deriving \cup Waiting PROVE Found(i)'
  <2>1. CASE i \in b
    <3>1. \A e \in EntryIds : i \notin entries'[e].items
      BY <1>0, <1>1, <1>2, <2>1 DEF ArrivingOK
    <3> QED BY <1>1, <1>4, <2>1, <3>1, StaysPending
  <2>2. CASE i \notin b
    BY <1>1, <1>2, <1>5, <2>2 DEF Found
  <2> QED BY <2>1, <2>2
<1> QED BY <1>1, <1>4, <1>5, SameEntriesFound

\* The other steps under the lock.
LEMMA HolderFound ==
    ASSUME Sound, Flush \/ Reconcile, "inbox" \notin removed, NEW i \in items \ Acked, Found(i)
    PROVE  Found(i)'
<1>0. /\ Tables /\ LockOK /\ TableTypes
      /\ UNCHANGED <<items, acks, deriving>> /\ i \in items' \ Acked'
  BY DEF Sound, Tables, Acked, Flush, Reconcile, AppendItem, AppendRefused, FlushSettles,
         FlushAsks, CandidateIsStale, GateDenies, GateApproves, SummaryReady, HookFails,
         ReconcileCloses, ReconcileRepairs, ReconcileSettles
<1>1. lock # <<>> /\ Waiting' = Waiting \ Brings(Head(lock))
  BY <1>0, HolderWaits
<1>2. CASE AppendItem
  BY <1>2, AppendFound
<1>3. CASE AppendRefused
  BY <1>3 DEF AppendRefused
<1>4. ASSUME ~AppendItem, ~AppendRefused PROVE Waiting' = Waiting
  <2>1. Brings(Head(lock)) = {}
    BY <1>4 DEF Brings, Flush, Reconcile, FlushSettles, FlushAsks, CandidateIsStale, GateDenies,
                GateApproves, SummaryReady, HookFails, ReconcileCloses, ReconcileRepairs,
                ReconcileSettles, Holds
  <2> QED BY <1>1, <2>1
<1>5. CASE SummaryReady
  <2>1. /\ Waiting' = Waiting /\ UNCHANGED letGo
    BY <1>1, <1>5 DEF SummaryReady, Holds, Brings
  <2>2. LET t == Head(lock).thread
        IN  t \in Open /\ Publish(t, Unacked(t))
    BY <1>0, <1>5, SummaryPublishes DEF LockOK
  <2> QED BY <1>0, <2>1, <2>2, PublishFound
<1>6. CASE ReconcileRepairs
  <2>1. /\ Waiting' = Waiting /\ UNCHANGED letGo
    BY <1>1, <1>6 DEF ReconcileRepairs, Holds, Brings
  <2>2. LET t == Head(lock).thread
        IN  t \in Open /\ Publish(t, Known(t))
    BY <1>6, RepairPublishes
  <2> QED BY <1>0, <2>1, <2>2, PublishFound
<1>7. CASE \/ FlushSettles \/ FlushAsks \/ CandidateIsStale \/ GateDenies \/ GateApproves
           \/ HookFails \/ ReconcileCloses \/ ReconcileSettles
  <2> DEFINE h == Head(lock).thread
  <2>1. entries' = entries /\ letGo \subseteq letGo' /\ Waiting' = Waiting
    <3>1. entries' = entries /\ letGo \subseteq letGo'
      BY <1>7 DEF FlushSettles, FlushAsks, CandidateIsStale, GateDenies, GateApproves, HookFails,
                  ReconcileCloses, ReconcileSettles
    <3>2. Brings(Head(lock)) = {}
      BY <1>7 DEF FlushSettles, FlushAsks, CandidateIsStale, GateDenies, GateApproves, HookFails,
                  ReconcileCloses, ReconcileSettles, Holds, Brings
    <3> QED BY <1>1, <3>1, <3>2
  <2>2. i \in deriving \cup Waiting => Found(i)'
    BY <1>0, <2>1 DEF Found
  <2>3. \/ UNCHANGED threads
        \/ /\ h \in Open /\ threads' = Closed(h)
           /\ Pending(h) = {} \/ Pending(h) \subseteq letGo'
        \/ h \in Open /\ threads' = [threads EXCEPT ![h].deadline = "set"]
    <3>1. \A t : Unacked(t) = {} => Pending(t) = {}
      BY DEF Pending
    <3>2. CASE FlushSettles
      BY <3>1, <3>2 DEF FlushSettles
    <3>3. CASE CandidateIsStale
      BY <3>1, <3>3 DEF CandidateIsStale, Retried
    <3>4. CASE GateDenies
      BY <3>4 DEF GateDenies, Denied, CandidateIsCurrent
    <3>5. CASE ReconcileCloses
      BY <3>5 DEF ReconcileCloses
    <3>6. CASE FlushAsks \/ GateApproves \/ HookFails \/ ReconcileSettles
      BY <3>6 DEF FlushAsks, GateApproves, HookFails, ReconcileSettles
    <3> QED BY <1>7, <3>2, <3>3, <3>4, <3>5, <3>6
  <2> HIDE DEF h
  <2>4. ASSUME NEW t \in Open, i \in Pending(t), threads[t].deadline # "none"
        PROVE  \/ i \in letGo'
               \/ t \in Open' /\ i \in threads'[t].items /\ threads'[t].deadline # "none"
    <3>1. i \in threads[t].items /\ t \in ThreadIds /\ threads[t].status = "open"
      BY <2>4 DEF Pending, Unacked, Open
    <3>2. CASE UNCHANGED threads
      BY <2>4, <3>1, <3>2 DEF Open
    <3>3. CASE h \in Open /\ threads' = Closed(h) /\ t # h
      BY <1>0, <2>4, <3>1, <3>3 DEF Open, Closed, TableTypes
    <3>4. CASE h \in Open /\ threads' = [threads EXCEPT ![h].deadline = "set"]
      BY <1>0, <2>4, <3>1, <3>4 DEF Open, TableTypes, Thread
    <3> QED BY <2>3, <2>4, <3>2, <3>3, <3>4
  <2> QED BY <1>0, <2>1, <2>2, <2>4, SameEntriesFound
<1> QED BY <1>2, <1>3, <1>5, <1>6, <1>7 DEF Flush, Reconcile

\* The collection leaves an item where it is, if it leaves it at all.
LEMMA CollectFound ==
    ASSUME Tables, NEW n \in DOMAIN acks, Collects(n), NEW i \in items' \ Acked', Found(i)
    PROVE  Found(i)'
<1> DEFINE S == Kept(n)
<1>1. /\ TableTypes /\ i \in S /\ UNCHANGED <<lock, deriving, letGo>>
      /\ entries' = EntriesKeeping(S) /\ threads' = [t \in ThreadIds |-> ThreadKeeping(t, S)]
  BY DEF Collects, Tables
<1> HIDE DEF S
<1>2. CASE i \in deriving \cup Waiting \cup letGo
  BY <1>1, <1>2 DEF Found, Waiting, Queued
<1>3. ASSUME NEW e \in Visible, i \in entries[e].items PROVE Found(i)'
  <2>1. e \in EntryIds /\ ~entries[e].superseded /\ i \in entries[e].items \cap S
    BY <1>1, <1>3 DEF Visible, Rows
  <2>2. i \in entries'[e].items /\ ~entries'[e].superseded
    BY <1>1, <2>1, EntryLeft, ZenonT(30)
  <2> QED BY <2>1, <2>2, StaysVisible
<1>4. ASSUME NEW t \in Open, i \in Pending(t), threads[t].deadline # "none" PROVE Found(i)'
  <2>1. /\ t \in ThreadIds /\ threads[t].status = "open" /\ i \in threads[t].items \cap S
        /\ threads'[t] = ThreadKeeping(t, S)
    BY <1>1, <1>4 DEF Open, Pending, Unacked
  <2>2. t \in Open' /\ i \in threads'[t].items /\ threads'[t].deadline # "none"
    BY <1>4, <2>1, ThreadLeft DEF Open
  <2>3. ASSUME NEW e \in EntryIds, i \in entries'[e].items PROVE entries'[e].thread # t
    <3>1. /\ entries'[e].items = entries[e].items \cap S
          /\ entries[e].items \cap S # {} => entries'[e].thread = entries[e].thread
      BY <1>1, EntryLeft
    <3>2. i \in entries[e].items => entries[e].thread # t
      BY <1>4 DEF Pending, Published, Rows
    <3> QED BY <2>3, <3>1, <3>2
  <2> QED BY <2>2, <2>3, StaysPending
<1> QED BY <1>2, <1>3, <1>4 DEF Found

\* An item without a group gets an entry of its own.
LEMMA UngroupedFound ==
    ASSUME Tables, NEW j \in Items, Ungrouped(j), NEW i \in items \ Acked, Found(i)
    PROVE  Found(i)'
<1>1. PICK e \in EntryIds :
         /\ NextEntry(e)
         /\ entries' = [entries EXCEPT ![e] = [BlankEntry EXCEPT !.used = TRUE, !.items = {j}]]
  BY DEF Ungrouped
<1>2. /\ entries'[e].items = {j} /\ entries'[e].thread = 0 /\ ~entries'[e].superseded
      /\ entries[e].items = {}
      /\ \A f \in EntryIds \ {e} : entries'[f] = entries[f]
      /\ UNCHANGED <<threads, lock, letGo, items, acks>> /\ deriving' = deriving \ {j}
      /\ i \in items' \ Acked'
  <2>1. /\ entries'[e] = [BlankEntry EXCEPT !.used = TRUE, !.items = {j}]
        /\ \A f \in EntryIds \ {e} : entries'[f] = entries[f]
    BY <1>1 DEF Tables, TableTypes
  <2>2. entries'[e].items = {j} /\ entries'[e].thread = 0 /\ ~entries'[e].superseded
    BY <2>1 DEF BlankEntry
  <2>3. entries[e].items = {}
    BY <1>1, RowsAreUsed DEF Tables, NextEntry
  <2>4. UNCHANGED <<threads, lock, letGo, items, acks>> /\ deriving' = deriving \ {j}
    BY DEF Ungrouped
  <2> QED BY <2>1, <2>2, <2>3, <2>4 DEF Acked
<1>3. CASE i = j
  BY <1>2, <1>3, StaysVisible
<1>4. CASE i \in (deriving \ {j}) \cup Waiting \cup letGo
  BY <1>2, <1>4 DEF Found, Waiting, Queued
<1>5. ASSUME NEW f \in Visible, i \in entries[f].items PROVE Found(i)'
  <2>1. f \in EntryIds \ {e} /\ ~entries[f].superseded
    BY <1>2, <1>5 DEF Visible, Rows
  <2> QED BY <1>2, <1>5, <2>1, StaysVisible
<1>6. ASSUME NEW t \in Open, i \in Pending(t), threads[t].deadline # "none" PROVE Found(i)'
  <2>1. t \in Open' /\ i \in threads'[t].items /\ threads'[t].deadline # "none" /\ t # 0
    BY <1>2, <1>6 DEF Open, Pending, Unacked, ThreadIds
  <2>2. \A f \in EntryIds : i \in entries[f].items => entries[f].thread # t
    BY <1>6 DEF Pending, Published, Rows
  <2>3. \A f \in EntryIds : i \in entries'[f].items => entries'[f].thread # t
    BY <1>2, <2>1, <2>2
  <2> QED BY <1>2, <2>1, <2>3, StaysPending
<1> QED BY <1>3, <1>4, <1>5, <1>6 DEF Found

\* A restart lets go of what was on its way, and leaves what is pending.
LEMMA CrashFound ==
    ASSUME Tables, Crash, NEW i \in items \ Acked, Found(i)
    PROVE  Found(i)'
<1>1. /\ UNCHANGED <<entries, items, acks>> /\ i \in items' \ Acked'
      /\ letGo' = letGo \cup deriving \cup Waiting /\ TableTypes
  BY DEF Crash, Acked, Tables
<1>2. ASSUME NEW u \in Open, i \in Pending(u) PROVE u \in Open' /\ threads'[u] = threads[u]
  <2>1. CASE UNCHANGED threads
    BY <2>1 DEF Open
  <2>2. ASSUME NEW t \in ThreadIds, Unused(t), threads' = WithNewThread(t, {})
        PROVE  u \in Open' /\ threads'[u] = threads[u]
    <3>1. u \in ThreadIds \ {t} /\ u \notin Outgrown
      BY <1>2, <2>2 DEF Outgrown, Rotates, Unused, Open
    <3>2. threads'[u] = threads[u]
      BY <1>1, <2>2, <3>1, NewThreadItems
    <3> QED BY <3>2 DEF Open
  <2> QED BY <2>1, <2>2 DEF Crash
<1>3. i \in deriving \cup Waiting => Found(i)'
  BY <1>1 DEF Found
<1>4. \A u \in Open : i \in Pending(u) /\ threads[u].deadline # "none" =>
         u \in Open' /\ i \in threads'[u].items /\ threads'[u].deadline # "none"
  BY <1>2 DEF Pending, Unacked
<1> QED BY <1>1, <1>3, <1>4, SameEntriesFound

\* The steps that change no entry and take no lock.
LEMMA QuietFound ==
    ASSUME Sound, NEW i \in items' \ Acked', i \in items \ Acked, Found(i),
           \/ \E j \in Items :
                 \/ Arrives(j) \/ GroupingFails(j)
                 \/ \E hint \in {"normal", "evaluate", "immediate"} : Grouped(j, hint)
           \/ Sync \/ Time \/ Acks \/ RemoveSource
    PROVE  Found(i)'
<1>0. TableTypes /\ LockOK
  BY DEF Sound, Tables
<1>1. entries' = entries /\ letGo \subseteq letGo'
  BY DEF Arrives, GroupingFails, Grouped, Sync, SyncFlushes, SyncCloses, Time, DeadlinePasses,
         ThreadAges, Acks, Ack, RemoveSource
<1>2. i \in deriving \cup Waiting => Found(i)'
  <2>1. ASSUME NEW j \in Items, NEW hint \in {"normal", "evaluate", "immediate"}, Grouped(j, hint)
        PROVE  i \in deriving \cup Waiting => i \in deriving' \cup Waiting'
    <3> DEFINE op == [BlankOp EXCEPT !.kind = "append", !.item = {j}, !.hint = hint]
    <3>1. op \in Op /\ OpOK(op) /\ Brings(op) = {j}
      BY AppendOp
    <3>2. /\ j \in deriving /\ Len(lock) < MaxOps /\ lock' = Append(lock, op)
          /\ deriving' = deriving \ {j} /\ deriving \cap Waiting = {}
      BY <2>1 DEF Grouped, Sound, ArrivingOK
    <3> HIDE DEF op
    <3>3. Waiting' = Waiting \cup {j}
      BY <1>0, <3>1, <3>2, JoinWaits
    <3> QED BY <3>2, <3>3
  <2>2. CASE Acks \/ \E t \in ThreadIds : SyncFlushes(t)
    <3>1. Waiting' = Waiting /\ deriving' = deriving
      BY <1>0, <2>2, AskingWaits DEF Acks, Ack, SyncFlushes
    <3> QED BY <3>1 DEF Found
  <2>3. ASSUME NEW j \in Items, GroupingFails(j)
        PROVE  i \in deriving \cup Waiting => i \in deriving' \cup Waiting' \cup letGo'
    BY <2>3 DEF GroupingFails, Waiting, Queued
  <2>4. CASE \/ \E j \in Items : Arrives(j)
             \/ \E t \in ThreadIds : SyncCloses(t) \/ DeadlinePasses(t) \/ ThreadAges(t)
             \/ RemoveSource
    <3>1. lock' = lock /\ deriving \subseteq deriving'
      BY <2>4 DEF Arrives, SyncCloses, DeadlinePasses, ThreadAges, RemoveSource
    <3> QED BY <3>1 DEF Found, Waiting, Queued
  <2> QED BY <2>1, <2>2, <2>3, <2>4 DEF Found, Sync, Time
<1>3. ASSUME NEW u \in Open, i \in Pending(u), threads[u].deadline # "none"
      PROVE  \/ i \in letGo'
             \/ u \in Open' /\ i \in threads'[u].items /\ threads'[u].deadline # "none"
  <2>1. i \in threads[u].items /\ u \in ThreadIds /\ threads[u].status = "open"
    BY <1>3 DEF Pending, Unacked, Open
  <2>2. CASE UNCHANGED threads
    BY <1>3, <2>1, <2>2 DEF Open
  <2>3. ASSUME NEW t \in ThreadIds, SyncCloses(t)
        PROVE  \/ i \in letGo'
               \/ u \in Open' /\ i \in threads'[u].items /\ threads'[u].deadline # "none"
    <3>1. CASE u = t
      BY <1>3, <2>3, <3>1 DEF SyncCloses
    <3>2. CASE u # t
      BY <1>0, <1>3, <2>1, <2>3, <3>2 DEF SyncCloses, Closed, Open, TableTypes
    <3> QED BY <3>1, <3>2
  <2>4. ASSUME NEW t \in ThreadIds, DeadlinePasses(t) \/ ThreadAges(t)
        PROVE  u \in Open' /\ i \in threads'[u].items /\ threads'[u].deadline # "none"
    BY <1>0, <1>3, <2>1, <2>4 DEF DeadlinePasses, ThreadAges, Open, TableTypes, Thread
  <2> QED BY <2>2, <2>3, <2>4
          DEF Arrives, GroupingFails, Grouped, Sync, SyncFlushes, Time, Acks, Ack, RemoveSource
<1> QED BY <1>1, <1>2, <1>3, SameEntriesFound

\* No step loses an item.
LEMMA NothingLostStep ==
    ASSUME Sound, NothingLost, [Next]_vars
    PROVE  NothingLost'
<1>1. CASE UNCHANGED vars
  BY <1>1 DEF vars, counters, NothingLost, Acked, Waiting, Queued, Visible, Rows, Open, Pending,
              Unacked, Published, LetGo
<1>2. ASSUME Next, "inbox" \notin removed', NEW i \in items' \ Acked' PROVE Found(i)'
  <2>0. Tables /\ AckTypes /\ AcksOK
    BY DEF Sound
  <2>1. CASE Arrives(i)
    BY <2>1 DEF Arrives, Found
  <2>2. CASE i \in items \ Acked
    <3>1. "inbox" \notin removed
      BY <1>2 DEF Next, Materialize, Arrives, Ungrouped, GroupingFails, Grouped, Flush, AppendItem,
                  AppendRefused, FlushSettles, FlushAsks, CandidateIsStale, GateDenies,
                  GateApproves, SummaryReady, HookFails, Reconcile, ReconcileCloses,
                  ReconcileRepairs, ReconcileSettles, Sync, SyncFlushes, SyncCloses, Time,
                  DeadlinePasses, ThreadAges, Acks, Ack, Collect, Collects, RemoveSource,
                  RemoveInbox, Crash
    <3>2. Found(i)
      BY <2>2, <3>1 DEF NothingLost, Found, LetGo
    <3>3. CASE Flush \/ Reconcile
      BY <2>2, <3>1, <3>2, <3>3, HolderFound
    <3>4. CASE Collect
      BY <1>2, <2>0, <3>2, <3>4, CollectFound DEF Collect
    <3>5. CASE Crash
      BY <2>0, <2>2, <3>2, <3>5, CrashFound
    <3>6. CASE \E j \in Items : Ungrouped(j)
      BY <2>0, <2>2, <3>2, <3>6, UngroupedFound
    <3>7. CASE RemoveInbox
      BY <1>2, <3>7 DEF RemoveInbox
    <3>8. CASE \/ \E j \in Items :
                    \/ Arrives(j) \/ GroupingFails(j)
                    \/ \E hint \in {"normal", "evaluate", "immediate"} : Grouped(j, hint)
               \/ Sync \/ Time \/ Acks \/ RemoveSource
      BY <1>2, <2>2, <3>2, <3>8, QuietFound
    <3> QED BY <1>2, <3>3, <3>4, <3>5, <3>6, <3>7, <3>8 DEF Next, Materialize
  <2> QED BY <1>2, <2>0, <2>1, <2>2, UnackedBefore
<1>3. CASE Next
  BY <1>2, <1>3 DEF NothingLost, Found, LetGo
<1> QED BY <1>1, <1>3

-----------------------------------------------------------------------------
(* What readers see *)

\* A snapshot that is not superseded is the latest of its thread.
LEMMA OneVisibleHolds ==
    ASSUME Tables
    PROVE  OneVisible
<1>1. ASSUME NEW e \in Visible, entries[e].thread # 0
      PROVE  e = threads[entries[e].thread].latest
  BY <1>1 DEF Tables, ThreadsOK, SnapshotOK, Visible, Rows
<1>2. ASSUME NEW e \in Visible, NEW f \in Visible, entries[e].thread # 0,
             entries[e].thread = entries[f].thread
      PROVE  e = f
  BY <1>1, <1>2
<1> QED BY <1>2 DEF Tables, ThreadsOK, OneVisible

\* SnapshotsAreCurrent, of one step.
CurrentStep ==
    \A e \in EntryIds : ~entries[e].used /\ entries'[e].used /\ entries'[e].thread # 0 =>
       LET t == entries'[e].thread
       IN  entries'[e].items \in {Unacked(t), Known(t)}

\* StaysPublished, of one step.
PublishedStep == \A t \in ThreadIds : Known(t) \cap items' \subseteq Published(t)'

\* Most steps add no entry and take none away.
LEMMA SameEntries ==
    ASSUME Next
    PROVE  \/ UNCHANGED entries
           \/ \E i \in Items : Ungrouped(i)
           \/ SummaryReady \/ ReconcileRepairs \/ Collect
  BY DEF Next, Materialize, Arrives, GroupingFails, Grouped, Flush, AppendItem, AppendRefused,
         FlushSettles, FlushAsks, CandidateIsStale, GateDenies, GateApproves, HookFails, Reconcile,
         ReconcileCloses, ReconcileSettles, Sync, SyncFlushes, SyncCloses, Time, DeadlinePasses,
         ThreadAges, Acks, Ack, RemoveSource, RemoveInbox, Crash

\* The one new entry of a snapshot is of the items that are asked for.
LEMMA PublishIsCurrent ==
    ASSUME Tables, NEW t \in Open, NEW S \in {Unacked(t), Known(t)}, Publish(t, S)
    PROVE  CurrentStep /\ PublishedStep
<1>1. S \in SUBSET threads[t].items
  BY DEF Known, Unacked
<1>2. PICK e \in EntryIds :
              /\ ~entries[e].used /\ entries[e].items = {}
              /\ entries'[e].thread = t /\ entries'[e].items = S
              /\ \A f \in EntryIds \ {e} :
                    /\ entries'[f].used = entries[f].used
                    /\ entries'[f].thread = entries[f].thread
                    /\ entries'[f].items = entries[f].items
  BY <1>1, PublishRows
<1>3. CurrentStep
  BY <1>2 DEF CurrentStep
<1>4. ASSUME NEW u \in ThreadIds, NEW i \in Published(u) PROVE i \in Published(u)'
  BY <1>2 DEF Published, Rows
<1> QED BY <1>3, <1>4 DEF PublishedStep, Known

\* Entries are written and kept as the two action properties say.
LEMMA EntryStep ==
    ASSUME Sound, [Next]_vars
    PROVE  CurrentStep /\ PublishedStep
<1>0. Tables /\ TableTypes /\ LockTypes /\ QueueOK(lock)
  BY DEF Sound, LockOK, Tables
<1>1. CASE UNCHANGED entries
  BY <1>1 DEF CurrentStep, PublishedStep, Known, Published, Rows
<1>2. ASSUME NEW i \in Items, Ungrouped(i) PROVE CurrentStep /\ PublishedStep
  <2>1. PICK e \in EntryIds :
           /\ NextEntry(e)
           /\ entries' = [entries EXCEPT ![e] = [BlankEntry EXCEPT !.used = TRUE, !.items = {i}]]
    BY <1>2 DEF Ungrouped
  <2>2. /\ entries'[e] = [BlankEntry EXCEPT !.used = TRUE, !.items = {i}]
        /\ \A f \in EntryIds \ {e} : entries'[f] = entries[f]
    BY <1>0, <2>1 DEF TableTypes
  <2>3. entries'[e].thread = 0
    BY <2>2 DEF BlankEntry
  <2>4. e \notin Rows
    BY <1>0, <2>1, RowsAreUsed DEF Tables, NextEntry
  <2>5. ASSUME NEW u \in ThreadIds, NEW j \in Published(u) PROVE j \in Published(u)'
    BY <2>2, <2>4 DEF Published, Rows
  <2> QED BY <2>2, <2>3, <2>5 DEF CurrentStep, PublishedStep, Known
<1>3. CASE SummaryReady
  <2>1. LET t == Head(lock).thread
        IN  t \in Open /\ Publish(t, Unacked(t))
    BY <1>0, <1>3, SummaryPublishes
  <2> QED BY <1>0, <2>1, PublishIsCurrent
<1>4. CASE ReconcileRepairs
  <2>1. LET t == Head(lock).thread
        IN  t \in Open /\ Publish(t, Known(t))
    BY <1>4, RepairPublishes
  <2> QED BY <1>0, <2>1, PublishIsCurrent
<1>5. ASSUME NEW n \in DOMAIN acks, Collects(n) PROVE CurrentStep /\ PublishedStep
  <2>1. entries' = EntriesKeeping(Kept(n)) /\ items' = Kept(n)
    BY <1>5 DEF Collects
  <2> DEFINE S == Kept(n)
  <2> HIDE DEF S
  <2>2. ASSUME NEW e \in EntryIds
        PROVE  /\ entries'[e].used = entries[e].used
               /\ entries'[e].items = entries[e].items \cap S
               /\ entries[e].items \cap S # {} => entries'[e].thread = entries[e].thread
    <3>1. entries' = EntriesKeeping(S)
      BY <2>1 DEF S
    <3> QED BY <1>0, <3>1, EntryLeft
  <2>3. ASSUME NEW u \in ThreadIds, NEW j \in Published(u), j \in S PROVE j \in Published(u)'
    BY <2>2, <2>3 DEF Published, Rows
  <2> QED BY <2>1, <2>2, <2>3 DEF CurrentStep, PublishedStep, Known, S
<1> QED BY <1>1, <1>2, <1>3, <1>4, <1>5, SameEntries DEF vars, Collect

-----------------------------------------------------------------------------
(* The theorems *)

\* IInv is inductive: it holds after any number of arrivals, flushes, acks, repairs,
\* collections, removals and restarts, in any order.
THEOREM Invariance == Spec => []IInv
<1>1. Init => IInv
  BY InitSound, InvariantByTable
<1>2. IInv /\ [Next]_vars => IInv'
  <2> SUFFICES ASSUME IInv, [Next]_vars PROVE IInv'
    OBVIOUS
  <2>1. Sound /\ NothingLost
    BY InvariantByTable
  <2>2. Sound' /\ NothingLost'
    BY <2>1, SoundStep, NothingLostStep
  <2>3. TypeOK' /\ Inv'
    BY <2>2 DEF Sound, Tables, TableTypes, LatestOK, LockOK, LockTypes, ItemTypes, AckTypes,
                TypeOK, Inv
  <2> QED BY <2>2, <2>3 DEF IInv
<1> QED BY <1>1, <1>2, PTL DEF Spec

\* An unacked item is never lost to its reader: until its inbox is removed it is on its
\* way, in a visible entry, pending in an open thread with a deadline, or let go where the
\* code lets go of it (a grouping that fails, a restart, a source that is removed).  It
\* bears on appendDigestThreadItem, flushDigestThreadLocked, materializeDigestSnapshot,
\* the repair after an ack and deleteInboxItemsAndEntryArtifacts, in any interleaving.
THEOREM NothingIsLost == Spec => []NothingLost
<1>1. IInv => NothingLost
  BY DEF IInv
<1> QED BY <1>1, Invariance, PTL

\* A reader never sees two snapshots of one thread, a group has one open thread, and the
\* rows of threads and entries refer to each other as the store reads them: a thread's
\* latest entry exists and is the last of its snapshots, after collections too.
THEOREM EntriesAreSoundAlways == Spec => []EntriesAreSound
<1>1. IInv => EntriesAreSound
  BY InvariantByTable, OneVisibleHolds DEF IInv, Sound, EntriesAreSound
<1> QED BY <1>1, Invariance, PTL

\* What materializeDigestSnapshot writes is what is unacked in the thread when it
\* commits, or for a repair what is unacked and was published, and not what was
\* when the module was asked for a summary: candidateIsCurrent is enough.
THEOREM SnapshotsStayCurrent == Spec => SnapshotsAreCurrent
<1>1. IInv /\ [Next]_vars => CurrentStep
  BY InvariantByTable, EntryStep
<1>2. [CurrentStep]_vars <=>
        [\A e \in EntryIds : ~entries[e].used /\ entries'[e].used /\ entries'[e].thread # 0 =>
           LET t == entries'[e].thread
           IN  entries'[e].items \in {Unacked(t), Known(t)}]_vars
  BY DEF CurrentStep
<1> QED BY <1>1, <1>2, Invariance, PTL DEF Spec, SnapshotsAreCurrent

\* An unacked item that was in a snapshot of its thread stays so, whatever supersedes,
\* repairs or collects the snapshot: it never counts as new again.
THEOREM PublishedStaysPublished == Spec => StaysPublished
<1>1. IInv /\ [Next]_vars => PublishedStep
  BY InvariantByTable, EntryStep
<1>2. [PublishedStep]_vars <=>
        [\A t \in ThreadIds : Known(t) \cap items' \subseteq Published(t)']_vars
  BY DEF PublishedStep
<1> QED BY <1>1, <1>2, Invariance, PTL DEF Spec, StaysPublished
=============================================================================
