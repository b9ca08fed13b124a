--------------------------- MODULE StreamLog_proofs ---------------------------
(***************************************************************************)
(* Proofs of the safety properties of StreamLog, for any number of         *)
(* consumers and events.  The inductive invariant IInv says that a         *)
(* consumer has no pruned event before it, that what is pruned is a prefix *)
(* of the log and that a batch leaves no hole.  With it every step of the  *)
(* log is a step of ConsumerFeed or leaves the feed as it is.              *)
(***************************************************************************)
EXTENDS StreamLog, FiniteSetTheorems, WellFoundedInduction, TLAPS

-----------------------------------------------------------------------------
(* Facts about the operators *)

\* Sets of offsets are finite sets of positive numbers.
LEMMA OffsetsAreFinite ==
    ASSUME NEW S \in SUBSET Offsets
    PROVE  IsFiniteSet(S) /\ S \subseteq Nat \ {0}
<1>1. MaxOffset \in Nat
  BY StreamAssumption
<1>2. IsFiniteSet(1..MaxOffset)
  <2>1. 1 \in Int /\ MaxOffset \in Int
    BY <1>1
  <2> QED BY <2>1, FS_Interval
<1>3. IsFiniteSet(S)
  BY <1>2, FS_Subset DEF Offsets
<1> QED BY <1>1, <1>3 DEF Offsets

\* A nonempty set of offsets has a greatest element: of the sets of elements above
\* one of its elements, a minimal one is empty.
LEMMA GreatestOffset ==
    ASSUME NEW S \in SUBSET Offsets, S # {}
    PROVE  \E m \in S : \A p \in S : p <= m
<1> DEFINE Above(o) == {p \in S : p > o}
           T == {Above(o) : o \in S}
           R == StrictSubsetOrdering(S)
<1>1. IsFiniteSet(S) /\ S \subseteq Nat
  BY OffsetsAreFinite
<1>2. IsWellFoundedOn(R, SUBSET S)
  BY <1>1, FS_StrictSubsetOrderingWellFounded, FS_FiniteSubsetsOfFinite
<1>3. T \subseteq SUBSET S /\ T # {}
  OBVIOUS
<1>4. PICK A \in T : \A B \in T : <<B, A>> \notin R
  <2> HIDE DEF T, R
  <2> QED BY <1>2, <1>3, WFMin
<1>5. PICK m \in S : A = Above(m)
  BY <1>4
<1>6. ASSUME NEW p \in S, ~(p <= m) PROVE FALSE
  <2>1. Above(p) \subseteq Above(m) /\ p \in Above(m) /\ p \notin Above(p)
    <3>1. p \in Nat /\ m \in Nat /\ p > m /\ \A q \in S : q \in Nat
      BY <1>6, <1>1
    <3>2. \A q \in S : q > p => q > m
      BY <3>1
    <3>3. Above(p) \subseteq Above(m)
      BY <3>2
    <3>4. p \in Above(m) /\ p \notin Above(p)
      BY <3>1
    <3> QED BY <3>3, <3>4
  <2>2. <<Above(p), Above(m)>> \in R
    BY <2>1 DEF StrictSubsetOrdering
  <2> QED BY <2>2, <1>4, <1>5
<1> QED BY <1>6

\* Highest is the greatest element, or 0.
LEMMA HighestIsGreatest ==
    ASSUME NEW S \in SUBSET Offsets
    PROVE  Highest(S) \in S \cup {0} /\ \A p \in S : p <= Highest(S)
<1>1. \E m \in S \cup {0} : \A p \in S : p <= m
  <2>1. CASE S = {}
    BY <2>1
  <2>2. CASE S # {}
    BY <2>2, GreatestOffset
  <2> QED BY <2>1, <2>2
<1> QED BY <1>1 DEF Highest

\* The rows at or after a time, if any, have a first one.
LEMMA FirstRow ==
    ASSUME NEW S, S \subseteq Rows, IsFiniteSet(S), S # {}
    PROVE  \E r \in S : \A q \in S : ~Before(q, r)
<1> DEFINE Earlier(r) == {q \in S : Before(q, r)}
           T == {Earlier(r) : r \in S}
           R == StrictSubsetOrdering(S)
<1>1. IsWellFoundedOn(R, SUBSET S)
  BY FS_StrictSubsetOrderingWellFounded, FS_FiniteSubsetsOfFinite
<1>2. T \subseteq SUBSET S /\ T # {}
  OBVIOUS
<1>3. PICK A \in T : \A B \in T : <<B, A>> \notin R
  <2> HIDE DEF T, R
  <2> QED BY <1>1, <1>2, WFMin
<1>4. PICK r \in S : A = Earlier(r)
  BY <1>3
<1>5. ASSUME NEW q \in S, Before(q, r) PROVE FALSE
  <2>1. \A x \in S : x.at \in Nat /\ x.offset \in Nat
    BY StreamAssumption, OffsetsAreFinite DEF Rows
  <2>2. Earlier(q) \subseteq Earlier(r)
    BY <2>1, <1>5 DEF Before
  <2>3. q \in Earlier(r) /\ q \notin Earlier(q)
    BY <2>1, <1>5 DEF Before
  <2>4. <<Earlier(q), Earlier(r)>> \in R
    BY <2>2, <2>3 DEF StrictSubsetOrdering
  <2> QED BY <2>4, <1>3, <1>4
<1> QED BY <1>5

\* The first n of a set are below the others.
LEMMA FirstOfIsPrefix ==
    ASSUME NEW S \in SUBSET Offsets, NEW n \in Nat,
           NEW o \in FirstOf(n, S), NEW p \in S, p < o
    PROVE  p \in FirstOf(n, S)
<1> DEFINE Below(x) == {q \in S : q < x}
<1>1. IsFiniteSet(Below(o)) /\ Below(p) \subseteq Below(o)
  <2>1. IsFiniteSet(S) /\ S \subseteq Nat
    BY OffsetsAreFinite
  <2>2. Below(o) \in SUBSET S
    OBVIOUS
  <2>3. o \in Nat /\ p \in Nat /\ \A q \in S : q \in Nat
    BY <2>1 DEF FirstOf
  <2>4. IsFiniteSet(Below(o))
    BY <2>1, <2>2, FS_Subset
  <2>5. Below(p) \subseteq Below(o)
    <3>1. \A q \in S : q < p => q < o
      BY <2>3
    <3> QED BY <3>1
  <2> QED BY <2>4, <2>5
<1>2. Cardinality(Below(p)) <= Cardinality(Below(o))
  BY <1>1, FS_Subset
<1>3. Cardinality(Below(p)) \in Nat /\ Cardinality(Below(o)) \in Nat
  BY <1>1, FS_Subset, FS_CardinalityType
<1>4. Cardinality(Below(o)) < n
  BY DEF FirstOf
<1> QED BY <1>2, <1>3, <1>4 DEF FirstOf
-----------------------------------------------------------------------------
(* Facts about the state *)

\* The tables hold offsets.
LEMMA TablesHoldOffsets ==
    ASSUME TypeOK
    PROVE  Stored \in SUBSET Offsets /\ pruned \in SUBSET Offsets /\ Retained \in SUBSET Offsets
BY DEF TypeOK, Stored, Retained, Rows

\* What assertStreamHistory lets through is above everything pruned.
LEMMA AvailableIsAbovePruned ==
    ASSUME TypeOK, NEW n \in Nat, OffsetAvailable(n), NEW p \in pruned
    PROVE  p < n
<1>1. p <= PrunedThrough
  BY TablesHoldOffsets, HighestIsGreatest DEF PrunedThrough
<1>2. PrunedThrough \in Nat /\ p \in Nat
  BY TablesHoldOffsets, HighestIsGreatest, OffsetsAreFinite DEF PrunedThrough
<1> QED BY <1>1, <1>2 DEF OffsetAvailable, RetainedFrom

\* A resolved start is an offset, or the one after the last.
LEMMA InitialOffsetType ==
    ASSUME TypeOK, IsFiniteSet(rows), NEW policy \in Policies, NEW arg,
           policy = "at_offset" => arg \in Offsets
    PROVE  InitialOffset(policy, arg) \in 1..(MaxOffset + 1)
<1>1. HighWatermark \in Offsets \cup {0}
  BY TablesHoldOffsets, HighestIsGreatest DEF HighWatermark
<1>2. MaxOffset \in Nat
  BY StreamAssumption
<1>3. HighWatermark + 1 \in 1..(MaxOffset + 1) /\ Offsets \subseteq 1..(MaxOffset + 1)
      /\ 1 \in 1..(MaxOffset + 1)
  BY <1>1, <1>2 DEF Offsets
<1>4. AtOrAfter(arg) # {} => FirstAtOrAfter(arg) \in Offsets
  <2> SUFFICES ASSUME AtOrAfter(arg) # {} PROVE FirstAtOrAfter(arg) \in Offsets
    OBVIOUS
  <2>1. AtOrAfter(arg) \subseteq Rows /\ AtOrAfter(arg) \subseteq rows
    BY DEF AtOrAfter, TypeOK
  <2>2. IsFiniteSet(AtOrAfter(arg))
    BY <2>1, FS_Subset
  <2>3. \E r \in AtOrAfter(arg) : \A q \in AtOrAfter(arg) : ~Before(q, r)
    BY <2>1, <2>2, FirstRow
  <2> QED BY <2>1, <2>3 DEF FirstAtOrAfter, Rows
<1> QED BY <1>3, <1>4 DEF InitialOffset

-----------------------------------------------------------------------------
(* Types *)

\* A step keeps the types.
LEMMA TypeStep ==
    ASSUME TypeOK, IsFiniteSet(rows), [Next]_vars
    PROVE  TypeOK' /\ IsFiniteSet(rows)'
<1> USE StreamAssumption DEF TypeOK
<1>1. ASSUME NEW key \in Keys, NEW at \in Times, Append(key, at)
      PROVE  TypeOK' /\ IsFiniteSet(rows)'
  <2>1. PICK o \in Offsets : rows' = rows \cup {[offset |-> o, key |-> key, at |-> at]}
    BY <1>1 DEF Append
  <2>2. rows' \subseteq Rows
    BY <2>1 DEF Rows
  <2>3. IsFiniteSet(rows')
    BY <2>1, FS_AddElement
  <2>4. Stored \subseteq Stored'
    BY <2>1 DEF Stored
  <2>5. pruned' \subseteq Stored'
    BY <2>4, <1>1 DEF Append
  <2> QED BY <2>2, <2>3, <2>5, <1>1 DEF Append, counters
<1>2. ASSUME NEW c \in Consumers, NEW policy \in Policies, NEW arg,
             policy = "at_offset" => arg \in Offsets,
             policy = "at_time" => arg \in Times,
             Resolve(c, policy, arg)
      PROVE  TypeOK' /\ IsFiniteSet(rows)'
  <2>1. InitialOffset(policy, arg) \in 1..(MaxOffset + 1)
    BY <1>2, InitialOffsetType
  <2>2. start' \in [Consumers -> Starts \cup {NoStart}]
    BY <1>2, <2>1 DEF Resolve, Starts
  <2>3. starts' \in 0..MaxStarts
    BY <1>2 DEF Resolve
  <2> QED BY <2>2, <2>3, <1>2 DEF Resolve, Stored
<1>3. ASSUME NEW c \in Consumers, WriteStart(c)
      PROVE  TypeOK' /\ IsFiniteSet(rows)'
  <2>1. start[c] \in Starts
    BY <1>3 DEF WriteStart
  <2>2. start[c].next \in 0..(MaxOffset + 1)
    BY <2>1 DEF Starts
  <2> QED BY <2>2, <1>3 DEF WriteStart, Stored, counters
<1>4. ASSUME NEW c \in Consumers, DeleteConsumer(c)
      PROVE  TypeOK' /\ IsFiniteSet(rows)'
  BY <1>4 DEF DeleteConsumer, Stored, counters, Polls, NoPoll
<1>5. ASSUME NEW c \in Consumers, ReadEvents(c)
      PROVE  TypeOK' /\ IsFiniteSet(rows)'
  <2>1. FirstOf(ReadLimit, Unread(c)) \subseteq Offsets
    BY TablesHoldOffsets DEF FirstOf, Unread
  <2>2. poll' \in [Consumers -> Polls]
    BY <1>5, <2>1 DEF ReadEvents, Polls
  <2> QED BY <2>2, <1>5 DEF ReadEvents, Stored, counters
<1>6. ASSUME NEW c \in Consumers, HandleEvent(c)
      PROVE  TypeOK' /\ IsFiniteSet(rows)'
  <2>1. PICK o \in poll[c].rest : \E rest \in {poll[c].rest \ {o}, {}} :
            /\ poll' = [poll EXCEPT ![c].rest = rest, ![c].last = o]
            /\ tried' = [tried EXCEPT ![c] = @ \cup {o}]
    BY <1>6 DEF HandleEvent
  <2>2. poll[c] \in Polls
    OBVIOUS
  <2>3. o \in Offsets /\ o \in 0..MaxOffset
    BY <2>2 DEF Polls, Offsets
  <2>4. poll' \in [Consumers -> Polls]
    <3>1. PICK rest \in SUBSET Offsets :
              poll' = [poll EXCEPT ![c].rest = rest, ![c].last = o]
      BY <2>1, <2>2 DEF Polls
    <3>2. [poll[c] EXCEPT !.rest = rest, !.last = o] \in Polls
      BY <2>2, <2>3, <3>1 DEF Polls
    <3>3. poll' = [poll EXCEPT ![c] = [poll[c] EXCEPT !.rest = rest, !.last = o]]
      BY <3>1, <2>2 DEF Polls
    <3> QED BY <3>2, <3>3
  <2>5. tried' \in [Consumers -> SUBSET Offsets]
    BY <2>1, <2>3
  <2> QED BY <2>4, <2>5, <1>6 DEF HandleEvent, Stored, counters
<1>7. ASSUME NEW c \in Consumers, CommitOffset(c)
      PROVE  TypeOK' /\ IsFiniteSet(rows)'
  <2>1. Committed(c) \in 0..(MaxOffset + 1)
    BY DEF Committed, Polls
  <2> QED BY <2>1, <1>7 DEF CommitOffset, Stored, counters, Polls, NoPoll
<1>8. ASSUME NEW cutoff \in 1..(MaxOffset + 1), CompactionBegins(cutoff)
      PROVE  TypeOK' /\ IsFiniteSet(rows)'
  BY <1>8 DEF CompactionBegins, Stored, Compactions
<1>9. ASSUME CompactBatch PROVE TypeOK' /\ IsFiniteSet(rows)'
  <2>1. PICK o \in Eligible :
            /\ Cardinality(BatchThrough(o)) <= compaction.left
            /\ pruned' = pruned \cup BatchThrough(o)
            /\ \/ compaction' = NoCompaction
               \/ compaction' = [compaction EXCEPT
                                    !.left = compaction.left - Cardinality(BatchThrough(o))]
    BY <1>9 DEF CompactBatch
  <2>2. BatchThrough(o) \subseteq Stored /\ BatchThrough(o) \in SUBSET Offsets
    BY TablesHoldOffsets DEF BatchThrough, Retained
  <2>3. Cardinality(BatchThrough(o)) \in Nat
    BY <2>2, OffsetsAreFinite, FS_CardinalityType
  <2>4. compaction' \in Compactions
    <3>1. compaction \in Compactions /\ compaction.left \in 0..MaxEvents
      BY DEF Compactions
    <3>2. compaction.left - Cardinality(BatchThrough(o)) \in 0..MaxEvents
      BY <2>1, <2>3, <3>1
    <3> QED BY <2>1, <3>1, <3>2 DEF Compactions, NoCompaction
  <2>5. pruned' \subseteq Stored'
    BY <2>1, <2>2, <1>9 DEF CompactBatch, Stored
  <2> QED BY <2>4, <2>5, <1>9 DEF CompactBatch, Stored, counters
<1>10. ASSUME CompactionStops PROVE TypeOK' /\ IsFiniteSet(rows)'
  BY <1>10 DEF CompactionStops, Stored, counters, Compactions, NoCompaction
<1>11. ASSUME Crash PROVE TypeOK' /\ IsFiniteSet(rows)'
  BY <1>11 DEF Crash, Stored, Polls, NoPoll
<1>12. ASSUME UNCHANGED vars PROVE TypeOK' /\ IsFiniteSet(rows)'
  BY <1>12 DEF vars, Stored, counters
<1> QED
  BY <1>1, <1>2, <1>3, <1>4, <1>5, <1>6, <1>7, <1>8, <1>9, <1>10, <1>11, <1>12
  DEF Next, Polling, Policies
-----------------------------------------------------------------------------
(* The inductive invariant *)

IInv ==
    /\ TypeOK /\ IsFiniteSet(rows)
    /\ UnreadHistoryKept
    /\ PrunedIsPrefix
    /\ BatchHandled

\* A step leaves no consumer behind the pruned prefix.
LEMMA UnreadStep ==
    ASSUME TypeOK, IsFiniteSet(rows), UnreadHistoryKept, [Next]_vars
    PROVE  UnreadHistoryKept'
<1> USE DEF UnreadHistoryKept, Live
<1>1. ASSUME NEW c \in Consumers, WriteStart(c) PROVE UnreadHistoryKept'
  <2>1. CASE HistoryAvailable(start[c])
    <3>1. start[c].next \in Nat /\ OffsetAvailable(start[c].next)
      BY <1>1, <2>1, StreamAssumption
      DEF WriteStart, HistoryAvailable, OffsetAvailable, TypeOK, Starts
    <3>2. \A p \in pruned : p < start[c].next
      BY <3>1, AvailableIsAbovePruned
    <3> QED BY <3>2, <2>1, <1>1 DEF WriteStart, TypeOK
  <2>2. CASE ~HistoryAvailable(start[c])
    BY <2>2, <1>1 DEF WriteStart
  <2> QED BY <2>1, <2>2
<1>2. ASSUME NEW c \in Consumers, DeleteConsumer(c) PROVE UnreadHistoryKept'
  BY <1>2 DEF DeleteConsumer, TypeOK
<1>3. ASSUME NEW c \in Consumers, CommitOffset(c) PROVE UnreadHistoryKept'
  <2>1. CASE OffsetAvailable(Committed(c))
    <3>1. Committed(c) \in Nat
      BY StreamAssumption DEF Committed, TypeOK, Polls
    <3>2. \A p \in pruned : p < Committed(c)
      BY <3>1, <2>1, AvailableIsAbovePruned
    <3> QED BY <3>2, <2>1, <1>3 DEF CommitOffset, TypeOK
  <2>2. CASE ~OffsetAvailable(Committed(c))
    BY <2>2, <1>3 DEF CommitOffset
  <2> QED BY <2>1, <2>2
<1>4. ASSUME CompactBatch PROVE UnreadHistoryKept'
  <2>1. PICK o \in Eligible : pruned' = pruned \cup BatchThrough(o)
    BY <1>4 DEF CompactBatch
  <2>2. ASSUME NEW p \in BatchThrough(o), NEW d \in Live PROVE p < next[d]
    <3>1. p <= o /\ o < next[d]
      BY <2>2, <2>1 DEF BatchThrough, Eligible
    <3>2. p \in Nat /\ o \in Nat /\ next[d] \in Nat
      BY <2>2, <2>1, TablesHoldOffsets, OffsetsAreFinite, StreamAssumption
      DEF BatchThrough, Eligible, TypeOK
    <3> QED BY <3>1, <3>2
  <2> QED BY <2>1, <2>2, <1>4 DEF CompactBatch
<1>5. ASSUME UNCHANGED <<pruned, next>> PROVE UnreadHistoryKept'
  BY <1>5
<1> QED
  BY <1>1, <1>2, <1>3, <1>4, <1>5
  DEF Next, vars, Append, Resolve, Polling, ReadEvents, HandleEvent, CompactionBegins,
      CompactionStops, Crash

\* A step prunes and appends at the two ends.
LEMMA PrefixStep ==
    ASSUME TypeOK, PrunedIsPrefix, [Next]_vars
    PROVE  PrunedIsPrefix'
<1> USE DEF PrunedIsPrefix
<1>1. ASSUME NEW key \in Keys, NEW at \in Times, Append(key, at) PROVE PrunedIsPrefix'
  <2>1. PICK o \in Offsets :
            /\ \A p \in Stored : p < o
            /\ rows' = rows \cup {[offset |-> o, key |-> key, at |-> at]}
    BY <1>1 DEF Append
  <2>2. Retained' \subseteq Retained \cup {o}
    BY <2>1, <1>1 DEF Append, Retained, Stored
  <2>3. \A p \in pruned : p < o
    BY <2>1 DEF TypeOK
  <2> QED BY <2>2, <2>3, <1>1 DEF Append
<1>2. ASSUME CompactBatch PROVE PrunedIsPrefix'
  <2>1. PICK b \in Eligible : pruned' = pruned \cup BatchThrough(b)
    BY <1>2 DEF CompactBatch
  <2>2. Retained' = Retained \ BatchThrough(b)
    BY <2>1, <1>2 DEF CompactBatch, Retained, Stored
  <2>3. ASSUME NEW p \in BatchThrough(b), NEW o \in Retained \ BatchThrough(b) PROVE p < o
    <3>1. p <= b /\ ~(o <= b)
      BY <2>3 DEF BatchThrough
    <3>2. p \in Nat /\ o \in Nat /\ b \in Nat
      BY <2>3, <2>1, TablesHoldOffsets, OffsetsAreFinite DEF BatchThrough, Eligible
    <3> QED BY <3>1, <3>2
  <2> QED BY <2>1, <2>2, <2>3
<1>3. ASSUME UNCHANGED <<rows, pruned>> PROVE PrunedIsPrefix'
  BY <1>3 DEF Retained, Stored
<1> QED
  BY <1>1, <1>2, <1>3
  DEF Next, vars, Resolve, WriteStart, DeleteConsumer, Polling, ReadEvents, HandleEvent,
      CommitOffset, CompactionBegins, CompactionStops, Crash
\* What BatchHandled says of one poll.
Handled(c) ==
    /\ poll[c].rest \subseteq Stored
    /\ poll[c].last \in Stored \cup {0}
    /\ \A p \in Stored :
          poll[c].from <= p =>
              /\ p <= poll[c].last => p \in tried[c]
              /\ \A o \in poll[c].rest : p < o => p \in poll[c].rest \cup tried[c]

\* A step of a poll handles the next event and leaves no hole.
LEMMA BatchStep ==
    ASSUME TypeOK, IsFiniteSet(rows), UnreadHistoryKept, BatchHandled, [Next]_vars
    PROVE  BatchHandled'
<1>1. TypeOK'
  BY TypeStep
<1>2. \A c \in Consumers : Handled(c)
  BY DEF BatchHandled, Handled
<1>3. SUFFICES ASSUME NEW c \in Consumers PROVE Handled(c)'
  BY DEF BatchHandled, Handled
<1>4. CASE poll'[c] = NoPoll
  <2>1. Stored' \subseteq Offsets
    BY <1>1 DEF TypeOK, Stored, Rows
  <2>2. \A p \in Stored' : ~(p <= 0)
    BY <2>1, StreamAssumption DEF Offsets
  <2> QED BY <1>4, <2>2 DEF Handled, NoPoll
<1>5. ASSUME NEW key \in Keys, NEW at \in Times, Append(key, at) PROVE Handled(c)'
  <2>1. PICK o \in Offsets :
            /\ \A p \in Stored : p < o
            /\ rows' = rows \cup {[offset |-> o, key |-> key, at |-> at]}
    BY <1>5 DEF Append
  <2>2. Stored' = Stored \cup {o} /\ poll' = poll /\ tried' = tried
    <3>1. PICK row : row.offset = o /\ rows' = rows \cup {row}
      BY <2>1
    <3>2. Stored' = Stored \cup {o}
      <4>1. {r.offset : r \in rows \cup {row}} = {r.offset : r \in rows} \cup {row.offset}
        OBVIOUS
      <4> QED BY <4>1, <3>1 DEF Stored
    <3> QED BY <3>2, <1>5 DEF Append
  <2>3. \A p \in Stored : p \in Nat /\ p < o /\ ~(o < p) /\ ~(o <= p)
    BY <2>1, TablesHoldOffsets, OffsetsAreFinite
  <2>4. ~(o <= poll[c].last)
    BY <2>3, <1>2, OffsetsAreFinite, StreamAssumption DEF Handled, Offsets
  <2> QED BY <2>2, <2>3, <2>4, <1>2 DEF Handled
<1>6. ASSUME ReadEvents(c) PROVE Handled(c)'
  <2> DEFINE batch == FirstOf(ReadLimit, Unread(c))
  <2>1. /\ poll'[c] = [from |-> next[c], rest |-> batch, last |-> 0]
        /\ Stored' = Stored /\ tried' = tried
    BY <1>6 DEF ReadEvents, TypeOK, Stored
  <2>2. Unread(c) \in SUBSET Offsets /\ Unread(c) \subseteq Stored
    BY TablesHoldOffsets DEF Unread, Retained
  <2>3. batch \subseteq Stored
    BY <2>2 DEF FirstOf
  <2>4. ASSUME NEW p \in Stored, next[c] <= p, NEW o \in batch, p < o PROVE p \in batch
    <3>1. p \notin pruned
      <4>1. \A q \in pruned : q < next[c]
        BY <1>6 DEF UnreadHistoryKept, ReadEvents
      <4>2. p \in Nat /\ next[c] \in Nat
        BY TablesHoldOffsets, OffsetsAreFinite, StreamAssumption DEF TypeOK
      <4> QED BY <4>1, <4>2, <2>4
    <3>2. p \in Unread(c)
      BY <3>1, <2>4 DEF Unread, Retained
    <3> QED BY <3>2, <2>2, <2>4, FirstOfIsPrefix, StreamAssumption
  <2>5. \A p \in Stored : ~(p <= 0)
    BY TablesHoldOffsets, OffsetsAreFinite
  <2> QED BY <2>1, <2>3, <2>4, <2>5 DEF Handled
<1>7. ASSUME HandleEvent(c) PROVE Handled(c)'
  <2>0. PICK o \in poll[c].rest :
            /\ \A p \in poll[c].rest : o <= p
            /\ \E rest \in {poll[c].rest \ {o}, {}} :
                  poll' = [poll EXCEPT ![c].rest = rest, ![c].last = o]
            /\ tried' = [tried EXCEPT ![c] = @ \cup {o}]
    BY <1>7 DEF HandleEvent
  <2>1. PICK rest \in {poll[c].rest \ {o}, {}} :
            poll' = [poll EXCEPT ![c].rest = rest, ![c].last = o]
    BY <2>0
  <2>2. /\ poll'[c].rest = rest /\ poll'[c].last = o /\ poll'[c].from = poll[c].from
        /\ tried'[c] = tried[c] \cup {o}
    BY <2>0, <2>1 DEF TypeOK, Polls
  <2>3. Stored' = Stored /\ rest \subseteq poll[c].rest /\ poll[c].rest \subseteq Stored
    BY <1>7, <1>2, <2>1 DEF HandleEvent, Stored, Handled
  <2>4. ASSUME NEW p \in Stored, poll[c].from <= p, p <= o PROVE p \in tried'[c]
    <3>1. p \in Nat /\ o \in Nat
      BY <2>3, TablesHoldOffsets, OffsetsAreFinite
    <3>2. p = o \/ (p < o /\ p \notin poll[c].rest)
      BY <3>1, <2>0, <2>4
    <3> QED BY <3>2, <2>2, <2>4, <1>2 DEF Handled
  <2>5. ASSUME NEW p \in Stored, poll[c].from <= p, NEW q \in rest, p < q
        PROVE  p \in rest \cup tried'[c]
    <3>1. rest = poll[c].rest \ {o}
      BY <2>1, <2>5
    <3>2. p \in poll[c].rest \cup tried[c]
      BY <2>3, <2>5, <1>2 DEF Handled
    <3> QED BY <3>1, <3>2, <2>2
  <2> QED BY <2>2, <2>3, <2>4, <2>5 DEF Handled
<1>8. ASSUME UNCHANGED <<rows, poll[c], tried[c]>> PROVE Handled(c)'
  BY <1>8, <1>2 DEF Handled, Stored
<1>9. ASSUME NEW d \in Consumers, d # c,
             ReadEvents(d) \/ HandleEvent(d) \/ CommitOffset(d) \/ DeleteConsumer(d)
      PROVE  UNCHANGED <<rows, poll[c], tried[c]>>
  BY <1>9 DEF ReadEvents, HandleEvent, CommitOffset, DeleteConsumer, TypeOK
<1>10. ASSUME CommitOffset(c) \/ DeleteConsumer(c) \/ Crash PROVE poll'[c] = NoPoll
  BY <1>10 DEF CommitOffset, DeleteConsumer, Crash, TypeOK
<1> QED
  BY <1>4, <1>5, <1>6, <1>7, <1>8, <1>9, <1>10
  DEF Next, vars, Polling, Resolve, WriteStart, CompactionBegins, CompactBatch, CompactionStops

\* The invariant holds at first.
LEMMA InitIInv == ASSUME Init PROVE IInv
<1>1. IsFiniteSet({})
  BY FS_EmptySet
<1>2. TypeOK
  BY StreamAssumption
  DEF Init, TypeOK, Polls, NoPoll, Compactions, NoCompaction, Stored
<1> QED
  BY <1>1, <1>2
  DEF Init, IInv, UnreadHistoryKept, PrunedIsPrefix, BatchHandled, Live, NoPoll, Stored

-----------------------------------------------------------------------------
(* Theorems *)

\* The strengthened invariant is inductive.
THEOREM Invariance == Spec => []IInv
<1>1. Init => IInv
  BY InitIInv
<1>2. IInv /\ [Next]_vars => IInv'
  <2> SUFFICES ASSUME IInv, [Next]_vars PROVE IInv'
    OBVIOUS
  <2> USE DEF IInv
  <2>1. TypeOK' /\ IsFiniteSet(rows)'
    BY TypeStep
  <2>2. UnreadHistoryKept'
    BY UnreadStep
  <2>3. PrunedIsPrefix'
    BY PrefixStep
  <2>4. BatchHandled'
    BY BatchStep
  <2> QED BY <2>1, <2>2, <2>3, <2>4
<1> QED BY <1>1, <1>2, PTL DEF Spec

\* Every variable of the event log keeps its type, start offsets included.
THEOREM TypeCorrect == Spec => []TypeOK
<1>1. IInv => TypeOK
  BY DEF IInv
<1> QED BY <1>1, Invariance, PTL

\* Compaction never prunes what an existing consumer has yet to read, whichever
\* consumers are created, reset, moved or deleted between its transactions.
THEOREM CompactionKeepsUnread == Spec => []UnreadHistoryKept
<1>1. IInv => UnreadHistoryKept
  BY DEF IInv
<1> QED BY <1>1, Invariance, PTL

\* The pruned events are a prefix of the log, so one bound describes them.
THEOREM CompactionPrunesPrefix == Spec => []PrunedIsPrefix
<1>1. IInv => PrunedIsPrefix
  BY DEF IInv
<1> QED BY <1>1, Invariance, PTL

\* Hence the read of a consumer is never refused for want of history.
THEOREM ReadsAreNeverRefused == Spec => [](\A c \in Live : OffsetAvailable(next[c]))
<1>1. IInv => \A c \in Live : OffsetAvailable(next[c])
  <2> SUFFICES ASSUME IInv, NEW c \in Live, pruned # {} PROVE next[c] >= RetainedFrom
    BY DEF OffsetAvailable
  <2> USE DEF IInv
  <2>1. PrunedThrough \in pruned \cup {0} /\ \A p \in pruned : p < next[c]
    BY TablesHoldOffsets, HighestIsGreatest DEF PrunedThrough, UnreadHistoryKept
  <2>2. next[c] \in Nat \ {0} /\ PrunedThrough \in Nat
    BY <2>1, TablesHoldOffsets, OffsetsAreFinite, StreamAssumption DEF TypeOK, Live
  <2>3. PrunedThrough < next[c]
    BY <2>1, <2>2
  <2> QED BY <2>2, <2>3 DEF RetainedFrom
<1> QED BY <1>1, Invariance, PTL

\* A commit passes no event that its poll did not handle, unless the consumer was
\* reset since the read.
THEOREM CommitSkipsNothing == Spec => NoEventSkipped
<1> DEFINE Step == \A c \in Consumers :
                      Commits(c) /\ next[c] = poll[c].from => Passed(c) \subseteq tried[c]
<1>1. IInv /\ [Next]_vars => [Step]_vars
  <2> SUFFICES ASSUME IInv, Next, NEW c \in Consumers, Commits(c), next[c] = poll[c].from
               PROVE  Passed(c) \subseteq tried[c]
    OBVIOUS
  <2> USE DEF IInv
  <2>1. CommitOffset(c)
    BY DEF Commits, Live, TypeOK, Next, Polling, Append, Resolve, WriteStart, DeleteConsumer,
           ReadEvents, HandleEvent, CommitOffset, CompactionBegins, CompactBatch,
           CompactionStops, Crash
  <2>2. next'[c] = poll[c].last + 1
    BY <2>1 DEF CommitOffset, Committed, Commits, TypeOK
  <2>3. ASSUME NEW o \in Passed(c) PROVE o \in tried[c]
    <3>1. o \in Stored /\ poll[c].from <= o /\ o < poll[c].last + 1
      BY <2>2 DEF Passed
    <3>2. o \in Nat /\ poll[c].last \in Nat
      <4>1. poll[c].last \in 0..MaxOffset
        BY DEF TypeOK, Polls
      <4>2. o \in Nat
        BY <3>1, TablesHoldOffsets, OffsetsAreFinite
      <4> QED BY <4>1, <4>2, StreamAssumption
    <3>3. o <= poll[c].last
      BY <3>1, <3>2
    <3> QED BY <3>1, <3>3 DEF BatchHandled
  <2> QED BY <2>3
<1> QED BY <1>1, Invariance, PTL DEF Spec, NoEventSkipped

-----------------------------------------------------------------------------
(* The refinement *)

\* A poll knows where it began, and its batch lies behind that.
PollsHaveStarts ==
    \A c \in Consumers : poll[c] # NoPoll =>
        poll[c].from # 0 /\ \A o \in poll[c].rest : poll[c].from <= o

\* A step keeps the start of a poll as it is.
LEMMA StartsStep ==
    ASSUME TypeOK, PollsHaveStarts, [Next]_vars
    PROVE  PollsHaveStarts'
<1> USE DEF PollsHaveStarts
<1>1. ASSUME NEW c \in Consumers, DeleteConsumer(c) PROVE PollsHaveStarts'
  BY <1>1 DEF DeleteConsumer, TypeOK
<1>2. ASSUME NEW c \in Consumers, ReadEvents(c) PROVE PollsHaveStarts'
  <2>1. next[c] # 0 /\ \A o \in FirstOf(ReadLimit, Unread(c)) : next[c] <= o
    BY <1>2 DEF ReadEvents, Live, FirstOf, Unread
  <2>2. poll'[c].from = next[c] /\ poll'[c].rest = FirstOf(ReadLimit, Unread(c))
        /\ \A d \in Consumers \ {c} : poll'[d] = poll[d]
    BY <1>2 DEF ReadEvents, TypeOK
  <2> QED BY <2>1, <2>2
<1>3. ASSUME NEW c \in Consumers, HandleEvent(c) PROVE PollsHaveStarts'
  <2>1. poll[c] # NoPoll
    BY <1>3 DEF HandleEvent, NoPoll
  <2>2. poll'[c].from = poll[c].from /\ poll'[c].rest \subseteq poll[c].rest
        /\ \A d \in Consumers \ {c} : poll'[d] = poll[d]
    BY <1>3 DEF HandleEvent, TypeOK, Polls
  <2> QED BY <2>1, <2>2
<1>4. ASSUME NEW c \in Consumers, CommitOffset(c) PROVE PollsHaveStarts'
  BY <1>4 DEF CommitOffset, TypeOK
<1>5. ASSUME Crash PROVE PollsHaveStarts'
  BY <1>5 DEF Crash
<1>6. ASSUME UNCHANGED poll PROVE PollsHaveStarts'
  BY <1>6
<1> QED
  BY <1>1, <1>2, <1>3, <1>4, <1>5, <1>6
  DEF Next, Polling, Append, Resolve, WriteStart, CompactionBegins, CompactBatch,
      CompactionStops, vars

\* What is stored and not pruned can be read from any offset the history lets through.
LEMMA AvailableIsComplete ==
    ASSUME TypeOK, NEW n \in Nat, OffsetAvailable(n)
    PROVE  Feed!Complete(n)
<1> SUFFICES ASSUME NEW o \in Stored, n <= o PROVE o \notin pruned
  BY DEF Feed!Complete, Feed!Logged, Retained, Stored
<1>1. o \in Nat
  BY TablesHoldOffsets, OffsetsAreFinite
<1> QED BY <1>1, AvailableIsAbovePruned

\* A step of the log is a step of the feed, or none.
LEMMA FeedStep ==
    ASSUME IInv, PollsHaveStarts, [Next]_vars
    PROVE  [Feed!Next]_(Feed!feedVars)
<1> DEFINE Reading == [c \in Consumers |-> poll[c].from]
<1> USE StreamAssumption DEF IInv, TypeOK
<1>1. ASSUME NEW key \in Keys, NEW at \in Times, Append(key, at) PROVE Feed!Next
  <2>1. PICK o \in Offsets : /\ \A p \in Stored : p < o
                             /\ rows' = rows \cup {[offset |-> o, key |-> key, at |-> at]}
    BY <1>1 DEF Append
  <2> DEFINE e == [offset |-> o, key |-> key, at |-> at]
  <2>2. e \in Rows /\ \A d \in rows : d.offset < e.offset /\ d.key # e.key
    BY <1>1, <2>1 DEF Append, Rows, Stored
  <2>3. o \notin pruned
    <3>1. o \notin Stored
      BY <2>1, TablesHoldOffsets, OffsetsAreFinite
    <3> QED BY <3>1
  <2>4. Stored' = Stored \cup {o}
    <3>1. e.offset = o /\ rows' = rows \cup {e}
      BY <2>1
    <3> HIDE DEF e
    <3> QED BY <3>1, Zenon DEF Stored
  <2>5. Retained' = Retained \cup {e.offset}
    BY <1>1, <2>3, <2>4 DEF Retained, Append
  <2>6. Feed!Publish(e)
    BY <1>1, <2>1, <2>2, <2>5 DEF Feed!Publish, Append
  <2> QED BY <2>2, <2>6 DEF Feed!Next
<1>2. ASSUME NEW c \in Consumers, WriteStart(c), HistoryAvailable(start[c]) PROVE Feed!Next
  <2> DEFINE n == start[c].next
  <2>1. n \in 1..(MaxOffset + 1)
    BY <1>2 DEF WriteStart, Starts
  <2>2. OffsetAvailable(n)
    BY <1>2 DEF HistoryAvailable, OffsetAvailable
  <2>3. Feed!Complete(n)
    BY <2>1, <2>2, AvailableIsComplete
  <2>4. UNCHANGED <<rows, Retained, Reading, tried>>
    BY <1>2 DEF WriteStart, Retained, Stored
  <2>5. Feed!Place(c, n)
    BY <1>2, <2>3, <2>4 DEF WriteStart, Feed!Place
  <2> QED BY <2>1, <2>5 DEF Feed!Next
<1>3. ASSUME NEW c \in Consumers, DeleteConsumer(c) PROVE Feed!Next
  <2>1. Reading' = [Reading EXCEPT ![c] = 0]
    BY <1>3 DEF DeleteConsumer, NoPoll
  <2>2. UNCHANGED <<rows, Retained>>
    BY <1>3 DEF DeleteConsumer, Retained, Stored
  <2>3. Feed!Remove(c)
    BY <1>3, <2>1, <2>2 DEF DeleteConsumer, Feed!Remove
  <2> QED BY <2>3 DEF Feed!Next
<1>4. ASSUME NEW c \in Consumers, ReadEvents(c) PROVE Feed!Next
  <2>1. Reading' = [Reading EXCEPT ![c] = next[c]] /\ Reading[c] = 0
    <3>1. poll[c].from = 0
      BY <1>4 DEF ReadEvents, NoPoll
    <3>2. \A d \in Consumers : poll'[d].from = IF d = c THEN next[c] ELSE poll[d].from
      BY <1>4 DEF ReadEvents
    <3> QED BY <3>1, <3>2
  <2>2. UNCHANGED <<rows, Retained, next, tried>>
    BY <1>4 DEF ReadEvents, Retained, Stored
  <2>3. next[c] # 0 /\ Feed!Complete(next[c])
    BY <1>4, AvailableIsComplete DEF ReadEvents, Live
  <2>4. Feed!Begin(c)
    BY <2>1, <2>2, <2>3 DEF Feed!Begin
  <2> QED BY <2>4 DEF Feed!Next
<1>5. ASSUME NEW c \in Consumers, HandleEvent(c) PROVE Feed!Next
  <2>1. PICK o \in poll[c].rest : /\ \A p \in poll[c].rest : o <= p
                                  /\ \E rest \in {poll[c].rest \ {o}, {}} :
                                        poll' = [poll EXCEPT ![c].rest = rest, ![c].last = o]
                                  /\ tried' = [tried EXCEPT ![c] = @ \cup {o}]
    BY <1>5 DEF HandleEvent
  <2>2. o \in Stored
    BY <2>1 DEF BatchHandled
  <2>3. poll[c].from # 0 /\ poll[c].from <= o
    BY <2>1 DEF PollsHaveStarts, NoPoll
  <2>4. ASSUME NEW p \in Stored, poll[c].from <= p, p < o PROVE p \in tried[c]
    <3>1. p \in Nat /\ o \in Nat
      BY <2>2, TablesHoldOffsets, OffsetsAreFinite
    <3>2. p \notin poll[c].rest
      BY <2>1, <2>4, <3>1
    <3> QED BY <2>1, <2>4, <3>2 DEF BatchHandled
  <2>5. Feed!Between(Reading[c], o) \subseteq tried[c]
    BY <2>4 DEF Feed!Between, Feed!Logged, Stored
  <2>6. UNCHANGED Reading
    <3>1. \A d \in Consumers : poll'[d].from = poll[d].from
      BY <2>1 DEF Polls
    <3> QED BY <3>1
  <2>7. UNCHANGED <<rows, Retained, next>>
    BY <1>5 DEF HandleEvent, Retained, Stored
  <2>8. Feed!Take(c, o)
    BY <2>1, <2>3, <2>5, <2>6, <2>7 DEF Feed!Take
  <2> QED BY <2>2, <2>8 DEF Feed!Next, Feed!Logged, Stored
<1>6. ASSUME NEW c \in Consumers, CommitOffset(c) PROVE Feed!Next
  <2>1. Committed(c) \in 1..(MaxOffset + 1) /\ poll[c].last \in Nat
    BY DEF Committed, Polls
  <2>2. PICK n \in 1..(MaxOffset + 1) : n = Committed(c)
    BY <2>1
  <2>3. Reading' = [Reading EXCEPT ![c] = 0] /\ Reading[c] # 0
    BY <1>6 DEF CommitOffset, NoPoll, PollsHaveStarts
  <2>4. UNCHANGED <<rows, Retained, tried>>
    BY <1>6 DEF CommitOffset, Retained, Stored
  <2>5. CASE OffsetAvailable(n)
    <3>1. Feed!Complete(n)
      BY <2>2, <2>5, AvailableIsComplete
    <3>2. ASSUME NEW p \in Stored, poll[c].from <= p, p < n PROVE p \in tried[c]
      <4>1. p \in Nat
        BY TablesHoldOffsets, OffsetsAreFinite
      <4>2. p <= poll[c].last
        BY <2>1, <2>2, <3>2, <4>1 DEF Committed
      <4> QED BY <3>2, <4>2 DEF BatchHandled
    <3>3. Feed!Between(Reading[c], n) \subseteq tried[c]
      BY <3>2 DEF Feed!Between, Feed!Logged, Stored
    <3>4. next' = [next EXCEPT ![c] = n]
      BY <1>6, <2>5, <2>2 DEF CommitOffset
    <3> HIDE DEF Reading, TypeOK, IInv
    <3>5. Feed!Advance(c, n)
      BY <2>3, <2>4, <3>1, <3>3, <3>4 DEF Feed!Advance, Reading
    <3> QED BY <3>5 DEF Feed!Next
  <2>6. CASE ~OffsetAvailable(n)
    <3>1. next' = next
      BY <1>6, <2>6, <2>2 DEF CommitOffset
    <3>2. Feed!Stop({c})
      BY <2>3, <2>4, <3>1 DEF Feed!Stop
    <3> QED BY <3>2 DEF Feed!Next
  <2> QED BY <2>5, <2>6
<1>7. ASSUME CompactBatch PROVE Feed!Next
  <2>1. PICK o \in Eligible : pruned' = pruned \cup BatchThrough(o)
    BY <1>7 DEF CompactBatch
  <2> DEFINE batch == BatchThrough(o)
  <2>2. batch \in SUBSET Retained
    BY DEF BatchThrough
  <2>3. Retained' = Retained \ batch
    BY <1>7, <2>1 DEF CompactBatch, Retained, Stored
  <2>4. ASSUME NEW c \in Consumers, next[c] # 0, NEW p \in batch PROVE p < next[c]
    <3>1. p <= o /\ o < next[c]
      BY <2>1, <2>4 DEF BatchThrough, Eligible, Live
    <3>2. p \in Nat /\ o \in Nat /\ next[c] \in Nat
      BY <2>1, <2>2, TablesHoldOffsets, OffsetsAreFinite DEF Eligible
    <3> QED BY <3>1, <3>2
  <2>5. Feed!Forget(batch)
    BY <1>7, <2>3, <2>4 DEF CompactBatch, Feed!Forget
  <2> QED BY <2>2, <2>5 DEF Feed!Next
<1>8. ASSUME Crash PROVE Feed!Next
  <2>1. Reading' = [c \in Consumers |-> IF c \in Consumers THEN 0 ELSE Reading[c]]
    BY <1>8 DEF Crash, NoPoll
  <2>2. Feed!Stop(Consumers)
    BY <1>8, <2>1 DEF Crash, Feed!Stop, Retained, Stored
  <2> QED BY <2>2 DEF Feed!Next
<1>9. ASSUME UNCHANGED <<rows, pruned, next, poll, tried>> PROVE UNCHANGED Feed!feedVars
  BY <1>9 DEF Feed!feedVars, Retained, Stored
<1> QED
  BY <1>1, <1>2, <1>3, <1>4, <1>5, <1>6, <1>7, <1>8, <1>9
  DEF Next, Polling, Resolve, WriteStart, CompactionBegins, CompactionStops, vars

\* The log implements the feed: resets, deletions, compactions and restarts included.
THEOREM LogImplementsFeed == Spec => ImplementsFeed
<1>1. Init => PollsHaveStarts
  BY DEF Init, PollsHaveStarts
<1>2. IInv /\ PollsHaveStarts /\ [Next]_vars => PollsHaveStarts'
  BY StartsStep DEF IInv
<1>3. Init => Feed!Init
  BY DEF Init, Feed!Init, Retained, Stored, NoPoll
<1>4. IInv /\ PollsHaveStarts /\ [Next]_vars => [Feed!Next]_(Feed!feedVars)
  BY FeedStep
<1> QED BY <1>1, <1>2, <1>3, <1>4, Invariance, PTL DEF Spec, ImplementsFeed, Feed!Spec
=============================================================================
