------------------------------ MODULE StreamLog ------------------------------
(***************************************************************************)
(* The event log of one source stream and the consumers that read it:      *)
(* src/src/backend.ts over the tables of src/src/store.ts, with the poll   *)
(* of src/src/service.ts as the client that reads, handles and commits.    *)
(*                                                                         *)
(* Events are appended once per identity, at offsets that all the streams  *)
(* of the database share, so one stream sees gaps.  Each subscription owns *)
(* a consumer, which is its next offset.  Compaction clears the payload of *)
(* a prefix of the log and keeps the rows.                                 *)
(*                                                                         *)
(* Every step below is one SQLite transaction or runs without an await.    *)
(* What is read in one and used in a later one may be stale by then: a     *)
(* poll awaits filters and digest hooks between its read and its commit,   *)
(* and another process may hold the database between the resolution of a   *)
(* start offset and its writing, or between two batches of a compaction.   *)
(*                                                                         *)
(* Abstractions.  A payload is only retained or pruned.  The creation time *)
(* of an event grows with its offset, so a retention cutoff is an offset.  *)
(* The byte limits of a compaction may end a batch anywhere.  A filter or  *)
(* a hook may fail on any event.                                           *)
(***************************************************************************)
EXTENDS Naturals, FiniteSets

CONSTANTS
    Consumers,     \* one per subscription of the source
    Keys,          \* identities of events: source native id and variant
    Times,         \* values occurred_at may take
    MaxOffset,     \* bound on offsets
    ReadLimit,     \* DEFAULT_SUBSCRIPTION_POLL_LIMIT
    BatchSize,     \* events a compaction prunes in one transaction, at most
    MaxEvents,     \* and in one call
    MaxStarts,     \* bound on created and reset consumers
    MaxCompactions,\* bound on calls of the compaction
    MaxCrashes     \* bound on restarts of the daemon

ASSUME StreamAssumption ==
    /\ Times \subseteq Nat
    /\ {MaxOffset, MaxStarts, MaxCompactions, MaxCrashes} \subseteq Nat
    /\ {ReadLimit, BatchSize, MaxEvents} \subseteq Nat
    /\ ReadLimit > 0 /\ BatchSize > 0 /\ MaxEvents > 0

VARIABLES
    rows,         \* the rows of stream_events
    pruned,       \* offsets of the rows whose payload_pruned_at is set
    next,         \* Consumers -> next_offset, 0 without a row in consumers
    start,        \* Consumers -> a start position resolved and not written yet
    poll,         \* Consumers -> the running pollSubscription
    compaction,   \* the running applyStreamCompaction
    tried,        \* Consumers -> offsets a poll has handled (history)
    starts, compactions, crashes

counters == <<starts, compactions, crashes>>
vars == <<rows, pruned, next, start, poll, compaction, tried, counters>>

-----------------------------------------------------------------------------
Offsets  == 1..MaxOffset
Rows     == [offset : Offsets, key : Keys, at : Times]
Policies == {"latest", "earliest", "at_offset", "at_time"}

NoStart == [policy |-> "none", next |-> 0, time |-> 0]
NoPoll  == [from |-> 0, rest |-> {}, last |-> 0]
NoCompaction == [cutoff |-> 0, left |-> 0]

Stored   == {r.offset : r \in rows}
Retained == Stored \ pruned
Live     == {c \in Consumers : next[c] # 0}

\* The greatest offset of a set, 0 for none.
Highest(S) == CHOOSE o \in S \cup {0} : \A p \in S : p <= o

HighWatermark == Highest(Stored)
PrunedThrough == Highest(pruned)
RetainedFrom  == PrunedThrough + 1

\* assertStreamHistory, of an offset and of what else is asked.
OffsetAvailable(offset) == pruned = {} \/ offset >= RetainedFrom
TimeAvailable(time) == \A r \in rows : r.offset \in pruned => r.at < time
HistoryAvailable(s) ==
    \/ pruned = {}
    \/ /\ s.policy # "earliest"
       /\ OffsetAvailable(s.next)
       /\ s.policy = "at_time" => TimeAvailable(s.time)

Init ==
    /\ rows = {} /\ pruned = {}
    /\ next = [c \in Consumers |-> 0]
    /\ start = [c \in Consumers |-> NoStart]
    /\ poll = [c \in Consumers |-> NoPoll]
    /\ compaction = NoCompaction
    /\ tried = [c \in Consumers |-> {}]
    /\ starts = 0 /\ compactions = 0 /\ crashes = 0

-----------------------------------------------------------------------------
(* Append *)

\* insertStreamEvent: an identity that has a row, pruned or not, is not stored again.
Append(key, at) ==
    /\ \A r \in rows : r.key # key
    /\ \E o \in Offsets :
          /\ \A p \in Stored : p < o
          /\ rows' = rows \cup {[offset |-> o, key |-> key, at |-> at]}
    /\ UNCHANGED <<pruned, next, start, poll, compaction, tried, counters>>

-----------------------------------------------------------------------------
(* Consumers *)

\* findOffsetAtOrAfter: of the retained events at or after the time, the one that
\* occurred first.
AtOrAfter(time) == {r \in rows : r.offset \in Retained /\ r.at >= time}
Before(q, r) == q.at < r.at \/ (q.at = r.at /\ q.offset < r.offset)
FirstAtOrAfter(time) ==
    (CHOOSE r \in AtOrAfter(time) : \A q \in AtOrAfter(time) : ~Before(q, r)).offset

\* Mutation: latest starts at the watermark itself.
InitialOffsetAtWatermark(policy, arg) ==
    CASE policy = "earliest"  -> 1
      [] policy = "at_offset" -> arg
      [] policy = "at_time" /\ AtOrAfter(arg) # {} -> FirstAtOrAfter(arg)
      [] OTHER -> HighWatermark

\* resolveInitialOffset. The argument is the offset or the time asked for.
InitialOffset(policy, arg) ==
    CASE policy = "earliest"  -> 1
      [] policy = "at_offset" -> arg
      [] policy = "at_time" /\ AtOrAfter(arg) # {} -> FirstAtOrAfter(arg)
      [] OTHER -> HighWatermark + 1

\* ensureConsumer without a consumer, or reset: the start is resolved, or refused.
Resolve(c, policy, arg) ==
    LET s == [policy |-> policy, next |-> InitialOffset(policy, arg),
              time |-> IF policy = "at_time" THEN arg ELSE 0]
    IN  /\ starts < MaxStarts
        /\ start[c] = NoStart
        /\ HistoryAvailable(s)
        /\ start' = [start EXCEPT ![c] = s]
        /\ starts' = starts + 1
        /\ UNCHANGED <<rows, pruned, next, poll, compaction, tried, compactions, crashes>>

\* insertConsumer or resetConsumer, which ask again for the history.
WriteStart(c) ==
    /\ start[c] # NoStart
    /\ next' = IF HistoryAvailable(start[c])
               THEN [next EXCEPT ![c] = start[c].next] ELSE next
    /\ start' = [start EXCEPT ![c] = NoStart]
    /\ UNCHANGED <<rows, pruned, poll, compaction, tried, counters>>

\* deleteConsumer. A poll or a reset still running fails on its next access. The
\* name then stands for the consumer of another subscription.
DeleteConsumer(c) ==
    /\ c \in Live
    /\ next' = [next EXCEPT ![c] = 0]
    /\ start' = [start EXCEPT ![c] = NoStart]
    /\ poll' = [poll EXCEPT ![c] = NoPoll]
    /\ tried' = [tried EXCEPT ![c] = {}]
    /\ UNCHANGED <<rows, pruned, compaction, counters>>

-----------------------------------------------------------------------------
(* pollSubscription *)

\* The first n offsets of a set.
FirstOf(n, S) == {o \in S : Cardinality({p \in S : p < o}) < n}

\* Mutation: the next offset is taken for the last one handled.
UnreadAfter(c) == {o \in Retained : o > next[c]}

Unread(c) == {o \in Retained : o >= next[c]}

ReadEvents(c) ==
    /\ c \in Live
    /\ poll[c] = NoPoll
    /\ OffsetAvailable(next[c])
    /\ Unread(c) # {}
    /\ poll' = [poll EXCEPT ![c] = [from |-> next[c], rest |-> FirstOf(ReadLimit, Unread(c)),
                                    last |-> 0]]
    /\ UNCHANGED <<rows, pruned, next, start, compaction, tried, counters>>

\* The next event of the batch; a failure ends the batch with it.
HandleEvent(c) ==
    \E o \in poll[c].rest :
        /\ \A p \in poll[c].rest : o <= p
        /\ \E rest \in {poll[c].rest \ {o}, {}} :
              poll' = [poll EXCEPT ![c].rest = rest, ![c].last = o]
        /\ tried' = [tried EXCEPT ![c] = @ \cup {o}]
        /\ UNCHANGED <<rows, pruned, next, start, compaction, counters>>

\* Mutation: the offset of the last event, not the one after it, is stored.
CommittedRepeats(c) == poll[c].last

\* Mutation: a commit goes on to what is stored by now.
CommittedSkips(c) == HighWatermark + 1

\* nextOffset of commit.
Committed(c) == poll[c].last + 1

\* commit; updateConsumerOffset compares with nothing but the history.
CommitOffset(c) ==
    /\ poll[c] # NoPoll
    /\ poll[c].rest = {}
    /\ next' = IF OffsetAvailable(Committed(c))
               THEN [next EXCEPT ![c] = Committed(c)] ELSE next
    /\ poll' = [poll EXCEPT ![c] = NoPoll]
    /\ UNCHANGED <<rows, pruned, start, compaction, tried, counters>>

-----------------------------------------------------------------------------
(* applyStreamCompaction *)

CompactionBegins(cutoff) ==
    /\ compaction = NoCompaction
    /\ compactions < MaxCompactions
    /\ cutoff <= HighWatermark + 1
    /\ compaction' = [cutoff |-> cutoff, left |-> MaxEvents]
    /\ compactions' = compactions + 1
    /\ UNCHANGED <<rows, pruned, next, start, poll, tried, starts, crashes>>

\* Mutation: the consumers only keep what they are about to read.
EligibleAtBoundary ==
    {o \in Retained : /\ Live # {} /\ \A c \in Live : o <= next[c]
                      /\ o < compaction.cutoff}

\* Below every consumer and older than the cutoff; nothing without a consumer.
Eligible ==
    {o \in Retained : /\ Live # {} /\ \A c \in Live : o < next[c]
                      /\ o < compaction.cutoff}

\* Mutation: only the last event of the batch is pruned.
LastOfBatch(o) == {o}

\* The batch that ends with o.
BatchThrough(o) == {p \in Retained : p <= o}

\* One transaction. The call goes on while eligible events and quota are left, unless
\* the next event is oversized.
CompactBatch ==
    /\ compaction # NoCompaction
    /\ \E o \in Eligible :
          LET batch == BatchThrough(o)
              left  == compaction.left - Cardinality(batch)
          IN  /\ Cardinality(batch) <= BatchSize /\ Cardinality(batch) <= compaction.left
              /\ pruned' = pruned \cup batch
              /\ \/ compaction' = NoCompaction
                 \/ /\ Eligible \ batch # {} /\ left > 0
                    /\ compaction' = [compaction EXCEPT !.left = left]
    /\ UNCHANGED <<rows, next, start, poll, tried, counters>>

\* Nothing is eligible, the first event is oversized, or the process stops.
CompactionStops ==
    /\ compaction # NoCompaction
    /\ compaction' = NoCompaction
    /\ UNCHANGED <<rows, pruned, next, start, poll, tried, counters>>

-----------------------------------------------------------------------------
\* The daemon stops: the polls and the starts not written yet are gone.
Crash ==
    /\ crashes < MaxCrashes
    /\ crashes' = crashes + 1
    /\ start' = [c \in Consumers |-> NoStart]
    /\ poll' = [c \in Consumers |-> NoPoll]
    /\ UNCHANGED <<rows, pruned, next, compaction, tried, starts, compactions>>

Polling(c) == ReadEvents(c) \/ HandleEvent(c) \/ CommitOffset(c)

Next ==
    \/ \E key \in Keys, at \in Times : Append(key, at)
    \/ \E c \in Consumers :
          \/ \E policy \in {"latest", "earliest"} : Resolve(c, policy, 0)
          \/ \E offset \in Offsets : Resolve(c, "at_offset", offset)
          \/ \E time \in Times : Resolve(c, "at_time", time)
          \/ WriteStart(c) \/ DeleteConsumer(c) \/ Polling(c)
    \/ \E cutoff \in 1..(MaxOffset + 1) : CompactionBegins(cutoff)
    \/ CompactBatch \/ CompactionStops
    \/ Crash

Spec == Init /\ [][Next]_vars

\* The sync interval polls every subscription, and the process goes on with a poll it
\* began. Nothing is assumed of appends, resets or compactions.
Fairness == \A c \in Consumers : WF_vars(Polling(c))

FairSpec == Spec /\ Fairness

-----------------------------------------------------------------------------
(* Properties *)

Starts == [policy : Policies, next : 1..(MaxOffset + 1), time : Times \cup {0}]
Polls  == [from : 0..(MaxOffset + 1), rest : SUBSET Offsets, last : 0..MaxOffset]
Compactions == [cutoff : 0..(MaxOffset + 1), left : 0..MaxEvents]

\* Every variable has its type; a start position is at least 1.
TypeOK ==
    /\ rows \subseteq Rows
    /\ pruned \subseteq Stored
    /\ next \in [Consumers -> 0..(MaxOffset + 1)]
    /\ start \in [Consumers -> Starts \cup {NoStart}]
    /\ poll \in [Consumers -> Polls]
    /\ compaction \in Compactions
    /\ tried \in [Consumers -> SUBSET Offsets]
    /\ starts \in 0..MaxStarts
    /\ compactions \in 0..MaxCompactions
    /\ crashes \in 0..MaxCrashes

\* No consumer, however it was created, reset or moved and whatever compaction ran
\* in between, has a pruned event before it ("existing consumers ... protect unread
\* history", cli.md:59-60). Its reads are therefore never refused.
UnreadHistoryKept == \A c \in Live : \A p \in pruned : p < next[c]

\* What is pruned is a prefix of the log, so that retainedFromOffset tells the pruned
\* events from the retained ones.
PrunedIsPrefix == \A p \in pruned : \A o \in Retained : p < o

\* The commit of a batch passes no event that the poll did not handle or fail on,
\* although events are appended and pruned while it runs; unless the consumer was
\* reset since the batch was read.
Commits(c) == poll[c] # NoPoll /\ next'[c] # next[c] /\ poll'[c] = NoPoll /\ c \in Live'
Passed(c)  == {o \in Stored : next[c] <= o /\ o < next'[c]}
NoEventSkipped ==
    [][\A c \in Consumers :
          Commits(c) /\ next[c] = poll[c].from => Passed(c) \subseteq tried[c]]_vars

\* Why that holds: what a poll has behind it in its batch is handled, and a batch leaves
\* no hole.
BatchHandled ==
    \A c \in Consumers :
        /\ poll[c].rest \subseteq Stored
        /\ poll[c].last \in Stored \cup {0}
        /\ \A p \in Stored :
              poll[c].from <= p =>
                  /\ p <= poll[c].last => p \in tried[c]
                  /\ \A o \in poll[c].rest : p < o => p \in poll[c].rest \cup tried[c]

Feed == INSTANCE ConsumerFeed WITH
    Events <- Rows, Positions <- 1..(MaxOffset + 1),
    log <- rows, kept <- Retained, position <- next,
    reading <- [c \in Consumers |-> poll[c].from], handled <- tried

\* The log keeps what ConsumerFeed promises, through restarts, resets and compactions: a
\* poll reads, handles and commits as a consumer of the feed does, and a compaction
\* forgets only what is before no position.
ImplementsFeed == Feed!Spec

\* Every event a consumer has before it is handled in the end, unless the consumer is
\* deleted or moved past it.
EventsAreHandled ==
    \A c \in Consumers : \A o \in Offsets :
        (o \in Stored /\ c \in Live /\ next[c] <= o)
            ~> (o \in tried[c] \/ c \notin Live \/ o < next[c])

\* A consumer that starts at a time has every event that occurred since before it
\* ("consume from the first event at or after a timestamp", eventbus-backend.md:352-353).
\* NOT a property of the code: the start is the offset of the event that occurred first.
AtTimeStartsAtTheFirst ==
    [][\A c \in Consumers : \A r \in rows :
          (/\ start[c].policy = "at_time" /\ start'[c] = NoStart
           /\ next'[c] # next[c] /\ next'[c] # 0
           /\ r.at >= start[c].time) => r.offset >= next'[c]]_vars

\* A consumer that was reset to the earliest event is moved past no event it never
\* handled ("earliest: consume from offset 1", eventbus-backend.md:348-349).  NOT a
\* property of the code: the commit of a poll under way overwrites the reset.
ResetIsKept ==
    [][\A c \in Consumers : Commits(c) => Passed(c) \subseteq tried[c]]_vars
=============================================================================
