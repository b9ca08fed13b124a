----------------------------- MODULE InboxWatch -----------------------------
(***************************************************************************)
(* Watching an inbox: AgentInboxService.watchInbox and its callers         *)
(* (src/service.ts), the event stream (src/http.ts) and its client         *)
(* (src/client.ts, src/cli.ts).  A watcher is attached, is given what the  *)
(* inbox lists, and from its start what the writers tell.  A poll or a     *)
(* digest flush stores an entry, goes on with other things, and tells the  *)
(* watchers in the end; a direct message is stored and told in one step.   *)
(* Entries are numbered by their sequence.                                 *)
(***************************************************************************)
EXTENDS Integers, Sequences, SequencesExt, FiniteSets, FiniteSetsExt, Listings

CONSTANTS
    Writers,       \* polls and digest flushes of the inbox
    Watchers,      \* client connections
    BatchSize,     \* entries one poll stores
    MaxEntries,    \* bound on entries
    MaxOpens,      \* bound on connections
    MaxOutages     \* bound on restarts of the daemon

ASSUME WatchAssumption ==
    {BatchSize, MaxEntries, MaxOpens, MaxOutages} \subseteq Nat

VARIABLES
    newest,      \* the sequence of the newest entry
    acked,       \* entries acked, or superseded by a later revision
    collected,   \* entries deleted after their retention
    batch,       \* insertedEntries: what a writer stored and has not told
    session,     \* [state, after, initial, pending] of a watcher
    wire,        \* the frames on their way to the client
    held,        \* the events the client holds for its caller
    shown,       \* what the caller of a connection got, in order
    opens, outages

watchVars == <<newest, acked, collected, batch, session, wire, held, shown, opens, outages>>

Numbers == 1..MaxEntries
Inserted == 1..newest

\* "started" is attached too; "stuck" is a stream that was opened and never written.
Off == [state |-> "off", after |-> 0, initial |-> {}, pending |-> <<>>]
Attached(w) == session[w].state \in {"listed", "started"}

WatchTypeOK ==
    /\ newest \in 0..MaxEntries /\ acked \subseteq Inserted /\ collected \subseteq acked
    /\ batch \in [Writers -> Seq(Numbers)]
    /\ session \in [Watchers -> [state : {"off", "listed", "started", "stuck"},
                                 after : Numbers \cup {0}, initial : SUBSET Numbers,
                                 pending : Seq(Numbers)]]
    /\ {wire, held, shown} \subseteq [Watchers -> Seq(Numbers)]

WatchInit ==
    /\ newest = 0 /\ acked = {} /\ collected = {}
    /\ batch = [p \in Writers |-> <<>>]
    /\ session = [w \in Watchers |-> Off]
    /\ wire = [w \in Watchers |-> <<>>]
    /\ held = [w \in Watchers |-> <<>>]
    /\ shown = [w \in Watchers |-> <<>>]
    /\ opens = 0 /\ outages = 0

-----------------------------------------------------------------------------
(* Writers *)

\* notifyInboxWatchers: onItems of every watcher that is attached.
Notify(told) ==
    /\ session' = [w \in Watchers |->
           IF session[w].state = "listed" THEN [session[w] EXCEPT !.pending = @ \o told]
           ELSE session[w]]
    /\ wire' = [w \in Watchers |->
           IF session[w].state = "started" THEN wire[w] \o told ELSE wire[w]]

\* createInboxItemEntry, or a new revision of a digest, in the middle of a poll.  The
\* entry it supersedes is listed no more.
StoreEntry(p) ==
    /\ newest < MaxEntries /\ Len(batch[p]) < BatchSize
    /\ newest' = newest + 1
    /\ batch' = [batch EXCEPT ![p] = Append(@, newest + 1)]
    /\ acked' \in {acked} \cup {acked \cup {e} : e \in Inserted}
    /\ UNCHANGED <<collected, session, wire, held, shown, opens, outages>>

\* Mutation: a poll that fails tells nothing.
ToldOnSuccess(p, failed) == IF failed THEN <<>> ELSE batch[p]
\* The poll ends, or an event fails after others were stored: they are told either way.
Told(p, failed) == batch[p]

PollEnds(p) ==
    /\ batch[p] # <<>>
    /\ \E failed \in BOOLEAN : Notify(Told(p, failed))
    /\ batch' = [batch EXCEPT ![p] = <<>>]
    /\ UNCHANGED <<newest, acked, collected, held, shown, opens, outages>>

\* materializeAgentInboxItem: a direct message or a fired timer.
DirectMessage ==
    /\ newest < MaxEntries
    /\ newest' = newest + 1
    /\ Notify(<<newest + 1>>)
    /\ UNCHANGED <<acked, collected, batch, held, shown, opens, outages>>

-----------------------------------------------------------------------------
(* A connection *)

\* The last entry its caller got is where a client goes on (--after-entry), or 0.
Anchors(w) == {0} \cup (IF shown[w] = <<>> THEN {} ELSE {Last(shown[w])})

\* listInboxEntries
Listed(after) == {e \in Inserted : e > after /\ e \notin acked}

\* watchInbox: attached first, then listed.  An anchor that was collected makes it
\* throw after the response has begun, which then stays open.
Open(w, after) ==
    /\ session[w].state = "off" /\ held[w] = <<>>
    /\ opens < MaxOpens /\ opens' = opens + 1
    /\ session' = [session EXCEPT ![w] =
           IF after \in collected THEN [Off EXCEPT !.state = "stuck", !.after = after]
           ELSE [state |-> "listed", after |-> after, initial |-> Listed(after),
                 pending |-> <<>>]]
    /\ wire' = [wire EXCEPT ![w] =
           IF after \in collected THEN <<>> ELSE InOrder(Listed(after))]
    /\ shown' = [shown EXCEPT ![w] = <<>>]
    /\ UNCHANGED <<newest, acked, collected, batch, held, outages>>

\* start: what was told since the listing and is not in it.
StartWatch(w) ==
    /\ session[w].state = "listed"
    /\ wire' = [wire EXCEPT ![w] =
           @ \o Removed(session[w].pending, session[w].initial)]
    /\ session' = [session EXCEPT ![w].state = "started", ![w].pending = <<>>]
    /\ UNCHANGED <<newest, acked, collected, batch, held, shown, opens, outages>>

\* createSseStream: a frame arrives and waits for the caller, or goes to it at once.
Receive(w) ==
    /\ wire[w] # <<>>
    /\ held' = [held EXCEPT ![w] = Append(@, Head(wire[w]))]
    /\ wire' = [wire EXCEPT ![w] = Tail(@)]
    /\ UNCHANGED <<newest, acked, collected, batch, session, shown, opens, outages>>

\* next: what is queued comes before the end of the stream.
Show(w) ==
    /\ held[w] # <<>>
    /\ shown' = [shown EXCEPT ![w] = Append(@, Head(held[w]))]
    /\ held' = [held EXCEPT ![w] = Tail(@)]
    /\ UNCHANGED <<newest, acked, collected, batch, session, wire, opens, outages>>

\* The connection ends at either side: cleanup, close.
Cut(w) ==
    /\ session[w].state # "off"
    /\ session' = [session EXCEPT ![w] = Off]
    /\ wire' = [wire EXCEPT ![w] = <<>>]
    /\ UNCHANGED <<newest, acked, collected, batch, held, shown, opens, outages>>

-----------------------------------------------------------------------------
(* Acks, retention, and a restart of the daemon *)

\* ackInbox: an entry by name, everything through one, or all.
Ack ==
    /\ \E e \in Inserted \ collected : \E named \in {{e}, 1..e} :
          ~(named \subseteq acked) /\ acked' = acked \cup named
    /\ UNCHANGED <<newest, collected, batch, session, wire, held, shown, opens, outages>>

\* deleteAckedInboxItems, after the retention.
CollectAcked ==
    /\ collected # acked
    /\ collected' = acked
    /\ UNCHANGED <<newest, acked, batch, session, wire, held, shown, opens, outages>>

DaemonRestart ==
    /\ outages < MaxOutages /\ outages' = outages + 1
    /\ batch' = [p \in Writers |-> <<>>]
    /\ session' = [w \in Watchers |-> Off]
    /\ wire' = [w \in Watchers |-> <<>>]
    /\ UNCHANGED <<newest, acked, collected, held, shown, opens>>

WatchNext ==
    \/ \E p \in Writers : StoreEntry(p) \/ PollEnds(p)
    \/ DirectMessage \/ Ack \/ CollectAcked \/ DaemonRestart
    \/ \E w \in Watchers :
          \/ StartWatch(w) \/ Receive(w) \/ Show(w) \/ Cut(w)
          \/ \E after \in Anchors(w) : Open(w, after)

WatchSpec == WatchInit /\ [][WatchNext]_watchVars

-----------------------------------------------------------------------------
(* Where an entry is for the watcher. *)
Coming(w) == ToSet(session[w].pending) \cup ToSet(wire[w]) \cup ToSet(held[w])
                 \cup ToSet(shown[w]) \cup UNION {ToSet(batch[p]) : p \in Writers}

(* A watcher misses nothing: each unacked entry after its anchor was shown to it, is  *)
(* on its way, or is still to be told by the writer that stored it, whether the entry *)
(* came before the listing, between the listing and the start, or in a poll that      *)
(* fails after it.                                                                    *)
NothingUnseen ==
    \A w \in Watchers :
        Attached(w) => \A e \in Listed(session[w].after) : e \in Coming(w)

(* With the types. *)
WatchIsSound == WatchTypeOK /\ NothingUnseen

(* CHANGELOG.md: "reads, watches, and through-acks use the same durable sequence".    *)
(* Violated: a direct message is told at once, and the entry a poll stored before it  *)
(* when the poll ends, so that an ack through the newest entry shown acks one that    *)
(* was not.                                                                           *)
WatchFollowsSequence ==
    \A w \in Watchers : \A m, n \in 1..Len(shown[w]) : m < n => shown[w][m] < shown[w][n]

(* A client that goes on after the last entry it was shown loses nothing.  Violated   *)
(* in the same way, when the connection ends between the two.                         *)
ResumeMissesNothing ==
    [][\A w \in Watchers :
          (session[w].state = "off" /\ session'[w].state = "listed" /\ session'[w].after # 0)
              => \A e \in Inserted \ acked : e <= session'[w].after => e \in ToSet(shown[w])]_watchVars

(* A watch that was accepted is answered.  Violated: its anchor was collected.        *)
WatchIsAnswered == \A w \in Watchers : session[w].state # "stuck"
=============================================================================
