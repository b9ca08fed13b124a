---------------------------- MODULE RemoteSource ----------------------------
(***************************************************************************)
(* A managed remote source (src/sources/remote.ts, and the requests of     *)
(* src/service.ts that use it).  A sync ensures the managed runtime, reads *)
(* a batch of its stream after the cursor of the checkpoint, appends the   *)
(* events to the log and then moves the cursor.  The interval, a request   *)
(* to poll, a resume and an update all sync, at most one at a time; pause, *)
(* resume, update and removal are requests of their own that await the     *)
(* runtime while a sync may be under way.  What a sync, a pause or an      *)
(* update read before their awaits they write after them.                  *)
(***************************************************************************)
EXTENDS Naturals, Sequences, SequencesExt

CONSTANTS
    Skipped,       \* provider events that map to nothing
    Limit,         \* the events of a batch
    MaxFeed,       \* bound on the events of the managed stream
    MaxRequests,   \* bound on requests
    MaxFailures,   \* bound on failed calls
    MaxRestarts    \* bound on restarts of the process

ASSUME RemoteAssumption ==
    {Limit, MaxFeed, MaxRequests, MaxFailures, MaxRestarts} \subseteq Nat

VARIABLES
    status,    \* sources.status, or gone
    cursor,    \* streamCursor.afterOffset of the checkpoint
    stored,    \* the provider events in the log, by their place in the stream
    managed,   \* the runtime of the source: absent, running or stopped
    feed,      \* the length of the managed stream
    listed,    \* the list of an interval pass still has the source
    sync,      \* the sync in flight
    cooling,   \* an error whose backoff has not elapsed
    request,   \* the pause or the removal under way
    update,    \* the update under way, with what it restores when it fails
    requests, failures, restarts

remoteVars == <<status, cursor, stored, managed, feed, listed, sync, cooling,
                request, update, requests, failures, restarts>>

NoSync == [at |-> "none", by |-> "interval", from |-> 0, upto |-> 0]
NoRequest == [at |-> "none", cursor |-> 0]
NoUpdate == [at |-> "none", status |-> "active", cursor |-> 0]
Statuses == {"active", "error", "paused", "gone"}

Offsets == 0..MaxFeed
SyncStates == [at : {"none", "ensure", "read", "append"},
               by : {"interval", "resume", "update"}, from : Offsets, upto : Offsets]
RequestStates == [at : {"none", "pause", "stopped", "remove", "deleted"}, cursor : Offsets]
UpdateStates == [at : {"none", "validate", "sync"}, status : Statuses, cursor : Offsets]

RemoteTypeOK ==
    /\ status \in Statuses
    /\ cursor \in Offsets /\ feed \in Offsets
    /\ stored \in Seq(1..MaxFeed)
    /\ managed \in {"absent", "running", "stopped"}
    /\ listed \in BOOLEAN /\ cooling \in BOOLEAN
    /\ sync \in SyncStates /\ request \in RequestStates /\ update \in UpdateStates

RemoteInit ==
    /\ status = "active" /\ cursor = 0 /\ stored = <<>>
    /\ managed = "absent" /\ feed = 0 /\ listed = FALSE
    /\ sync = NoSync /\ cooling = FALSE /\ request = NoRequest /\ update = NoUpdate
    /\ requests = 0 /\ failures = 0 /\ restarts = 0

InFlight == sync.at # "none"
Exists == status # "gone"

-----------------------------------------------------------------------------
(* syncAll and syncSource *)

\* Mutation: a source in error is not synced by the interval any more.
ListedHealthy == status = "active"

\* The interval lists every remote source that is not paused ...
ListedByInterval == status \in {"active", "error"}

IntervalLists ==
    /\ ~listed /\ ListedByInterval
    /\ listed' = TRUE
    /\ UNCHANGED <<status, cursor, stored, managed, feed, sync, cooling, request,
                   update, requests, failures, restarts>>

SyncBegins(by) == sync' = [at |-> "ensure", by |-> by, from |-> cursor, upto |-> cursor]

\* ... and syncs them in turn: its status, and that it was paused or removed since, is
\* not looked at again, but for the backoff of an error.
IntervalSyncs ==
    /\ listed /\ listed' = FALSE
    /\ IF InFlight \/ ~Exists \/ (status = "error" /\ cooling)
       THEN UNCHANGED sync ELSE SyncBegins("interval")
    /\ UNCHANGED <<status, cursor, stored, managed, feed, cooling, request, update,
                   requests, failures, restarts>>

PollRequest ==
    /\ Exists /\ status # "paused" /\ ~InFlight /\ requests < MaxRequests
    /\ SyncBegins("interval")
    /\ requests' = requests + 1
    /\ UNCHANGED <<status, cursor, stored, managed, feed, listed, cooling, request,
                   update, failures, restarts>>

\* sourceEnsure returns: the runtime runs, whatever it did before.
SyncEnsured ==
    /\ sync.at = "ensure"
    /\ managed' = "running"
    /\ sync' = [sync EXCEPT !.at = "read"]
    /\ UNCHANGED <<status, cursor, stored, feed, listed, cooling, request, update,
                   requests, failures, restarts>>

\* streamRead after the cursor that was read when the sync began.
SyncRead ==
    /\ sync.at = "read"
    /\ sync' = [sync EXCEPT !.at = "append",
                            !.upto = IF feed < sync.from + Limit THEN feed ELSE sync.from + Limit]
    /\ UNCHANGED <<status, cursor, stored, managed, feed, listed, cooling, request,
                   update, requests, failures, restarts>>

\* Mutation: insertStreamEvent inserts what it has already.
StoredAgain(e) == Append(stored, e)

\* insertStreamEvent: a native id is stored once.
StoredWith(e) == IF Contains(stored, e) THEN stored ELSE Append(stored, e)

SyncAppends ==
    /\ sync.at = "append" /\ sync.from < sync.upto /\ Exists
    /\ stored' = IF sync.from + 1 \in Skipped THEN stored ELSE StoredWith(sync.from + 1)
    /\ sync' = [sync EXCEPT !.from = @ + 1]
    /\ UNCHANGED <<status, cursor, managed, feed, listed, cooling, request, update,
                   requests, failures, restarts>>

\* Mutation: the cursor goes to the end of the stream.
NextCursorOfStream == feed

NextCursor == sync.upto

\* The batch is in the log: the cursor moves.  A pause that came meanwhile is kept; the
\* resume that waited for this sync makes the source active.
SyncDone ==
    /\ sync.at = "append" /\ sync.from = sync.upto /\ Exists
    /\ cursor' = NextCursor
    /\ status' = IF status = "paused" /\ sync.by # "resume" THEN "paused" ELSE "active"
    /\ cooling' = FALSE
    /\ sync' = NoSync
    /\ update' = IF sync.by = "update" THEN NoUpdate ELSE update
    /\ UNCHANGED <<stored, managed, feed, listed, request, requests, failures, restarts>>

\* A call, the mapping of an event or an append throws.  The events before it stay; the
\* cursor stays too, unless it was an update's sync: the update then writes back what
\* the source was when it began.
SyncFails ==
    /\ InFlight
    /\ IF Exists
       THEN failures < MaxFailures /\ failures' = failures + 1
       ELSE sync.at = "append" /\ UNCHANGED failures
    /\ sync' = NoSync
    /\ cooling' = (IF Exists THEN TRUE ELSE cooling)
    /\ IF sync.by = "update" /\ Exists
       THEN status' = update.status /\ cursor' = update.cursor
       ELSE /\ status' = IF status \in {"paused", "gone"} THEN status ELSE "error"
            /\ UNCHANGED cursor
    /\ update' = IF sync.by = "update" THEN NoUpdate ELSE update
    /\ UNCHANGED <<stored, managed, feed, listed, request, requests, restarts>>

CoolDown ==
    /\ cooling /\ cooling' = FALSE
    /\ UNCHANGED <<status, cursor, stored, managed, feed, listed, sync, request,
                   update, requests, failures, restarts>>

-----------------------------------------------------------------------------
(* pauseSource, resumeSource, updateSource, removeSource *)

PauseRequest ==
    /\ Exists /\ request = NoRequest /\ requests < MaxRequests
    /\ request' = [at |-> "pause", cursor |-> cursor]
    /\ requests' = requests + 1
    /\ UNCHANGED <<status, cursor, stored, managed, feed, listed, sync, cooling,
                   update, failures, restarts>>

\* sourceStop reaches the runtime ...
PauseStops ==
    /\ request.at = "pause" /\ managed # "absent"
    /\ managed' = "stopped"
    /\ request' = [request EXCEPT !.at = "stopped"]
    /\ UNCHANGED <<status, cursor, stored, feed, listed, sync, cooling, update,
                   requests, failures, restarts>>

\* ... and returns: the checkpoint that was read before the call is written back.
PauseEnds ==
    /\ request.at = "stopped"
    /\ IF Exists THEN status' = "paused" /\ cursor' = request.cursor
       ELSE UNCHANGED <<status, cursor>>
    /\ cooling' = FALSE
    /\ request' = NoRequest
    /\ UNCHANGED <<stored, managed, feed, listed, sync, update, requests, failures, restarts>>

RequestFails ==
    /\ request.at \in {"pause", "remove"} /\ failures < MaxFailures
    /\ request' = NoRequest
    /\ failures' = failures + 1
    /\ UNCHANGED <<status, cursor, stored, managed, feed, listed, sync, cooling,
                   update, requests, restarts>>

\* A resume syncs, or finds a sync in flight and does not wait for it.
ResumeRequest ==
    /\ Exists /\ requests < MaxRequests
    /\ IF InFlight
       THEN status' = (IF status = "paused" THEN "active" ELSE status) /\ UNCHANGED sync
       ELSE SyncBegins("resume") /\ UNCHANGED status
    /\ requests' = requests + 1
    /\ UNCHANGED <<cursor, stored, managed, feed, listed, cooling, request, update,
                   failures, restarts>>

\* The new definition is stored; a paused source is validated only, any other synced,
\* unless a sync is in flight: then nothing checks the definition.
UpdateRequest ==
    /\ Exists /\ update = NoUpdate /\ requests < MaxRequests
    /\ update' = IF status # "paused" /\ InFlight THEN NoUpdate
                 ELSE [at |-> IF status = "paused" THEN "validate" ELSE "sync",
                       status |-> status, cursor |-> cursor]
    /\ IF status = "paused" \/ InFlight THEN UNCHANGED sync ELSE SyncBegins("update")
    /\ requests' = requests + 1
    /\ UNCHANGED <<status, cursor, stored, managed, feed, listed, cooling, request,
                   failures, restarts>>

UpdateValidated ==
    /\ update.at = "validate"
    /\ update' = NoUpdate
    /\ \/ UNCHANGED <<status, cursor, failures>>
       \/ /\ failures < MaxFailures /\ failures' = failures + 1 /\ Exists
          /\ status' = update.status /\ cursor' = update.cursor
    /\ UNCHANGED <<stored, managed, feed, listed, sync, cooling, request, requests, restarts>>

RemoveRequest ==
    /\ Exists /\ request = NoRequest /\ requests < MaxRequests
    /\ request' = [NoRequest EXCEPT !.at = "remove"]
    /\ requests' = requests + 1
    /\ UNCHANGED <<status, cursor, stored, managed, feed, listed, sync, cooling,
                   update, failures, restarts>>

RemoveDeletes ==
    /\ request.at = "remove"
    /\ managed' = "absent"
    /\ request' = [request EXCEPT !.at = "deleted"]
    /\ UNCHANGED <<status, cursor, stored, feed, listed, sync, cooling, update,
                   requests, failures, restarts>>

RemoveEnds ==
    /\ request.at = "deleted"
    /\ status' = "gone" /\ stored' = <<>> /\ cursor' = 0
    /\ cooling' = FALSE
    /\ request' = NoRequest
    /\ UNCHANGED <<managed, feed, listed, sync, update, requests, failures, restarts>>

-----------------------------------------------------------------------------
\* The provider, while its runtime runs (external).
Deliver ==
    /\ managed = "running" /\ feed < MaxFeed
    /\ feed' = feed + 1
    /\ UNCHANGED <<status, cursor, stored, managed, listed, sync, cooling, request,
                   update, requests, failures, restarts>>

\* What was in flight, the lists and the backoff are in memory only.
Restart ==
    /\ restarts < MaxRestarts /\ restarts' = restarts + 1
    /\ listed' = FALSE /\ sync' = NoSync /\ cooling' = FALSE
    /\ request' = NoRequest /\ update' = NoUpdate
    /\ UNCHANGED <<status, cursor, stored, managed, feed, requests, failures>>

RemoteNext ==
    \/ IntervalLists \/ IntervalSyncs \/ PollRequest
    \/ SyncEnsured \/ SyncRead \/ SyncAppends \/ SyncDone \/ SyncFails \/ CoolDown
    \/ PauseRequest \/ PauseStops \/ PauseEnds \/ RequestFails \/ ResumeRequest
    \/ UpdateRequest \/ UpdateValidated
    \/ RemoveRequest \/ RemoveDeletes \/ RemoveEnds
    \/ Deliver \/ Restart

RemoteSpec == RemoteInit /\ [][RemoteNext]_remoteVars

\* The interval goes on, and calls return.
SyncSteps == SyncEnsured \/ SyncRead \/ SyncAppends \/ SyncDone \/ SyncFails

-----------------------------------------------------------------------------
(* Properties *)

\* The cursor never passes an event that is not in the log, whichever of the writers
\* of the checkpoint wrote last.
NoProviderEventLost ==
    Exists => \A e \in 1..cursor : e \in Skipped \/ Contains(stored, e)

\* The cursor may fall back, behind a pause, a failed update or a restart; what is read
\* again is neither stored twice nor out of order.
StoredInOrder == \A i, j \in 1..Len(stored) : i < j => stored[i] < stored[j]

\* Both, and the types: the log follows the provider.
LogFollowsProvider == RemoteTypeOK /\ NoProviderEventLost /\ StoredInOrder

\* docs/site/reference/http-api.md:286: a pause stops the managed runtime.  NOT a property
\* of the code: a sync in flight ensures it again.
PausedIsStopped ==
    status = "paused" /\ ~InFlight /\ request = NoRequest => managed # "running"

\* docs/site/reference/http-api.md:283: what is paused stays so until it is resumed.  NOT
\* a property of the code: an update that fails writes back the status it had read.
PausedUntilResumed ==
    [][status = "paused" /\ status' = "active"
          => ResumeRequest \/ (sync.by = "resume" /\ SyncDone)]_remoteVars

\* What the provider delivered reaches the log, unless the source is paused or removed.
ProviderEventsArrive ==
    \A e \in (1..MaxFeed) \ Skipped :
        feed >= e ~> (Contains(stored, e) \/ status \in {"paused", "gone"})
=============================================================================
