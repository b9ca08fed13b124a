------------------------------- MODULE MCLive -------------------------------
(***************************************************************************)
(* What must happen in the end.  Three modules that share nothing are      *)
(* checked in one run, the module being chosen in the initial state: the   *)
(* consumers of a stream, the sync of a remote source, and the attachments *)
(* of two messages.  As part never changes, fairness of a disjunction over *)
(* the parts is fairness of the disjunct of the part.                      *)
(***************************************************************************)
EXTENDS EmailAttachments, TLC

CONSTANTS c, k1, k2, a1, a2, b1, m1, m2, x, y, None

VARIABLES part,
    rows, pruned, next, start, poll, compaction, tried, starts, compactions, kills,
    status, cursor, stored, managed, feed, listed, sync, cooling, request, update,
    calls, failures, restarts

Stream == INSTANCE StreamLog WITH
    Consumers <- {c}, Keys <- {k1, k2}, Times <- {1}, MaxOffset <- 2, ReadLimit <- 1,
    BatchSize <- 1, MaxEvents <- 2, MaxStarts <- 2, MaxCompactions <- 1, MaxCrashes <- 1,
    crashes <- kills

Remote == INSTANCE RemoteSource WITH
    Skipped <- {1}, Limit <- 1, MaxFeed <- 2, MaxRequests <- 2, MaxFailures <- 1,
    MaxRestarts <- 1, requests <- calls

\* Two attachments of one message, and one of another with the same content.
AttachmentItems == (a1 :> m1) @@ (a2 :> m1) @@ (b1 :> m2)
AttachmentHashes == (a1 :> x) @@ (a2 :> y) @@ (b1 :> x)

streamVars == <<rows, pruned, next, start, poll, compaction, tried, starts, compactions,
                kills>>
remoteVars == <<status, cursor, stored, managed, feed, listed, sync, cooling, request,
                update, calls, failures, restarts>>
liveVars == <<part, streamVars, remoteVars, attachmentVars>>

InStream == part = "stream" /\ UNCHANGED <<part, remoteVars, attachmentVars>>
InRemote == part = "remote" /\ UNCHANGED <<part, streamVars, attachmentVars>>
InAttachments == part = "attachments" /\ UNCHANGED <<part, streamVars, remoteVars>>

Init ==
    /\ part \in {"stream", "remote", "attachments"}
    /\ Stream!Init /\ Remote!RemoteInit /\ AttachmentInit

Next ==
    \/ InStream /\ Stream!Next
    \/ InRemote /\ Remote!RemoteNext
    \/ InAttachments /\ AttachmentNext

Spec == Init /\ [][Next]_liveVars

Fairness ==
    /\ WF_liveVars(\/ InStream /\ Stream!Polling(c)
                   \/ InRemote /\ Remote!IntervalLists
                   \/ InAttachments /\ Gc)
    /\ WF_liveVars(\/ InRemote /\ Remote!IntervalSyncs
                   \/ InAttachments /\ ItemStep(m1))
    /\ WF_liveVars(\/ InRemote /\ Remote!SyncSteps
                   \/ InAttachments /\ ItemStep(m2))
    /\ WF_liveVars(InRemote /\ Remote!CoolDown)

FairSpec == Spec /\ Fairness

EventsAreHandled == Stream!EventsAreHandled
ProviderEventsArrive == Remote!ProviderEventsArrive
=============================================================================
