-------------------------- MODULE EmailAttachments --------------------------
(***************************************************************************)
(* The managed contents of email attachments                               *)
(* (src/email_attachment_content.ts, src/store.ts): a row per attachment   *)
(* of an inbox item, and a store of immutable objects named by the hash of *)
(* their contents, shared by every row with that hash.  Fetches and        *)
(* deletions of one item run one after another; garbage collection runs at *)
(* any time, and so does the removal of an item.                           *)
(***************************************************************************)
EXTENDS Naturals, FiniteSets, FiniteSetsExt, Sequences, SequencesExt

CONSTANTS
    Items,          \* inbox items: the messages
    Attachments,
    ItemOf,         \* the message of an attachment
    Hash,           \* the object that holds the content of an attachment
    NoObject,       \* no object
    PerMessage,     \* the objects of a message that may be stored (maxBytesPerMessage)
    Capacity,       \* the objects that may be managed (maxTotalBytes)
    Batch,          \* gcBatchSize
    MaxRequests,    \* bound on requests
    MaxCrashes      \* bound on crashes

ASSUME AttachmentAssumption ==
    /\ ItemOf \in [Attachments -> Items]
    /\ PerMessage \in Nat /\ IsFiniteSet(Attachments)

Objects == {Hash[a] : a \in Attachments}

VARIABLES
    items,     \* the inbox items that exist
    row,       \* email_attachment_materializations
    objects,   \* the files under objects/
    queue,     \* itemInFlight: the operations of an item, the first one running
    phase,     \* where that one is: "idle" (not begun), "fetching" or "verifying"
    requests, crashes

attachmentVars == <<items, row, objects, queue, phase, requests, crashes>>

NoRow == [status |-> "none", object |-> NoObject, due |-> FALSE, code |-> "none"]
Stored == {"available", "quarantined"}
Rows == [status : {"none", "pending", "rejected", "failed", "deleted"} \cup Stored,
         object : Objects \cup {NoObject}, due : BOOLEAN,
         code : {"none", "explicit", "collected"}]
Operations == [op : {"get", "delete"}, att : Attachments]

AttachmentsTypeOK ==
    /\ items \subseteq Items
    /\ row \in [Attachments -> Rows]
    /\ objects \subseteq Objects
    /\ queue \in [Items -> Seq(Operations)]
    /\ phase \in [Items -> {"idle", "fetching", "verifying"}]

Running(i) == Head(queue[i])

\* What follows a request or the end of an operation without leaving the process has run.
Settled == \A i \in Items : queue[i] # <<>> => phase[i] # "idle"

-----------------------------------------------------------------------------
(* Rows and objects *)

Referring(r, o) == {a \in Attachments : r[a].status \in Stored /\ r[a].object = o}
Managed(r) == {o \in Objects : Referring(r, o) # {}}

\* publishingObjects: a fetch checks the file it found before it records it.
Publishing(o) == \E i \in Items : phase[i] = "verifying" /\ Hash[Running(i).att] = o

\* Mutation: only the rows protect an object.
UnreferencedIn(r, o) == Referring(r, o) = {}

\* deleteObjectIfUnreferenced
Reclaimable(r, o) == ~Publishing(o) /\ Referring(r, o) = {}

Tombstoned(r, atts, code) ==
    [a \in Attachments |->
        IF a \in atts /\ r[a].status # "deleted"
        THEN [status |-> "deleted", object |-> NoObject, due |-> FALSE, code |-> code]
        ELSE r[a]]

\* The stored siblings of an attachment: sumAvailableEmailAttachmentBytes.
StoredSiblings(a) ==
    {b \in Attachments \ {a} : ItemOf[b] = ItemOf[a] /\ row[b].status = "available"}

\* Mutation: the message's limit is for each of its attachments.
FitsAlone(a) == 1 <= PerMessage
Fits(a) == Cardinality(StoredSiblings(a)) + 1 <= PerMessage

-----------------------------------------------------------------------------
AttachmentInit ==
    /\ items = Items
    /\ row = [a \in Attachments |-> NoRow]
    /\ objects = {}
    /\ queue = [i \in Items |-> <<>>]
    /\ phase = [i \in Items |-> "idle"]
    /\ requests = 0 /\ crashes = 0

(* Requests *)

Enqueue(a, op) ==
    /\ queue' = [queue EXCEPT ![ItemOf[a]] = Append(@, [op |-> op, att |-> a])]
    /\ requests' = requests + 1
    /\ UNCHANGED <<items, row, objects, phase, crashes>>

\* materialize: what is stored is returned and what is on its way is shared.  What was
\* deleted is refused; that is looked at here only.
Materialize(a) ==
    /\ Settled /\ requests < MaxRequests
    /\ ItemOf[a] \in items /\ row[a].status # "deleted"
    /\ ~(row[a].status = "available" /\ row[a].object \in objects)
    /\ [op |-> "get", att |-> a] \notin ToSet(queue[ItemOf[a]])
    /\ Enqueue(a, "get")

\* delete
Delete(a) ==
    /\ Settled /\ requests < MaxRequests
    /\ ItemOf[a] \in items
    /\ Enqueue(a, "delete")

\* deleteOnce
RunDelete(i) ==
    /\ queue[i] # <<>> /\ phase[i] = "idle" /\ Running(i).op = "delete"
    /\ LET a == Running(i).att
       IN  IF i \in items
           THEN /\ row' = Tombstoned(row, {a}, "explicit")
                /\ objects' = objects \ {o \in {row[a].object} : Reclaimable(row', o)}
           ELSE UNCHANGED <<row, objects>>
    /\ queue' = [queue EXCEPT ![i] = Tail(@)]
    /\ UNCHANGED <<items, phase, requests, crashes>>

-----------------------------------------------------------------------------
(* A fetch: materializeOnce *)

Finished(i) ==
    /\ queue' = [queue EXCEPT ![i] = Tail(@)]
    /\ phase' = [phase EXCEPT ![i] = "idle"]

\* Refused by the policy (a declared size that does not fit, or any other rule) or the
\* item is gone: no row is written.
RefuseFetch(i) ==
    /\ queue[i] # <<>> /\ phase[i] = "idle" /\ Running(i).op = "get"
    /\ Finished(i)
    /\ UNCHANGED <<items, row, objects, requests, crashes>>

\* The pending row takes the place of any row; the provider is asked.
BeginFetch(i) ==
    /\ queue[i] # <<>> /\ phase[i] = "idle" /\ Running(i).op = "get"
    /\ i \in items
    /\ row' = [row EXCEPT ![Running(i).att] = [NoRow EXCEPT !.status = "pending"]]
    /\ phase' = [phase EXCEPT ![i] = "fetching"]
    /\ UNCHANGED <<items, objects, queue, requests, crashes>>

\* The provider's error, or a size, hash, type or scan that is not accepted.
FetchFails(i) ==
    /\ Settled /\ phase[i] = "fetching"
    /\ \E status \in {"failed", "rejected"} :
          row' = IF i \in items THEN [row EXCEPT ![Running(i).att].status = status] ELSE row
    /\ Finished(i)
    /\ UNCHANGED <<items, objects, requests, crashes>>

\* finishEmailAttachmentMaterialization
Record(i) ==
    LET a == Running(i).att
    IN  IF i \in items
        THEN \E status \in Stored :
                row' = [row EXCEPT ![a] = [NoRow EXCEPT !.status = status, !.object = Hash[a]]]
        ELSE UNCHANGED row

\* The content is there and fits, and the item still exists: the staged file becomes
\* the object and the row is written, with nothing between but a crash.
PublishNew(i) ==
    /\ Settled /\ phase[i] = "fetching" /\ i \in items
    /\ Fits(Running(i).att) /\ Hash[Running(i).att] \notin objects
    /\ objects' = objects \cup {Hash[Running(i).att]}
    /\ Record(i)
    /\ Finished(i)
    /\ UNCHANGED <<items, requests, crashes>>

\* The object is there already: its hash is taken, and the process goes on meanwhile.
VerifyExisting(i) ==
    /\ Settled /\ phase[i] = "fetching" /\ i \in items
    /\ Fits(Running(i).att) /\ Hash[Running(i).att] \in objects
    /\ phase' = [phase EXCEPT ![i] = "verifying"]
    /\ UNCHANGED <<items, row, objects, queue, requests, crashes>>

PublishExisting(i) ==
    /\ Settled /\ phase[i] = "verifying"
    /\ Record(i)
    /\ Finished(i)
    /\ UNCHANGED <<items, objects, requests, crashes>>

-----------------------------------------------------------------------------
(* Time, garbage and faults *)

\* expires_at passes.
Expire(a) ==
    /\ row[a].status \in Stored /\ ~row[a].due
    /\ row' = [row EXCEPT ![a].due = TRUE]
    /\ UNCHANGED <<items, objects, queue, phase, requests, crashes>>

AtMost(n, S) == kSubset(Min({n, Cardinality(S)}), S)

\* Mutation: only what this pass tombstoned is looked at.
OrphansOfPass(r, present) == {}

\* deleteOrphanObjects: the files no row refers to.
Orphans(r, present) == {o \in present : Reclaimable(r, o)}

\* gc: rows past their retention, then the oldest objects beyond the capacity with
\* every row of theirs, then the files nobody needs; a batch of each.
Collect(r0) ==
    \E expired \in AtMost(Batch, {a \in Attachments : r0[a].status \in Stored /\ r0[a].due}) :
      LET r1 == Tombstoned(r0, expired, "collected")
          excess == Max({0, Cardinality(Managed(r1)) - Capacity})
      IN  \E evicted \in AtMost(Min({Batch, excess}), Managed(r1)) :
            LET r2 == Tombstoned(r1, UNION {Referring(r1, o) : o \in evicted}, "collected")
                left == objects \ {o \in evicted \cup {r0[a].object : a \in expired} :
                                     Reclaimable(r2, o)}
            IN  /\ row' = r2
                /\ \E orphans \in AtMost(Batch, Orphans(r2, left)) : objects' = left \ orphans

Gc ==
    /\ Settled
    /\ Collect(row)
    /\ UNCHANGED <<items, queue, phase, requests, crashes>>

\* The item is collected once it is acked, or its agent is removed; the rows go with it.
DropItem(i) ==
    /\ Settled /\ i \in items
    /\ items' = items \ {i}
    /\ Collect([a \in Attachments |-> IF ItemOf[a] = i THEN NoRow ELSE row[a]])
    /\ UNCHANGED <<queue, phase, requests, crashes>>

Lost == /\ crashes < MaxCrashes /\ crashes' = crashes + 1
        /\ queue' = [i \in Items |-> <<>>]
        /\ phase' = [i \in Items |-> "idle"]
        /\ UNCHANGED <<items, row, requests>>

Crash == Lost /\ UNCHANGED objects

\* A crash after the file is in place and before the row is written.
CrashPublishing(i) ==
    /\ phase[i] = "fetching" /\ i \in items /\ Fits(Running(i).att)
    /\ objects' = objects \cup {Hash[Running(i).att]}
    /\ Lost

ItemStep(i) ==
    \/ RunDelete(i) \/ RefuseFetch(i) \/ BeginFetch(i) \/ FetchFails(i)
    \/ PublishNew(i) \/ VerifyExisting(i) \/ PublishExisting(i)

AttachmentNext ==
    \/ \E a \in Attachments : Materialize(a) \/ Delete(a) \/ Expire(a)
    \/ \E i \in Items : ItemStep(i) \/ DropItem(i) \/ CrashPublishing(i)
    \/ Gc \/ Crash

AttachmentSpec == AttachmentInit /\ [][AttachmentNext]_attachmentVars

-----------------------------------------------------------------------------
(* What can be read is there: no collection, deletion or crash takes the object of a *)
(* row that is stored, whichever rows share it and whoever is publishing it.         *)
StoredObjectsExist ==
    \A a \in Attachments : row[a].status \in Stored => row[a].object \in objects

(* The limit of a message holds over all its attachments, though their fetches end in *)
(* any order with deletions, collections and other fetches between (scanned-out       *)
(* content counts for nothing, as in the code).                                       *)
MessageWithinLimit ==
    \A i \in Items :
        Cardinality({a \in Attachments : ItemOf[a] = i /\ row[a].status = "available"})
            <= PerMessage

(* Both, and the types. *)
StorageIsSound == AttachmentsTypeOK /\ StoredObjectsExist /\ MessageWithinLimit

(* A file that no row refers to, left by a crash, by a removed item or by a deletion  *)
(* during its publication, does not stay: it is collected, or used again.             *)
OrphansAreCollected ==
    \A o \in Objects :
        (o \in objects /\ Referring(row, o) = {}) ~> (o \notin objects \/ Referring(row, o) # {})

(* README.md: "Explicit `attachment delete` permanently tombstones that attachment    *)
(* reference".  Violated: a fetch requested while the deletion waits for another      *)
(* fetch of the same message runs after it, and overwrites the tombstone.             *)
DeletionIsPermanent ==
    [][\A a \in Attachments :
          row[a].status = "deleted" /\ row[a].code = "explicit"
              => row'[a].status \in {"deleted", "none"}]_attachmentVars
=============================================================================
