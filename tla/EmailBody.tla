------------------------------ MODULE EmailBody ------------------------------
(***************************************************************************)
(* Reading the body of an email entry (src/email_body.ts, src/store.ts).   *)
(* A read that finds no usable body in the cache parses what the entry     *)
(* carries and asks the provider for the rest, both through another        *)
(* process; reads of one entry that wait for the same thing share it.  A   *)
(* body is handed out in pages: the cursor of the next one names the entry,*)
(* the version of the body and an offset, and is signed with a secret of   *)
(* the process.                                                            *)
(***************************************************************************)
EXTENDS Integers, Sequences, SequencesExt, FiniteSets, FiniteSetsExt, Listings

CONSTANTS
    Emails,        \* email entries of one inbox
    Readers,
    Carried,       \* what the payload of an entry holds: "whole", "part" or "none"
    Fetchable,     \* entries with a message_ref
    Size,          \* bytes of the body called "whole", and of "part"
    Boundaries,    \* where a UTF-8 character of either begins
    Pages,         \* the max_bytes a reader may ask for
    Budget,        \* EMAIL_BODY_CACHE_MAX_BYTES
    NoBody,
    MaxReads,      \* bound on first pages asked for
    MaxFaults      \* bound on expiries, removals and restarts together

VARIABLES
    entries,    \* the entries that exist
    cache,      \* email_body_cache: [body, stale], or NoBody
    recent,     \* the cached entries, the least recently accessed first
    flight,     \* inFlight: [stage, local, cached] per entry and kind of read, or NoBody
    reader,     \* [entry, state, limit, pages, from]; kind of read while it waits
    reads, faults

bodyVars == <<entries, cache, recent, flight, reader, reads, faults>>

ReadKinds == {"fetch", "local"}

\* A body: its text and whether it is complete; the note a failed fetch leaves in its
\* reasons makes it another version.
Bodies == [text : {"whole", "part"}, noted : BOOLEAN]
CacheRows == [body : Bodies, stale : BOOLEAN]
Plain(text) == [text |-> text, noted |-> FALSE]
Complete(body) == body.text = "whole"

ASSUME BodyAssumption ==
    /\ Carried \in [Emails -> {"whole", "part", "none"}] /\ Fetchable \subseteq Emails
    /\ Size \in [{"whole", "part"} -> Nat] /\ Boundaries \subseteq Nat
    /\ Pages \subseteq Nat \ {0} /\ {Budget, MaxReads, MaxFaults} \subseteq Nat
    /\ NoBody \notin CacheRows

Idle == [entry |-> NoBody, state |-> "idle", limit |-> 1, pages |-> <<>>, from |-> 0]

BodyTypeOK ==
    /\ entries \subseteq Emails
    /\ cache \in [Emails -> CacheRows \cup {NoBody}]
    /\ recent \in Seq(Emails) /\ ToSet(recent) = {e \in Emails : cache[e] # NoBody}
    /\ flight \in [Emails \X ReadKinds ->
                    [stage : {"parsing", "fetching"}, local : Bodies \cup {NoBody},
                     cached : Bodies \cup {NoBody}] \cup {NoBody}]
    /\ reader \in [Readers ->
                    [entry : Emails \cup {NoBody}, limit : Pages \cup {1}, from : Nat,
                     state : {"idle", "fetch", "local", "more", "done", "refused"},
                     pages : Seq([body : Bodies, from : Nat, to : Nat])]]

-----------------------------------------------------------------------------
(* Pages: pageSnapshot *)

PageEnd(body, from, limit) ==
    Max({b \in Boundaries \cup {0, Size[body.text]} :
            b <= Size[body.text] /\ b >= from /\ b <= from + limit})

\* A limit that does not hold the next character is refused.
TooSmall(body, from, limit) ==
    from < Size[body.text] /\ PageEnd(body, from, limit) = from

\* The reader's answer, and the cursor of the rest when there is more.
Answer(r, body, from) ==
    LET to == PageEnd(body, from, r.limit)
    IN  IF TooSmall(body, from, r.limit) THEN [r EXCEPT !.state = "refused"]
        ELSE [r EXCEPT !.pages = Append(@, [body |-> body, from |-> from, to |-> to]),
                       !.from = to,
                       !.state = IF to < Size[body.text] THEN "more" ELSE "done"]

\* What is held by a reader's cursor: snapshotVersion of the page it came with.
CursorBody(r) == Last(r.pages).body

\* Mutation: the cursor is good for whatever the entry has in the cache.
CursorHoldsForAny(r, cached) == cached # NoBody /\ ~cached.stale
CursorHolds(r, cached) == cached # NoBody /\ ~cached.stale /\ cached.body = CursorBody(r)

-----------------------------------------------------------------------------
(* The cache *)

Touched(seq, e) == Append(Removed(seq, {e}), e)

Total(rows, kept) ==
    MapThenSumSet(LAMBDA e : Size[rows[e].body.text], {e \in ToSet(kept) : rows[e] # NoBody})

\* evictEmailBodyCacheToLimit: the least recently accessed go until the rest fits.
Kept(rows, seq) ==
    LET fitting == {n \in 0..Len(seq) : Total(rows, SubSeq(seq, n + 1, Len(seq))) <= Budget}
    IN  SubSeq(seq, Min(fitting) + 1, Len(seq))

Without(rows, gone) == [e \in Emails |-> IF e \in gone THEN NoBody ELSE rows[e]]

\* Mutation: what was read is stored, whatever became of the entry.
CacheableBlindly(e) == TRUE
\* cacheSnapshot and the transaction of putEmailBodyCache look again.
Cacheable(e) == e \in entries

\* putEmailBodyCache
Put(e, body) ==
    LET written == [cache EXCEPT ![e] = [body |-> body, stale |-> FALSE]]
        fresh == Removed(Touched(recent, e),
                         {o \in Emails : written[o] # NoBody /\ written[o].stale})
        kept == Kept(written, fresh)
    IN  /\ recent' = kept
        /\ cache' = Without(written, Emails \ ToSet(kept))

-----------------------------------------------------------------------------
BodyInit ==
    /\ entries = Emails
    /\ cache = [e \in Emails |-> NoBody] /\ recent = <<>>
    /\ flight = [f \in Emails \X ReadKinds |-> NoBody]
    /\ reader = [r \in Readers |-> Idle]
    /\ reads = 0 /\ faults = 0

\* What the cache answers at once: a read without fetch takes a partial body too.
Served(e, kind) ==
    cache[e] # NoBody /\ ~cache[e].stale /\ (Complete(cache[e].body) \/ kind = "local")

\* read without a cursor.
ReadBody(r, e, kind, limit) ==
    /\ reads < MaxReads /\ reads' = reads + 1
    /\ reader[r].state \in {"idle", "more", "done", "refused"} /\ e \in entries
    /\ LET asked == [Idle EXCEPT !.entry = e, !.limit = limit]
       IN  IF Served(e, kind)
           THEN /\ reader' = [reader EXCEPT ![r] = Answer(asked, cache[e].body, 0)]
                /\ recent' = Touched(recent, e)
                /\ UNCHANGED flight
           ELSE /\ reader' = [reader EXCEPT ![r] = [asked EXCEPT !.state = kind]]
                /\ flight' = [flight EXCEPT ![<<e, kind>>] =
                       IF @ # NoBody THEN @
                       ELSE [stage |-> "parsing", local |-> NoBody,
                             cached |-> IF cache[e] # NoBody /\ ~cache[e].stale
                                        THEN cache[e].body ELSE NoBody]]
                /\ UNCHANGED recent
    /\ UNCHANGED <<entries, cache, faults>>

Waiting(e, kind) == {r \in Readers : reader[r].entry = e /\ reader[r].state = kind}

\* The shared read is over: every reader that waits for it gets its first page of the
\* body, or the refusal.
Landed(e, kind, body) ==
    /\ flight' = [flight EXCEPT ![<<e, kind>>] = NoBody]
    /\ reader' = [r \in Readers |->
           IF r \notin Waiting(e, kind) THEN reader[r]
           ELSE IF body = NoBody THEN [reader[r] EXCEPT !.state = "refused"]
           ELSE Answer(reader[r], body, 0)]

Refuse(e, kind) == Landed(e, kind, NoBody) /\ UNCHANGED <<cache, recent>>

\* cacheSnapshot
DeliverBody(e, kind, body) ==
    IF Cacheable(e) THEN Landed(e, kind, body) /\ Put(e, body) ELSE Refuse(e, kind)

\* The body that was cached when the read began still serves, unless it expired.
FallBack(e, kind) ==
    \/ flight[<<e, kind>>].cached # NoBody
       /\ Landed(e, kind, flight[<<e, kind>>].cached) /\ UNCHANGED <<cache, recent>>
    \/ Refuse(e, kind)

\* readLocal returns: what the payload carries, or nothing when the other process fails.
Parsed(e, kind) ==
    /\ flight[<<e, kind>>] # NoBody /\ flight[<<e, kind>>].stage = "parsing"
    /\ \E local \in {Plain(Carried[e]) : x \in {Carried[e]} \ {"none"}} \cup {NoBody} :
          IF local # NoBody /\ Complete(local) THEN DeliverBody(e, kind, local)
          ELSE IF kind = "fetch" /\ e \in Fetchable
               THEN /\ flight' = [flight EXCEPT ![<<e, kind>>].stage = "fetching",
                                                ![<<e, kind>>].local = local]
                    /\ UNCHANGED <<cache, recent, reader>>
          ELSE IF local # NoBody THEN DeliverBody(e, kind, local)
          ELSE FallBack(e, kind)
    /\ UNCHANGED <<entries, reads, faults>>

\* The provider answers with the message, or with what it could get of it.
Fetched(e) ==
    /\ flight[<<e, "fetch">>] # NoBody /\ flight[<<e, "fetch">>].stage = "fetching"
    /\ \E text \in {"whole", "part"} : DeliverBody(e, "fetch", Plain(text))
    /\ UNCHANGED <<entries, reads, faults>>

\* It fails or times out: the local part, with a note, or what was cached.
FetchBodyFails(e) ==
    /\ flight[<<e, "fetch">>] # NoBody /\ flight[<<e, "fetch">>].stage = "fetching"
    /\ LET local == flight[<<e, "fetch">>].local
       IN  IF local # NoBody THEN DeliverBody(e, "fetch", [local EXCEPT !.noted = TRUE])
           ELSE FallBack(e, "fetch")
    /\ UNCHANGED <<entries, reads, faults>>

\* read with the cursor of the last page.
ReadOn(r, limit) ==
    /\ reader[r].state = "more" /\ reader[r].entry \in entries
    /\ LET e == reader[r].entry
           asked == [reader[r] EXCEPT !.limit = limit]
       IN  IF CursorHolds(reader[r], cache[e])
           THEN /\ reader' = [reader EXCEPT ![r] = Answer(asked, cache[e].body, asked.from)]
                /\ recent' = Touched(recent, e)
           ELSE /\ reader' = [reader EXCEPT ![r].state = "refused"]
                /\ UNCHANGED recent
    /\ UNCHANGED <<entries, cache, flight, reads, faults>>

-----------------------------------------------------------------------------
(* Faults *)

Fault == faults < MaxFaults /\ faults' = faults + 1 /\ UNCHANGED reads

\* expires_at passes; the row stays until the next body is stored.
ExpireBody(e) ==
    /\ Fault
    /\ cache[e] # NoBody /\ ~cache[e].stale
    /\ cache' = [cache EXCEPT ![e].stale = TRUE]
    /\ UNCHANGED <<entries, recent, flight, reader>>

\* The entry is collected after its ack, or its agent is removed.
Collected(e) ==
    /\ Fault
    /\ e \in entries
    /\ entries' = entries \ {e}
    /\ cache' = Without(cache, {e})
    /\ recent' = Removed(recent, {e})
    /\ UNCHANGED <<flight, reader>>

\* What is in flight is gone, and so is the secret the cursors are signed with.
ReaderRestart ==
    /\ Fault
    /\ flight' = [f \in Emails \X ReadKinds |-> NoBody]
    /\ reader' = [r \in Readers |->
           IF reader[r].state \in {"fetch", "local", "more"}
           THEN [reader[r] EXCEPT !.state = "refused"] ELSE reader[r]]
    /\ UNCHANGED <<entries, cache, recent>>

BodyNext ==
    \/ \E r \in Readers, limit \in Pages :
          ReadOn(r, limit) \/ \E e \in Emails, kind \in ReadKinds : ReadBody(r, e, kind, limit)
    \/ \E e \in Emails :
          Fetched(e) \/ FetchBodyFails(e) \/ ExpireBody(e) \/ Collected(e)
              \/ \E kind \in ReadKinds : Parsed(e, kind)
    \/ ReaderRestart

BodySpec == BodyInit /\ [][BodyNext]_bodyVars

-----------------------------------------------------------------------------
(* The pages a reader gets with the cursors of one read are one body from its         *)
(* beginning, without a gap or an overlap, to its end when there is no further        *)
(* cursor: whatever other reads put in the cache between two pages.                   *)
PagesAreOneBody ==
    \A r \in Readers :
        LET pages == reader[r].pages
        IN  pages # <<>> =>
              /\ pages[1].from = 0
              /\ \A n \in 2..Len(pages) :
                    pages[n].body = pages[1].body /\ pages[n].from = pages[n - 1].to
              /\ reader[r].state = "done" => Last(pages).to = Size[pages[1].body.text]

(* The text of a message does not outlive its entry: a read that was waiting for the  *)
(* provider when the entry was collected stores nothing.                              *)
NoBodyOfGoneEntry == \A e \in Emails : cache[e] # NoBody => e \in entries

(* Both, and the types. *)
ReadsAreSound == BodyTypeOK /\ PagesAreOneBody /\ NoBodyOfGoneEntry

(* A complete body is not given up for a part of it while it is fresh.  Violated: a   *)
(* read without fetch that began before the fetched body arrived stores its own part  *)
(* over it, and the cursors of the complete body are refused from then on.            *)
CompleteIsKept ==
    [][\A e \in Emails :
          (cache[e] # NoBody /\ cache'[e] # NoBody /\ Complete(cache[e].body) /\ ~cache[e].stale)
              => Complete(cache'[e].body)]_bodyVars
=============================================================================
