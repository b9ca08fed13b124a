---------------------------- MODULE SourceRegistry ----------------------------
(***************************************************************************)
(* Hosts, sources and their streams, and follow, which registers the       *)
(* sources of a template and then subscribes an agent to each of them.     *)
(*                                                                         *)
(* A request runs without interruption up to an await and is then          *)
(* interleaved with the other requests.  An id is drawn for each row, so a *)
(* source that is removed and registered again is another source.  A       *)
(* follow asks for one subscription per source of its plan; two            *)
(* subscriptions of a source have the same wish.  What a provider answers  *)
(* when it is asked to ensure a source is free.  Idle sources and the      *)
(* delivery of events are the subject of SubscriptionLifecycle.            *)
(***************************************************************************)
EXTENDS Naturals, Sequences, FiniteSets

CONSTANTS
    Clients,      \* requests in flight at most
    HostOf,       \* source key -> host key: what resolveSourceRegistration derives
    Plan,         \* the source keys of the follow template, in order
    MaxIds,       \* bound: source and subscription rows inserted
    MaxRequests,  \* bound: requests made
    MaxCrashes,   \* bound: crashes
    None

\* A template that expands to no source is refused (validateExpandedFollowPlan).
ASSUME RegistryAssumption ==
    /\ MaxIds \in Nat /\ None \notin 1..MaxIds
    /\ Plan \in Seq(DOMAIN HostOf) /\ Plan # <<>>

VARIABLES
    host,         \* source_hosts
    byHand,       \* the hosts that came without a source: registerHost, or a crash
    source,       \* sources: key -> id, or None
    streams,      \* streams: the ids of the sources that have one
    subs,         \* subscriptions: [id, source, by], by the request that made it
    task,         \* the request of each client, and where it waits
    drawn, requests, restarts

registryVars == <<host, byHand, source, streams, subs, task, drawn, requests, restarts>>

Keys == DOMAIN HostOf
Hosts == {HostOf[k] : k \in Keys}
Ids == 1 .. MaxIds
SourceIds == {source[k] : k \in Keys} \ {None}

\* A request waits at a point: pos counts the steps of a follow's plan, refs are the ids
\* of the sources it resolved, mine the subscriptions it created, left those it removes.
Idle == [op |-> "none", at |-> "idle", key |-> None, pos |-> 1, refs |-> <<>>,
         mine |-> {}, left |-> {}]

Tasks == [op : {"none", "register", "stream", "follow", "remove"},
          at : {"idle", "ensure", "source", "find", "insert", "consume", "rollback", "remove",
                "delete", "done", "failed"},
          key : Keys \cup {None}, pos : 1..Len(Plan), refs : Seq(Ids),
          mine : SUBSET Ids, left : SUBSET Ids]

RegistryTypeOK ==
    /\ byHand \subseteq host /\ host \subseteq Hosts
    /\ source \in [Keys -> Ids \cup {None}]
    /\ streams \subseteq Ids
    /\ subs \subseteq [id : Ids, source : Ids, by : Clients]
    /\ task \in [Clients -> Tasks]
    /\ \A c \in Clients : Len(task[c].refs) <= Len(Plan)
    /\ drawn \in 0..MaxIds

RegistryInit ==
    /\ host = {} /\ byHand = {} /\ streams = {} /\ subs = {}
    /\ source = [k \in Keys |-> None]
    /\ task = [c \in Clients |-> Idle]
    /\ drawn = 0 /\ requests = 0 /\ restarts = 0

Go(c, at) == task' = [task EXCEPT ![c].at = at]

Ask(c, new) ==
    /\ task[c].at \in {"idle", "done", "failed"}
    /\ requests < MaxRequests /\ requests' = requests + 1
    /\ task' = [task EXCEPT ![c] = new]

----------------------------------------------------------------------------
(* Registration *)

Draw == drawn < MaxIds /\ drawn' = drawn + 1

RegisterHost(h) ==
    /\ requests < MaxRequests /\ requests' = requests + 1
    /\ h \notin host
    /\ host' = host \cup {h} /\ byHand' = byHand \cup {h}
    /\ UNCHANGED <<source, streams, subs, task, drawn, restarts>>

\* registerSource writes the host, the source and its stream without an await between.
InsertSource(k) ==
    /\ source[k] = None /\ Draw
    /\ host' = host \cup {HostOf[k]}
    /\ source' = [source EXCEPT ![k] = drawn']
    /\ streams' = streams \cup {drawn'}

RegisterSource(c, k) ==
    /\ InsertSource(k)
    /\ Ask(c, [Idle EXCEPT !.op = "register", !.at = "ensure", !.key = k])
    /\ UNCHANGED <<byHand, subs, restarts>>

\* registerStream needs the host, and writes the stream only when the source is ensured.
RegisterStream(c, k) ==
    /\ HostOf[k] \in host /\ source[k] = None /\ Draw
    /\ source' = [source EXCEPT ![k] = drawn']
    /\ Ask(c, [Idle EXCEPT !.op = "stream", !.at = "ensure", !.key = k, !.refs = <<drawn'>>])
    /\ UNCHANGED <<host, byHand, streams, subs, restarts>>

\* A source that exists is the answer, whether it was ever ensured or not.
Registered(c, k) ==
    /\ source[k] # None
    /\ Ask(c, [Idle EXCEPT !.op = "register", !.at = "done", !.key = k])
    /\ UNCHANGED <<host, byHand, source, streams, subs, drawn, restarts>>

Ensured(c) ==
    /\ task[c].at = "ensure" /\ task[c].op = "register" /\ Go(c, "done")
    /\ UNCHANGED <<host, byHand, source, streams, subs, drawn, requests, restarts>>

StreamEnsured(c) ==
    /\ task[c].at = "ensure" /\ task[c].op = "stream"
    /\ streams' = streams \cup {task[c].refs[1]}
    /\ Go(c, IF task[c].refs[1] \in SourceIds THEN "done" ELSE "failed")
    /\ UNCHANGED <<host, byHand, source, subs, drawn, requests, restarts>>

\* The adapter refuses, or the module cannot be loaded.  The source's row stays.
EnsureFails(c) ==
    /\ task[c].at = "ensure" /\ Go(c, "failed")
    /\ UNCHANGED <<host, byHand, source, streams, subs, drawn, requests, restarts>>

----------------------------------------------------------------------------
(* follow: the sources of the plan, then the subscriptions *)

Follow(c) ==
    /\ Ask(c, [Idle EXCEPT !.op = "follow", !.at = "source"])
    /\ UNCHANGED <<host, byHand, source, streams, subs, drawn, restarts>>

\* resolveFollowTemplate: no candidate has the template, or none passes its preview.
FollowRefused(c) ==
    /\ Ask(c, [Idle EXCEPT !.op = "follow", !.at = "failed"])
    /\ UNCHANGED <<host, byHand, source, streams, subs, drawn, restarts>>

\* The next of the plan; after the last source come the subscriptions, in their order.
Next1(t, at, last) ==
    IF t.pos < Len(Plan) THEN [t EXCEPT !.pos = @ + 1, !.at = at]
    ELSE [t EXCEPT !.pos = 1, !.at = last]

FollowExistingSource(c) ==
    LET k == Plan[task[c].pos] IN
    /\ task[c].at = "source" /\ source[k] # None
    /\ task' = [task EXCEPT ![c] =
                   Next1([task[c] EXCEPT !.refs = Append(@, source[k])], "source", "find")]
    /\ UNCHANGED <<host, byHand, source, streams, subs, drawn, requests, restarts>>

FollowNewSource(c) ==
    LET k == Plan[task[c].pos] IN
    /\ task[c].at = "source" /\ InsertSource(k)
    /\ task' = [task EXCEPT ![c].at = "ensure", ![c].key = k,
                            ![c].refs = Append(@, drawn')]
    /\ UNCHANGED <<byHand, subs, requests, restarts>>

FollowEnsured(c) ==
    /\ task[c].at = "ensure" /\ task[c].op = "follow"
    /\ task' = [task EXCEPT ![c] = Next1(@, "source", "find")]
    /\ UNCHANGED <<host, byHand, source, streams, subs, drawn, requests, restarts>>

\* A slip: everything on the sources of the plan is taken back.
UndoAll(t) == [t EXCEPT !.at = "rollback", !.left =
                  {s.id : s \in {x \in subs : x.source \in {t.refs[i] : i \in DOMAIN t.refs}}}]

\* What a failed follow removes: the subscriptions it created itself.
Undo(t) == [t EXCEPT !.at = "rollback", !.left = t.mine]

Wanted(c) == task[c].refs[task[c].pos]
Found(c) == {s \in subs : s.source = Wanted(c)}

\* ensureSubscription: the wish is looked for among the agent's subscriptions ...
FindSubscription(c) ==
    /\ task[c].at = "find" /\ Wanted(c) \in SourceIds
    /\ task' = [task EXCEPT ![c] = IF Found(c) # {} THEN Next1(@, "find", "done")
                                   ELSE [@ EXCEPT !.at = "insert"]]
    /\ UNCHANGED <<host, byHand, source, streams, subs, drawn, requests, restarts>>

\* ... and registered after an await that validates it.  The source is the one read
\* before the await: it need not exist any more, and its stream is ensured all the same.
InsertSubscription(c) ==
    /\ task[c].at = "insert" /\ Draw
    /\ subs' = subs \cup {[id |-> drawn', source |-> Wanted(c), by |-> c]}
    /\ streams' = streams \cup {Wanted(c)}
    /\ task' = [task EXCEPT ![c].at = "consume", ![c].left = {drawn'}]
    /\ UNCHANGED <<host, byHand, source, requests, restarts>>

Subscribed(c) ==
    /\ task[c].at = "consume"
    /\ task' = [task EXCEPT ![c] =
                   Next1([task[c] EXCEPT !.mine = @ \cup task[c].left, !.left = {}], "find", "done")]
    /\ UNCHANGED <<host, byHand, source, streams, subs, drawn, requests, restarts>>

\* The agent has lost its target, the source is gone, the filter is wrong, or the consumer
\* cannot be made (the row of the subscription is then taken back).
SubscribeFails(c) ==
    /\ task[c].at \in {"find", "insert", "consume"}
    /\ subs' = {s \in subs : s.id \notin task[c].left}
    /\ task' = [task EXCEPT ![c] = Undo(task[c])]
    /\ UNCHANGED <<host, byHand, source, streams, drawn, requests, restarts>>

\* One removeSubscription of the rollback; one that is gone is passed over.
Rollback(c) ==
    /\ task[c].at = "rollback"
    /\ IF task[c].left = {} THEN Go(c, "failed") /\ UNCHANGED subs
       ELSE \E latest \in task[c].left :
            /\ \A i \in task[c].left : i <= latest
            /\ subs' = {s \in subs : s.id # latest}
            /\ task' = [task EXCEPT ![c].left = @ \ {latest}]
    /\ UNCHANGED <<host, byHand, source, streams, drawn, requests, restarts>>

----------------------------------------------------------------------------
(* Removal *)

\* removeSource with its subscriptions, listed before the source is paused.
RemoveSource(c, k) ==
    /\ source[k] # None
    /\ Ask(c, [Idle EXCEPT !.op = "remove", !.at = "remove", !.key = k, !.refs = <<source[k]>>,
                           !.left = {s.id : s \in {x \in subs : x.source = source[k]}}])
    /\ UNCHANGED <<host, byHand, source, streams, subs, drawn, restarts>>

\* The pause may be refused; a subscription that is gone ends the removal with an error.
RemoveFails(c) ==
    /\ task[c].at = "remove" /\ Go(c, "failed")
    /\ UNCHANGED <<host, byHand, source, streams, subs, drawn, requests, restarts>>

RemoveOne(c) ==
    /\ task[c].at = "remove"
    /\ IF task[c].left = {} THEN Go(c, "delete") /\ UNCHANGED subs
       ELSE \E s \in subs :
            /\ s.id \in task[c].left
            /\ subs' = subs \ {s}
            /\ task' = [task EXCEPT ![c].left = @ \ {s.id}]
    /\ UNCHANGED <<host, byHand, source, streams, drawn, requests, restarts>>

\* deleteSource: the source, its stream, and the host when no source is left on it.
LastOn(h, k) == \A j \in Keys \ {k} : HostOf[j] = h => source[j] = None

\* A slip: the siblings are not counted.
HostGoes(k) == host \ {HostOf[k]}

HostsAfter(k) == IF LastOn(HostOf[k], k) THEN host \ {HostOf[k]} ELSE host

DeleteSource(c) ==
    LET k == task[c].key IN
    /\ task[c].at = "delete" /\ Go(c, "done")
    /\ IF source[k] = task[c].refs[1]
       THEN /\ source' = [source EXCEPT ![k] = None]
            /\ streams' = streams \ {task[c].refs[1]}
            /\ host' = HostsAfter(k) /\ byHand' = byHand \cap host'
       ELSE UNCHANGED <<source, streams, host, byHand>>
    /\ UNCHANGED <<subs, drawn, requests, restarts>>

\* The poll of the subscriptions drops those whose source is gone.
Heal ==
    /\ \E s \in subs : s.source \notin SourceIds /\ subs' = subs \ {s}
    /\ UNCHANGED <<host, byHand, source, streams, task, drawn, requests, restarts>>

\* A crash ends every request; one that comes between the two inserts of a registration
\* leaves a host without a source.
Crash ==
    /\ restarts < MaxCrashes /\ restarts' = restarts + 1
    /\ task' = [c \in Clients |-> Idle]
    /\ \E new \in {{}} \cup {{h} : h \in Hosts \ host} :
        host' = host \cup new /\ byHand' = byHand \cup new
    /\ UNCHANGED <<source, streams, subs, drawn, requests>>

----------------------------------------------------------------------------
Registering ==
    \/ \E h \in Hosts : RegisterHost(h)
    \/ \E c \in Clients, k \in Keys :
        RegisterSource(c, k) \/ RegisterStream(c, k) \/ Registered(c, k)
    \/ \E c \in Clients : Ensured(c) \/ StreamEnsured(c) \/ EnsureFails(c)

Following == \E c \in Clients :
    \/ Follow(c) \/ FollowRefused(c) \/ FollowExistingSource(c) \/ FollowNewSource(c) \/ FollowEnsured(c)
    \/ FindSubscription(c) \/ InsertSubscription(c) \/ Subscribed(c) \/ SubscribeFails(c)
    \/ Rollback(c)

Removing ==
    \/ \E c \in Clients, k \in Keys : RemoveSource(c, k)
    \/ \E c \in Clients : RemoveFails(c) \/ RemoveOne(c) \/ DeleteSource(c)

RegistryNext == Registering \/ Following \/ Removing \/ Heal \/ Crash

RegistrySpec == RegistryInit /\ [][RegistryNext]_registryVars

----------------------------------------------------------------------------
(* Properties *)

\* Every source has its host, and a host without a source is one that was registered
\* without one: removing the last source of a host removes the host, removing another
\* leaves it, whatever is registered meanwhile.
HostsMatchSources ==
    /\ \A k \in Keys : source[k] # None => HostOf[k] \in host
    /\ \A h \in host \ byHand : \E k \in Keys : HostOf[k] = h /\ source[k] # None

(* With the types. *)
RegistryIsSound == RegistryTypeOK /\ HostsMatchSources

\* A follow that fails removes none of the subscriptions it had found, made by another
\* request: what it takes back, it had made.
RollbackTakesItsOwn ==
    [][\A c \in Clients : task[c].at = "rollback" /\ task'[c] # task[c]
          => \A s \in subs \ subs' : s.by = c]_registryVars

\* NOT a property of the code: a follow that was answered keeps the subscription it found
\* although the request that made it fails later and takes it back.
AnswerStands ==
    [][\A c, d \in Clients : task[c].op = "follow" /\ task[c].at = "done"
          /\ task[d].at = "rollback"
          => \A s \in subs \ subs' : s.source \notin {task[c].refs[i] : i \in DOMAIN task[c].refs}]_registryVars

\* NOT a property of the code: a stream belongs to a source.
StreamsHaveSources == streams \subseteq SourceIds

\* NOT a property of the code: one subscription per wish.
NoTwins == \A s, x \in subs : s.source = x.source => s = x
=============================================================================
