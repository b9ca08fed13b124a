------------------------ MODULE Registration_proofs ------------------------
(***************************************************************************)
(* Proofs of the safety properties of SourceRegistry, for any sources,     *)
(* hosts, templates, clients and limits, and of AgentTargets, for any      *)
(* agents, sessions, places, names tried and limits.                       *)
(*                                                                         *)
(* HostsMatchSources is nearly inductive: it needs that the key and the id *)
(* a removal remembers are those of a source, and that a follow has an id  *)
(* for each source of its plan it has passed (TaskOK).  That a rollback    *)
(* takes back only what its own follow made needs more: an id that is      *)
(* drawn is new (IdsAreDrawn), and the ids a follow remembers as its own,  *)
(* through every await, are those of subscriptions it made (OwnOK).        *)
(*                                                                         *)
(* That a registration binds its caller's place and session to its agent   *)
(* needs that no two terminals are of one pane, window or session          *)
(* (TerminalsOK), as the indexes have it whatever an insert or an update   *)
(* writes: who the caller takes itself for is then its own row by all but  *)
(* the tty.                                                                *)
(***************************************************************************)
EXTENDS SourceRegistry, AgentTargets, SequenceTheorems, TLAPS

-----------------------------------------------------------------------------
(* SourceRegistry: the inductive invariant *)

\* What a request has resolved at the point where it waits.
TaskOK(t) ==
    /\ Len(t.refs) <= Len(Plan)
    /\ t.at = "source" => t.op = "follow" /\ Len(t.refs) = t.pos - 1
    /\ t.at = "ensure" /\ t.op = "follow" => Len(t.refs) = t.pos
    /\ t.at = "ensure" /\ t.op = "stream" => Len(t.refs) = 1
    /\ t.at \in {"find", "insert", "consume"} => Len(t.refs) = Len(Plan)
    /\ t.at \in {"remove", "delete"} => t.key \in Keys /\ Len(t.refs) = 1

TasksOK == \A c \in Clients : TaskOK(task[c])

\* No id is drawn twice: those in use are below the next.
IdsAreDrawn ==
    /\ \A s \in subs : s.id <= drawn
    /\ \A c \in Clients : \A i \in task[c].mine \cup task[c].left : i <= drawn

\* The subscriptions a task has as its own are those its client made.
Own(c, t) ==
    \A s \in subs : s.id \in t.mine \cup (IF t.at \in {"consume", "rollback"} THEN t.left ELSE {})
                        => s.by = c
OwnOK == \A c \in Clients : Own(c, task[c])

PlacesSound ==
    /\ byHand \subseteq host /\ host \subseteq Hosts
    /\ source \in [Keys -> Ids \cup {None}] /\ streams \subseteq Ids /\ drawn \in 0..MaxIds
    /\ HostsMatchSources

TasksSound ==
    /\ subs \subseteq [id : Ids, source : Ids, by : Clients] /\ task \in [Clients -> Tasks]
    /\ TasksOK /\ IdsAreDrawn /\ OwnOK

IInv == PlacesSound /\ TasksSound

-----------------------------------------------------------------------------
(* The helpers *)

LEMMA ConstantFacts ==
    /\ MaxIds \in Nat /\ Ids \subseteq Nat \ {0} /\ None \notin Ids
    /\ Plan \in Seq(Keys) /\ Len(Plan) \in Nat \ {0}
<1>1. Plan \in Seq(Keys) /\ Plan # <<>>
  BY RegistryAssumption DEF Keys
<1>2. Len(Plan) \in Nat \ {0}
  BY <1>1, EmptySeq, LenProperties
<1> QED BY <1>1, <1>2, RegistryAssumption DEF Ids

LEMMA PlanIsKeys == \A i \in 1..Len(Plan) : Plan[i] \in Keys
BY ConstantFacts, ElementOfSeq

\* A task has the fields of a task.
LEMMA TaskFields ==
    ASSUME NEW t \in Tasks
    PROVE  /\ t.pos \in 1..Len(Plan) /\ t.pos \in Nat \ {0}
           /\ t.refs \in Seq(Ids) /\ Len(t.refs) \in Nat
           /\ \A i \in 1..Len(t.refs) : t.refs[i] \in Ids
           /\ t.mine \subseteq Ids /\ t.left \subseteq Ids /\ t.key \in Keys \cup {None}
<1>1. t.pos \in 1..Len(Plan) /\ t.refs \in Seq(Ids) /\ t.mine \subseteq Ids /\ t.left \subseteq Ids
      /\ t.key \in Keys \cup {None}
  BY DEF Tasks
<1>2. Len(t.refs) \in Nat /\ \A i \in 1..Len(t.refs) : t.refs[i] \in Ids
  BY <1>1, ElementOfSeq, LenProperties
<1>3. t.pos \in Nat \ {0}
  BY <1>1, ConstantFacts
<1> QED BY <1>1, <1>2, <1>3

\* The task a request begins with.
LEMMA IdleIsTask ==
    /\ Idle \in Tasks /\ TaskOK(Idle)
    /\ Idle.at = "idle" /\ Idle.mine = {} /\ Idle.left = {} /\ Idle.refs = <<>> /\ Idle.pos = 1
    /\ Idle.op = "none"
<1>1. 1 \in 1..Len(Plan)
  BY ConstantFacts
<1>2. Idle \in Tasks
  BY <1>1 DEF Idle, Tasks
<1>3. Len(<<>>) = 0
  OBVIOUS
<1>4. TaskOK(Idle)
  BY <1>3, ConstantFacts DEF TaskOK, Idle
<1> QED BY <1>2, <1>4 DEF Idle

\* The next of a plan keeps what the task has, but for the point and the count.
LEMMA NextOfPlan ==
    ASSUME NEW t \in Tasks, NEW at \in {"source", "find"}, NEW last \in {"find", "done"}
    PROVE  /\ Next1(t, at, last) \in Tasks
           /\ Next1(t, at, last).op = t.op /\ Next1(t, at, last).key = t.key
           /\ Next1(t, at, last).refs = t.refs
           /\ Next1(t, at, last).mine = t.mine /\ Next1(t, at, last).left = t.left
           /\ IF t.pos < Len(Plan)
              THEN Next1(t, at, last).at = at /\ Next1(t, at, last).pos = t.pos + 1
              ELSE Next1(t, at, last).at = last /\ Next1(t, at, last).pos = 1
<1>1. t.pos \in 1..Len(Plan) /\ Len(Plan) \in Nat \ {0}
  BY TaskFields, ConstantFacts
<1>2. CASE t.pos < Len(Plan)
  <2>1. Next1(t, at, last) = [t EXCEPT !.pos = t.pos + 1, !.at = at]
    BY <1>2 DEF Next1
  <2>2. t.pos + 1 \in 1..Len(Plan)
    BY <1>1, <1>2
  <2>3. [t EXCEPT !.pos = t.pos + 1, !.at = at] \in Tasks
    BY <2>2 DEF Tasks
  <2> QED BY <1>2, <2>1, <2>3 DEF Tasks
<1>3. CASE ~(t.pos < Len(Plan))
  <2>1. Next1(t, at, last) = [t EXCEPT !.pos = 1, !.at = last]
    BY <1>3 DEF Next1
  <2>2. 1 \in 1..Len(Plan)
    BY <1>1
  <2>3. [t EXCEPT !.pos = 1, !.at = last] \in Tasks
    BY <2>2 DEF Tasks
  <2> QED BY <1>3, <2>1, <2>3 DEF Tasks
<1> QED BY <1>2, <1>3

\* A request waits at another point with what it had, and with nothing to call its own there.
LEMMA MoveKeepsTasks ==
    ASSUME TasksSound, drawn \in Nat, drawn' \in Nat, drawn <= drawn', subs' \subseteq subs,
           NEW c \in Clients, NEW t \in Tasks, TaskOK(t), task' = [task EXCEPT ![c] = t],
           \A i \in t.mine \cup t.left : i <= drawn', Own(c, t)
    PROVE  TasksSound'
<1>1. /\ subs' \subseteq [id : Ids, source : Ids, by : Clients]
      /\ task' \in [Clients -> Tasks]
      /\ task'[c] = t /\ \A d \in Clients : d # c => task'[d] = task[d]
  BY DEF TasksSound
<1>2. TasksOK'
  BY <1>1 DEF TasksSound, TasksOK, TaskOK
<1>3. IdsAreDrawn'
  <2>1. \A s \in subs : s.id \in Nat
    BY ConstantFacts DEF TasksSound
  <2>2. \A s \in subs' : s.id <= drawn'
    BY <2>1 DEF TasksSound, IdsAreDrawn
  <2>3. ASSUME NEW d \in Clients, NEW i \in task'[d].mine \cup task'[d].left PROVE i <= drawn'
    <3>1. CASE d = c
      BY <3>1, <1>1, <2>3
    <3>2. CASE d # c
      <4>1. task[d] \in Tasks /\ i \in task[d].mine \cup task[d].left
        BY <3>2, <1>1, <2>3 DEF TasksSound
      <4>2. i \in Nat /\ i <= drawn
        BY <4>1, TaskFields, ConstantFacts DEF TasksSound, IdsAreDrawn
      <4> QED BY <4>2
    <3> QED BY <3>1, <3>2
  <2> QED BY <2>2, <2>3 DEF IdsAreDrawn
<1>4. OwnOK'
  <2>1. ASSUME NEW d \in Clients PROVE Own(d, task'[d])
    BY <1>1 DEF TasksSound, OwnOK
  <2> QED BY <2>1 DEF OwnOK, Own
<1> QED BY <1>1, <1>2, <1>3, <1>4 DEF TasksSound

\* It moves on with what it had.
LEMMA GoKeepsTasks ==
    ASSUME TasksSound, drawn \in Nat, drawn' \in Nat, drawn <= drawn', subs' \subseteq subs,
           NEW c \in Clients, NEW t \in Tasks, TaskOK(t), task' = [task EXCEPT ![c] = t],
           t.mine \subseteq task[c].mine, t.left \subseteq task[c].left,
           t.at \notin {"consume", "rollback"}
    PROVE  TasksSound'
<1>1. \A i \in t.mine \cup t.left : i <= drawn'
  <2>1. \A i \in task[c].mine \cup task[c].left : i \in Nat /\ i <= drawn
    BY TaskFields, ConstantFacts DEF TasksSound, IdsAreDrawn
  <2> QED BY <2>1
<1>2. Own(c, t)
  BY DEF TasksSound, OwnOK, Own
<1> QED BY <1>1, <1>2, MoveKeepsTasks

\* A request is made, which remembers at most subscriptions that are there.
LEMMA AskKeepsTasks ==
    ASSUME TasksSound, drawn \in Nat, drawn' \in Nat, drawn <= drawn', subs' \subseteq subs,
           NEW c \in Clients, NEW t \in Tasks, TaskOK(t), task' = [task EXCEPT ![c] = t],
           t.mine = {}, t.left \subseteq {s.id : s \in subs},
           t.at \notin {"consume", "rollback"}
    PROVE  TasksSound'
<1>1. \A i \in t.mine \cup t.left : i <= drawn'
  <2>1. \A s \in subs : s.id \in Nat /\ s.id <= drawn
    BY ConstantFacts DEF TasksSound, IdsAreDrawn
  <2> QED BY <2>1
<1>2. Own(c, t)
  BY DEF Own
<1> QED BY <1>1, <1>2, MoveKeepsTasks

\* Go is such a move.
LEMMA GoMoves ==
    ASSUME TasksSound, NEW c \in Clients, NEW at \in {"done", "failed", "delete"}, Go(c, at),
           at = "delete" => task[c].at = "remove"
    PROVE  \E t \in Tasks :
              /\ TaskOK(t) /\ task' = [task EXCEPT ![c] = t]
              /\ t.mine = task[c].mine /\ t.left = task[c].left /\ t.at = at
<1> DEFINE t == [task[c] EXCEPT !.at = at]
<1>1. task[c] \in Tasks /\ TaskOK(task[c])
  BY DEF TasksSound, TasksOK
<1>2. /\ t \in Tasks /\ t.at = at /\ t.mine = task[c].mine /\ t.left = task[c].left
      /\ t.refs = task[c].refs /\ t.key = task[c].key
  BY <1>1 DEF Tasks
<1>3. task' = [task EXCEPT ![c] = t]
  BY DEF Go
<1> HIDE DEF t
<1>4. TaskOK(t)
  BY <1>1, <1>2 DEF TaskOK
<1> QED BY <1>2, <1>3, <1>4

-----------------------------------------------------------------------------
(* Hosts, sources and streams *)

\* A source that is inserted has a new id and its host.
LEMMA InsertKeepsPlaces ==
    ASSUME PlacesSound, NEW k \in Keys, InsertSource(k), UNCHANGED byHand
    PROVE  PlacesSound'
<1>1. drawn' \in Ids /\ drawn' \in 0..MaxIds /\ drawn' # None
  BY ConstantFacts DEF InsertSource, Draw, PlacesSound, Ids
<1>2. source' \in [Keys -> Ids \cup {None}] /\ source'[k] # None
      /\ \A j \in Keys : j # k => source'[j] = source[j]
  BY <1>1 DEF InsertSource, PlacesSound
<1>3. /\ byHand' \subseteq host' /\ host' \subseteq Hosts /\ streams' \subseteq Ids
      /\ host' = host \cup {HostOf[k]}
  BY <1>1 DEF InsertSource, PlacesSound, Hosts
<1>4. HostsMatchSources'
  <2>1. ASSUME NEW j \in Keys, source'[j] # None PROVE HostOf[j] \in host'
    BY <2>1, <1>2, <1>3 DEF PlacesSound, HostsMatchSources
  <2>2. ASSUME NEW h \in host' \ byHand' PROVE \E j \in Keys : HostOf[j] = h /\ source'[j] # None
    <3>1. CASE h = HostOf[k]
      BY <3>1, <1>2
    <3>2. CASE h # HostOf[k]
      <4>1. PICK j \in Keys : HostOf[j] = h /\ source[j] # None
        BY <2>2, <3>2, <1>3 DEF PlacesSound, HostsMatchSources
      <4>2. source'[j] # None
        BY <4>1, <1>2
      <4> QED BY <4>1, <4>2
    <3> QED BY <3>1, <3>2
  <2> QED BY <2>1, <2>2 DEF HostsMatchSources
<1> QED BY <1>1, <1>2, <1>3, <1>4 DEF PlacesSound

\* The host goes with its last source and stays with any other.
LEMMA DeletionKeepsPlaces ==
    ASSUME PlacesSound, NEW k \in Keys, source' = [source EXCEPT ![k] = None],
           streams' \subseteq streams, host' = HostsAfter(k), byHand' = byHand \cap host',
           UNCHANGED drawn
    PROVE  PlacesSound'
<1>1. source' \in [Keys -> Ids \cup {None}] /\ source'[k] = None
      /\ \A j \in Keys : j # k => source'[j] = source[j]
  BY DEF PlacesSound
<1>2. byHand' \subseteq host' /\ host' \subseteq Hosts /\ streams' \subseteq Ids
      /\ drawn' \in 0..MaxIds
  BY DEF PlacesSound, HostsAfter
<1>3. ASSUME NEW j \in Keys, source'[j] # None PROVE HostOf[j] \in host'
  <2>1. j # k /\ source[j] # None
    BY <1>1, <1>3
  <2>2. HostOf[j] \in host
    BY <2>1 DEF PlacesSound, HostsMatchSources
  <2>3. LastOn(HostOf[k], k) => HostOf[j] # HostOf[k]
    BY <2>1 DEF LastOn
  <2> QED BY <2>2, <2>3 DEF HostsAfter
<1>4. ASSUME NEW h \in host' \ byHand' PROVE \E j \in Keys : HostOf[j] = h /\ source'[j] # None
  <2>1. h \in host /\ h \notin byHand
    BY <1>4 DEF HostsAfter
  <2>2. PICK j \in Keys : HostOf[j] = h /\ source[j] # None
    BY <2>1 DEF PlacesSound, HostsMatchSources
  <2>3. CASE j # k
    BY <2>2, <2>3, <1>1
  <2>4. CASE j = k
    <3>1. ~LastOn(HostOf[k], k)
      BY <1>4, <2>2, <2>4 DEF HostsAfter
    <3>2. PICK i \in Keys \ {k} : HostOf[i] = HostOf[k] /\ source[i] # None
      BY <3>1 DEF LastOn
    <3> QED BY <3>2, <1>1, <2>2, <2>4
  <2> QED BY <2>3, <2>4
<1> QED BY <1>1, <1>2, <1>3, <1>4 DEF PlacesSound, HostsMatchSources

LEMMA PlacesStep ==
    ASSUME IInv, [RegistryNext]_registryVars
    PROVE  PlacesSound' /\ drawn \in Nat /\ drawn' \in Nat /\ drawn <= drawn'
<1>a. PlacesSound /\ drawn \in Nat
  BY ConstantFacts DEF IInv, PlacesSound
<1>b. SUFFICES PlacesSound' /\ (UNCHANGED drawn \/ Draw)
  <2>1. drawn' \in Nat /\ drawn <= drawn'
    BY <1>a, <1>b, ConstantFacts DEF PlacesSound, Draw
  <2> QED BY <1>a, <1>b, <2>1
<1>1. ASSUME NEW h \in Hosts, RegisterHost(h) PROVE PlacesSound' /\ (UNCHANGED drawn \/ Draw)
  BY <1>1, <1>a DEF RegisterHost, PlacesSound, HostsMatchSources
<1>2. ASSUME NEW c \in Clients, NEW k \in Keys, RegisterSource(c, k)
      PROVE  PlacesSound' /\ (UNCHANGED drawn \/ Draw)
  BY <1>2, <1>a, InsertKeepsPlaces DEF RegisterSource, InsertSource
<1>3. ASSUME NEW c \in Clients, NEW k \in Keys, RegisterStream(c, k)
      PROVE  PlacesSound' /\ (UNCHANGED drawn \/ Draw)
  <2>1. drawn' \in Ids /\ drawn' \in 0..MaxIds /\ drawn' # None /\ Draw
    BY <1>3, <1>a, ConstantFacts DEF RegisterStream, Draw, PlacesSound, Ids
  <2>2. source' = [source EXCEPT ![k] = drawn'] /\ UNCHANGED <<host, byHand, streams>>
        /\ HostOf[k] \in host
    BY <1>3 DEF RegisterStream
  <2>3. source' \in [Keys -> Ids \cup {None}] /\ source'[k] # None
        /\ \A j \in Keys : j # k => source'[j] = source[j]
    BY <1>a, <2>1, <2>2 DEF PlacesSound
  <2>4. HostsMatchSources'
    BY <1>a, <2>2, <2>3 DEF PlacesSound, HostsMatchSources
  <2> QED BY <1>a, <2>1, <2>2, <2>3, <2>4 DEF PlacesSound
<1>4. ASSUME NEW c \in Clients, FollowNewSource(c)
      PROVE  PlacesSound' /\ (UNCHANGED drawn \/ Draw)
  <2>1. task[c].pos \in 1..Len(Plan)
    BY TaskFields DEF IInv, TasksSound
  <2>2. Plan[task[c].pos] \in Keys
    BY <2>1, PlanIsKeys
  <2> QED BY <1>4, <1>a, <2>2, InsertKeepsPlaces DEF FollowNewSource, InsertSource
<1>5. ASSUME NEW c \in Clients, StreamEnsured(c)
      PROVE  PlacesSound' /\ (UNCHANGED drawn \/ Draw)
  <2>1. task[c] \in Tasks /\ Len(task[c].refs) = 1
    BY <1>5 DEF StreamEnsured, IInv, TasksSound, TasksOK, TaskOK
  <2>2. task[c].refs[1] \in Ids
    BY <2>1, TaskFields
  <2> QED BY <1>5, <1>a, <2>2 DEF StreamEnsured, PlacesSound, HostsMatchSources
<1>6. ASSUME NEW c \in Clients, InsertSubscription(c)
      PROVE  PlacesSound' /\ (UNCHANGED drawn \/ Draw)
  <2>1. task[c] \in Tasks /\ Len(task[c].refs) = Len(Plan)
    BY <1>6 DEF InsertSubscription, IInv, TasksSound, TasksOK, TaskOK
  <2>2. Wanted(c) \in Ids
    BY <2>1, TaskFields DEF Wanted
  <2>3. drawn' \in 0..MaxIds
    BY <1>6, <1>a, ConstantFacts DEF InsertSubscription, Draw, PlacesSound
  <2> QED BY <1>6, <1>a, <2>2, <2>3 DEF InsertSubscription, PlacesSound, HostsMatchSources
<1>7. ASSUME NEW c \in Clients, DeleteSource(c)
      PROVE  PlacesSound' /\ (UNCHANGED drawn \/ Draw)
  <2>1. task[c].key \in Keys
    BY <1>7 DEF DeleteSource, IInv, TasksSound, TasksOK, TaskOK
  <2>2. CASE source[task[c].key] = task[c].refs[1]
    BY <1>7, <1>a, <2>1, <2>2, DeletionKeepsPlaces DEF DeleteSource
  <2>3. CASE source[task[c].key] # task[c].refs[1]
    BY <1>7, <1>a, <2>3 DEF DeleteSource, PlacesSound, HostsMatchSources
  <2> QED BY <2>2, <2>3
<1>8. CASE Crash
  BY <1>8, <1>a DEF Crash, PlacesSound, HostsMatchSources
<1>9. CASE UNCHANGED <<host, byHand, source, streams, drawn>>
  BY <1>9, <1>a DEF PlacesSound, HostsMatchSources
<1>10. CASE Registering
  BY <1>10, <1>1, <1>2, <1>3, <1>5, <1>9 DEF Registering, Registered, Ensured, EnsureFails
<1>11. CASE Following
  BY <1>11, <1>4, <1>6, <1>9 DEF Following, Follow, FollowRefused, FollowExistingSource,
     FollowEnsured, FindSubscription, Subscribed, SubscribeFails, Rollback
<1>12. CASE Removing
  BY <1>12, <1>7, <1>9 DEF Removing, RemoveSource, RemoveFails, RemoveOne
<1>13. CASE Heal \/ UNCHANGED registryVars
  BY <1>13, <1>9 DEF Heal, registryVars
<1> QED BY <1>8, <1>10, <1>11, <1>12, <1>13 DEF RegistryNext

-----------------------------------------------------------------------------
(* Requests and subscriptions *)

\* A step that only moves a request on.
LEMMA GoKeepsAll ==
    ASSUME IInv, drawn \in Nat, drawn' \in Nat, drawn <= drawn', subs' \subseteq subs,
           NEW c \in Clients, NEW at \in {"done", "failed", "delete"}, Go(c, at),
           at = "delete" => task[c].at = "remove"
    PROVE  TasksSound'
<1>1. TasksSound
  BY DEF IInv
<1>2. PICK t \in Tasks :
          /\ TaskOK(t) /\ task' = [task EXCEPT ![c] = t]
          /\ t.mine = task[c].mine /\ t.left = task[c].left /\ t.at = at
  BY <1>1, GoMoves
<1> QED BY <1>1, <1>2, GoKeepsTasks

\* A source that exists has an id.
LEMMA SourceHasId ==
    ASSUME IInv, NEW k \in Keys, source[k] # None
    PROVE  source[k] \in Ids
BY DEF IInv, PlacesSound

\* One more source of the plan is resolved.
LEMMA RefAppended ==
    ASSUME NEW t \in Tasks, NEW i \in Ids
    PROVE  LET r == [t EXCEPT !.refs = Append(@, i)] IN
           /\ r \in Tasks /\ Len(r.refs) = Len(t.refs) + 1 /\ r.pos = t.pos /\ r.op = t.op
           /\ r.mine = t.mine /\ r.left = t.left
<1>1. t.refs \in Seq(Ids)
  BY TaskFields
<1>2. Append(t.refs, i) \in Seq(Ids) /\ Len(Append(t.refs, i)) = Len(t.refs) + 1
  BY <1>1
<1>3. [t EXCEPT !.refs = Append(@, i)] \in Tasks
  BY <1>2 DEF Tasks
<1> QED BY <1>2, <1>3 DEF Tasks

LEMMA RegisteringKeepsTasks ==
    ASSUME IInv, drawn \in Nat, drawn' \in Nat, drawn <= drawn', PlacesSound', Registering
    PROVE  TasksSound'
<1>a. TasksSound
  BY DEF IInv
<1>1. ASSUME NEW h \in Hosts, RegisterHost(h) PROVE TasksSound'
  BY <1>1, <1>a DEF RegisterHost, TasksSound, TasksOK, TaskOK, IdsAreDrawn, OwnOK, Own
<1>2. ASSUME NEW c \in Clients, NEW k \in Keys, RegisterSource(c, k) PROVE TasksSound'
  <2> DEFINE t == [Idle EXCEPT !.op = "register", !.at = "ensure", !.key = k]
  <2>1. /\ t \in Tasks /\ t.mine = {} /\ t.left = {} /\ t.at = "ensure" /\ t.op = "register"
        /\ t.refs = <<>>
    BY IdleIsTask DEF Tasks
  <2>2. task' = [task EXCEPT ![c] = t] /\ UNCHANGED subs
    BY <1>2 DEF RegisterSource, Ask
  <2> HIDE DEF t
  <2>3. TaskOK(t)
    BY <2>1, ConstantFacts, EmptySeq DEF TaskOK
  <2> QED BY <1>a, <2>1, <2>2, <2>3, AskKeepsTasks
<1>3. ASSUME NEW c \in Clients, NEW k \in Keys, RegisterStream(c, k) PROVE TasksSound'
  <2> DEFINE t == [Idle EXCEPT !.op = "stream", !.at = "ensure", !.key = k, !.refs = <<drawn'>>]
  <2>0. drawn' \in Ids /\ <<drawn'>> \in Seq(Ids)
    BY <1>3, ConstantFacts DEF RegisterStream, Draw, IInv, PlacesSound, Ids
  <2>1. /\ t \in Tasks /\ t.mine = {} /\ t.left = {} /\ t.at = "ensure" /\ t.op = "stream"
        /\ t.refs = <<drawn'>>
    BY <2>0, IdleIsTask DEF Tasks
  <2>2. task' = [task EXCEPT ![c] = t] /\ UNCHANGED subs
    BY <1>3 DEF RegisterStream, Ask
  <2> HIDE DEF t
  <2>3. TaskOK(t)
    <3>1. Len(t.refs) = 1
      BY <2>1
    <3> QED BY <2>1, <3>1, ConstantFacts DEF TaskOK
  <2> QED BY <1>a, <2>1, <2>2, <2>3, AskKeepsTasks
<1>4. ASSUME NEW c \in Clients, NEW k \in Keys, Registered(c, k) PROVE TasksSound'
  <2> DEFINE t == [Idle EXCEPT !.op = "register", !.at = "done", !.key = k]
  <2>1. /\ t \in Tasks /\ t.mine = {} /\ t.left = {} /\ t.at = "done" /\ t.op = "register"
        /\ t.refs = <<>>
    BY IdleIsTask DEF Tasks
  <2>2. task' = [task EXCEPT ![c] = t] /\ UNCHANGED subs
    BY <1>4 DEF Registered, Ask
  <2> HIDE DEF t
  <2>3. TaskOK(t)
    BY <2>1, ConstantFacts, EmptySeq DEF TaskOK
  <2> QED BY <1>a, <2>1, <2>2, <2>3, AskKeepsTasks
<1>5. ASSUME NEW c \in Clients, Ensured(c) \/ StreamEnsured(c) \/ EnsureFails(c)
      PROVE  TasksSound'
  <2>1. Go(c, "done") \/ Go(c, "failed")
    BY <1>5 DEF Ensured, StreamEnsured, EnsureFails
  <2>2. UNCHANGED subs
    BY <1>5 DEF Ensured, StreamEnsured, EnsureFails
  <2> QED BY <2>1, <2>2, GoKeepsAll
<1> QED BY <1>1, <1>2, <1>3, <1>4, <1>5 DEF Registering

\* A subscription that is inserted has a new id, which nobody else remembers.
LEMMA InsertionKeepsTasks ==
    ASSUME IInv, drawn \in Nat, NEW c \in Clients, InsertSubscription(c)
    PROVE  TasksSound'
<1> DEFINE new == [id |-> drawn', source |-> Wanted(c), by |-> c]
           t == [task[c] EXCEPT !.at = "consume", !.left = {drawn'}]
<1>1. /\ TasksSound /\ task[c] \in Tasks /\ TaskOK(task[c]) /\ task[c].at = "insert"
      /\ task \in [Clients -> Tasks]
  BY DEF IInv, TasksSound, TasksOK, InsertSubscription
<1>2. drawn' = drawn + 1 /\ drawn' \in Ids
  BY ConstantFacts DEF InsertSubscription, Draw, IInv, PlacesSound, Ids
<1>3. Wanted(c) \in Ids
  <2>1. task[c].pos \in 1..Len(Plan) /\ Len(task[c].refs) = Len(Plan)
    BY <1>1, TaskFields DEF TaskOK
  <2> QED BY <1>1, <2>1, TaskFields DEF Wanted
<1>4. subs' = subs \cup {new} /\ task' = [task EXCEPT ![c] = t]
  BY DEF InsertSubscription
<1>5. new \in [id : Ids, source : Ids, by : Clients] /\ new.id = drawn' /\ new.by = c
  BY <1>2, <1>3
<1>6. /\ t \in Tasks /\ t.mine = task[c].mine /\ t.left = {drawn'} /\ t.refs = task[c].refs
      /\ t.at = "consume"
  BY <1>1, <1>2 DEF Tasks
<1> HIDE DEF new, t
<1>7. task'[c] = t /\ (\A d \in Clients : d # c => task'[d] = task[d])
      /\ task' \in [Clients -> Tasks]
  BY <1>1, <1>4, <1>6
<1>8. TasksOK'
  <2>1. TaskOK(t)
    BY <1>1, <1>6 DEF TaskOK
  <2> QED BY <1>1, <1>7, <2>1 DEF TasksSound, TasksOK, TaskOK
<1>9. \A d \in Clients : \A i \in task[d].mine \cup task[d].left : i \in Nat /\ i <= drawn
  <2>1. \A d \in Clients : task[d] \in Tasks
    BY <1>1
  <2> QED BY <1>1, <2>1, TaskFields, ConstantFacts DEF TasksSound, IdsAreDrawn
<1>10. \A s \in subs : s.id \in Nat /\ s.id <= drawn
  BY <1>1, ConstantFacts DEF TasksSound, IdsAreDrawn
<1>11. IdsAreDrawn'
  <2>1. \A s \in subs' : s.id <= drawn'
    BY <1>2, <1>4, <1>5, <1>10
  <2>2. \A d \in Clients : \A i \in task'[d].mine \cup task'[d].left : i <= drawn'
    BY <1>2, <1>6, <1>7, <1>9
  <2> QED BY <2>1, <2>2 DEF IdsAreDrawn
<1>12. OwnOK'
  <2>1. ASSUME NEW d \in Clients, NEW s \in subs',
               s.id \in task'[d].mine \cup
                   (IF task'[d].at \in {"consume", "rollback"} THEN task'[d].left ELSE {})
        PROVE  s.by = d
    <3>1. CASE s = new
      <4>1. s.id = drawn' /\ s.by = c
        BY <1>5, <3>1
      <4>2. CASE d = c
        BY <4>1, <4>2
      <4>3. CASE d # c
        <5>1. drawn' \in task[d].mine \cup task[d].left
          BY <1>7, <2>1, <4>1, <4>3
        <5> QED BY <1>2, <1>9, <5>1
      <4> QED BY <4>2, <4>3
    <3>2. CASE s \in subs
      <4>1. CASE d # c
        BY <1>1, <1>7, <2>1, <3>2, <4>1 DEF TasksSound, OwnOK, Own
      <4>2. CASE d = c
        <5>1. s.id \in task[c].mine \cup {drawn'}
          BY <1>6, <1>7, <2>1, <4>2
        <5>2. s.id # drawn'
          BY <1>2, <1>10, <3>2
        <5>3. s.id \in task[c].mine
          BY <5>1, <5>2
        <5> QED BY <1>1, <3>2, <4>2, <5>3 DEF TasksSound, OwnOK, Own
      <4> QED BY <4>1, <4>2
    <3> QED BY <1>4, <3>1, <3>2
  <2> QED BY <2>1 DEF OwnOK, Own
<1>13. subs' \subseteq [id : Ids, source : Ids, by : Clients]
  BY <1>1, <1>4, <1>5 DEF TasksSound
<1> QED BY <1>7, <1>8, <1>11, <1>12, <1>13 DEF TasksSound

LEMMA FollowingKeepsTasks ==
    ASSUME IInv, drawn \in Nat, drawn' \in Nat, drawn <= drawn', PlacesSound', Following
    PROVE  TasksSound'
<1>a. TasksSound
  BY DEF IInv
<1>1. ASSUME NEW c \in Clients, Follow(c) PROVE TasksSound'
  <2> DEFINE t == [Idle EXCEPT !.op = "follow", !.at = "source"]
  <2>1. /\ t \in Tasks /\ t.mine = {} /\ t.left = {} /\ t.at = "source" /\ t.op = "follow"
        /\ t.refs = <<>> /\ t.pos = 1
    BY IdleIsTask DEF Tasks
  <2>2. task' = [task EXCEPT ![c] = t] /\ UNCHANGED subs
    BY <1>1 DEF Follow, Ask
  <2> HIDE DEF t
  <2>3. TaskOK(t)
    BY <2>1, ConstantFacts, EmptySeq DEF TaskOK
  <2> QED BY <1>a, <2>1, <2>2, <2>3, AskKeepsTasks
<1>2. ASSUME NEW c \in Clients, FollowRefused(c) PROVE TasksSound'
  <2> DEFINE t == [Idle EXCEPT !.op = "follow", !.at = "failed"]
  <2>1. /\ t \in Tasks /\ t.mine = {} /\ t.left = {} /\ t.at = "failed" /\ t.refs = <<>>
    BY IdleIsTask DEF Tasks
  <2>2. task' = [task EXCEPT ![c] = t] /\ UNCHANGED subs
    BY <1>2 DEF FollowRefused, Ask
  <2> HIDE DEF t
  <2>3. TaskOK(t)
    BY <2>1, ConstantFacts, EmptySeq DEF TaskOK
  <2> QED BY <1>a, <2>1, <2>2, <2>3, AskKeepsTasks
<1>3. ASSUME NEW c \in Clients, task[c].at \in {"source", "ensure", "find", "insert", "consume", "rollback"}
      PROVE  /\ task[c] \in Tasks /\ TaskOK(task[c]) /\ task[c].pos \in 1..Len(Plan)
             /\ Len(task[c].refs) \in Nat /\ Len(Plan) \in Nat
             /\ Plan[task[c].pos] \in Keys
  BY <1>a, TaskFields, PlanIsKeys, ConstantFacts DEF TasksSound, TasksOK
<1>4. ASSUME NEW c \in Clients, FollowExistingSource(c) PROVE TasksSound'
  <2> DEFINE k == Plan[task[c].pos]
             r == [task[c] EXCEPT !.refs = Append(@, source[k])]
             t == Next1(r, "source", "find")
  <2>1. /\ task[c] \in Tasks /\ TaskOK(task[c]) /\ task[c].pos \in 1..Len(Plan)
        /\ Len(task[c].refs) \in Nat /\ Len(Plan) \in Nat
        /\ task[c].at = "source" /\ source[k] \in Ids
    BY <1>3, <1>4, SourceHasId DEF FollowExistingSource
  <2>2. task' = [task EXCEPT ![c] = t] /\ UNCHANGED subs
    BY <1>4 DEF FollowExistingSource
  <2> HIDE DEF k
  <2>3. /\ r \in Tasks /\ Len(r.refs) = Len(task[c].refs) + 1 /\ r.pos = task[c].pos
        /\ r.mine = task[c].mine /\ r.left = task[c].left /\ r.op = task[c].op
    BY <2>1, RefAppended
  <2> HIDE DEF r
  <2>4. /\ t \in Tasks /\ t.mine = task[c].mine /\ t.left = task[c].left /\ t.op = task[c].op
        /\ t.refs = r.refs
        /\ IF r.pos < Len(Plan) THEN t.at = "source" /\ t.pos = r.pos + 1
                                ELSE t.at = "find" /\ t.pos = 1
    BY <2>3, NextOfPlan
  <2> HIDE DEF t
  <2>5. Len(t.refs) = task[c].pos /\ t.op = "follow"
    <3>1. Len(task[c].refs) = task[c].pos - 1 /\ task[c].op = "follow"
      BY <2>1 DEF TaskOK
    <3> QED BY <2>1, <2>3, <2>4, <3>1
  <2>6. t.at \in {"source", "find"}
    BY <2>4
  <2>7. /\ task[c].pos \in Nat /\ task[c].pos <= Len(Plan)
        /\ t.at = "source" => t.pos = task[c].pos + 1
        /\ t.at = "find" => task[c].pos = Len(Plan)
    BY <2>1, <2>3, <2>4
  <2>8. TaskOK(t)
    <3>1. CASE t.at = "source"
      <4>1. t.pos \in Nat /\ Len(t.refs) = t.pos - 1 /\ Len(t.refs) <= Len(Plan)
        BY <2>5, <2>7, <3>1
      <4> QED BY <2>5, <3>1, <4>1 DEF TaskOK
    <3>2. CASE t.at = "find"
      <4>1. Len(t.refs) = Len(Plan)
        BY <2>5, <2>7, <3>2
      <4>2. Len(t.refs) <= Len(Plan)
        BY <4>1, ConstantFacts
      <4> QED BY <3>2, <4>1, <4>2 DEF TaskOK
    <3> QED BY <2>6, <3>1, <3>2
  <2> QED BY <1>a, <2>2, <2>4, <2>6, <2>8, GoKeepsTasks
<1>5. ASSUME NEW c \in Clients, FollowNewSource(c) PROVE TasksSound'
  <2> DEFINE k == Plan[task[c].pos]
             t == [task[c] EXCEPT !.at = "ensure", !.key = k, !.refs = Append(@, drawn')]
  <2>1. /\ task[c] \in Tasks /\ TaskOK(task[c]) /\ task[c].pos \in 1..Len(Plan)
        /\ Len(task[c].refs) \in Nat /\ Len(Plan) \in Nat
        /\ task[c].at = "source" /\ k \in Keys
    BY <1>3, <1>5 DEF FollowNewSource
  <2>2. drawn' \in Ids
    BY <1>5, ConstantFacts DEF FollowNewSource, InsertSource, Draw, IInv, PlacesSound, Ids
  <2>3. task' = [task EXCEPT ![c] = t] /\ UNCHANGED subs
    BY <1>5 DEF FollowNewSource
  <2> HIDE DEF k
  <2>4. Append(task[c].refs, drawn') \in Seq(Ids)
        /\ Len(Append(task[c].refs, drawn')) = Len(task[c].refs) + 1
    <3>1. task[c].refs \in Seq(Ids)
      BY <2>1, TaskFields
    <3> QED BY <2>2, <3>1
  <2>5. /\ t \in Tasks /\ t.mine = task[c].mine /\ t.left = task[c].left /\ t.op = task[c].op
        /\ t.refs = Append(task[c].refs, drawn') /\ t.pos = task[c].pos /\ t.at = "ensure"
    BY <2>1, <2>4 DEF Tasks
  <2> HIDE DEF t
  <2>6. TaskOK(t)
    BY <2>1, <2>4, <2>5 DEF TaskOK
  <2> QED BY <1>a, <2>3, <2>5, <2>6, GoKeepsTasks
<1>6. ASSUME NEW c \in Clients, FollowEnsured(c) PROVE TasksSound'
  <2> DEFINE t == Next1(task[c], "source", "find")
  <2>1. /\ task[c] \in Tasks /\ TaskOK(task[c]) /\ task[c].pos \in 1..Len(Plan)
        /\ Len(task[c].refs) \in Nat /\ Len(Plan) \in Nat
        /\ task[c].at = "ensure" /\ task[c].op = "follow"
    BY <1>3, <1>6 DEF FollowEnsured
  <2>2. task' = [task EXCEPT ![c] = t] /\ UNCHANGED subs
    BY <1>6 DEF FollowEnsured
  <2>3. /\ t \in Tasks /\ t.mine = task[c].mine /\ t.left = task[c].left /\ t.op = task[c].op
        /\ t.refs = task[c].refs
        /\ IF task[c].pos < Len(Plan) THEN t.at = "source" /\ t.pos = task[c].pos + 1
                                      ELSE t.at = "find" /\ t.pos = 1
    BY <2>1, NextOfPlan
  <2> HIDE DEF t
  <2>4. TaskOK(t)
    BY <2>1, <2>3 DEF TaskOK
  <2>5. t.at \in {"source", "find"}
    BY <2>3
  <2> QED BY <1>a, <2>2, <2>3, <2>4, <2>5, GoKeepsTasks
<1>7. ASSUME NEW c \in Clients, FindSubscription(c) PROVE TasksSound'
  <2>1. /\ task[c] \in Tasks /\ TaskOK(task[c]) /\ task[c].at = "find" /\ UNCHANGED subs
        /\ Len(Plan) \in Nat
    BY <1>3, <1>7 DEF FindSubscription
  <2>2. CASE Found(c) # {}
    <3> DEFINE t == Next1(task[c], "find", "done")
    <3>1. task' = [task EXCEPT ![c] = t]
      BY <1>7, <2>2 DEF FindSubscription
    <3>2. /\ t \in Tasks /\ t.mine = task[c].mine /\ t.left = task[c].left
          /\ t.refs = task[c].refs /\ t.at \in {"find", "done"}
      BY <2>1, NextOfPlan
    <3> HIDE DEF t
    <3>3. TaskOK(t)
      BY <2>1, <3>2 DEF TaskOK
    <3> QED BY <1>a, <2>1, <3>1, <3>2, <3>3, GoKeepsTasks
  <2>3. CASE Found(c) = {}
    <3> DEFINE t == [task[c] EXCEPT !.at = "insert"]
    <3>1. task' = [task EXCEPT ![c] = t]
      BY <1>7, <2>3 DEF FindSubscription
    <3>2. /\ t \in Tasks /\ t.mine = task[c].mine /\ t.left = task[c].left
          /\ t.refs = task[c].refs /\ t.at = "insert"
      BY <2>1 DEF Tasks
    <3> HIDE DEF t
    <3>3. TaskOK(t)
      BY <2>1, <3>2 DEF TaskOK
    <3> QED BY <1>a, <2>1, <3>1, <3>2, <3>3, GoKeepsTasks
  <2> QED BY <2>2, <2>3
<1>8. ASSUME NEW c \in Clients, InsertSubscription(c) PROVE TasksSound'
  BY <1>8, InsertionKeepsTasks
<1>9. ASSUME NEW c \in Clients, Subscribed(c) PROVE TasksSound'
  <2> DEFINE r == [task[c] EXCEPT !.mine = @ \cup task[c].left, !.left = {}]
             t == Next1(r, "find", "done")
  <2>1. /\ task[c] \in Tasks /\ TaskOK(task[c]) /\ task[c].at = "consume" /\ UNCHANGED subs
        /\ Len(Plan) \in Nat
    BY <1>3, <1>9 DEF Subscribed
  <2>2. task' = [task EXCEPT ![c] = t]
    BY <1>9 DEF Subscribed
  <2>3. /\ r \in Tasks /\ r.mine = task[c].mine \cup task[c].left /\ r.left = {}
        /\ r.refs = task[c].refs
    BY <2>1 DEF Tasks
  <2> HIDE DEF r
  <2>4. /\ t \in Tasks /\ t.mine = task[c].mine \cup task[c].left /\ t.left = {}
        /\ t.refs = task[c].refs /\ t.at \in {"find", "done"}
    BY <2>3, NextOfPlan
  <2> HIDE DEF t
  <2>5. TaskOK(t)
    BY <2>1, <2>4 DEF TaskOK
  <2>6. \A i \in t.mine \cup t.left : i <= drawn'
    <3>1. \A i \in task[c].mine \cup task[c].left : i \in Nat /\ i <= drawn
      BY <1>a, <2>1, TaskFields, ConstantFacts DEF TasksSound, IdsAreDrawn
    <3> QED BY <2>4, <3>1
  <2>7. Own(c, t)
    BY <1>a, <2>1, <2>4 DEF TasksSound, OwnOK, Own
  <2> QED BY <1>a, <2>1, <2>2, <2>4, <2>5, <2>6, <2>7, MoveKeepsTasks
<1>10. ASSUME NEW c \in Clients, SubscribeFails(c) PROVE TasksSound'
  <2> DEFINE t == Undo(task[c])
  <2>1. /\ task[c] \in Tasks /\ TaskOK(task[c]) /\ subs' \subseteq subs
    BY <1>3, <1>10 DEF SubscribeFails
  <2>2. task' = [task EXCEPT ![c] = t]
    BY <1>10 DEF SubscribeFails
  <2>3. /\ t \in Tasks /\ t.mine = task[c].mine /\ t.left = task[c].mine
        /\ t.refs = task[c].refs /\ t.at = "rollback"
    BY <2>1 DEF Tasks, Undo
  <2> HIDE DEF t
  <2>4. TaskOK(t)
    BY <2>1, <2>3 DEF TaskOK
  <2>5. \A i \in t.mine \cup t.left : i <= drawn'
    <3>1. \A i \in task[c].mine : i \in Nat /\ i <= drawn
      BY <1>a, <2>1, TaskFields, ConstantFacts DEF TasksSound, IdsAreDrawn
    <3> QED BY <2>3, <3>1
  <2>6. Own(c, t)
    BY <1>a, <2>3 DEF TasksSound, OwnOK, Own
  <2> QED BY <1>a, <2>1, <2>2, <2>3, <2>4, <2>5, <2>6, MoveKeepsTasks
<1>11. ASSUME NEW c \in Clients, Rollback(c) PROVE TasksSound'
  <2>1. task[c] \in Tasks /\ TaskOK(task[c]) /\ task[c].at = "rollback"
    BY <1>3, <1>11 DEF Rollback
  <2>2. CASE task[c].left = {}
    BY <1>11, <2>2, GoKeepsAll DEF Rollback
  <2>3. CASE task[c].left # {}
    <3>1. PICK latest \in task[c].left :
              /\ subs' = {s \in subs : s.id # latest}
              /\ task' = [task EXCEPT ![c].left = @ \ {latest}]
      BY <1>11, <2>3 DEF Rollback
    <3> DEFINE t == [task[c] EXCEPT !.left = @ \ {latest}]
    <3>2. task' = [task EXCEPT ![c] = t] /\ subs' \subseteq subs
      BY <3>1
    <3>3. /\ t \in Tasks /\ t.mine = task[c].mine /\ t.left \subseteq task[c].left
          /\ t.refs = task[c].refs /\ t.at = "rollback"
      BY <2>1 DEF Tasks
    <3> HIDE DEF t
    <3>4. TaskOK(t)
      BY <2>1, <3>3 DEF TaskOK
    <3>5. \A i \in t.mine \cup t.left : i <= drawn'
      <4>1. \A i \in task[c].mine \cup task[c].left : i \in Nat /\ i <= drawn
        BY <1>a, <2>1, TaskFields, ConstantFacts DEF TasksSound, IdsAreDrawn
      <4> QED BY <3>3, <4>1
    <3>6. Own(c, t)
      BY <1>a, <2>1, <3>3 DEF TasksSound, OwnOK, Own
    <3> QED BY <1>a, <3>2, <3>3, <3>4, <3>5, <3>6, MoveKeepsTasks
  <2> QED BY <2>2, <2>3
<1> QED BY <1>1, <1>2, <1>4, <1>5, <1>6, <1>7, <1>8, <1>9, <1>10, <1>11 DEF Following

LEMMA RemovingKeepsTasks ==
    ASSUME IInv, drawn \in Nat, drawn' \in Nat, drawn <= drawn', PlacesSound', Removing
    PROVE  TasksSound'
<1>a. TasksSound
  BY DEF IInv
<1>1. ASSUME NEW c \in Clients, NEW k \in Keys, RemoveSource(c, k) PROVE TasksSound'
  <2> DEFINE ids == {s.id : s \in {x \in subs : x.source = source[k]}}
             t == [Idle EXCEPT !.op = "remove", !.at = "remove", !.key = k,
                               !.refs = <<source[k]>>, !.left = ids]
  <2>1. <<source[k]>> \in Seq(Ids)
    <3>1. source[k] \in Ids
      BY <1>1, SourceHasId DEF RemoveSource
    <3> QED BY <3>1
  <2>2. ids \subseteq {s.id : s \in subs} /\ ids \subseteq Ids
    BY <1>a DEF TasksSound
  <2>3. task' = [task EXCEPT ![c] = t] /\ UNCHANGED subs
    BY <1>1 DEF RemoveSource, Ask
  <2> HIDE DEF ids
  <2>4. /\ t \in Tasks /\ t.mine = {} /\ t.left = ids /\ t.at = "remove" /\ t.key = k
        /\ t.refs = <<source[k]>>
    BY <2>1, <2>2, IdleIsTask DEF Tasks
  <2> HIDE DEF t
  <2>5. TaskOK(t)
    <3>1. Len(t.refs) = 1
      BY <2>4
    <3> QED BY <2>4, <3>1, ConstantFacts DEF TaskOK
  <2> QED BY <1>a, <2>2, <2>3, <2>4, <2>5, AskKeepsTasks
<1>2. ASSUME NEW c \in Clients, RemoveFails(c) PROVE TasksSound'
  BY <1>2, GoKeepsAll DEF RemoveFails
<1>3. ASSUME NEW c \in Clients, RemoveOne(c) PROVE TasksSound'
  <2>1. task[c] \in Tasks /\ TaskOK(task[c]) /\ task[c].at = "remove"
    BY <1>a, <1>3 DEF RemoveOne, TasksSound, TasksOK
  <2>2. CASE task[c].left = {}
    BY <1>3, <2>1, <2>2, GoKeepsAll DEF RemoveOne
  <2>3. CASE task[c].left # {}
    <3>1. PICK s \in subs :
              /\ subs' = subs \ {s}
              /\ task' = [task EXCEPT ![c].left = @ \ {s.id}]
      BY <1>3, <2>3 DEF RemoveOne
    <3> DEFINE t == [task[c] EXCEPT !.left = @ \ {s.id}]
    <3>2. task' = [task EXCEPT ![c] = t] /\ subs' \subseteq subs
      BY <3>1
    <3>3. /\ t \in Tasks /\ t.mine = task[c].mine /\ t.left \subseteq task[c].left
          /\ t.refs = task[c].refs /\ t.at = "remove" /\ t.key = task[c].key
      BY <2>1 DEF Tasks
    <3> HIDE DEF t
    <3>4. TaskOK(t)
      BY <2>1, <3>3 DEF TaskOK
    <3> QED BY <1>a, <3>2, <3>3, <3>4, GoKeepsTasks
  <2> QED BY <2>2, <2>3
<1>4. ASSUME NEW c \in Clients, DeleteSource(c) PROVE TasksSound'
  <2>1. Go(c, "done") /\ UNCHANGED subs
    BY <1>4 DEF DeleteSource
  <2> QED BY <2>1, GoKeepsAll
<1> QED BY <1>1, <1>2, <1>3, <1>4 DEF Removing

\* A subscription without a source goes, or every request ends.
LEMMA OtherStepsKeepTasks ==
    ASSUME IInv, Heal \/ Crash \/ UNCHANGED registryVars
    PROVE  TasksSound'
<1>a. TasksSound
  BY DEF IInv
<1>1. CASE Heal \/ UNCHANGED registryVars
  <2>1. subs' \subseteq subs /\ UNCHANGED <<task, drawn>>
    BY <1>1 DEF Heal, registryVars
  <2> QED BY <1>a, <2>1 DEF TasksSound, TasksOK, TaskOK, IdsAreDrawn, OwnOK, Own
<1>2. CASE Crash
  <2>1. UNCHANGED <<subs, drawn>> /\ task' = [c \in Clients |-> Idle]
    BY <1>2 DEF Crash
  <2>2. task' \in [Clients -> Tasks] /\ \A c \in Clients : task'[c] = Idle
    BY <2>1, IdleIsTask
  <2>3. TasksOK'
    BY <2>2, IdleIsTask DEF TasksOK, TaskOK
  <2>4. IdsAreDrawn' /\ OwnOK'
    BY <1>a, <2>1, <2>2, IdleIsTask DEF TasksSound, IdsAreDrawn, OwnOK, Own
  <2> QED BY <1>a, <2>1, <2>2, <2>3, <2>4 DEF TasksSound
<1> QED BY <1>1, <1>2

-----------------------------------------------------------------------------
(* The theorems *)

LEMMA InitOK == RegistryInit => IInv
<1> SUFFICES ASSUME RegistryInit PROVE IInv
  OBVIOUS
<1>1. PlacesSound
  BY ConstantFacts DEF RegistryInit, PlacesSound, HostsMatchSources
<1>2. task \in [Clients -> Tasks] /\ \A c \in Clients : task[c] = Idle
  BY IdleIsTask DEF RegistryInit
<1>3. TasksOK
  BY <1>2, IdleIsTask DEF TasksOK
<1>4. IdsAreDrawn /\ OwnOK
  BY <1>2, IdleIsTask DEF RegistryInit, IdsAreDrawn, OwnOK, Own
<1> QED BY <1>1, <1>2, <1>3, <1>4 DEF IInv, TasksSound, RegistryInit

LEMMA Step == IInv /\ [RegistryNext]_registryVars => IInv'
<1> SUFFICES ASSUME IInv, [RegistryNext]_registryVars PROVE IInv'
  OBVIOUS
<1>1. PlacesSound' /\ drawn \in Nat /\ drawn' \in Nat /\ drawn <= drawn'
  BY PlacesStep
<1>2. TasksSound'
  BY <1>1, RegisteringKeepsTasks, FollowingKeepsTasks, RemovingKeepsTasks, OtherStepsKeepTasks
     DEF RegistryNext
<1> QED BY <1>1, <1>2 DEF IInv

\* The invariant holds whatever requests interleave, fail, are taken back or end in a crash.
THEOREM Invariance == RegistrySpec => []IInv
<1>1. RegistryInit => IInv
  BY InitOK
<1>2. IInv /\ [RegistryNext]_registryVars => IInv'
  BY Step
<1> QED BY <1>1, <1>2, PTL DEF RegistrySpec

\* Removing the last source of a host removes the host and removing another leaves it,
\* whatever is registered, followed and removed at the same time, and across restarts.
THEOREM HostsGoWithSources == RegistrySpec => []RegistryIsSound
<1>1. IInv => RegistryIsSound
  BY DEF IInv, PlacesSound, TasksSound, TasksOK, TaskOK, RegistryIsSound, RegistryTypeOK
<1> QED BY <1>1, Invariance, PTL

\* No step moves a request that rolls back, but the removal of one of its subscriptions.
LEMMA OnlyRollbackMoves ==
    ASSUME IInv, RegistryNext, NEW c \in Clients, task[c].at = "rollback", task'[c] # task[c],
           subs' # subs
    PROVE  Rollback(c)
<1>a. task \in [Clients -> Tasks]
  BY DEF IInv, TasksSound
<1>1. ~Registering /\ ~Heal /\ ~Crash
  BY <1>a DEF Registering, RegisterHost, RegisterSource, RegisterStream, Registered, Ensured,
     StreamEnsured, EnsureFails, Heal, Crash
<1>2. ASSUME NEW d \in Clients, d # c,
             \/ InsertSubscription(d) \/ SubscribeFails(d) \/ Rollback(d) \/ RemoveOne(d)
      PROVE  FALSE
  BY <1>a, <1>2 DEF InsertSubscription, SubscribeFails, Rollback, RemoveOne, Go
<1>3. ASSUME InsertSubscription(c) \/ SubscribeFails(c) \/ RemoveOne(c) PROVE FALSE
  BY <1>3 DEF InsertSubscription, SubscribeFails, RemoveOne
<1>4. ASSUME NEW d \in Clients,
             \/ Follow(d) \/ FollowRefused(d) \/ FollowExistingSource(d) \/ FollowNewSource(d)
             \/ FollowEnsured(d) \/ FindSubscription(d) \/ Subscribed(d)
             \/ RemoveFails(d) \/ DeleteSource(d) \/ \E k \in Keys : RemoveSource(d, k)
      PROVE  FALSE
  BY <1>4 DEF Follow, FollowRefused, FollowExistingSource, FollowNewSource, FollowEnsured,
     FindSubscription, Subscribed, RemoveFails, DeleteSource, RemoveSource
<1> QED BY <1>1, <1>2, <1>3, <1>4 DEF RegistryNext, Following, Removing

\* What a follow that fails takes back it had made itself: what another request made for the
\* same wish, found by it or made meanwhile, stays.
THEOREM TakesBackItsOwn == RegistrySpec => RollbackTakesItsOwn
<1>1. IInv /\ [RegistryNext]_registryVars
        => [\A c \in Clients : task[c].at = "rollback" /\ task'[c] # task[c]
               => \A s \in subs \ subs' : s.by = c]_registryVars
  <2> SUFFICES ASSUME IInv, RegistryNext, NEW c \in Clients, task[c].at = "rollback",
                      task'[c] # task[c], NEW s \in subs \ subs'
               PROVE  s.by = c
    OBVIOUS
  <2>1. Rollback(c)
    BY OnlyRollbackMoves
  <2>2. s.id \in task[c].left
    BY <2>1 DEF Rollback
  <2> QED BY <2>2 DEF IInv, TasksSound, OwnOK, Own
<1> QED BY <1>1, Invariance, PTL DEF RegistrySpec, RollbackTakesItsOwn

-----------------------------------------------------------------------------
(* AgentTargets: the inductive invariant *)

\* A row has an id of its own and an agent that is there.
RowsOK ==
    /\ \A t, u \in targets : t.id = u.id => t = u
    /\ \A t \in targets : t.id <= created /\ Exists(t.agent)

\* Two terminals are of two sessions, panes and windows.
TerminalsOK ==
    \A t, u \in targets :
        t # u /\ t.kind = "terminal" /\ u.kind = "terminal" =>
            /\ ~Same(t.session, u.session)
            /\ ~Same(t.place.pane, u.place.pane)
            /\ ~Same(t.place.window, u.place.window)

AgentInv == AgentTypeOK /\ RowsOK /\ TerminalsOK

-----------------------------------------------------------------------------
(* Rows and terminals *)

LEMMA AgentInitOK == AgentInit => AgentInv
<1> SUFFICES ASSUME AgentInit PROVE AgentInv
  OBVIOUS
<1>1. NoAgent \in AgentRows
  BY DEF NoAgent, AgentRows
<1>2. AgentTypeOK
  BY <1>1 DEF AgentInit, AgentTypeOK
<1> QED BY <1>2 DEF AgentInit, AgentInv, RowsOK, TerminalsOK

\* Agents stay rows, and those that are there stay there, when their state is written.
LEMMA OnlineRows ==
    ASSUME NEW A \in [AgentIds -> AgentRows], NEW a
    PROVE  /\ Online(A, a) \in [AgentIds -> AgentRows]
           /\ \A b \in AgentIds : A[b].status # "none" => Online(A, a)[b].status # "none"
<1>1. CASE a \notin AgentIds
  BY <1>1 DEF Online
<1>2. CASE a \in AgentIds
  <2> DEFINE row == [A[a] EXCEPT !.status = "active", !.since = Absent]
  <2>1. A[a] \in AgentRows
    BY <1>2
  <2>2. row \in AgentRows /\ row.status = "active"
    BY <2>1 DEF AgentRows
  <2>3. Online(A, a) = [A EXCEPT ![a] = row]
    BY <1>2, <2>1 DEF Online, AgentRows
  <2> HIDE DEF row
  <2> QED BY <1>2, <2>2, <2>3
<1> QED BY <1>1, <1>2

LEMMA ReconciledRows ==
    ASSUME NEW A \in [AgentIds -> AgentRows], clock \in Nat, NEW T, NEW a
    PROVE  /\ Reconciled(A, T, a) \in [AgentIds -> AgentRows]
           /\ \A b \in AgentIds : A[b].status # "none" => Reconciled(A, T, a)[b].status # "none"
<1>1. CASE Activated(T, a) # {}
  BY <1>1, OnlineRows DEF Reconciled
<1>2. CASE Activated(T, a) = {} /\ a \notin AgentIds
  BY <1>2 DEF Reconciled
<1>3. CASE Activated(T, a) = {} /\ a \in AgentIds
  <2> DEFINE since == IF A[a].since = Absent THEN clock ELSE A[a].since
             row == [A[a] EXCEPT !.status = "offline", !.since = since]
  <2>1. A[a] \in AgentRows
    BY <1>3
  <2>2. since \in Nat \cup {Absent}
    BY <2>1 DEF AgentRows
  <2>3. row \in AgentRows /\ row.status = "offline"
    BY <2>1, <2>2 DEF AgentRows
  <2>4. Reconciled(A, T, a) = [A EXCEPT ![a] = row]
    BY <1>3, <2>1 DEF Reconciled, AgentRows
  <2> HIDE DEF row
  <2> QED BY <1>3, <2>3, <2>4
<1> QED BY <1>1, <1>2, <1>3

LEMMA EnrolledRows ==
    ASSUME NEW A \in [AgentIds -> AgentRows], NEW a \in AgentIds, NEW c,
           c.session \in Sessions \cup {Absent}
    PROVE  /\ Enrolled(A, a, c) \in [AgentIds -> AgentRows]
           /\ Enrolled(A, a, c)[a].status = "active" /\ Enrolled(A, a, c)[a].session = c.session
           /\ \A b \in AgentIds : A[b].status # "none" => Enrolled(A, a, c)[b].status # "none"
<1> DEFINE row == [status |-> "active", since |-> Absent, session |-> c.session]
<1>1. row \in AgentRows /\ row.status = "active" /\ row.session = c.session
  BY DEF AgentRows
<1>2. Enrolled(A, a, c) = [A EXCEPT ![a] = row]
  BY DEF Enrolled
<1> HIDE DEF row
<1> QED BY <1>1, <1>2

\* Rows that go, or change no more than their state, disturb nothing.
LEMMA RowsKept ==
    ASSUME AgentInv, created' \in Nat, created <= created',
           \A t \in targets' : \E u \in targets :
              /\ t.id = u.id /\ t.agent = u.agent /\ t.kind = u.kind
              /\ t.session = u.session /\ t.place = u.place,
           \A t, u \in targets' : t.id = u.id => t = u,
           \A t \in targets' : Exists(t.agent)'
    PROVE  RowsOK' /\ TerminalsOK'
<1>1. \A t \in targets : t.id \in Nat /\ t.id <= created /\ created \in Nat
  BY DEF AgentInv, AgentTypeOK, TargetRows, RowsOK
<1>2. \A t \in targets' : t.id <= created'
  BY <1>1
<1>3. ASSUME NEW t \in targets', NEW u \in targets', t # u,
             t.kind = "terminal", u.kind = "terminal"
      PROVE  /\ ~Same(t.session, u.session)
             /\ ~Same(t.place.pane, u.place.pane)
             /\ ~Same(t.place.window, u.place.window)
  <2>1. PICK v \in targets : /\ t.id = v.id /\ t.agent = v.agent /\ t.kind = v.kind
                             /\ t.session = v.session /\ t.place = v.place
    OBVIOUS
  <2>2. PICK w \in targets : /\ u.id = w.id /\ u.agent = w.agent /\ u.kind = w.kind
                             /\ u.session = w.session /\ u.place = w.place
    OBVIOUS
  <2>3. v # w
    BY <1>3, <2>1, <2>2
  <2> QED BY <1>3, <2>1, <2>2, <2>3 DEF AgentInv, TerminalsOK
<1> QED BY <1>2, <1>3 DEF RowsOK, TerminalsOK

\* An added row of an agent's webhook, with an id that was not drawn before.
LEMMA WebhookAdded ==
    ASSUME AgentInv, NEW a \in AgentIds, NEW T \in SUBSET targets,
           targets' = T \cup {Target(a, "webhook", NoContext)}, created' = created + 1,
           \A t \in targets' : Exists(t.agent)'
    PROVE  targets' \subseteq TargetRows /\ created' \in Nat /\ RowsOK' /\ TerminalsOK'
<1> DEFINE n == Target(a, "webhook", NoContext)
<1>1. created \in Nat /\ created' \in Nat
  BY DEF AgentInv, AgentTypeOK
<1>2. n \in TargetRows /\ n.id = created + 1 /\ n.kind = "webhook"
  BY <1>1 DEF Target, NoContext, NoPlace, TargetRows
<1>3. \A t \in T : t \in targets /\ t \in TargetRows /\ t.id \in Nat /\ t.id <= created
  BY DEF AgentInv, AgentTypeOK, RowsOK, TargetRows
<1> HIDE DEF n
<1>4. targets' = T \cup {n}
  BY DEF n
<1>5. \A t, u \in targets' : t.id = u.id => t = u
  BY <1>1, <1>2, <1>3, <1>4 DEF AgentInv, RowsOK
<1>6. \A t \in targets' : t.id <= created'
  BY <1>1, <1>2, <1>3, <1>4
<1>7. TerminalsOK'
  BY <1>2, <1>3, <1>4 DEF AgentInv, TerminalsOK
<1> QED BY <1>1, <1>2, <1>3, <1>4, <1>5, <1>6, <1>7 DEF RowsOK

\* What a flight writes is the state of one row.
LEMMA StatusSet ==
    ASSUME AgentInv, NEW f, NEW status \in {"active", "offline"}, SetStatus(f, status)
    PROVE  /\ targets' \subseteq TargetRows
           /\ \A t \in targets' : \E u \in targets :
                 /\ t.id = u.id /\ t.agent = u.agent /\ t.kind = u.kind
                 /\ t.session = u.session /\ t.place = u.place
           /\ \A t, u \in targets' : t.id = u.id => t = u
<1> DEFINE new(t) == IF t \in RowOf(f) THEN [t EXCEPT !.status = status] ELSE t
<1>1. ASSUME NEW t \in targets
      PROVE  /\ new(t) \in TargetRows /\ new(t).id = t.id /\ new(t).agent = t.agent
             /\ new(t).kind = t.kind /\ new(t).session = t.session /\ new(t).place = t.place
  <2>1. t \in TargetRows
    BY DEF AgentInv, AgentTypeOK
  <2> QED BY <2>1 DEF TargetRows
<1>2. targets' = {new(t) : t \in targets}
  BY DEF SetStatus
<1> HIDE DEF new
<1>3. \A t, u \in targets : new(t).id = new(u).id => t = u
  BY <1>1 DEF AgentInv, RowsOK
<1> QED BY <1>1, <1>2, <1>3

\* The names an agent without one is tried under are those of agents.
LEMMA NamesAreAgents ==
    ASSUME NEW c \in Contexts, NEW a \in AutoId(c)
    PROVE  /\ a \in AgentIds
           /\ AgentInv => LET T == Of(targets, a, "terminal")
                          IN  T = {} \/ \E t \in T : SameIdentity(t, c)
<1> DEFINE names == NamesTried(c)
           own(i) == LET T == Of(targets, names[i], "terminal")
                     IN  ~Exists(names[i]) \/ T = {} \/ \E t \in T : SameIdentity(t, c)
<1>1. PICK i \in DOMAIN names : own(i) /\ a = names[i]
  BY DEF AutoId
<1>2. names \in Seq(AgentIds)
  BY AgentAssumption
<1>3. a \in AgentIds
  <2> HIDE DEF names
  <2> QED BY <1>1, <1>2, ElementOfSeq, LenProperties
<1>4. AgentInv /\ ~Exists(a) => Of(targets, a, "terminal") = {}
  BY DEF AgentInv, RowsOK, Of
<1> QED BY <1>1, <1>3, <1>4

-----------------------------------------------------------------------------
(* A registration from a terminal *)

\* The row a registration that succeeds leaves its agent; what else it has is the caller's.
BoundAt(w, a, c) ==
    /\ w \in targets' /\ w.kind = "terminal" /\ w.status = "active" /\ w.agent = a
    /\ w.place = c.place /\ w.session = c.session
    /\ c.session = Absent => w.backend = BackendOf(c.place)
    /\ \A u \in targets' \ {w} : u.kind = "terminal" /\ u.agent = a => SameIdentity(u, c)

\* Of the rows that are left those of the agent are the caller's.
LEMMA CededRows ==
    ASSUME NEW a \in AgentIds, NEW c \in Contexts, NEW found,
           NEW T, T = Ceded(targets, a, c, found)
    PROVE  /\ T \subseteq targets
           /\ \A t \in T : t.kind = "terminal" /\ t.agent = a => SameIdentity(t, c)
BY DEF Ceded, Foreign, Of

\* A row that is found is that of a terminal, and none is if there is none.
LEMMA LookupRows ==
    ASSUME NEW T, NEW c \in Contexts, NEW found \in Lookups(T, c)
    PROVE  /\ \A t \in found : t \in T /\ t.kind = "terminal" /\ found = {t}
           /\ found = {} => Lookups(T, c) = {{}}
<1>1. Existing(T, c) \subseteq {t \in T : t.kind = "terminal"}
  BY DEF Existing
<1> QED BY <1>1 DEF Lookups

\* A row that breaks no index comes to rows that break none.
LEMMA RowPut ==
    ASSUME AgentInv, NEW U, NEW w, created' \in Nat, created <= created',
           U \subseteq targets, targets' = U \cup {w}, w \in TargetRows, w.id <= created',
           w.kind = "terminal", ~Conflicts(w, U), \A v \in U : v.id # w.id,
           \A t \in targets' : Exists(t.agent)'
    PROVE  targets' \subseteq TargetRows /\ RowsOK' /\ TerminalsOK'
<1>1. \A t \in U : /\ t \in targets /\ t \in TargetRows /\ t.id \in Nat /\ t.id <= created
                   /\ created \in Nat
  BY DEF AgentInv, AgentTypeOK, RowsOK, TargetRows
<1>2. targets' \subseteq TargetRows
  BY <1>1
<1>3. \A t, u \in targets' : t.id = u.id => t = u
  BY <1>1 DEF AgentInv, RowsOK
<1>4. \A t \in targets' : t.id <= created'
  BY <1>1
<1>5. \A v \in U : v.kind = "terminal" => /\ ~Same(w.session, v.session)
                                          /\ ~Same(w.place.pane, v.place.pane)
                                          /\ ~Same(w.place.window, v.place.window)
  BY DEF Conflicts
<1>6. \A v \in U : v.kind = "terminal" => /\ ~Same(v.session, w.session)
                                          /\ ~Same(v.place.pane, w.place.pane)
                                          /\ ~Same(v.place.window, w.place.window)
  BY <1>5 DEF Same
<1>7. ASSUME NEW t \in targets', NEW u \in targets', t # u,
             t.kind = "terminal", u.kind = "terminal"
      PROVE  /\ ~Same(t.session, u.session)
             /\ ~Same(t.place.pane, u.place.pane)
             /\ ~Same(t.place.window, u.place.window)
  <2>1. CASE t \in U /\ u \in U
    BY <1>1, <1>7, <2>1 DEF AgentInv, TerminalsOK
  <2>2. CASE t \in U /\ u = w
    BY <1>6, <1>7, <2>2
  <2>3. CASE t = w /\ u \in U
    BY <1>5, <1>7, <2>3
  <2> QED BY <1>7, <2>1, <2>2, <2>3
<1> QED BY <1>2, <1>3, <1>4, <1>7 DEF RowsOK, TerminalsOK

\* The row is added or moved, unless a unique index forbids it.
LEMMA UpsertRows ==
    ASSUME AgentInv, NEW a \in AgentIds, NEW c \in Contexts, NEW found,
           NEW T, T = Ceded(targets, a, c, found), NEW again \in Lookups(T, c),
           NEW force, NEW auto, Upsert(T, a, c, again, force, auto),
           \A b \in AgentIds : Exists(b) \/ b = a => Exists(b)'
    PROVE  /\ targets' \subseteq TargetRows /\ created' \in Nat /\ RowsOK' /\ TerminalsOK'
           /\ ~outcome'.failed => \E w : BoundAt(w, a, c)
<1>1. created \in Nat /\ c.place \in Places /\ c.session \in Sessions \cup {Absent}
  BY DEF AgentInv, AgentTypeOK, Contexts
<1>2. \A t \in T : /\ t \in targets /\ t \in TargetRows /\ t.id \in Nat /\ t.id <= created
                   /\ t.agent \in AgentIds /\ Exists(t.agent)
  BY CededRows DEF AgentInv, AgentTypeOK, RowsOK, TargetRows
<1>3. \A t \in T : Exists(t.agent)'
  BY <1>2
<1>4. \A t \in T : t.kind = "terminal" /\ t.agent = a => SameIdentity(t, c)
  BY CededRows
<1>5. BackendOf(c.place) \in {"tmux", "iterm2"}
  BY DEF BackendOf
\* An index forbids it.
<1>6. ASSUME targets' = T, created' = created, outcome'.failed
      PROVE  /\ targets' \subseteq TargetRows /\ created' \in Nat /\ RowsOK' /\ TerminalsOK'
             /\ ~outcome'.failed => \E w : BoundAt(w, a, c)
  <2>1. RowsOK' /\ TerminalsOK'
    BY <1>2, <1>3, <1>6 DEF AgentInv, RowsOK, TerminalsOK
  <2> QED BY <1>1, <1>2, <1>6, <2>1
<1>7. CASE /\ again = {} /\ ~Conflicts(Target(a, "terminal", c), T)
           /\ created < MaxTargets /\ created' = created + 1
           /\ targets' = T \cup {Target(a, "terminal", c)}
           /\ Threw(a, c, force, FALSE, auto)
  <2> DEFINE n == Target(a, "terminal", c)
  <2>1. targets' = T \cup {n} /\ created' = created + 1 /\ ~Conflicts(n, T)
    BY <1>7
  <2>2. /\ n \in TargetRows /\ n.id = created + 1 /\ n.kind = "terminal" /\ n.agent = a
        /\ n.place = c.place /\ n.session = c.session /\ n.status = "active"
        /\ n.backend = BackendOf(c.place)
    BY <1>1, <1>5 DEF Target, TargetRows
  <2> HIDE DEF n
  <2>3. /\ created' \in Nat /\ created <= created' /\ n.id <= created' /\ T \subseteq targets
        /\ \A v \in T : v.id # n.id
    BY <1>1, <1>2, <2>1, <2>2
  <2>4. \A t \in targets' : Exists(t.agent)'
    BY <1>3, <2>1, <2>2
  <2>5. targets' \subseteq TargetRows /\ RowsOK' /\ TerminalsOK'
    BY <2>1, <2>2, <2>3, <2>4, RowPut
  <2>6. BoundAt(n, a, c)
    BY <1>4, <2>1, <2>2 DEF BoundAt
  <2> QED BY <2>3, <2>5, <2>6
<1>8. CASE /\ again = {} /\ Conflicts(Target(a, "terminal", c), T)
           /\ created' = created /\ targets' = T
           /\ Threw(a, c, force, TRUE, auto)
  BY <1>6, <1>8 DEF Threw
<1>9. ASSUME NEW t \in again,
             created' = created,
             targets' = IF Conflicts(Heartbeat(t, c), T) THEN T
                        ELSE (T \ {t}) \cup {Heartbeat(t, c)},
             Threw(a, c, force, Conflicts(Heartbeat(t, c), T) \/ t.agent # a, auto)
      PROVE  /\ targets' \subseteq TargetRows /\ created' \in Nat /\ RowsOK' /\ TerminalsOK'
             /\ ~outcome'.failed => \E w : BoundAt(w, a, c)
  <2> DEFINE u == Heartbeat(t, c)
  <2>1. t \in T /\ t.kind = "terminal" /\ t \in TargetRows
    BY <1>2, LookupRows
  <2>2. /\ u \in TargetRows /\ u.id = t.id /\ u.kind = "terminal" /\ u.agent = t.agent
        /\ u.place = c.place /\ u.session = c.session /\ u.status = "active"
        /\ u.backend = t.backend
    BY <1>1, <2>1 DEF Heartbeat, TargetRows
  <2>3. /\ targets' = IF Conflicts(u, T) THEN T ELSE (T \ {t}) \cup {u}
        /\ outcome' = [agent |-> a, context |-> c, force |-> force,
                       failed |-> (Conflicts(u, T) \/ t.agent # a), auto |-> auto]
    BY <1>9 DEF Threw
  <2> HIDE DEF u
  <2>4. CASE Conflicts(u, T)
    BY <1>6, <1>9, <2>3, <2>4
  <2>5. CASE ~Conflicts(u, T)
    <3> DEFINE U == T \ {t}
    <3>1. targets' = U \cup {u} /\ U \subseteq targets
      BY <1>2, <2>3, <2>5
    <3>2. \A v \in U : v.id # u.id
      BY <1>2, <2>1, <2>2 DEF AgentInv, RowsOK
    <3>3. ~Conflicts(u, U)
      BY <2>5 DEF Conflicts
    <3>4. \A v \in targets' : Exists(v.agent)'
      BY <1>3, <2>1, <2>2, <3>1
    <3>5. \A v \in U : v.kind = "terminal" /\ v.agent = a => SameIdentity(v, c)
      BY <1>4
    <3> HIDE DEF U
    <3>6. /\ created' \in Nat /\ created <= created' /\ u.id <= created'
      BY <1>1, <1>2, <1>9, <2>1, <2>2
    <3>7. targets' \subseteq TargetRows /\ RowsOK' /\ TerminalsOK'
      BY <2>2, <3>1, <3>2, <3>3, <3>4, <3>6, RowPut
    <3>8. ~outcome'.failed => BoundAt(u, a, c)
      <4> SUFFICES ASSUME ~outcome'.failed PROVE BoundAt(u, a, c)
        OBVIOUS
      <4>1. t.agent = a
        BY <2>3
      <4>2. SameIdentity(t, c)
        BY <1>4, <2>1, <4>1
      <4>3. c.session = Absent => t.backend = BackendOf(c.place)
        BY <1>5, <4>2 DEF SameIdentity, Same
      <4> QED BY <2>2, <3>1, <3>5, <4>1, <4>3 DEF BoundAt
    <3> QED BY <3>6, <3>7, <3>8
  <2> QED BY <2>4, <2>5
<1> QED BY <1>7, <1>8, <1>9 DEF Upsert

\* Without force no row goes or moves but the agent's own that is the caller's.
LEMMA UnforcedRows ==
    ASSUME AgentInv, NEW a \in AgentIds, NEW c \in Contexts, NEW auto,
           RegisterAs(a, c, FALSE, auto)
    PROVE  \A t \in targets \ targets' : t.agent = a /\ SameIdentity(t, c)
<1>1. PICK found \in Lookups(targets, c) :
         IF Refused(a, c, FALSE, found)
         THEN Threw(a, c, FALSE, TRUE, auto) /\ UNCHANGED <<agents, targets, created>>
         ELSE LET T == Ceded(targets, a, c, found)
              IN  /\ agents' = Enrolled(Reduced(found, a), a, c)
                  /\ \E again \in IF found # {} /\ found \subseteq T THEN {found}
                                  ELSE Lookups(T, c) :
                        Upsert(T, a, c, again, FALSE, auto)
  BY DEF RegisterAs
<1>2. CASE Refused(a, c, FALSE, found)
  BY <1>1, <1>2
<1>3. CASE ~Refused(a, c, FALSE, found)
  <2>1. Taken(found, a) = {} /\ Foreign(targets, a, c) = {}
    BY <1>3 DEF Refused
  <2>2. Ceded(targets, a, c, found) = targets
    BY <2>1 DEF Ceded
  <2>3. PICK again \in IF found # {} /\ found \subseteq targets THEN {found}
                       ELSE Lookups(targets, c) :
           Upsert(targets, a, c, again, FALSE, auto)
    BY <1>1, <1>3, <2>2
  <2>4. again = found
    <3>1. CASE found = {}
      <4>1. Lookups(targets, c) = {{}}
        BY <3>1, LookupRows
      <4> QED BY <2>3, <3>1, <4>1
    <3>2. CASE found # {}
      <4>1. found \subseteq targets
        BY LookupRows
      <4> QED BY <2>3, <3>2, <4>1
    <3> QED BY <3>1, <3>2
  <2>5. \A t \in found : t \in targets /\ t.kind = "terminal" /\ t.agent = a
    BY <2>1, LookupRows DEF Taken
  <2>6. \A t \in found : SameIdentity(t, c)
    BY <2>1, <2>5 DEF Foreign, Of
  <2>7. targets \ targets' \subseteq found
    BY <2>3, <2>4 DEF Upsert
  <2> QED BY <2>5, <2>6, <2>7
<1> QED BY <1>2, <1>3

\* The whole of it, refused or not.
LEMMA RegisterStep ==
    ASSUME AgentInv, NEW a \in AgentIds, NEW c \in Contexts, NEW force \in BOOLEAN,
           NEW auto \in BOOLEAN, RegisterAs(a, c, force, auto), ops' \in Nat,
           UNCHANGED <<flights, clock>>
    PROVE  /\ AgentInv'
           /\ outcome'.agent = a /\ outcome'.context = c
           /\ outcome'.auto = auto /\ outcome'.force = force
           /\ ~outcome'.failed =>
                 /\ \E w : BoundAt(w, a, c)
                 /\ agents'[a].status = "active" /\ agents'[a].session = c.session
<1> DEFINE outcomes == [agent : AgentIds, context : Contexts, force : BOOLEAN,
                        failed : BOOLEAN, auto : BOOLEAN]
<1>0. /\ agents \in [AgentIds -> AgentRows] /\ clock \in Nat /\ created \in Nat
      /\ targets \subseteq TargetRows
  BY DEF AgentInv, AgentTypeOK
<1>f. PICK found \in Lookups(targets, c) :
         IF Refused(a, c, force, found)
         THEN Threw(a, c, force, TRUE, auto) /\ UNCHANGED <<agents, targets, created>>
         ELSE LET T == Ceded(targets, a, c, found)
              IN  /\ agents' = Enrolled(Reduced(found, a), a, c)
                  /\ \E again \in IF found # {} /\ found \subseteq T THEN {found}
                                  ELSE Lookups(T, c) :
                        Upsert(T, a, c, again, force, auto)
  BY DEF RegisterAs
<1>1. CASE Refused(a, c, force, found)
  <2>1. /\ outcome' = [agent |-> a, context |-> c, force |-> force, failed |-> TRUE,
                       auto |-> auto]
        /\ UNCHANGED <<agents, targets, created>>
    BY <1>f, <1>1 DEF Threw
  <2>2. outcome' \in outcomes
    BY <2>1
  <2> QED BY <2>1, <2>2 DEF AgentInv, AgentTypeOK, RowsOK, TerminalsOK, Exists
<1>2. CASE ~Refused(a, c, force, found)
  <2> DEFINE T == Ceded(targets, a, c, found)
             A == Reduced(found, a)
  <2>1. /\ agents' = Enrolled(A, a, c)
        /\ \E again \in IF found # {} /\ found \subseteq T THEN {found} ELSE Lookups(T, c) :
              Upsert(T, a, c, again, force, auto)
    BY <1>f, <1>2
  <2>2. /\ A \in [AgentIds -> AgentRows]
        /\ \A b \in AgentIds : agents[b].status # "none" => A[b].status # "none"
    BY <1>0, ReconciledRows DEF Reduced
  <2>t. T = Ceded(targets, a, c, found)
    OBVIOUS
  <2> HIDE DEF T, A
  <2>3. c.session \in Sessions \cup {Absent}
    BY DEF Contexts
  <2>4. /\ agents' \in [AgentIds -> AgentRows]
        /\ agents'[a].status = "active" /\ agents'[a].session = c.session
        /\ \A b \in AgentIds : A[b].status # "none" => agents'[b].status # "none"
    BY <2>1, <2>2, <2>3, EnrolledRows
  <2>5. \A b \in AgentIds : Exists(b) \/ b = a => Exists(b)'
    BY <2>2, <2>4 DEF Exists
  \* A row that was found and is still there is one that may be found.
  <2>6. PICK again \in Lookups(T, c) \cup {found} :
           /\ Upsert(T, a, c, again, force, auto)
           /\ again = found => (found # {} /\ found \subseteq T) \/ found \in Lookups(T, c)
    BY <2>1
  <2>7. again \in Lookups(T, c)
    <3> SUFFICES ASSUME again = found, found # {}, found \subseteq T PROVE found \in Lookups(T, c)
      BY <2>6
    <3>1. PICK t \in targets : found = {t} /\ t \in Existing(targets, c) /\ t \in T
      BY LookupRows DEF Lookups
    <3>2. T \subseteq targets
      BY <2>t, CededRows
    <3>3. t \in Existing(T, c)
      BY <3>1, <3>2 DEF Existing
    <3> QED BY <3>1, <3>3 DEF Lookups
  <2>8. /\ targets' \subseteq TargetRows /\ created' \in Nat /\ RowsOK' /\ TerminalsOK'
        /\ ~outcome'.failed => \E w : BoundAt(w, a, c)
    BY <2>5, <2>6, <2>7, <2>t, UpsertRows
  <2>9. PICK failed \in BOOLEAN : outcome' = [agent |-> a, context |-> c, force |-> force,
                                              failed |-> failed, auto |-> auto]
    <3>1. \A t : (Conflicts(Heartbeat(t, c), T) \/ t.agent # a) \in BOOLEAN
      OBVIOUS
    <3> QED BY <2>6, <3>1 DEF Upsert, Threw
  <2>10. outcome' \in outcomes
    BY <2>9
  <2>11. AgentTypeOK'
    BY <1>0, <2>4, <2>8, <2>10 DEF AgentInv, AgentTypeOK
  <2> QED BY <2>4, <2>8, <2>9, <2>11 DEF AgentInv
<1> QED BY <1>1, <1>2

-----------------------------------------------------------------------------
(* Every step *)

\* What a step that registers no terminal leaves to be shown.
LEMMA OtherStep ==
    ASSUME AgentInv, Other, agents' \in [AgentIds -> AgentRows], targets' \subseteq TargetRows,
           flights' \subseteq [kind : {"dispatch", "resume"}, target : TargetRows],
           {clock', created', ops'} \subseteq Nat, RowsOK', TerminalsOK'
    PROVE  AgentInv'
BY DEF AgentInv, AgentTypeOK, Other

LEMMA AgentStep == AgentInv /\ [AgentNext]_agentVars => AgentInv'
<1> SUFFICES ASSUME AgentInv, [AgentNext]_agentVars PROVE AgentInv'
  OBVIOUS
<1> DEFINE Flight == [kind : {"dispatch", "resume"}, target : TargetRows]
<1>0. /\ agents \in [AgentIds -> AgentRows] /\ targets \subseteq TargetRows
      /\ flights \subseteq Flight /\ clock \in Nat /\ created \in Nat /\ ops \in Nat
      /\ created <= created /\ created <= created + 1
  BY DEF AgentInv, AgentTypeOK
<1>i. \A t, u \in targets : t.id = u.id => t = u
  BY DEF AgentInv, RowsOK
<1>a. \A t \in targets : t.agent \in AgentIds /\ agents[t.agent].status # "none"
  BY <1>0 DEF AgentInv, RowsOK, Exists, TargetRows
\* Where the rows are the same the agents only must stay.
<1>s. ASSUME UNCHANGED <<targets, created>>, agents' \in [AgentIds -> AgentRows],
             \A b \in AgentIds : agents[b].status # "none" => agents'[b].status # "none"
      PROVE  RowsOK' /\ TerminalsOK'
  BY <1>a, <1>s DEF AgentInv, RowsOK, TerminalsOK, Exists
<1>1. ASSUME NEW c \in Contexts, NEW force \in BOOLEAN, Register(c, force) PROVE AgentInv'
  <2>1. ops' \in Nat /\ UNCHANGED <<flights, clock>>
    BY <1>0, <1>1 DEF Register
  <2>2. PICK auto \in BOOLEAN : \E a \in AgentIds : RegisterAs(a, c, force, auto)
    BY <1>1, NamesAreAgents DEF Register
  <2> QED BY <2>1, <2>2, RegisterStep
<1>2. ASSUME NEW a \in AgentIds, RegisterWebhook(a) PROVE AgentInv'
  <2>1. agents' = Enrolled(agents, a, NoContext) /\ NoContext.session \in Sessions \cup {Absent}
    BY <1>2 DEF RegisterWebhook, NoContext
  <2>2. /\ agents' \in [AgentIds -> AgentRows] /\ agents'[a].status = "active"
        /\ \A b \in AgentIds : agents[b].status # "none" => agents'[b].status # "none"
    BY <1>0, <2>1, EnrolledRows
  <2>3. Other /\ ops' \in Nat /\ UNCHANGED <<flights, clock>>
    BY <1>0, <1>2 DEF RegisterWebhook
  <2>4. CASE \E t \in Of(targets, a, "webhook") :
                /\ targets' = {u \in targets : u.agent # a} \cup {[t EXCEPT !.status = "active"]}
                /\ created' = created
    <3>1. PICK t \in targets :
             /\ t.agent = a
             /\ targets' = {u \in targets : u.agent # a} \cup {[t EXCEPT !.status = "active"]}
             /\ created' = created
      BY <2>4 DEF Of
    <3> DEFINE w == [t EXCEPT !.status = "active"]
    <3>2. /\ w \in TargetRows /\ w.id = t.id /\ w.agent = t.agent /\ w.kind = t.kind
          /\ w.session = t.session /\ w.place = t.place
      BY <1>0, <3>1 DEF TargetRows
    <3> HIDE DEF w
    <3>3. targets' = {u \in targets : u.agent # a} \cup {w}
      BY <3>1 DEF w
    <3>4. targets' \subseteq TargetRows /\ \A x \in targets' : Exists(x.agent)'
      BY <1>0, <1>a, <2>2, <3>1, <3>2, <3>3 DEF Exists
    <3>5. \A x, y \in targets' : x.id = y.id => x = y
      BY <1>i, <3>1, <3>2, <3>3
    <3>6. RowsOK' /\ TerminalsOK'
      <4>1. \A x \in targets' : \E u \in targets :
                /\ x.id = u.id /\ x.agent = u.agent /\ x.kind = u.kind
                /\ x.session = u.session /\ x.place = u.place
        BY <3>1, <3>2, <3>3
      <4> QED BY <1>0, <3>1, <3>4, <3>5, <4>1, RowsKept
    <3> QED BY <1>0, <2>2, <2>3, <3>1, <3>4, <3>6, OtherStep
  <2>5. CASE /\ created' = created + 1
             /\ targets' = {u \in targets : u.agent # a} \cup {Target(a, "webhook", NoContext)}
    <3>1. Target(a, "webhook", NoContext).agent = a
      BY DEF Target
    <3>2. \A x \in targets' : Exists(x.agent)'
      BY <1>a, <2>2, <2>5, <3>1 DEF Exists
    <3>3. targets' \subseteq TargetRows /\ created' \in Nat /\ RowsOK' /\ TerminalsOK'
      <4> DEFINE T == {u \in targets : u.agent # a}
      <4>1. T \in SUBSET targets /\ targets' = T \cup {Target(a, "webhook", NoContext)}
        BY <2>5
      <4> HIDE DEF T
      <4> QED BY <2>5, <3>2, <4>1, WebhookAdded
    <3> QED BY <1>0, <2>2, <2>3, <3>3, OtherStep
  <2> QED BY <1>2, <2>4, <2>5 DEF RegisterWebhook
<1>3. ASSUME NEW a \in AgentIds, AddWebhook(a) PROVE AgentInv'
  <2>1. /\ targets' = targets \cup {Target(a, "webhook", NoContext)} /\ created' = created + 1
        /\ agents' = Online(agents, a) /\ Other /\ ops' \in Nat /\ UNCHANGED <<flights, clock>>
        /\ agents[a].status # "none"
    BY <1>0, <1>3 DEF AddWebhook, Exists
  <2>2. /\ agents' \in [AgentIds -> AgentRows]
        /\ \A b \in AgentIds : agents[b].status # "none" => agents'[b].status # "none"
    BY <1>0, <2>1, OnlineRows
  <2>3. Target(a, "webhook", NoContext).agent = a
    BY DEF Target
  <2>4. \A x \in targets' : Exists(x.agent)'
    BY <1>a, <2>1, <2>2, <2>3 DEF Exists
  <2>5. targets' \subseteq TargetRows /\ created' \in Nat /\ RowsOK' /\ TerminalsOK'
    BY <2>1, <2>4, WebhookAdded
  <2> QED BY <1>0, <2>1, <2>2, <2>5, OtherStep
<1>4. ASSUME NEW t \in targets, UpdateWebhook(t) PROVE AgentInv'
  <2> DEFINE w == [t EXCEPT !.status = "active"]
  <2>1. /\ targets' = (targets \ {t}) \cup {w} /\ Other /\ ops' \in Nat
        /\ UNCHANGED <<agents, flights, clock, created>>
    BY <1>0, <1>4 DEF UpdateWebhook
  <2>2. /\ w \in TargetRows /\ w.id = t.id /\ w.agent = t.agent /\ w.kind = t.kind
        /\ w.session = t.session /\ w.place = t.place
    BY <1>0 DEF TargetRows
  <2> HIDE DEF w
  <2>3. targets' \subseteq TargetRows /\ \A x \in targets' : Exists(x.agent)'
    BY <1>0, <1>a, <2>1, <2>2 DEF Exists
  <2>4. \A x, y \in targets' : x.id = y.id => x = y
    BY <1>i, <2>1, <2>2
  <2>5. \A x \in targets' : \E u \in targets :
            /\ x.id = u.id /\ x.agent = u.agent /\ x.kind = u.kind
            /\ x.session = u.session /\ x.place = u.place
    BY <2>1, <2>2
  <2>6. RowsOK' /\ TerminalsOK'
    BY <1>0, <2>1, <2>3, <2>4, <2>5, RowsKept
  <2> QED BY <1>0, <2>1, <2>3, <2>6, OtherStep
<1>5. ASSUME NEW t \in targets, RemoveTarget(t) PROVE AgentInv'
  <2>1. /\ targets' = targets \ {t} /\ Other /\ ops' \in Nat
        /\ UNCHANGED <<flights, clock, created>>
    BY <1>0, <1>5 DEF RemoveTarget
  <2>2. PICK T : agents' = Reconciled(agents, T, t.agent)
    BY <1>5 DEF RemoveTarget
  <2>3. /\ agents' \in [AgentIds -> AgentRows]
        /\ \A b \in AgentIds : agents[b].status # "none" => agents'[b].status # "none"
    BY <1>0, <2>2, ReconciledRows
  <2>4. RowsOK' /\ TerminalsOK'
    BY <1>a, <2>1, <2>3 DEF AgentInv, RowsOK, TerminalsOK, Exists
  <2> QED BY <1>0, <2>1, <2>3, <2>4, OtherStep
<1>6. ASSUME NEW t \in targets, Dispatch(t) PROVE AgentInv'
  <2>1. /\ flights' = flights \cup {[kind |-> "dispatch", target |-> t]} /\ Other
        /\ UNCHANGED <<agents, targets, clock, created, ops>>
    BY <1>6 DEF Dispatch
  <2>2. flights' \subseteq Flight
    BY <1>0, <2>1
  <2>3. RowsOK' /\ TerminalsOK'
    BY <1>0, <1>s, <2>1
  <2> QED BY <1>0, <2>1, <2>2, <2>3, OtherStep
<1>7. ASSUME NEW t \in targets, ResumeTarget(t) PROVE AgentInv'
  <2>1. ops' \in Nat /\ Other /\ UNCHANGED <<clock, created>>
    BY <1>0, <1>7 DEF ResumeTarget
  <2>2. CASE /\ targets' = (targets \ {t}) \cup {[t EXCEPT !.status = "active"]}
             /\ agents' = Online(agents, t.agent)
             /\ UNCHANGED flights
    <3> DEFINE w == [t EXCEPT !.status = "active"]
    <3>1. /\ w \in TargetRows /\ w.id = t.id /\ w.agent = t.agent /\ w.kind = t.kind
          /\ w.session = t.session /\ w.place = t.place
      BY <1>0 DEF TargetRows
    <3>2. targets' = (targets \ {t}) \cup {w}
      BY <2>2
    <3> HIDE DEF w
    <3>3. /\ agents' \in [AgentIds -> AgentRows]
          /\ \A b \in AgentIds : agents[b].status # "none" => agents'[b].status # "none"
      BY <1>0, <2>2, OnlineRows
    <3>4. targets' \subseteq TargetRows /\ \A x \in targets' : Exists(x.agent)'
      BY <1>0, <1>a, <3>1, <3>2, <3>3 DEF Exists
    <3>5. \A x, y \in targets' : x.id = y.id => x = y
      BY <1>i, <3>1, <3>2
    <3>6. \A x \in targets' : \E u \in targets :
              /\ x.id = u.id /\ x.agent = u.agent /\ x.kind = u.kind
              /\ x.session = u.session /\ x.place = u.place
      BY <3>1, <3>2
    <3>7. RowsOK' /\ TerminalsOK'
      BY <1>0, <2>1, <3>4, <3>5, <3>6, RowsKept
    <3> QED BY <1>0, <2>1, <2>2, <3>3, <3>4, <3>7, OtherStep
  <2>3. CASE /\ flights' = flights \cup {[kind |-> "resume", target |-> t]}
             /\ UNCHANGED <<agents, targets>>
    <3>1. flights' \subseteq Flight
      BY <1>0, <2>3
    <3>2. RowsOK' /\ TerminalsOK'
      BY <1>0, <1>s, <2>1, <2>3
    <3> QED BY <1>0, <2>1, <2>3, <3>1, <3>2, OtherStep
  <2> QED BY <1>7, <2>2, <2>3 DEF ResumeTarget
\* A flight that comes back.
<1>l. ASSUME NEW f \in flights, NEW status \in {"active", "offline"}, SetStatus(f, status),
             agents' \in [AgentIds -> AgentRows],
             \A b \in AgentIds : agents[b].status # "none" => agents'[b].status # "none",
             Land(f), Other, UNCHANGED <<clock, created, ops>>
      PROVE  AgentInv'
  <2>1. flights' \subseteq Flight
    BY <1>0, <1>l DEF Land
  <2>2. /\ targets' \subseteq TargetRows
        /\ \A t \in targets' : \E u \in targets :
              /\ t.id = u.id /\ t.agent = u.agent /\ t.kind = u.kind
              /\ t.session = u.session /\ t.place = u.place
        /\ \A t, u \in targets' : t.id = u.id => t = u
    BY <1>l, StatusSet
  <2>3. \A x \in targets' : Exists(x.agent)'
    BY <1>a, <1>l, <2>2 DEF Exists
  <2>4. RowsOK' /\ TerminalsOK'
    BY <1>0, <1>l, <2>2, <2>3, RowsKept
  <2> QED BY <1>0, <1>l, <2>1, <2>2, <2>4, OtherStep
<1>8. ASSUME NEW f \in flights, Lost(f) PROVE AgentInv'
  <2>1. Land(f) /\ Other /\ UNCHANGED <<agents, targets, clock, created, ops>>
    BY <1>8 DEF Lost
  <2>2. flights' \subseteq Flight
    BY <1>0, <2>1 DEF Land
  <2>3. RowsOK' /\ TerminalsOK'
    BY <1>0, <1>s, <2>1
  <2> QED BY <1>0, <2>1, <2>2, <2>3, OtherStep
<1>9. ASSUME NEW f \in flights, Succeeds(f) PROVE AgentInv'
  BY <1>0, <1>9, <1>l, OnlineRows DEF Succeeds
<1>10. ASSUME NEW f \in flights, Gone(f) PROVE AgentInv'
  <2>1. PICK T : agents' = Reconciled(agents, T, f.target.agent)
    BY <1>10 DEF Gone
  <2>2. /\ agents' \in [AgentIds -> AgentRows]
        /\ \A b \in AgentIds : agents[b].status # "none" => agents'[b].status # "none"
    BY <1>0, <2>1, ReconciledRows
  <2> QED BY <1>10, <1>l, <2>2 DEF Gone
<1>11. ASSUME NEW f \in flights, FailsForNow(f) PROVE AgentInv'
  <2>1. Land(f) /\ Other /\ UNCHANGED <<clock, created, ops>>
    BY <1>11 DEF FailsForNow
  <2>2. CASE f.kind = "dispatch"
    BY <1>0, <1>11, <1>l, <2>1, <2>2 DEF FailsForNow
  <2>3. CASE f.kind # "dispatch"
    <3>1. UNCHANGED targets /\ agents' = Reconciled(agents, targets, f.target.agent)
      BY <1>11, <2>3 DEF FailsForNow
    <3>2. /\ agents' \in [AgentIds -> AgentRows]
          /\ \A b \in AgentIds : agents[b].status # "none" => agents'[b].status # "none"
      BY <1>0, <3>1, ReconciledRows
    <3>3. flights' \subseteq Flight
      BY <1>0, <2>1 DEF Land
    <3>4. RowsOK' /\ TerminalsOK'
      BY <1>s, <2>1, <3>1, <3>2
    <3> QED BY <1>0, <2>1, <3>1, <3>2, <3>3, <3>4, OtherStep
  <2> QED BY <2>2, <2>3
\* Agents that go take their rows with them.
<1>w. ASSUME NEW gone, Without(gone), Other, ops' \in Nat, UNCHANGED <<flights, clock, created>>
      PROVE  AgentInv'
  <2>1. /\ agents' = [a \in AgentIds |-> IF a \in gone THEN NoAgent ELSE agents[a]]
        /\ targets' = {t \in targets : t.agent \notin gone}
    BY <1>w DEF Without
  <2>2. NoAgent \in AgentRows
    BY DEF NoAgent, AgentRows
  <2>3. agents' \in [AgentIds -> AgentRows]
    BY <1>0, <2>1, <2>2
  <2>4. targets' \subseteq TargetRows /\ RowsOK' /\ TerminalsOK'
    BY <1>0, <1>a, <1>w, <2>1 DEF AgentInv, RowsOK, TerminalsOK, Exists
  <2> QED BY <1>0, <1>w, <2>3, <2>4, OtherStep
<1>12. ASSUME NEW a \in AgentIds, RemoveAgent(a) PROVE AgentInv'
  BY <1>0, <1>12, <1>w DEF RemoveAgent
<1>13. CASE Gc
  BY <1>0, <1>13, <1>w DEF Gc
<1>14. CASE Tick
  <2>1. clock' \in Nat /\ Other /\ UNCHANGED <<agents, targets, flights, created, ops>>
    BY <1>0, <1>14 DEF Tick
  <2>2. RowsOK' /\ TerminalsOK'
    BY <1>0, <1>s, <2>1
  <2> QED BY <1>0, <2>1, <2>2, OtherStep
<1>15. CASE UNCHANGED agentVars
  BY <1>15 DEF agentVars, AgentInv, AgentTypeOK, RowsOK, TerminalsOK, Exists
<1> QED
  BY <1>1, <1>2, <1>3, <1>4, <1>5, <1>6, <1>7, <1>8, <1>9, <1>10, <1>11, <1>12, <1>13, <1>14,
     <1>15 DEF AgentNext

-----------------------------------------------------------------------------
\* A step that registers somebody is a registration from a terminal.
LEMMA RegistersBy ==
    ASSUME [AgentNext]_agentVars, Registers
    PROVE  \E c \in Contexts, force \in BOOLEAN : Register(c, force)
<1>1. ~UNCHANGED agentVars
  BY DEF Registers, agentVars
<1> QED
  BY <1>1 DEF Registers, AgentNext, Other, RegisterWebhook, AddWebhook, UpdateWebhook,
              RemoveTarget, Dispatch, ResumeTarget, Lost, Succeeds, Gone, FailsForNow,
              RemoveAgent, Gc, Tick

\* Nobody else has the pane, the window or the session of who registered; what else its
\* agent has is an iTerm row of the same tty.
LEMMA BoundRow ==
    ASSUME TerminalsOK', NEW w, NEW a, NEW c, BoundAt(w, a, c),
           NEW u \in targets' \ {w}, u.kind = "terminal"
    PROVE  /\ ~Same(c.place.pane, u.place.pane)
           /\ ~Same(c.place.window, u.place.window)
           /\ ~Same(c.session, u.session)
           /\ u.agent = a => /\ BackendOf(c.place) = "iterm2" /\ u.backend = "iterm2"
                             /\ Same(c.place.tty, u.place.tty)
<1>1. /\ ~Same(w.session, u.session)
      /\ ~Same(w.place.pane, u.place.pane)
      /\ ~Same(w.place.window, u.place.window)
  BY DEF BoundAt, TerminalsOK
<1>2. w.place = c.place /\ w.session = c.session
  BY DEF BoundAt
<1>3. ASSUME u.agent = a
      PROVE  /\ BackendOf(c.place) = "iterm2" /\ u.backend = "iterm2"
             /\ Same(c.place.tty, u.place.tty)
  <2>1. SameIdentity(u, c)
    BY <1>3 DEF BoundAt
  <2>2. BackendOf(c.place) = "tmux" => c.place.pane # Absent
    BY DEF BackendOf
  <2> QED BY <1>1, <1>2, <2>1, <2>2 DEF SameIdentity, Same
<1> QED BY <1>1, <1>2, <1>3

\* What the terminal of who registered takes itself for.
LEMMA BoundSeen ==
    ASSUME TerminalsOK', NEW a \in AgentIds, NEW c \in Contexts, NEW w, BoundAt(w, a, c),
           agents'[a].status = "active", agents'[a].session = c.session,
           outcome'.context = c
    PROVE  /\ a \in SeenAs'
           /\ w.backend = BackendOf(c.place)
                 /\ (c.place.pane # Absent \/ c.place.window # Absent) => SeenAs' = {a}
<1> DEFINE byPane == {t \in Live' : t.backend = "tmux" /\ Same(c.place.pane, t.place.pane)}
           byWindow == {t \in Live' : t.backend = "iterm2" /\ Same(c.place.window, t.place.window)}
           byTty == {t \in Live' : Same(c.place.tty, t.place.tty)}
           bySession == {t \in Live' : Same(c.session, t.session)}
           seen == CASE byPane # {} -> Holders(byPane)
                     [] byPane = {} /\ byWindow # {} -> Holders(byWindow)
                     [] byPane = {} /\ byWindow = {} /\ byTty # {} -> Holders(byTty)
                     [] OTHER -> Holders(bySession) \cup
                                 {b \in AgentIds : /\ agents'[b].status = "active"
                                                  /\ Same(c.session, agents'[b].session)}
<1>1. SeenAs' = seen
  BY DEF SeenAs, Current
<1>2. w \in Live' /\ w.place = c.place /\ w.session = c.session /\ w.agent = a
  BY DEF Live, BoundAt
<1>3. \A t \in Live' : t \in targets' /\ t.kind = "terminal"
  BY DEF Live
<1>4. \A t \in Live' \ {w} : /\ ~Same(c.place.pane, t.place.pane)
                             /\ ~Same(c.place.window, t.place.window)
  BY <1>3, BoundRow
<1>5. byPane \subseteq {w} /\ byWindow \subseteq {w}
  BY <1>4
<1>6. w.backend = BackendOf(c.place) \/ c.session # Absent
  BY DEF BoundAt
<1>7. c.place.pane # Absent /\ w.backend = BackendOf(c.place) => w \in byPane
  BY <1>2 DEF BackendOf, Same
<1>8. c.place.pane = Absent /\ c.place.window # Absent /\ w.backend = BackendOf(c.place)
        => w \in byWindow /\ byPane = {}
  BY <1>2 DEF BackendOf, Same
<1>9. c.place.tty # Absent => w \in byTty
  BY <1>2 DEF Same
<1>10. c.session # Absent => Same(c.session, agents'[a].session)
  BY DEF Same
<1>11. c.place.pane # Absent \/ c.place.window # Absent \/ c.place.tty # Absent
  BY AgentAssumption DEF Contexts
<1>12. \A T : w \in T => a \in Holders(T)
  BY <1>2 DEF Holders
<1>13. Holders({w}) = {a}
  BY <1>2 DEF Holders
<1> HIDE DEF byPane, byWindow, byTty, bySession
<1>14. CASE byPane # {}
  <2>1. byPane = {w}
    BY <1>5, <1>14
  <2> QED BY <1>1, <1>13, <1>14, <2>1
<1>15. CASE byPane = {} /\ byWindow # {}
  <2>1. byWindow = {w}
    BY <1>5, <1>15
  <2> QED BY <1>1, <1>13, <1>15, <2>1
<1>16. CASE byPane = {} /\ byWindow = {} /\ byTty # {}
  <2>1. SeenAs' = Holders(byTty)
    BY <1>1, <1>16
  <2>2. w \in byTty
    <3> SUFFICES c.place.tty # Absent
      BY <1>9
    <3>1. \E t : t \in byTty
      BY <1>16
    <3> QED BY <3>1 DEF byTty, Same
  <2> QED BY <1>7, <1>8, <1>12, <1>16, <2>1, <2>2
<1>17. CASE byPane = {} /\ byWindow = {} /\ byTty = {}
  <2>1. c.place.tty = Absent
    BY <1>9, <1>17
  <2>2. w.backend # BackendOf(c.place)
    BY <1>7, <1>8, <1>11, <1>17, <2>1
  <2>3. Same(c.session, agents'[a].session)
    BY <1>6, <1>10, <2>2
  <2>4. a \in SeenAs'
    BY <1>1, <1>17, <2>3
  <2> QED BY <2>2, <2>4
<1> QED BY <1>14, <1>15, <1>16, <1>17

LEMMA RegisterBinds == AgentInv /\ [AgentNext]_agentVars =>
    /\ Binds =>
          LET o == outcome'
              c == o.context
              T == {t \in targets' : t.kind = "terminal"}
          IN  /\ \E t \in T :
                    /\ t.agent = o.agent /\ t.status = "active"
                    /\ t.place = c.place /\ t.session = c.session
                    /\ \A u \in T \ {t} :
                          /\ ~Same(c.place.pane, u.place.pane)
                          /\ ~Same(c.place.window, u.place.window)
                          /\ ~Same(c.session, u.session)
                          /\ u.agent = o.agent =>
                                /\ BackendOf(c.place) = "iterm2" /\ u.backend = "iterm2"
                                /\ Same(c.place.tty, u.place.tty)
                    /\ t.backend = BackendOf(c.place)
                          /\ (c.place.pane # Absent \/ c.place.window # Absent)
                       => SeenAs' = {o.agent}
              /\ o.agent \in SeenAs'
    /\ Binds /\ outcome'.auto =>
          LET T == Of(targets, outcome'.agent, "terminal")
          IN  T = {} \/ \E t \in T : SameIdentity(t, outcome'.context)
    /\ Registers /\ ~outcome'.force =>
          \A t \in targets \ targets' :
              t.agent = outcome'.agent /\ SameIdentity(t, outcome'.context)
<1> SUFFICES ASSUME AgentInv, [AgentNext]_agentVars, Registers
             PROVE  /\ Binds =>
                          LET o == outcome'
                              c == o.context
                              T == {t \in targets' : t.kind = "terminal"}
                          IN  /\ \E t \in T :
                                    /\ t.agent = o.agent /\ t.status = "active"
                                    /\ t.place = c.place /\ t.session = c.session
                                    /\ \A u \in T \ {t} :
                                          /\ ~Same(c.place.pane, u.place.pane)
                                          /\ ~Same(c.place.window, u.place.window)
                                          /\ ~Same(c.session, u.session)
                                          /\ u.agent = o.agent =>
                                                /\ BackendOf(c.place) = "iterm2"
                                                /\ u.backend = "iterm2"
                                                /\ Same(c.place.tty, u.place.tty)
                                    /\ t.backend = BackendOf(c.place)
                                          /\ (c.place.pane # Absent \/ c.place.window # Absent)
                                       => SeenAs' = {o.agent}
                              /\ o.agent \in SeenAs'
                    /\ outcome'.auto =>
                          LET T == Of(targets, outcome'.agent, "terminal")
                          IN  T = {} \/ \E t \in T : SameIdentity(t, outcome'.context)
                    /\ ~outcome'.force =>
                          \A t \in targets \ targets' :
                              t.agent = outcome'.agent /\ SameIdentity(t, outcome'.context)
  BY DEF Binds
<1>1. PICK c \in Contexts, force \in BOOLEAN : Register(c, force)
  BY RegistersBy
<1>2. PICK auto \in BOOLEAN, a \in AgentIds :
         RegisterAs(a, c, force, auto) /\ (auto => a \in AutoId(c))
  BY <1>1, NamesAreAgents DEF Register
<1>3. ops' \in Nat /\ UNCHANGED <<flights, clock>>
  BY <1>1 DEF Register, AgentInv, AgentTypeOK
<1>4. /\ AgentInv' /\ outcome'.agent = a /\ outcome'.context = c
      /\ outcome'.auto = auto /\ outcome'.force = force
      /\ ~outcome'.failed => /\ \E w : BoundAt(w, a, c)
                             /\ agents'[a].status = "active" /\ agents'[a].session = c.session
  BY <1>2, <1>3, RegisterStep
<1> DEFINE T == {t \in targets' : t.kind = "terminal"}
<1>5. ASSUME Binds
      PROVE  /\ \E t \in T :
                   /\ t.agent = a /\ t.status = "active"
                   /\ t.place = c.place /\ t.session = c.session
                   /\ \A u \in T \ {t} :
                         /\ ~Same(c.place.pane, u.place.pane)
                         /\ ~Same(c.place.window, u.place.window)
                         /\ ~Same(c.session, u.session)
                         /\ u.agent = a => /\ BackendOf(c.place) = "iterm2"
                                           /\ u.backend = "iterm2"
                                           /\ Same(c.place.tty, u.place.tty)
                   /\ t.backend = BackendOf(c.place)
                         /\ (c.place.pane # Absent \/ c.place.window # Absent)
                      => SeenAs' = {a}
             /\ a \in SeenAs'
  <2>1. PICK w : BoundAt(w, a, c)
    BY <1>4, <1>5 DEF Binds
  <2>2. agents'[a].status = "active" /\ agents'[a].session = c.session
    BY <1>4, <1>5 DEF Binds
  <2>3. TerminalsOK'
    BY <1>4 DEF AgentInv
  <2>4. \A u \in T \ {w} :
           /\ ~Same(c.place.pane, u.place.pane)
           /\ ~Same(c.place.window, u.place.window)
           /\ ~Same(c.session, u.session)
           /\ u.agent = a => /\ BackendOf(c.place) = "iterm2" /\ u.backend = "iterm2"
                             /\ Same(c.place.tty, u.place.tty)
    BY <2>1, <2>3, BoundRow
  <2>5. /\ a \in SeenAs'
        /\ w.backend = BackendOf(c.place)
              /\ (c.place.pane # Absent \/ c.place.window # Absent) => SeenAs' = {a}
    BY <1>4, <2>1, <2>2, <2>3, BoundSeen
  <2>6. /\ w \in T /\ w.agent = a /\ w.status = "active"
        /\ w.place = c.place /\ w.session = c.session
    BY <2>1 DEF BoundAt
  <2> QED BY <2>4, <2>5, <2>6
<1>6. auto => Of(targets, a, "terminal") = {}
                 \/ \E t \in Of(targets, a, "terminal") : SameIdentity(t, c)
  BY <1>2, NamesAreAgents
<1>7. ~force => \A t \in targets \ targets' : t.agent = a /\ SameIdentity(t, c)
  <2> SUFFICES ASSUME force = FALSE
               PROVE  \A t \in targets \ targets' : t.agent = a /\ SameIdentity(t, c)
    OBVIOUS
  <2> QED BY <1>2, UnforcedRows
<1> QED BY <1>4, <1>5, <1>6, <1>7

\* Whatever agents register, move, go offline, are removed or collected, and whatever state
\* dispatches and resumes write late: a row is of an agent that is there, and two terminals
\* never share a session, a pane or a window, though they may share a tty.
THEOREM AgentInvariance == AgentSpec => []AgentInv
BY AgentInitOK, AgentStep, PTL DEF AgentSpec

\* A registration that succeeds leaves its agent a row of that terminal, whose pane, window
\* and session nobody else has; who has a pane or a window takes itself for that agent only,
\* who has a tty only at least for that agent too.  An agent registered under a tried name
\* displaces nobody, and who is not forced takes no row of another agent, even where it fails.
THEOREM RegistrationsBind == AgentSpec => BindingsAreSound
<1>1. AgentInv /\ [AgentNext]_agentVars =>
         [Binds =>
          LET o == outcome'
              c == o.context
              T == {t \in targets' : t.kind = "terminal"}
          IN  /\ \E t \in T :
                    /\ t.agent = o.agent /\ t.status = "active"
                    /\ t.place = c.place /\ t.session = c.session
                    /\ \A u \in T \ {t} :
                          /\ ~Same(c.place.pane, u.place.pane)
                          /\ ~Same(c.place.window, u.place.window)
                          /\ ~Same(c.session, u.session)
                          /\ u.agent = o.agent =>
                                /\ BackendOf(c.place) = "iterm2" /\ u.backend = "iterm2"
                                /\ Same(c.place.tty, u.place.tty)
                    /\ t.backend = BackendOf(c.place)
                          /\ (c.place.pane # Absent \/ c.place.window # Absent)
                       => SeenAs' = {o.agent}
              /\ o.agent \in SeenAs']_agentVars
  BY RegisterBinds
<1>2. AgentInv /\ [AgentNext]_agentVars =>
         [Binds /\ outcome'.auto =>
            LET T == Of(targets, outcome'.agent, "terminal")
            IN  T = {} \/ \E t \in T : SameIdentity(t, outcome'.context)]_agentVars
  BY RegisterBinds
<1>3. AgentInv /\ [AgentNext]_agentVars =>
         [Registers /\ ~outcome'.force =>
            \A t \in targets \ targets' :
                t.agent = outcome'.agent /\ SameIdentity(t, outcome'.context)]_agentVars
  BY RegisterBinds
<1> QED
  BY <1>1, <1>2, <1>3, AgentInitOK, AgentStep, PTL
  DEF AgentSpec, BindingsAreSound, RegisteredIsBound, AutoIdsDisplaceNoOne,
      UnforcedTakesNothing
=============================================================================
