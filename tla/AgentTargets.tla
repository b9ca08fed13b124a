---------------------------- MODULE AgentTargets ----------------------------
(***************************************************************************)
(* Agents and the targets they are notified through: registration from a   *)
(* terminal or as a webhook, rebinding, the state of agents and targets,   *)
(* the removal of agents that stayed offline (src/service.ts over          *)
(* src/store.ts), the names given to unnamed agents (src/terminal.ts) and  *)
(* the agent a terminal takes itself for (src/current_agent.ts).           *)
(*                                                                         *)
(* A registration is one call without an await and no transaction: what it *)
(* wrote before it fails stays.  A dispatch or a resume runs a command or  *)
(* a request between reading a target and writing its state.               *)
(*                                                                         *)
(* A place is what the environment of a terminal tells of it: the tmux     *)
(* pane, the iTerm session (the window) and the tty, each of which may be  *)
(* missing; a pane inherits the window its tmux was started from.  Of      *)
(* webhooks only the number and the state matter, not the URL.             *)
(***************************************************************************)
EXTENDS Naturals, Sequences, FiniteSets

CONSTANTS
    AgentIds,
    Sessions,      \* runtime sessions, with their kind
    Places,        \* [pane, window, tty], each of which may be Absent
    Names,         \* from a backend and what identifies a terminal: the ids tried for an
                   \* unnamed agent, in order
    Ttl,           \* DEFAULT_OFFLINE_AGENT_TTL_MS
    MaxClock, MaxTargets, MaxFlights, MaxOps,  \* bounds
    Absent         \* no session, pane, window, tty, backend, time or outcome

VARIABLES
    agents,        \* the rows: AgentIds -> [status, since, session]
    targets,       \* the rows of activation_targets
    flights,       \* dispatches and resumes that wait, with the target they read
    outcome,       \* the registration this step made and whether it threw, or Absent
                   \* (history)
    clock, created, ops

agentVars == <<agents, targets, flights, outcome, clock, created, ops>>

\* detectTerminalContext: a pane is one of tmux, whatever else is known of it.
BackendOf(p) == IF p.pane # Absent THEN "tmux" ELSE "iterm2"

Contexts == [session : Sessions \cup {Absent}, place : Places]

\* The names made from the session, or from the pane, the window or the tty without one.
Known(x) == x # Absent
Primary(c) == Head(SelectSeq(<<c.session, c.place.pane, c.place.window, c.place.tty>>, Known))
NamesTried(c) == Names[<<BackendOf(c.place), Primary(c)>>]

ASSUME AgentAssumption ==
    /\ \A p \in Places : p.pane # Absent \/ p.window # Absent \/ p.tty # Absent
    /\ \A c \in Contexts : NamesTried(c) \in Seq(AgentIds)

NoPlace == [pane |-> Absent, window |-> Absent, tty |-> Absent]
NoContext == [session |-> Absent, place |-> NoPlace]

AgentRows == [status : {"none", "active", "offline"}, since : Nat \cup {Absent},
              session : Sessions \cup {Absent}]
TargetRows == [id : Nat, agent : AgentIds, kind : {"terminal", "webhook"},
               status : {"active", "offline"}, session : Sessions \cup {Absent},
               place : Places \cup {NoPlace}, backend : {"tmux", "iterm2", Absent}]

AgentTypeOK ==
    /\ agents \in [AgentIds -> AgentRows]
    /\ targets \subseteq TargetRows
    /\ flights \subseteq [kind : {"dispatch", "resume"}, target : TargetRows]
    /\ outcome \in [agent : AgentIds, context : Contexts, force : BOOLEAN, failed : BOOLEAN,
                    auto : BOOLEAN] \cup {Absent}
    /\ {clock, created, ops} \subseteq Nat

NoAgent == [status |-> "none", since |-> Absent, session |-> Absent]

AgentInit ==
    /\ agents = [a \in AgentIds |-> NoAgent] /\ targets = {} /\ flights = {}
    /\ outcome = Absent
    /\ clock = 0 /\ created = 0 /\ ops = 0

-----------------------------------------------------------------------------
(* Rows. *)

Exists(a) == agents[a].status # "none"
Of(T, a, kind) == {t \in T : t.agent = a /\ t.kind = kind}
Activated(T, a) == {t \in T : t.agent = a /\ t.status = "active"}

Online(A, a) == [A EXCEPT ![a].status = "active", ![a].since = Absent]

\* reconcileAgentStatus: an agent is as active as its targets.
Reconciled(A, T, a) ==
    IF Activated(T, a) # {} THEN Online(A, a)
    ELSE [A EXCEPT ![a].status = "offline", ![a].since = IF @ = Absent THEN clock ELSE @]

Target(a, kind, c) ==
    [id |-> created + 1, agent |-> a, kind |-> kind, status |-> "active",
     session |-> c.session, place |-> c.place,
     backend |-> IF kind = "terminal" THEN BackendOf(c.place) ELSE Absent]

Same(x, y) == x # Absent /\ x = y

\* The unique indexes of the table: there is none of the tty.
Conflicts(t, T) ==
    \E u \in T : /\ u.id # t.id /\ u.kind = "terminal"
                 /\ \/ Same(t.session, u.session)
                    \/ Same(t.place.pane, u.place.pane)
                    \/ Same(t.place.window, u.place.window)

-----------------------------------------------------------------------------
(* Registration from a terminal. *)

\* findExistingTerminalActivationTarget: by session, or else by pane, by window, or by tty
\* if that is all there is.  Whose backend it is does not matter.
Existing(T, c) ==
    LET terminals == {t \in T : t.kind = "terminal"}
        bySession == {t \in terminals : Same(c.session, t.session)}
    IN  IF bySession # {} THEN bySession
        ELSE {t \in terminals :
                 CASE c.place.pane # Absent -> t.place.pane = c.place.pane
                   [] c.place.pane = Absent /\ c.place.window # Absent
                        -> t.place.window = c.place.window
                   [] OTHER -> Same(c.place.tty, t.place.tty)}

\* The row that is found, if any: of several with the tty any one.
Lookups(T, c) == IF Existing(T, c) = {} THEN {{}} ELSE {{t} : t \in Existing(T, c)}

\* isSameTerminalIdentity
SameIdentity(t, c) ==
    \/ Same(c.session, t.session)
    \/ /\ BackendOf(c.place) = "tmux" /\ t.backend = "tmux"
       /\ t.place.pane = c.place.pane
    \/ /\ BackendOf(c.place) = "iterm2" /\ t.backend = "iterm2"
       /\ Same(c.place.window, t.place.window) \/ Same(c.place.tty, t.place.tty)

\* A plausible slip: an unnamed agent takes the first name of its terminal.
AutoIdFirst(c) == {NamesTried(c)[1]}

\* resolveAutoAgentId: the first name that is free or this terminal's, none if all are
\* taken.
AutoId(c) ==
    LET names == NamesTried(c)
        own(i) == LET T == Of(targets, names[i], "terminal")
                  IN  ~Exists(names[i]) \/ T = {} \/ \E t \in T : SameIdentity(t, c)
    IN  {names[i] : i \in {j \in DOMAIN names : own(j) /\ \A k \in 1..(j - 1) : ~own(k)}}

\* Terminals the agent was bound to before.
Foreign(T, a, c) == {t \in Of(T, a, "terminal") : ~SameIdentity(t, c)}

Taken(found, a) == {t \in found : t.agent # a}

Refused(a, c, force, found) ==
    \/ \E t \in Of(targets, a, "webhook") : t.status = "active"
    \/ ~force /\ (Taken(found, a) # {} \/ Foreign(targets, a, c) # {})

\* A plausible slip: a rebind leaves the old terminals of the agent.
CededOnly(T, a, c, found) == T \ Taken(found, a)

\* handleAgentRegistrationConflicts, when it does not refuse.
Ceded(T, a, c, found) == (T \ Taken(found, a)) \ Foreign(T, a, c)

\* The agent whose terminal was taken is as active as what it has left.
Reduced(found, a) ==
    IF Taken(found, a) = {} THEN agents
    ELSE Reconciled(agents, targets \ found, (CHOOSE t \in found : TRUE).agent)

Enrolled(A, a, c) == [A EXCEPT ![a] = [status |-> "active", since |-> Absent, session |-> c.session]]

\* updateTerminalActivationTargetHeartbeat: the backend stays.
Heartbeat(t, c) == [t EXCEPT !.status = "active", !.session = c.session, !.place = c.place]

Threw(a, c, force, failed, auto) ==
    outcome' = [agent |-> a, context |-> c, force |-> force, failed |-> failed, auto |-> auto]

\* upsertTerminalActivationTarget, on the row found after the conflicts: an insert or an
\* update that breaks an index throws.
Upsert(T, a, c, again, force, auto) ==
    \/ /\ again = {} /\ ~Conflicts(Target(a, "terminal", c), T)
       /\ created < MaxTargets /\ created' = created + 1
       /\ targets' = T \cup {Target(a, "terminal", c)}
       /\ Threw(a, c, force, FALSE, auto)
    \/ /\ again = {} /\ Conflicts(Target(a, "terminal", c), T)
       /\ created' = created /\ targets' = T
       /\ Threw(a, c, force, TRUE, auto)
    \/ \E t \in again :
          /\ created' = created
          /\ targets' = IF Conflicts(Heartbeat(t, c), T) THEN T
                        ELSE (T \ {t}) \cup {Heartbeat(t, c)}
          /\ Threw(a, c, force, Conflicts(Heartbeat(t, c), T) \/ t.agent # a, auto)

\* A row that is still there is found again.
RegisterAs(a, c, force, auto) ==
    \E found \in Lookups(targets, c) :
        IF Refused(a, c, force, found)
        THEN Threw(a, c, force, TRUE, auto) /\ UNCHANGED <<agents, targets, created>>
        ELSE LET T == Ceded(targets, a, c, found)
             IN  /\ agents' = Enrolled(Reduced(found, a), a, c)
                 /\ \E again \in IF found # {} /\ found \subseteq T THEN {found}
                                 ELSE Lookups(T, c) :
                       Upsert(T, a, c, again, force, auto)

Register(c, force) ==
    /\ ops < MaxOps /\ ops' = ops + 1
    /\ \/ \E a \in AgentIds : RegisterAs(a, c, force, FALSE)
       \/ \E a \in AutoId(c) : RegisterAs(a, c, force, TRUE)
    /\ UNCHANGED <<flights, clock>>

-----------------------------------------------------------------------------
(* Webhooks and targets. *)

Other == outcome' = Absent

\* upsertWebhookActivationTarget: one webhook is left, and no terminal.
RegisterWebhook(a) ==
    /\ ops < MaxOps /\ ops' = ops + 1
    /\ \/ \E t \in Of(targets, a, "webhook") :
             /\ targets' = {u \in targets : u.agent # a} \cup {[t EXCEPT !.status = "active"]}
             /\ created' = created
       \/ /\ Of(targets, a, "webhook") = {}
          /\ created < MaxTargets /\ created' = created + 1
          /\ targets' = {u \in targets : u.agent # a} \cup {Target(a, "webhook", NoContext)}
    /\ agents' = Enrolled(agents, a, NoContext)
    /\ Other /\ UNCHANGED <<flights, clock>>

AddWebhook(a) ==
    /\ ops < MaxOps /\ ops' = ops + 1 /\ Exists(a)
    /\ created < MaxTargets /\ created' = created + 1
    /\ targets' = targets \cup {Target(a, "webhook", NoContext)}
    /\ agents' = Online(agents, a)
    /\ Other /\ UNCHANGED <<flights, clock>>

\* updateWebhookActivationTarget: the agent is left as it is.
UpdateWebhook(t) ==
    /\ ops < MaxOps /\ ops' = ops + 1 /\ t.kind = "webhook"
    /\ targets' = (targets \ {t}) \cup {[t EXCEPT !.status = "active"]}
    /\ Other /\ UNCHANGED <<agents, flights, clock, created>>

RemoveTarget(t) ==
    /\ ops < MaxOps /\ ops' = ops + 1
    /\ targets' = targets \ {t}
    /\ agents' = Reconciled(agents, targets', t.agent)
    /\ Other /\ UNCHANGED <<flights, clock, created>>

-----------------------------------------------------------------------------
(* Dispatches and resumes: flights. *)

\* effectiveActiveTargets: the webhooks if there are any.
Effective(a) ==
    LET webhooks == Activated(targets, a) \cap Of(targets, a, "webhook")
    IN  IF webhooks # {} THEN webhooks ELSE Activated(targets, a)

Locked(t) == \E f \in flights : f.kind = "dispatch" /\ f.target.id = t.id

Dispatch(t) ==
    /\ t \in Effective(t.agent) /\ ~Locked(t) /\ Cardinality(flights) < MaxFlights
    /\ flights' = flights \cup {[kind |-> "dispatch", target |-> t]}
    /\ Other /\ UNCHANGED <<agents, targets, clock, created, ops>>

ResumeTarget(t) ==
    /\ ops < MaxOps /\ ops' = ops + 1 /\ t.status = "offline"
    /\ \/ /\ t.kind = "webhook"
          /\ targets' = (targets \ {t}) \cup {[t EXCEPT !.status = "active"]}
          /\ agents' = Online(agents, t.agent)
          /\ UNCHANGED flights
       \/ /\ t.kind = "terminal" /\ Cardinality(flights) < MaxFlights
          /\ flights' = flights \cup {[kind |-> "resume", target |-> t]}
          /\ UNCHANGED <<agents, targets>>
    /\ Other /\ UNCHANGED <<clock, created>>

\* The row a flight comes back to, if it is still there.
RowOf(f) == {t \in targets : t.id = f.target.id /\ t.agent = f.target.agent}

SetStatus(f, status) ==
    targets' = {IF t \in RowOf(f) THEN [t EXCEPT !.status = status] ELSE t : t \in targets}

Land(f) == f \in flights /\ flights' = flights \ {f}

Lost(f) ==
    /\ RowOf(f) = {} /\ Land(f)
    /\ Other /\ UNCHANGED <<agents, targets, clock, created, ops>>

\* Delivered, or the place of a resumed target answers.
Succeeds(f) ==
    /\ RowOf(f) # {} /\ Land(f)
    /\ SetStatus(f, "active")
    /\ agents' = Online(agents, f.target.agent)
    /\ Other /\ UNCHANGED <<clock, created, ops>>

\* The place is gone, or the webhook answered that it is.
Gone(f) ==
    /\ RowOf(f) # {} /\ Land(f)
    /\ SetStatus(f, "offline")
    /\ agents' = Reconciled(agents, targets', f.target.agent)
    /\ Other /\ UNCHANGED <<clock, created, ops>>

\* A failure to be retried says that the target is there; a probe without an answer
\* changes nothing.
FailsForNow(f) ==
    /\ RowOf(f) # {} /\ Land(f)
    /\ IF f.kind = "dispatch" THEN SetStatus(f, "active") /\ UNCHANGED agents
       ELSE UNCHANGED targets /\ agents' = Reconciled(agents, targets, f.target.agent)
    /\ Other /\ UNCHANGED <<clock, created, ops>>

-----------------------------------------------------------------------------
(* Removal. *)

Without(gone) ==
    /\ agents' = [a \in AgentIds |-> IF a \in gone THEN NoAgent ELSE agents[a]]
    /\ targets' = {t \in targets : t.agent \notin gone}

RemoveAgent(a) ==
    /\ ops < MaxOps /\ ops' = ops + 1 /\ Exists(a)
    /\ Without({a})
    /\ Other /\ UNCHANGED <<flights, clock, created>>

Expired == {a \in AgentIds : agents[a].status = "offline" /\ agents[a].since + Ttl <= clock}

\* gcOfflineAgents.
Gc ==
    /\ Expired # {} /\ Without(Expired)
    /\ Other /\ UNCHANGED <<flights, clock, created, ops>>

Tick ==
    /\ clock < MaxClock /\ clock' = clock + 1
    /\ Other /\ UNCHANGED <<agents, targets, flights, created, ops>>

AgentNext ==
    \/ \E c \in Contexts, force \in BOOLEAN : Register(c, force)
    \/ \E a \in AgentIds : RegisterWebhook(a) \/ AddWebhook(a) \/ RemoveAgent(a)
    \/ \E t \in targets : UpdateWebhook(t) \/ RemoveTarget(t) \/ Dispatch(t) \/ ResumeTarget(t)
    \/ \E f \in flights : Lost(f) \/ Succeeds(f) \/ Gone(f) \/ FailsForNow(f)
    \/ Gc \/ Tick

AgentSpec == AgentInit /\ [][AgentNext]_agentVars

-----------------------------------------------------------------------------
(* resolveCurrentAgent: the agents a terminal may take itself for. *)

Live == {t \in targets : /\ t.kind = "terminal" /\ t.status = "active"
                           /\ agents[t.agent].status = "active"}
Holders(T) == {t.agent : t \in T}

\* By the pane of a tmux row, the window of an iTerm row, the tty of any, or the session.
Current(c) ==
    LET byPane == {t \in Live : t.backend = "tmux" /\ Same(c.place.pane, t.place.pane)}
        byWindow == {t \in Live : t.backend = "iterm2" /\ Same(c.place.window, t.place.window)}
        byTty == {t \in Live : Same(c.place.tty, t.place.tty)}
        bySession == {t \in Live : Same(c.session, t.session)}
    IN  CASE byPane # {} -> Holders(byPane)
          [] byPane = {} /\ byWindow # {} -> Holders(byWindow)
          [] byPane = {} /\ byWindow = {} /\ byTty # {} -> Holders(byTty)
          [] OTHER -> Holders(bySession) \cup
                      {a \in AgentIds : /\ agents[a].status = "active"
                                       /\ Same(c.session, agents[a].session)}

\* What the terminal that registered last takes itself for.
SeenAs == Current(outcome.context)

-----------------------------------------------------------------------------
(* Properties *)

Registers == outcome' # Absent /\ ops' # ops
Binds == Registers /\ ~outcome'.failed

\* A registration that succeeds leaves the agent with a terminal target that is where and
\* of the session it was made from, whatever the rows were before: half a registration
\* that threw, targets that moved, dispatches under way.  What else the agent has is of
\* iTerm and of the same tty, and nobody else has the pane, the window or the session.
\* The terminal may take itself for that agent, and for no other if it has a pane or a
\* window of the row's backend; if not, the tty decides, and others may have it too.
RegisteredIsBound ==
    [][Binds =>
          LET o == outcome'
              c == o.context
              T == {t \in targets' : t.kind = "terminal"}
          IN  /\ \E t \in T :
                    /\ t.agent = o.agent /\ t.status = "active"
                    /\ t.place = c.place /\ t.session = c.session
                    /\ \A u \in T \ {t} :
                          /\ ~Same(c.place.pane, u.place.pane)
                          /\ ~Same(c.place.window, u.place.window)
                          /\ ~Same(c.session, u.session)
                          /\ u.agent = o.agent =>
                                /\ BackendOf(c.place) = "iterm2" /\ u.backend = "iterm2"
                                /\ Same(c.place.tty, u.place.tty)
                    /\ t.backend = BackendOf(c.place)
                          /\ (c.place.pane # Absent \/ c.place.window # Absent)
                       => SeenAs' = {o.agent}
              /\ o.agent \in SeenAs']_agentVars

\* An agent that registers without a name never displaces a terminal of another one that
\* happens to have its name: who has terminals of that name has the caller's.
AutoIdsDisplaceNoOne ==
    [][Binds /\ outcome'.auto =>
          LET T == Of(targets, outcome'.agent, "terminal")
          IN  T = {} \/ \E t \in T : SameIdentity(t, outcome'.context)]_agentVars

\* A registration that is not forced, whether it succeeds or throws half way, leaves every
\* row alone but one of its own agent that is the caller's already.
UnforcedTakesNothing ==
    [][Registers /\ ~outcome'.force =>
          \A t \in targets \ targets' :
              t.agent = outcome'.agent /\ SameIdentity(t, outcome'.context)]_agentVars

\* All: what a registration does to its own agent and to the others.
BindingsAreSound == RegisteredIsBound /\ AutoIdsDisplaceNoOne /\ UnforcedTakesNothing

\* "retry with forceRebind to rebind" (src/service.ts:2905), and skills/agentinbox/
\* SKILL.md:114-115: a forced registration binds the agent to the terminal it is made
\* from, unless a webhook forbids it.  Violated when the session is known at another
\* place and this place is still another agent's, or when a pane inherits a window that
\* another target has: the update, or the insert, breaks a unique index.
ForceRebinds ==
    [][Registers /\ outcome'.force
          /\ (\A t \in Of(targets, outcome'.agent, "webhook") : t.status # "active")
              => ~outcome'.failed]_agentVars
=============================================================================
