---------------------------- MODULE OperatorRoutes ----------------------------
(***************************************************************************)
(* The operator bridge: a message of a chat is forwarded to the agent's    *)
(* runtime with the id of a reply route, and a reply that names the route  *)
(* is delivered to the chat the route's row then points at.                *)
(*                                                                         *)
(* A message is forwarded in two steps, for the call to the runtime is     *)
(* awaited, and so is a reply.  The runtime is external: it accepts a      *)
(* message or refuses it, and answers an accepted one as often as it       *)
(* likes, also after a refused delivery.  A chat stands for the delivery   *)
(* handle; the text of a message and the provider's operation are left     *)
(* out.  The modules that send are free to fail.                           *)
(***************************************************************************)
EXTENDS Naturals, FiniteSets

CONSTANTS
    Messages,     \* messages of operators, each forwarded at most once
    ChatOf,       \* message -> its chat, the deliveryHandle of its ingress
    Named,        \* message -> the replyRouteId of its ingress, or Unset
    Bindings, Agents, Sources, Routes,
    MaxBinds,     \* bound: registrations of a binding
    MaxReplies,   \* bound: deliveries asked for
    Unset

ASSUME OperatorAssumption ==
    /\ Named \in [Messages -> Routes \cup {Unset}]
    /\ Unset \notin Messages

VARIABLES
    binding,      \* operator_transport_bindings: [agent, route], or Unset
    route,        \* operator_reply_routes: [binding, agent, chat, source], or Unset
    present,      \* the sources that exist
    forward,      \* message -> where its ingress is, and the binding it came by
    passed,       \* message -> the reply_route_id the runtime was given
    reply,        \* deliveries under way: [n, to, chat], to a message or of an agent's own
    taken,        \* what the providers took: [to, chat]
    record,       \* deliveries: the sends that were recorded
    binds, replies

operatorVars == <<binding, route, present, forward, passed, reply, taken, record, binds, replies>>

Chats == {ChatOf[m] : m \in Messages}
Fresh == [at |-> "new", by |-> Unset]

BindingRows == [agent : Agents, route : Routes \cup {Unset}]
RouteRows ==
    [binding : Bindings, agent : Agents, chat : Chats, source : Sources \cup {Unset}]

OperatorTypeOK ==
    /\ binding \in [Bindings -> BindingRows \cup {Unset}]
    /\ route \in [Routes -> RouteRows \cup {Unset}]
    /\ present \subseteq Sources
    /\ forward \in [Messages -> [at : {"new", "posted", "accepted", "refused"},
                                 by : Bindings \cup {Unset}]]
    /\ passed \in [Messages -> Routes \cup {Unset}]
    /\ reply \subseteq [n : Nat, to : Messages \cup {Unset}, chat : Chats]
    /\ taken \subseteq [to : Messages \cup {Unset}, chat : Chats]
    /\ record \subseteq Nat /\ {binds, replies} \subseteq Nat

OperatorInit ==
    /\ binding = [b \in Bindings |-> Unset] /\ route = [r \in Routes |-> Unset]
    /\ present = Sources
    /\ forward = [m \in Messages |-> Fresh] /\ passed = [m \in Messages |-> Unset]
    /\ reply = {} /\ taken = {} /\ record = {} /\ binds = 0 /\ replies = 0

BindingRow(a, r) == [agent |-> a, route |-> r]

\* registerOperatorTransportBinding: the row is stored, or replaced with another agent and
\* default route, before the runtime is told; a refusal there leaves it stored.
Bind(b) ==
    /\ binds < MaxBinds /\ binds' = binds + 1
    /\ \E a \in Agents, r \in Routes \cup {Unset} :
        binding' = [binding EXCEPT ![b] = BindingRow(a, r)]
    /\ UNCHANGED <<route, present, forward, passed, reply, taken, record, replies>>

\* A slip: the binding's route goes before the message's own.
DefaultFirst(m, b) == IF binding[b].route # Unset THEN binding[b].route ELSE Named[m]

\* The route of a message: the one it names, or else the default of its binding.
RouteFor(m, b) == IF Named[m] # Unset THEN Named[m] ELSE binding[b].route

RouteRow(m, b, s) ==
    [binding |-> b, agent |-> binding[b].agent, chat |-> ChatOf[m], source |-> s]

\* forwardOperatorIngress up to the call: the route's row, whoever wrote it, now points at
\* this message's chat.
Ingress(m, b) ==
    LET r == RouteFor(m, b) IN
    /\ forward[m] = Fresh /\ binding[b] # Unset
    /\ forward' = [forward EXCEPT ![m] = [at |-> "posted", by |-> b]]
    /\ passed' = [passed EXCEPT ![m] = r]
    /\ IF r = Unset THEN UNCHANGED route
       ELSE \E s \in Sources \cup {Unset} :
            route' = [route EXCEPT ![r] = RouteRow(m, b, s)]
    /\ UNCHANGED <<binding, present, reply, taken, record, binds, replies>>

\* The runtime's answer.  A refused message leaves the route as it has made it.
Answered(m) ==
    /\ forward[m].at = "posted"
    /\ \E at \in {"accepted", "refused"} : forward' = [forward EXCEPT ![m].at = at]
    /\ UNCHANGED <<binding, route, present, passed, reply, taken, record, binds, replies>>

DropSource(s) ==
    /\ present' = present \ {s} /\ present # present'
    /\ UNCHANGED <<binding, route, forward, passed, reply, taken, record, binds, replies>>

\* resolveDeliverySource: no source is named, or it is there.
Resolvable(s) == s \in present \cup {Unset}

Sending(to, chat) ==
    /\ replies < MaxReplies /\ replies' = replies + 1
    /\ reply' = reply \cup {[n |-> replies, to |-> to, chat |-> chat]}

\* deliverOperatorReply: the route is read, and its source looked up, before the send.  An
\* unknown route or a source that is gone is an error, and the reply is the runtime's again.
Reply(m) ==
    /\ forward[m].at = "accepted" /\ passed[m] # Unset
    /\ LET row == route[passed[m]] IN
       row # Unset /\ Resolvable(row.source) /\ Sending(m, row.chat)
    /\ UNCHANGED <<binding, route, present, forward, passed, taken, record, binds>>

\* invokeDelivery: an agent delivers through a handle of its inbox, and no route is read.
Invoke(chat, s) ==
    /\ Resolvable(s) /\ Sending(Unset, chat)
    /\ UNCHANGED <<binding, route, present, forward, passed, taken, record, binds>>

Recorded(x) == record' = record \cup {x.n}

\* sendDelivery: the provider has taken the text, and the attempt is recorded.
Sent(x) ==
    /\ x \in reply /\ reply' = reply \ {x}
    /\ taken' = taken \cup {[to |-> x.to, chat |-> x.chat]}
    /\ Recorded(x)
    /\ UNCHANGED <<binding, route, present, forward, passed, binds, replies>>

\* The module throws, before or after the provider took the text; nothing is recorded.
SendFails(x) ==
    /\ x \in reply /\ reply' = reply \ {x}
    /\ taken' \in {taken, taken \cup {[to |-> x.to, chat |-> x.chat]}}
    /\ UNCHANGED <<binding, route, present, forward, passed, record, binds, replies>>

OperatorNext ==
    \/ \E b \in Bindings : Bind(b) \/ \E m \in Messages : Ingress(m, b)
    \/ \E m \in Messages : Answered(m) \/ Reply(m)
    \/ \E s \in Sources : DropSource(s) \/ \E chat \in Chats : Invoke(chat, s)
    \/ \E x \in reply : Sent(x) \/ SendFails(x)

OperatorSpec == OperatorInit /\ [][OperatorNext]_operatorVars

----------------------------------------------------------------------------
(* Properties *)

Replied(m) == {d.chat : d \in {x \in taken : x.to = m}}

\* The route a message names is its own when no other message came by it.
Shared(m) == Named[m] = Unset \/ \E k \in Messages \ {m} : passed[k] = Named[m]

\* Replies to a message that named a route of its own reach its chat and no other, whatever
\* happens to the bindings and the other messages, refused ones and retried replies included.
OwnRouteIsKept == \A m \in Messages : Shared(m) \/ Replied(m) \subseteq {ChatOf[m]}

(* With the types. *)
RoutesAreSound == OperatorTypeOK /\ OwnRouteIsKept

\* What the RFC says of a reply route.  NOT a property of the code: messages that name no
\* route share the default of their binding, and each points it at its own chat.
RepliesReachTheAsker == \A m \in Messages : Replied(m) \subseteq {ChatOf[m]}
=============================================================================
