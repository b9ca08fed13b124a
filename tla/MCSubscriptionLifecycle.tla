---------------------- MODULE MCSubscriptionLifecycle ----------------------
(* Two subscriptions: one retired by terminal events, one by its deadline.  The  *)
(* terminal events of the resource retire at two different instants.             *)
EXTENDS SubscriptionLifecycle, TLC

CONSTANTS a, b

MCMembers == <<a, b>>
MCPolicy == (a :> "on_terminal") @@ (b :> "at")
MCRetireTime == [early |-> 0, late |-> 1]

\* The bounds are spent in one of two ways.  Requests and a restart meet one
\* subscription, the registration of the other having failed; or two subscriptions are
\* registered, alone or by a template, with no request left, the last of which may have
\* removed the agent.
MCInit ==
    /\ Nothing /\ log = <<>> /\ crashes = 0
    /\ \/ agent = TRUE /\ reg = (a :> "none") @@ (b :> "failed") /\ ops = 0
       \/ agent \in BOOLEAN /\ reg = [s \in Subs |-> "none"] /\ ops = MaxOps

MCSpec == MCInit /\ [][Next]_vars /\ Fairness
=============================================================================
