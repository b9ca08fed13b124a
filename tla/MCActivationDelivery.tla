------------------------ MODULE MCActivationDelivery ------------------------
(***************************************************************************)
(* Instances of ActivationDelivery: a webhook, or a terminal the webhook   *)
(* pre-empts; two entries of two subscriptions, or one of them direct.     *)
(***************************************************************************)
EXTENDS ActivationDelivery, TLC

CONSTANTS hook, term, e1, e2, e3, s1, s2

OneHook  == {hook}
Both     == {hook, term}

AllDirect      == [e \in Entries |-> NoSub]
OneEntry       == [e \in Entries |-> s1]
SiblingEntries == e1 :> s1 @@ e2 :> s2
MixedEntries   == e1 :> s1 @@ e2 :> NoSub
=============================================================================
