----------------------------- MODULE MCStreamLog -----------------------------
(* Model values for StreamLog: consumers and identities are interchangeable. *)
EXTENDS StreamLog, TLC

CONSTANTS c1, c2, k1, k2, k3

TwoConsumers == {c1, c2}
ThreeKeys    == {k1, k2, k3}
Symmetry     == Permutations(TwoConsumers) \cup Permutations(ThreeKeys)
=============================================================================
