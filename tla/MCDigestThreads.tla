--------------------------- MODULE MCDigestThreads ---------------------------
(* Model values for DigestThreads: items are interchangeable. *)
EXTENDS DigestThreads, TLC

CONSTANTS i1, i2, i3

ThreeItems == {i1, i2, i3}
Symmetry   == Permutations(ThreeItems)
=============================================================================
