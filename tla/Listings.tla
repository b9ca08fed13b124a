------------------------------ MODULE Listings ------------------------------
(***************************************************************************)
(* Sequences made from sets and from other sequences, as functions that    *)
(* can be reasoned about.                                                  *)
(***************************************************************************)
EXTENDS Integers, Sequences, FiniteSets

\* A sequence without the elements of a set.
Removed(seq, gone) ==
    LET kept[i \in 0..Len(seq)] ==
            IF i = 0 THEN <<>>
            ELSE IF seq[i] \in gone THEN kept[i - 1] ELSE Append(kept[i - 1], seq[i])
    IN  kept[Len(seq)]

\* The numbers of a finite set, the least first.
InOrder(S) ==
    [k \in 1..Cardinality(S) |-> CHOOSE e \in S : Cardinality({d \in S : d < e}) = k - 1]
=============================================================================
