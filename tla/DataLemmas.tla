----------------------------- MODULE DataLemmas -----------------------------
(***************************************************************************)
(* Facts about finite sets, numbers and sequences that the proofs share.   *)
(*                                                                         *)
(* The induction theorems of the library take an operator, which no prover *)
(* instantiates.  Here an induction is over a set: the numbers for which   *)
(* something holds, of whose complement the least is looked at.            *)
(***************************************************************************)
EXTENDS Listings, SequencesExt, FunctionTheorems, FiniteSetTheorems, SequenceTheorems,
        WellFoundedInduction, TLAPS

-----------------------------------------------------------------------------
(* Least elements and induction *)

\* A finite set that is not empty has an element with none before it: of the sets of
\* elements before one of its elements, a minimal one is empty.
LEMMA FirstOfFinite ==
    ASSUME NEW S, IsFiniteSet(S), S # {}, NEW Before,
           \A x, y, z \in S : <<x, y>> \in Before /\ <<y, z>> \in Before => <<x, z>> \in Before,
           \A x \in S : <<x, x>> \notin Before
    PROVE  \E m \in S : \A x \in S : <<x, m>> \notin Before
<1> DEFINE Earlier(y) == {x \in S : <<x, y>> \in Before}
           T == {Earlier(y) : y \in S}
           R == StrictSubsetOrdering(S)
<1>1. IsWellFoundedOn(R, SUBSET S)
  BY FS_StrictSubsetOrderingWellFounded, FS_FiniteSubsetsOfFinite
<1>2. T \subseteq SUBSET S /\ T # {}
  <2>1. \A y \in S : Earlier(y) \in SUBSET S
    OBVIOUS
  <2> HIDE DEF Earlier
  <2> QED BY <2>1
<1>3. PICK A \in T : \A B \in T : <<B, A>> \notin R
  <2> HIDE DEF T, R
  <2> QED BY <1>1, <1>2, WFMin
<1>4. PICK m \in S : A = Earlier(m)
  BY <1>3
<1>5. ASSUME NEW x \in S, <<x, m>> \in Before PROVE FALSE
  <2>1. Earlier(x) \subseteq Earlier(m) /\ x \in Earlier(m) /\ x \notin Earlier(x)
    BY <1>5
  <2>2. <<Earlier(x), Earlier(m)>> \in R
    BY <2>1 DEF StrictSubsetOrdering
  <2> QED BY <2>2, <1>3, <1>4
<1> QED BY <1>5

\* A finite set of numbers that is not empty has a least and a greatest one.
LEMMA Extremes ==
    ASSUME NEW S \in SUBSET Nat, IsFiniteSet(S), S # {}
    PROVE  /\ \E m \in S : \A x \in S : m <= x
           /\ \E m \in S : \A x \in S : x <= m
<1>1. \A x \in S : x \in Nat
  OBVIOUS
<1>2. \E m \in S : \A x \in S : m <= x
  <2> DEFINE Less == {p \in Nat \X Nat : p[1] < p[2]}
  <2>1. \A x, y \in Nat : <<x, y>> \in Less <=> x < y
    OBVIOUS
  <2> HIDE DEF Less
  <2>2. /\ \A x, y, z \in S : <<x, y>> \in Less /\ <<y, z>> \in Less => <<x, z>> \in Less
        /\ \A x \in S : <<x, x>> \notin Less
    BY <1>1, <2>1
  <2>3. PICK m \in S : \A x \in S : <<x, m>> \notin Less
    BY <2>2, FirstOfFinite
  <2>4. ASSUME NEW x \in S PROVE m <= x
    <3>1. x \in Nat /\ m \in Nat /\ ~(x < m)
      BY <1>1, <2>1, <2>3
    <3> QED BY <3>1
  <2> QED BY <2>4
<1>3. \E m \in S : \A x \in S : x <= m
  <2> DEFINE More == {p \in Nat \X Nat : p[1] > p[2]}
  <2>1. \A x, y \in Nat : <<x, y>> \in More <=> x > y
    OBVIOUS
  <2> HIDE DEF More
  <2>2. /\ \A x, y, z \in S : <<x, y>> \in More /\ <<y, z>> \in More => <<x, z>> \in More
        /\ \A x \in S : <<x, x>> \notin More
    BY <1>1, <2>1
  <2>3. PICK m \in S : \A x \in S : <<x, m>> \notin More
    BY <2>2, FirstOfFinite
  <2>4. ASSUME NEW x \in S PROVE x <= m
    <3>1. x \in Nat /\ m \in Nat /\ ~(x > m)
      BY <1>1, <2>1, <2>3
    <3> QED BY <3>1
  <2> QED BY <2>4
<1> QED BY <1>2, <1>3

LEMMA LeastAndGreatest ==
    ASSUME NEW n \in Nat, NEW S \in SUBSET (0..n), S # {}
    PROVE  /\ \E m \in S : \A x \in S : m <= x
           /\ \E m \in S : \A x \in S : x <= m
<1>1. IsFiniteSet(S)
  <2>1. IsFiniteSet(0..n)
    BY FS_Interval
  <2> QED BY <2>1, FS_Subset
<1>2. S \in SUBSET Nat
  OBVIOUS
<1> QED BY <1>1, <1>2, Extremes

\* What holds of 0, and of a number whenever it holds of the one before, holds up to n.
LEMMA UpTo ==
    ASSUME NEW n \in Nat, NEW G, 0 \in G, \A i \in 1..n : i - 1 \in G => i \in G
    PROVE  0..n \subseteq G
<1> DEFINE T == {i \in 0..n : i \notin G}
<1> SUFFICES ASSUME T # {} PROVE FALSE
  OBVIOUS
<1>1. PICK m \in T : \A x \in T : m <= x
  <2>1. T \in SUBSET (0..n)
    OBVIOUS
  <2> HIDE DEF T
  <2> QED BY <2>1, LeastAndGreatest
<1>2. m \in 1..n
  OBVIOUS
<1>3. m - 1 \in 0..n /\ m - 1 \in G
  BY <1>1, <1>2
<1> QED BY <1>2, <1>3

\* A function given by its first value and by a step exists.
LEMMA ChainExists ==
    ASSUME NEW n \in Nat, NEW P, NEW start \in P, NEW step \in [P -> P]
    PROVE  \E f \in [0..n -> P] : /\ f[0] = start
                                  /\ \A i \in 1..n : f[i] = step[f[i - 1]]
<1> DEFINE Is(f, m) == f = [i \in 0..m |-> IF i = 0 THEN start ELSE step[f[i - 1]]]
           G == {m \in 0..n : \E f \in [0..m -> P] : Is(f, m)}
<1>1. 0 \in G
  <2> DEFINE first == [i \in 0..0 |-> start]
  <2>1. first \in [0..0 -> P] /\ Is(first, 0)
    OBVIOUS
  <2> HIDE DEF first, Is
  <2> QED BY <2>1
<1>2. ASSUME NEW m \in 1..n, m - 1 \in G PROVE m \in G
  <2>1. PICK f \in [0..(m - 1) -> P] : Is(f, m - 1)
    BY <1>2
  <2> DEFINE g == [i \in 0..m |-> IF i = m THEN step[f[m - 1]] ELSE f[i]]
  <2>2. /\ m \in Nat /\ m - 1 \in 0..(m - 1) /\ m # 0
        /\ \A i \in 0..m : i # m => i \in 0..(m - 1)
        /\ \A i \in 0..(m - 1) : i # m /\ i \in 0..m
        /\ \A i \in 0..m : i # 0 => i - 1 \in 0..(m - 1)
    OBVIOUS
  <2>3. g \in [0..m -> P]
    <3>1. \A i \in 0..m : g[i] \in P
      BY <2>1, <2>2
    <3> QED BY <3>1
  <2>4. ASSUME NEW i \in 0..m PROVE g[i] = IF i = 0 THEN start ELSE step[g[i - 1]]
    <3>1. CASE i = m
      BY <2>2, <3>1
    <3>2. CASE i # m
      <4>1. f[i] = IF i = 0 THEN start ELSE step[f[i - 1]]
        BY <2>1, <2>2, <3>2
      <4> QED BY <2>2, <3>2, <4>1
    <3> QED BY <3>1, <3>2
  <2> HIDE DEF g
  <2>5. Is(g, m)
    BY <2>3, <2>4
  <2> HIDE DEF Is
  <2> QED BY <2>3, <2>5
<1> HIDE DEF G
<1>3. n \in G
  BY <1>1, <1>2, UpTo
<1>4. PICK f \in [0..n -> P] : Is(f, n)
  BY <1>3 DEF G
<1>5. \A i \in 0..n : f[i] = IF i = 0 THEN start ELSE step[f[i - 1]]
  BY <1>4
<1>6. f[0] = start
  BY <1>5
<1>7. \A i \in 1..n : f[i] = step[f[i - 1]]
  BY <1>5
<1> QED BY <1>6, <1>7

-----------------------------------------------------------------------------
(* Sequences *)

\* What a sequence holds after an append, a concatenation and a removal at the head.
LEMMA ToSetFacts ==
    ASSUME NEW S, NEW s \in Seq(S)
    PROVE  /\ ToSet(s) \subseteq S /\ ToSet(<<>>) = {}
           /\ \A e \in S : Append(s, e) \in Seq(S) /\ ToSet(Append(s, e)) = ToSet(s) \cup {e}
           /\ s # <<>> => /\ Head(s) \in S /\ Tail(s) \in Seq(S)
                          /\ ToSet(s) = {Head(s)} \cup ToSet(Tail(s))
<1>1. ToSet(s) \subseteq S /\ ToSet(<<>>) = {}
  BY DEF ToSet
<1>2. ASSUME NEW e \in S PROVE Append(s, e) \in Seq(S) /\ ToSet(Append(s, e)) = ToSet(s) \cup {e}
  <2>1. /\ Append(s, e) \in Seq(S) /\ Len(s) \in Nat /\ Len(Append(s, e)) = Len(s) + 1
        /\ Append(s, e)[Len(s) + 1] = e /\ \A i \in 1..Len(s) : Append(s, e)[i] = s[i]
    BY AppendProperties, LenProperties
  <2>2. ToSet(Append(s, e)) = {Append(s, e)[i] : i \in 1..(Len(s) + 1)}
    BY <2>1, LenProperties DEF ToSet
  <2>3. ToSet(s) = {s[i] : i \in 1..Len(s)}
    BY LenProperties DEF ToSet
  <2>4. 1..(Len(s) + 1) = 1..Len(s) \cup {Len(s) + 1}
    BY <2>1
  <2> QED BY <2>1, <2>2, <2>3, <2>4
<1>3. ASSUME s # <<>>
      PROVE  Head(s) \in S /\ Tail(s) \in Seq(S) /\ ToSet(s) = {Head(s)} \cup ToSet(Tail(s))
  <2>1. /\ Head(s) = s[1] /\ Len(s) \in Nat \ {0} /\ Head(s) \in S /\ Tail(s) \in Seq(S)
        /\ Len(Tail(s)) = Len(s) - 1 /\ \A i \in 1..Len(Tail(s)) : Tail(s)[i] = s[i + 1]
    BY <1>3, HeadTailProperties, LenProperties, EmptySeq
  <2>2. ToSet(Tail(s)) = {Tail(s)[i] : i \in 1..(Len(s) - 1)}
    BY <2>1, LenProperties DEF ToSet
  <2>3. ToSet(s) = {s[i] : i \in 1..Len(s)}
    BY LenProperties DEF ToSet
  <2>4. ASSUME NEW i \in 1..Len(s), i # 1 PROVE s[i] \in ToSet(Tail(s))
    <3>1. i - 1 \in 1..(Len(s) - 1) /\ (i - 1) + 1 = i
      BY <2>1, <2>4
    <3> QED BY <2>1, <2>2, <3>1
  <2>5. ASSUME NEW i \in 1..(Len(s) - 1) PROVE Tail(s)[i] \in ToSet(s)
    <3>1. i + 1 \in 1..Len(s)
      BY <2>1
    <3> QED BY <2>1, <2>3, <3>1
  <2>6. s[1] \in ToSet(s)
    BY <2>1, <2>3
  <2> QED BY <2>1, <2>2, <2>3, <2>4, <2>5, <2>6
<1> QED BY <1>1, <1>2, <1>3

LEMMA ToSetConcat ==
    ASSUME NEW S, NEW s \in Seq(S), NEW t \in Seq(S)
    PROVE  s \o t \in Seq(S) /\ ToSet(s \o t) = ToSet(s) \cup ToSet(t)
<1>1. /\ s \o t \in Seq(S) /\ Len(s \o t) = Len(s) + Len(t) /\ Len(s) \in Nat /\ Len(t) \in Nat
      /\ \A i \in 1..(Len(s) + Len(t)) :
            (s \o t)[i] = IF i <= Len(s) THEN s[i] ELSE t[i - Len(s)]
  BY ConcatProperties, LenProperties
<1>2. /\ ToSet(s \o t) = {(s \o t)[i] : i \in 1..(Len(s) + Len(t))}
      /\ ToSet(s) = {s[i] : i \in 1..Len(s)} /\ ToSet(t) = {t[i] : i \in 1..Len(t)}
  BY <1>1, LenProperties DEF ToSet
<1>3. ASSUME NEW i \in 1..Len(t) PROVE t[i] \in ToSet(s \o t)
  <2>1. Len(s) + i \in 1..(Len(s) + Len(t)) /\ ~(Len(s) + i <= Len(s)) /\ (Len(s) + i) - Len(s) = i
    BY <1>1
  <2>2. (s \o t)[Len(s) + i] = t[i]
    BY <1>1, <2>1
  <2> QED BY <1>2, <2>1, <2>2
<1>4. ASSUME NEW i \in 1..Len(s) PROVE s[i] \in ToSet(s \o t)
  <2>1. i \in 1..(Len(s) + Len(t)) /\ i <= Len(s)
    BY <1>1
  <2> QED BY <1>1, <1>2, <2>1
<1>5. ASSUME NEW i \in 1..(Len(s) + Len(t)) PROVE (s \o t)[i] \in ToSet(s) \cup ToSet(t)
  <2>1. CASE i <= Len(s)
    BY <1>1, <1>2, <2>1
  <2>2. CASE ~(i <= Len(s))
    <3>1. i - Len(s) \in 1..Len(t)
      BY <1>1, <2>2
    <3> QED BY <1>1, <1>2, <2>2, <3>1
  <2> QED BY <2>1, <2>2
<1>6. ToSet(s \o t) \subseteq ToSet(s) \cup ToSet(t)
  BY <1>2, <1>5
<1>7. ToSet(s) \subseteq ToSet(s \o t) /\ ToSet(t) \subseteq ToSet(s \o t)
  BY <1>2, <1>3, <1>4
<1> QED BY <1>1, <1>6, <1>7

LEMMA RemovedIs ==
    ASSUME NEW S, NEW seq \in Seq(S), NEW gone
    PROVE  Removed(seq, gone) \in Seq(S) /\ ToSet(Removed(seq, gone)) = ToSet(seq) \ gone
<1> DEFINE n == Len(seq)
           F(f) == [i \in 0..n |-> IF i = 0 THEN <<>>
                                   ELSE IF seq[i] \in gone THEN f[i - 1]
                                   ELSE Append(f[i - 1], seq[i])]
           kept == CHOOSE f : f = F(f)
<1>1. Removed(seq, gone) = kept[n]
  BY DEF Removed
<1>2. n \in Nat /\ \A i \in 1..n : seq[i] \in S
  BY LenProperties, ElementOfSeq
<1>3. \E f : f = F(f)
  \* The chain pairs the position with what was kept up to it.
  <2> DEFINE P == [at : 0..n, kept : Seq(S)]
             start == [at |-> 0, kept |-> <<>>]
             next(p) == IF p.at = n THEN p
                        ELSE [at |-> p.at + 1,
                              kept |-> IF seq[p.at + 1] \in gone THEN p.kept
                                       ELSE Append(p.kept, seq[p.at + 1])]
             step == [p \in P |-> next(p)]
  <2>1. start \in P
    BY <1>2
  <2>2. ASSUME NEW p \in P PROVE next(p) \in P
    <3>1. CASE p.at = n
      BY <3>1
    <3>2. CASE p.at # n
      <4>1. p.at + 1 \in 1..n /\ p.at + 1 \in 0..n /\ p.kept \in Seq(S)
        BY <1>2, <3>2
      <4>2. seq[p.at + 1] \in S
        BY <1>2, <4>1
      <4>3. Append(p.kept, seq[p.at + 1]) \in Seq(S)
        BY <4>1, <4>2, AppendProperties
      <4> QED BY <3>2, <4>1, <4>3
    <3> QED BY <3>1, <3>2
  <2>3. step \in [P -> P]
    <3> HIDE DEF P, next
    <3> QED BY <2>2
  <2>4. PICK c \in [0..n -> P] : c[0] = start /\ \A i \in 1..n : c[i] = step[c[i - 1]]
    <3>1. \A m \in Nat : \A Q : \A from \in Q, by \in [Q -> Q] :
             \E c \in [0..m -> Q] : c[0] = from /\ \A i \in 1..m : c[i] = by[c[i - 1]]
      BY ChainExists
    <3>2. n \in Nat /\ start \in P /\ step \in [P -> P]
      BY <1>2, <2>1, <2>3
    <3> HIDE DEF P, start, step, n
    <3>3. \A Q : \A from \in Q, by \in [Q -> Q] :
             \E c \in [0..n -> Q] : c[0] = from /\ \A i \in 1..n : c[i] = by[c[i - 1]]
      BY <3>1, <3>2
    <3>4. \A from \in P, by \in [P -> P] :
             \E c \in [0..n -> P] : c[0] = from /\ \A i \in 1..n : c[i] = by[c[i - 1]]
      BY <3>3
    <3>5. \A by \in [P -> P] :
             \E c \in [0..n -> P] : c[0] = start /\ \A i \in 1..n : c[i] = by[c[i - 1]]
      BY <3>4, <3>2
    <3>6. \E c \in [0..n -> P] : c[0] = start /\ \A i \in 1..n : c[i] = step[c[i - 1]]
      BY <3>5, <3>2
    <3> QED BY <3>6
  <2>5. \A i \in 0..n : c[i] \in P
    <3> HIDE DEF P, start, step
    <3> QED BY <2>4
  <2> DEFINE G == {i \in 0..n : c[i].at = i}
  <2>6. 0 \in G
    <3>1. 0 \in 0..n /\ c[0].at = 0
      BY <1>2, <2>4
    <3> QED BY <3>1
  <2>7. ASSUME NEW i \in 1..n, i - 1 \in G PROVE i \in G
    <3>1. i \in 0..n /\ i # 0 /\ i - 1 \in 0..n /\ i - 1 # n /\ (i - 1) + 1 = i
      BY <1>2
    <3>2. c[i - 1] \in P /\ c[i - 1].at = i - 1 /\ c[i] = step[c[i - 1]]
      BY <2>4, <2>5, <2>7, <3>1
    <3>3. c[i] = next(c[i - 1])
      <4> HIDE DEF P, next
      <4> QED BY <3>2
    <3> QED BY <3>1, <3>2, <3>3
  <2>8. 0..n \subseteq G
    <3> HIDE DEF G
    <3> QED BY <1>2, <2>6, <2>7, UpTo
  <2> DEFINE f == [i \in 0..n |-> c[i].kept]
  <2>9. ASSUME NEW i \in 0..n
        PROVE  f[i] = IF i = 0 THEN <<>> ELSE IF seq[i] \in gone THEN f[i - 1]
                                         ELSE Append(f[i - 1], seq[i])
    <3>1. CASE i = 0
      <4>1. c[0].kept = <<>>
        BY <2>4
      <4> QED BY <3>1, <4>1
    <3>2. CASE i # 0
      <4>1. i \in 1..n /\ i - 1 \in 0..n /\ i - 1 # n /\ (i - 1) + 1 = i
        BY <1>2, <3>2
      <4>2. c[i - 1] \in P /\ c[i - 1].at = i - 1 /\ c[i] = step[c[i - 1]]
        BY <2>4, <2>5, <2>8, <3>2, <4>1
      <4>3. c[i] = next(c[i - 1])
        <5> HIDE DEF P, next
        <5> QED BY <4>2
      <4> QED BY <3>2, <4>1, <4>2, <4>3
    <3> QED BY <3>1, <3>2
  <2>10. f = F(f)
    BY <2>9
  <2> HIDE DEF f, F
  <2> QED BY <2>10
<1>4. kept = F(kept)
  BY <1>3
<1> HIDE DEF kept
<1>5. \A i \in 0..n : kept[i] = IF i = 0 THEN <<>> ELSE IF seq[i] \in gone THEN kept[i - 1]
                                ELSE Append(kept[i - 1], seq[i])
  BY <1>4
<1> HIDE DEF F
<1> DEFINE G == {i \in 0..n : /\ kept[i] \in Seq(S)
                              /\ ToSet(kept[i]) = {seq[j] : j \in 1..i} \ gone}
<1>6. 0 \in G
  <2>1. kept[0] = <<>> /\ <<>> \in Seq(S) /\ ToSet(<<>>) = {} /\ 1..0 = {}
    BY <1>2, <1>5, ToSetFacts, EmptySeq
  <2>2. 0 \in 0..n /\ {seq[j] : j \in 1..0} = {}
    BY <1>2
  <2>3. ToSet(kept[0]) = {}
    BY <2>1
  <2> QED BY <2>1, <2>2, <2>3
<1>7. ASSUME NEW i \in 1..n, i - 1 \in G PROVE i \in G
  <2>1. i \in 0..n /\ i # 0 /\ 1..i = 1..(i - 1) \cup {i} /\ seq[i] \in S
    BY <1>2
  <2>2. kept[i - 1] \in Seq(S) /\ ToSet(kept[i - 1]) = {seq[j] : j \in 1..(i - 1)} \ gone
    BY <1>7
  <2>3. {seq[j] : j \in 1..i} = {seq[j] : j \in 1..(i - 1)} \cup {seq[i]}
    BY <2>1
  <2>4. CASE seq[i] \in gone
    BY <1>5, <2>1, <2>2, <2>3, <2>4
  <2>5. CASE seq[i] \notin gone
    <3>1. kept[i] = Append(kept[i - 1], seq[i])
      BY <1>5, <2>1, <2>5
    <3>2. kept[i] \in Seq(S) /\ ToSet(kept[i]) = ToSet(kept[i - 1]) \cup {seq[i]}
      BY <2>1, <2>2, <3>1, ToSetFacts
    <3> QED BY <2>1, <2>2, <2>3, <2>5, <3>2
  <2> QED BY <2>4, <2>5
<1>8. n \in G
  <2> HIDE DEF G
  <2>1. 0..n \subseteq G
    BY <1>2, <1>6, <1>7, UpTo
  <2> QED BY <1>2, <2>1
<1>9. ToSet(seq) = {seq[j] : j \in 1..n}
  BY LenProperties DEF ToSet
<1> QED BY <1>1, <1>8, <1>9


\* The numbers of a finite set in order: a sequence that holds just these.
LEMMA InOrderIs ==
    ASSUME NEW S \in SUBSET Nat, IsFiniteSet(S)
    PROVE  InOrder(S) \in Seq(S) /\ ToSet(InOrder(S)) = S
<1> DEFINE n == Cardinality(S)
           below(e) == {d \in S : d < e}
           rank == [e \in S |-> Cardinality(below(e)) + 1]
<1>1. n \in Nat /\ IsFiniteSet(1..n) /\ Cardinality(1..n) = n
  <2>1. n \in Nat
    BY FS_CardinalityType
  <2>2. IsFiniteSet(1..n) /\ Cardinality(1..n) = IF 1 > n THEN 0 ELSE n - 1 + 1
    BY <2>1, FS_Interval, SMT
  <2> QED BY <2>1, <2>2
<1>2. ASSUME NEW e \in S
      PROVE  /\ IsFiniteSet(below(e)) /\ Cardinality(below(e)) \in Nat
             /\ Cardinality(below(e)) < n
  <2>1. below(e) \in SUBSET S /\ below(e) # S
    OBVIOUS
  <2>2. IsFiniteSet(below(e)) /\ Cardinality(below(e)) <= n /\ Cardinality(below(e)) # n
    <3> HIDE DEF below
    <3> QED BY <2>1, FS_Subset
  <2>3. Cardinality(below(e)) \in Nat
    BY <2>2, FS_CardinalityType
  <2> HIDE DEF n, below
  <2> QED BY <1>1, <2>2, <2>3
<1>3. ASSUME NEW d \in S, NEW e \in S, d < e
      PROVE  Cardinality(below(d)) # Cardinality(below(e))
  <2>1. below(d) \in SUBSET below(e) /\ d \in below(e) /\ d \notin below(d)
    <3>1. \A x \in S : x \in Nat
      OBVIOUS
    <3>2. ASSUME NEW x \in S, x < d PROVE x < e
      BY <1>3, <3>1, <3>2
    <3>3. ~(d < d)
      BY <3>1
    <3> QED BY <1>3, <3>2, <3>3
  <2>2. IsFiniteSet(below(e))
    BY <1>2
  <2> HIDE DEF below
  <2> QED BY <2>1, <2>2, FS_Subset
<1>4. rank \in [S -> 1..n]
  <2>1. ASSUME NEW e \in S PROVE Cardinality(below(e)) + 1 \in 1..n
    <3> HIDE DEF n, below
    <3> QED BY <1>1, <1>2
  <2> HIDE DEF n, below
  <2> QED BY <2>1
<1>5. ASSUME NEW d \in S, NEW e \in S, rank[d] = rank[e] PROVE d = e
  <2>1. Cardinality(below(d)) = Cardinality(below(e))
    <3>1. Cardinality(below(d)) + 1 = Cardinality(below(e)) + 1
      BY <1>5
    <3>2. Cardinality(below(d)) \in Nat /\ Cardinality(below(e)) \in Nat
      BY <1>2
    <3> HIDE DEF below
    <3> QED BY <3>1, <3>2
  <2>2. d \in Nat /\ e \in Nat
    OBVIOUS
  <2>3. ~(d < e) /\ ~(e < d)
    <3> HIDE DEF below
    <3> QED BY <1>3, <2>1
  <2> QED BY <2>2, <2>3
<1>6. rank \in Surjection(S, 1..n)
  <2> HIDE DEF rank, n
  <2>1. rank \in Injection(S, 1..n)
    BY <1>4, <1>5 DEF Injection, IsInjective
  <2>2. n = Cardinality(S)
    BY DEF n
  <2> QED BY <1>1, <2>1, <2>2, FS_Injection
<1>7. \A k \in 1..n : \E e \in S : rank[e] = k
  <2> HIDE DEF rank, n
  <2> QED BY <1>6 DEF Surjection
<1> DEFINE at(k) == CHOOSE e \in S : Cardinality(below(e)) = k - 1
<1>8. ASSUME NEW k \in 1..n PROVE at(k) \in S /\ rank[at(k)] = k
  <2>1. PICK e \in S : rank[e] = k
    BY <1>7
  <2>2. Cardinality(below(e)) = k - 1
    <3>1. Cardinality(below(e)) + 1 = k /\ Cardinality(below(e)) \in Nat
      BY <1>2, <2>1
    <3> HIDE DEF below, n
    <3> QED BY <1>1, <3>1
  <2>3. at(k) \in S /\ Cardinality(below(at(k))) = k - 1
    <3> HIDE DEF below
    <3> QED BY <2>2
  <2>4. rank[at(k)] = Cardinality(below(at(k))) + 1
    <3> HIDE DEF at, below
    <3> QED BY <2>3
  <2> HIDE DEF at, rank, below, n
  <2> QED BY <1>1, <2>3, <2>4
<1>9. InOrder(S) = [k \in 1..n |-> at(k)]
  BY DEF InOrder
<1>10. InOrder(S) \in Seq(S) /\ Len(InOrder(S)) = n
  <2> HIDE DEF at, n
  <2>1. \A k \in 1..n : at(k) \in S
    BY <1>8
  <2>2. [k \in 1..n |-> at(k)] \in [1..n -> S]
    BY <2>1
  <2> QED BY <1>1, <1>9, <2>2, LenProperties
<1>11. ToSet(InOrder(S)) = {at(k) : k \in 1..n}
  <2>1. ToSet(InOrder(S)) = {InOrder(S)[k] : k \in 1..n}
    <3> HIDE DEF at, n
    <3> QED BY <1>1, <1>10 DEF ToSet
  <2> HIDE DEF at, n
  <2> QED BY <1>9, <2>1
<1>12. ASSUME NEW e \in S PROVE \E k \in 1..n : at(k) = e
  <2> HIDE DEF at, n, rank
  <2>1. rank[e] \in 1..n
    BY <1>4
  <2>2. at(rank[e]) \in S /\ rank[at(rank[e])] = rank[e]
    BY <1>8, <2>1
  <2>3. at(rank[e]) = e
    BY <1>5, <2>2
  <2> QED BY <2>1, <2>3
<1>13. {at(k) : k \in 1..n} = S
  <2> HIDE DEF at, n, rank
  <2>1. \A k \in 1..n : at(k) \in S
    BY <1>8
  <2> QED BY <1>12, <2>1
<1> HIDE DEF at, n
<1> QED BY <1>10, <1>11, <1>13
=============================================================================
