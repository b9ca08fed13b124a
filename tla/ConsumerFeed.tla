----------------------------- MODULE ConsumerFeed -----------------------------
(***************************************************************************)
(* What the event log of a stream promises its consumers, without saying   *)
(* how: StreamLog implements it.                                           *)
(*                                                                         *)
(* The log only grows at its end and holds an identity once.  A consumer   *)
(* reads from its position when all that follows is still kept, takes the  *)
(* events one after another without leaving one out, and moves its         *)
(* position past what it took and no further.  An event that is before no  *)
(* position may be forgotten.                                              *)
(***************************************************************************)
EXTENDS Naturals

CONSTANTS Consumers, Events, Positions

VARIABLES
    log,        \* the events stored
    kept,       \* offsets of those that can still be read
    position,   \* Consumers -> the offset the consumer goes on from, 0 without one
    reading,    \* Consumers -> where its reading began, 0 if it does not read
    handled     \* Consumers -> offsets it took

feedVars == <<log, kept, position, reading, handled>>

Logged == {e.offset : e \in log}

Init ==
    /\ log = {} /\ kept = {}
    /\ position = [c \in Consumers |-> 0]
    /\ reading = [c \in Consumers |-> 0]
    /\ handled = [c \in Consumers |-> {}]

\* A position is a place to go on from: nothing that follows it is forgotten.
Complete(n) == \A o \in Logged : n <= o => o \in kept

Publish(e) ==
    /\ log' = log \cup {e} /\ kept' = kept \cup {e.offset}
    /\ \A d \in log : d.offset < e.offset /\ d.key # e.key
    /\ UNCHANGED <<position, reading, handled>>

\* A consumer is created, or reset while it may be reading.
Place(c, n) ==
    /\ UNCHANGED <<log, kept, reading, handled>>
    /\ position' = [position EXCEPT ![c] = n]
    /\ Complete(n)

Remove(c) ==
    /\ position' = [position EXCEPT ![c] = 0]
    /\ reading' = [reading EXCEPT ![c] = 0]
    /\ handled' = [handled EXCEPT ![c] = {}]
    /\ UNCHANGED <<log, kept>>

Begin(c) ==
    /\ UNCHANGED <<log, kept, position, handled>>
    /\ position[c] # 0 /\ reading[c] = 0
    /\ reading' = [reading EXCEPT ![c] = position[c]]
    /\ Complete(position[c])

Between(from, to) == {o \in Logged : from <= o /\ o < to}

Take(c, o) ==
    /\ UNCHANGED <<log, kept, position, reading>>
    /\ handled' = [handled EXCEPT ![c] = @ \cup {o}]
    /\ reading[c] # 0 /\ reading[c] <= o
    /\ Between(reading[c], o) \subseteq handled[c]

Advance(c, n) ==
    /\ UNCHANGED <<log, kept, handled>>
    /\ reading[c] # 0
    /\ reading' = [reading EXCEPT ![c] = 0]
    /\ position' = [position EXCEPT ![c] = n]
    /\ Complete(n)
    /\ Between(reading[c], n) \subseteq handled[c]

\* Some consumers stop reading; what they took they may take again.
Stop(S) ==
    /\ UNCHANGED <<log, kept, position, handled>>
    /\ reading' = [c \in Consumers |-> IF c \in S THEN 0 ELSE reading[c]]

Forget(S) ==
    /\ UNCHANGED <<log, position, reading, handled>>
    /\ kept' = kept \ S
    /\ \A c \in Consumers : position[c] # 0 => \A o \in S : o < position[c]

Next ==
    \/ \E e \in Events : Publish(e)
    \/ \E c \in Consumers : \E n \in Positions : Place(c, n) \/ Advance(c, n)
    \/ \E c \in Consumers : Remove(c) \/ Begin(c) \/ \E o \in Logged : Take(c, o)
    \/ \E S \in SUBSET Consumers : Stop(S)
    \/ \E S \in SUBSET kept : Forget(S)

Spec == Init /\ [][Next]_feedVars
=============================================================================
