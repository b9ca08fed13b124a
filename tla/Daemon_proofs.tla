---------------------------- MODULE Daemon_proofs ----------------------------
(***************************************************************************)
(* Proofs about what the daemon process runs: its admission                *)
(* (DaemonProcess), the opening of its database (StoreOpening), the        *)
(* managed remote sources (RemoteSource), the timers (Timers) and the      *)
(* occurrences of a cron expression (CronSchedule), for any processes,     *)
(* releases, streams, timers, expressions, calendars and limits.           *)
(*                                                                         *)
(* That two processes never have the store open is not inductive: it must  *)
(* be known that each of them took the lock and has not given it back.     *)
(* LockHeld says so of every process between the creation of its lock and  *)
(* the release, as long as none was removed as stale.                      *)
(*                                                                         *)
(* That an open database holds what is owed must be known of the file in   *)
(* every phase (OwedOK): of a missing one that nothing is owed, of a       *)
(* damaged one that no more is owed than the newest backup holds, which    *)
(* is the one a recovery takes as no two backups have one time (BackupsOK).*)
(*                                                                         *)
(* The cursor of a remote source is written by a sync, a pause, an update  *)
(* and a removal, each from what it read before its awaits.  That it never *)
(* passes an event which is not in the log follows only from the same      *)
(* being known of every place in the stream some of them remembers         *)
(* (MarksOK), and that the log keeps the order of the stream although the  *)
(* cursor may fall back, from the same being known of every event it has   *)
(* (StoredOK).                                                             *)
(*                                                                         *)
(* A timer keeps its time as long as the next fire of a row is one its     *)
(* mode allows (OnSlots, OneShots).  What a late pass and a start recover  *)
(* is found by doubling and halving steps: the search ends at the last     *)
(* slot that was missed, by induction on the probes (LastOverdueIs).       *)
(*                                                                         *)
(* The search for an occurrence of a cron expression leaves no instant     *)
(* behind it that the expression allows (Scanned), as each of its jumps    *)
(* goes to the first time whose field is allowed again.  That it finds     *)
(* what there is before it gives up follows from the jumps being counted   *)
(* against the days they pass (InTime): all but three are at most one to a *)
(* day, and what fits once fits again within two years (Recurs).           *)
(***************************************************************************)
EXTENDS DaemonProcess, StoreOpening, RemoteSource, Timers, CronSchedule, DataLemmas

-----------------------------------------------------------------------------
(* The admission lock *)

Holding == {"locked", "opening", "starting", "unlinking", "listen", "listening", "serving",
            "closing", "closed", "releasing"}

LockHeld == ~removal => \A p \in Servers : at[p] \in Holding => lock = p

DaemonInv == DaemonTypeOK /\ LockHeld

-----------------------------------------------------------------------------
\* A process found by its pid file or its lock is a server that is alive.
LEMMA FoundIsAlive ==
    ASSUME DaemonTypeOK
    PROVE  Found \in Servers \cup {None} /\ (Found # None => at[Found] \notin {"new", "dead"})
BY DEF DaemonTypeOK, Found, LiveHolder, Alive

\* Of the processes that hold or took no lock only one holds it.
LEMMA OneHolder ==
    ASSUME DaemonInv, ~removal
    PROVE  Cardinality(Running) <= 1
<1>1. Running \subseteq {lock}
  BY DEF Running, DaemonInv, LockHeld, Holding
<1>2. IsFiniteSet({lock}) /\ Cardinality({lock}) = 1
  BY FS_Singleton
<1>3. Cardinality(Running) <= Cardinality({lock})
  BY <1>1, <1>2, FS_Subset
<1> QED BY <1>2, <1>3

-----------------------------------------------------------------------------
LEMMA DaemonInitOK == DaemonInit => DaemonInv
<1> SUFFICES ASSUME DaemonInit PROVE DaemonInv
  OBVIOUS
<1>1. DaemonTypeOK
  <2>1. "new" \in ServerPlaces \cup CleanerPlaces
    BY DEF ServerPlaces
  <2>2. at \in [Servers \cup Cleaners -> ServerPlaces \cup CleanerPlaces]
    BY <2>1 DEF DaemonInit
  <2>3. attempt \in [Servers -> 1..2]
    BY DEF DaemonInit
  <2>4. victim \in [Cleaners -> Servers \cup {None}]
    BY DEF DaemonInit
  <2>5. removal \in BOOLEAN /\ {lock, pidFile, socket, metadata} \subseteq Servers \cup {None}
    BY DEF DaemonInit
  <2> QED BY <2>2, <2>3, <2>4, <2>5 DEF DaemonTypeOK
<1>2. \A p \in Servers : at[p] \notin Holding
  BY DEF DaemonInit, Holding
<1> QED BY <1>1, <1>2 DEF DaemonInv, LockHeld

\* The files and the places stay what they are.
LEMMA DaemonTypeStep == DaemonTypeOK /\ [DaemonNext]_daemonVars => DaemonTypeOK'
<1> SUFFICES ASSUME DaemonTypeOK, [DaemonNext]_daemonVars PROVE DaemonTypeOK'
  OBVIOUS
<1> USE DEF DaemonTypeOK, Go, files, ServerPlaces, CleanerPlaces
<1>1. ASSUME NEW p \in Servers, CreateLock(p) PROVE DaemonTypeOK'
  BY <1>1 DEF CreateLock
<1>2. ASSUME NEW p \in Servers, ReadLock(p) PROVE DaemonTypeOK'
  BY <1>2 DEF ReadLock
<1>3. ASSUME NEW p \in Servers, RemoveStale(p) PROVE DaemonTypeOK'
  BY <1>3 DEF RemoveStale
<1>4. ASSUME NEW p \in Servers, WritePid(p) PROVE DaemonTypeOK'
  BY <1>4 DEF WritePid
<1>5. ASSUME NEW p \in Servers, OpenStore(p) PROVE DaemonTypeOK'
  BY <1>5 DEF OpenStore
<1>6. ASSUME NEW p \in Servers, PrepareSocket(p) PROVE DaemonTypeOK'
  BY <1>6 DEF PrepareSocket
<1>7. ASSUME NEW p \in Servers, UnlinkSocket(p) PROVE DaemonTypeOK'
  BY <1>7 DEF UnlinkSocket
<1>8. ASSUME NEW p \in Servers, Listen(p) PROVE DaemonTypeOK'
  BY <1>8 DEF Listen
<1>9. ASSUME NEW p \in Servers, WriteMetadata(p) PROVE DaemonTypeOK'
  BY <1>9 DEF WriteMetadata
<1>10. ASSUME NEW p \in Servers, CloseSocket(p) PROVE DaemonTypeOK'
  BY <1>10 DEF CloseSocket
<1>11. ASSUME NEW p \in Servers, RemovePid(p) PROVE DaemonTypeOK'
  BY <1>11 DEF RemovePid
<1>12. ASSUME NEW p \in Servers, ReleaseLock(p) PROVE DaemonTypeOK'
  BY <1>12 DEF ReleaseLock
<1>13. ASSUME NEW p \in Servers, RemoveMetadata(p) PROVE DaemonTypeOK'
  BY <1>13 DEF RemoveMetadata
<1>14. ASSUME NEW p \in Servers, Kill(p) PROVE DaemonTypeOK'
  BY <1>14 DEF Kill
<1>15. ASSUME NEW c \in Cleaners, Terminate(c) PROVE DaemonTypeOK'
  <2>1. Found \in Servers \cup {None}
    BY FoundIsAlive
  <2>2. victim' \in [Cleaners -> Servers \cup {None}]
    BY <1>15, <2>1 DEF Terminate
  <2>3. at' \in [Servers \cup Cleaners -> ServerPlaces \cup CleanerPlaces]
    <3>1. CASE Found = None
      BY <1>15, <3>1 DEF Terminate
    <3>2. CASE Found # None
      <4> DEFINE to == CASE at[Found] = "serving" -> "closing"
                         [] at[Found] \in {"closing", "closed", "releasing", "released"} -> at[Found]
                         [] OTHER -> "dead"
      <4>1. to \in ServerPlaces
        BY DEF ServerPlaces
      <4>2. at' = [at EXCEPT ![c] = "waiting", ![Found] = to]
        BY <1>15, <3>2 DEF Terminate
      <4> HIDE DEF to
      <4> QED BY <4>1, <4>2, <2>1, <3>2
    <3> QED BY <3>1, <3>2
  <2> QED BY <1>15, <2>2, <2>3 DEF Terminate
<1>16. ASSUME NEW c \in Cleaners, Awaited(c) PROVE DaemonTypeOK'
  BY <1>16 DEF Awaited
<1>17. ASSUME NEW c \in Cleaners, Status(c) PROVE DaemonTypeOK'
  BY <1>17 DEF Status
<1>18. ASSUME NEW c \in Cleaners, CheckHealth(c) PROVE DaemonTypeOK'
  BY <1>18 DEF CheckHealth
<1>19. ASSUME NEW c \in Cleaners, Clean(c) PROVE DaemonTypeOK'
  BY <1>19 DEF Clean
<1>20. CASE UNCHANGED daemonVars
  BY <1>20 DEF daemonVars
<1> QED
  BY <1>1, <1>2, <1>3, <1>4, <1>5, <1>6, <1>7, <1>8, <1>9, <1>10, <1>11, <1>12, <1>13,
     <1>14, <1>15, <1>16, <1>17, <1>18, <1>19, <1>20 DEF DaemonNext, Server

\* A process that keeps the lock and its place, or leaves the places where one holds it,
\* or goes on among them while it holds the lock, keeps LockHeld.
LEMMA StepKeepsLock ==
    ASSUME DaemonInv, ~removal', UNCHANGED <<lock, removal>>,
           \A p \in Servers : at'[p] \in Holding => at[p] \in Holding
    PROVE  LockHeld'
BY DEF DaemonInv, LockHeld

\* A step of one process from a place where it holds the lock to another, or to one where
\* it does not.
LEMMA GoKeepsLock ==
    ASSUME DaemonInv, NEW p \in Servers \cup Cleaners, NEW from, NEW to, Go(p, from, to),
           to \in Holding => from \in Holding
    PROVE  \A q \in Servers : at'[q] \in Holding => at[q] \in Holding
BY DEF DaemonInv, DaemonTypeOK, Go

\* Whoever takes the lock finds none, and so nobody holding it; it is given back by the
\* one that holds it, and removed by others only as stale.
LEMMA LockStep == DaemonInv /\ DaemonTypeOK' /\ [DaemonNext]_daemonVars => LockHeld'
<1> SUFFICES ASSUME DaemonInv, DaemonTypeOK', [DaemonNext]_daemonVars, ~removal' PROVE LockHeld'
  BY DEF LockHeld
<1> USE DEF files
<1>1. ASSUME NEW p \in Servers, CreateLock(p) PROVE LockHeld'
  <2>1. UNCHANGED removal /\ ~removal
    BY <1>1 DEF CreateLock
  <2>2. CASE lock = None
    <3>1. lock' = p /\ at' = [at EXCEPT ![p] = "locked"]
      BY <1>1, <2>2 DEF CreateLock, Go
    <3>2. ASSUME NEW q \in Servers, at'[q] \in Holding PROVE lock' = q
      <4>1. CASE q = p
        BY <3>1, <4>1
      <4>2. CASE q # p
        <5>1. at[q] \in Holding
          BY <3>1, <3>2, <4>2 DEF DaemonInv, DaemonTypeOK
        <5>2. lock = q
          BY <5>1, <2>1 DEF DaemonInv, LockHeld
        <5> QED BY <5>2, <2>2, DaemonAssumption
      <4> QED BY <4>1, <4>2
    <3> QED BY <3>2 DEF LockHeld
  <2>3. CASE lock # None
    <3>1. Go(p, "new", "reading") /\ UNCHANGED <<lock, removal>>
      BY <1>1, <2>3 DEF CreateLock
    <3> QED BY <3>1, GoKeepsLock, StepKeepsLock DEF Holding
  <2> QED BY <2>2, <2>3
<1>2. ASSUME NEW p \in Servers, ReadLock(p) PROVE LockHeld'
  BY <1>2, GoKeepsLock, StepKeepsLock DEF ReadLock, Holding
<1>3. ASSUME NEW p \in Servers, RemoveStale(p) PROVE LockHeld'
  BY <1>3 DEF RemoveStale
<1>4. ASSUME NEW p \in Servers, WritePid(p) PROVE LockHeld'
  BY <1>4, GoKeepsLock, StepKeepsLock DEF WritePid, Holding
<1>5. ASSUME NEW p \in Servers, OpenStore(p) PROVE LockHeld'
  BY <1>5, GoKeepsLock, StepKeepsLock DEF OpenStore, Holding
<1>6. ASSUME NEW p \in Servers, PrepareSocket(p) PROVE LockHeld'
  BY <1>6, GoKeepsLock, StepKeepsLock DEF PrepareSocket, Holding
<1>7. ASSUME NEW p \in Servers, UnlinkSocket(p) PROVE LockHeld'
  BY <1>7, GoKeepsLock, StepKeepsLock DEF UnlinkSocket, Holding
<1>8. ASSUME NEW p \in Servers, Listen(p) PROVE LockHeld'
  <2>1. Go(p, "listen", "listening") \/ Go(p, "listen", "dead")
    BY <1>8 DEF Listen
  <2>2. \A q \in Servers : at'[q] \in Holding => at[q] \in Holding
    BY <2>1, GoKeepsLock DEF Holding
  <2> QED BY <1>8, <2>2, StepKeepsLock DEF Listen
<1>9. ASSUME NEW p \in Servers, WriteMetadata(p) PROVE LockHeld'
  BY <1>9, GoKeepsLock, StepKeepsLock DEF WriteMetadata, Holding
<1>10. ASSUME NEW p \in Servers, CloseSocket(p) PROVE LockHeld'
  BY <1>10, GoKeepsLock, StepKeepsLock DEF CloseSocket, Holding
<1>11. ASSUME NEW p \in Servers, RemovePid(p) PROVE LockHeld'
  BY <1>11, GoKeepsLock, StepKeepsLock DEF RemovePid, Holding
<1>12. ASSUME NEW p \in Servers, ReleaseLock(p) PROVE LockHeld'
  <2>1. ~removal /\ at' = [at EXCEPT ![p] = "released"] /\ at[p] = "releasing"
    BY <1>12 DEF ReleaseLock, Go
  <2>2. lock = p
    BY <2>1 DEF DaemonInv, LockHeld, Holding
  <2>3. ASSUME NEW q \in Servers, at'[q] \in Holding PROVE FALSE
    <3>1. q # p /\ at[q] \in Holding
      BY <2>1, <2>3 DEF Holding, DaemonInv, DaemonTypeOK
    <3> QED BY <3>1, <2>1, <2>2 DEF DaemonInv, LockHeld
  <2> QED BY <2>3 DEF LockHeld
<1>13. ASSUME NEW p \in Servers, RemoveMetadata(p) PROVE LockHeld'
  BY <1>13, GoKeepsLock, StepKeepsLock DEF RemoveMetadata, Holding
<1>14. ASSUME NEW p \in Servers, Kill(p) PROVE LockHeld'
  <2>1. \A q \in Servers : at'[q] \in Holding => at[q] \in Holding
    BY <1>14 DEF Kill, Holding, DaemonInv, DaemonTypeOK
  <2> QED BY <1>14, <2>1, StepKeepsLock DEF Kill
<1>15. ASSUME NEW c \in Cleaners, Terminate(c) PROVE LockHeld'
  <2>1. Found \in Servers \cup {None}
    BY FoundIsAlive DEF DaemonInv
  <2>2. ASSUME NEW q \in Servers, at'[q] \in Holding PROVE at[q] \in Holding
    <3>1. CASE Found = None
      BY <1>15, <2>2, <3>1 DEF Terminate, Holding, DaemonInv, DaemonTypeOK
    <3>2. CASE Found # None /\ q # Found
      BY <1>15, <2>2, <3>2 DEF Terminate, Holding, DaemonInv, DaemonTypeOK
    <3>3. CASE Found # None /\ q = Found
      <4>1. at'[q] = CASE at[q] = "serving" -> "closing"
                       [] at[q] \in {"closing", "closed", "releasing", "released"} -> at[q]
                       [] OTHER -> "dead"
        BY <1>15, <3>3 DEF Terminate, DaemonInv, DaemonTypeOK
      <4> QED BY <4>1, <2>2 DEF Holding
    <3> QED BY <3>1, <3>2, <3>3
  <2> QED BY <1>15, <2>2, StepKeepsLock DEF Terminate
<1>16. ASSUME NEW c \in Cleaners, Awaited(c) PROVE LockHeld'
  BY <1>16, GoKeepsLock, StepKeepsLock DEF Awaited, Holding
<1>17. ASSUME NEW c \in Cleaners, Status(c) PROVE LockHeld'
  BY <1>17, GoKeepsLock, StepKeepsLock DEF Status, Holding
<1>18. ASSUME NEW c \in Cleaners, CheckHealth(c) PROVE LockHeld'
  BY <1>18, GoKeepsLock, StepKeepsLock DEF CheckHealth, Holding
<1>19. ASSUME NEW c \in Cleaners, Clean(c) PROVE LockHeld'
  BY <1>19, GoKeepsLock, StepKeepsLock DEF Clean, Holding
<1>20. CASE UNCHANGED daemonVars
  BY <1>20 DEF daemonVars, DaemonInv, LockHeld
<1> QED
  BY <1>1, <1>2, <1>3, <1>4, <1>5, <1>6, <1>7, <1>8, <1>9, <1>10, <1>11, <1>12, <1>13,
     <1>14, <1>15, <1>16, <1>17, <1>18, <1>19, <1>20 DEF DaemonNext, Server

-----------------------------------------------------------------------------
\* However many processes become, stop and look for the daemon at once, and wherever they
\* are killed: unless a lock was removed as stale, at most one has the store open.
THEOREM AdmitsOne == DaemonSpec => []DaemonIsSound
<1>1. DaemonInit => DaemonInv
  BY DaemonInitOK
<1>2. DaemonInv /\ [DaemonNext]_daemonVars => DaemonInv'
  BY DaemonTypeStep, LockStep DEF DaemonInv
<1>3. DaemonInv => DaemonIsSound
  BY OneHolder DEF DaemonIsSound, OneDaemonPerLock, DaemonInv
<1> QED BY <1>1, <1>2, <1>3, PTL DEF DaemonSpec

-----------------------------------------------------------------------------
(* The database file *)

\* Backups are of databases of v1 with their migrations, each of a time of its own.
BackupsOK ==
    /\ \A n \in DOMAIN backups :
          backups[n].file.kind = "v1" /\ backups[n].file.applied # 0 /\ backups[n].time <= stamp
    /\ \A m, n \in DOMAIN backups : backups[m].time = backups[n].time => m = n

\* What the file can be in each phase.  One from before the first migration is empty.
FileOK ==
    /\ phase \in {"migrating", "upgrading", "open"} => db # NoFile /\ db.kind = "v1"
    /\ phase \in {"migrating", "open"} => db.applied # 0
    /\ phase = "archiving" => db # NoFile /\ (db.kind = "old" \/ db = New)
    /\ phase = "recovering" => Healthy(backups) # {}
    /\ db # NoFile /\ (db.kind = "old" \/ (db.kind = "v1" /\ db.applied = 0)) => db.work = 0

Recovering == phase = "recovering" \/ (db # NoFile /\ db.kind = "damaged")

OwedOK ==
    ~cut => /\ Recovering => owed = NewestWork(backups)
            /\ ~Recovering /\ db = NoFile => owed = 0
            /\ ~Recovering /\ db # NoFile => db.work >= owed

StoreInv == StoreTypeOK /\ BackupsOK /\ FileOK /\ OwedOK

\* Some versions have a first and a last one.
LEMMA VersionsHaveEnds ==
    ASSUME NEW S \in SUBSET Versions, S # {}
    PROVE  Min(S) \in S /\ Max(S) \in S /\ Min(S) \in Versions
<1>1. S \in SUBSET Nat /\ IsFiniteSet(S)
  BY StoreAssumption, FS_Subset
<1>2. /\ \E m \in S : \A x \in S : m <= x
      /\ \E m \in S : \A x \in S : x <= m
  BY <1>1, Extremes
<1>3. \A x, y \in S : (x >= y <=> y <= x)
  BY <1>1
<1>4. \E m \in S : \A x \in S : m >= x
  BY <1>2, <1>3
<1> QED BY <1>2, <1>4 DEF Min, Max

\* The backup a recovery takes is the newest, and holds what is owed after a damage.
LEMMA NewestIsRecoverable ==
    ASSUME StoreTypeOK, BackupsOK, Healthy(backups) # {}
    PROVE  /\ Recoverable(backups) \in DOMAIN backups
           /\ NewestWork(backups) = backups[Recoverable(backups)].file.work
<1> DEFINE H == Healthy(backups)
           Stamps == {backups[n].time : n \in H}
<1>1. \A n \in H : n \in DOMAIN backups /\ backups[n].time \in Nat /\ backups[n].time <= stamp
  BY DEF Healthy, StoreTypeOK, BackupsOK
<1>2. H # {} /\ \A m, n \in H : backups[m].time = backups[n].time => m = n
  BY DEF Healthy, BackupsOK
<1> HIDE DEF H
<1>3. Stamps \in SUBSET Nat /\ Stamps # {} /\ IsFiniteSet(Stamps)
  <2>1. Stamps \in SUBSET Nat /\ Stamps # {} /\ \A t \in Stamps : t <= stamp
    BY <1>1, <1>2
  <2>2. stamp \in Nat
    BY DEF StoreTypeOK
  <2> HIDE DEF Stamps
  <2> QED BY <2>1, <2>2, FS_BoundedSetOfNaturals
<1>4. PICK t \in Stamps : \A x \in Stamps : x <= t
  <2> HIDE DEF Stamps
  <2> QED BY <1>3, Extremes
<1>5. PICK n \in H : t = backups[n].time
  BY <1>4
<1>6. \A m \in H : backups[m].time <= backups[n].time
  BY <1>4, <1>5
<1>7. \A k \in H : (\A m \in H : backups[m].time <= backups[k].time) => k = n
  <2> SUFFICES ASSUME NEW k \in H, \A m \in H : backups[m].time <= backups[k].time
               PROVE  k = n
    OBVIOUS
  <2>1. backups[k].time <= backups[n].time /\ backups[n].time <= backups[k].time
    BY <1>6
  <2>2. backups[k].time = backups[n].time
    BY <1>1, <2>1
  <2> QED BY <1>2, <2>2
<1>8. \A m \in H \ {n} : Before(backups, n, m)
  <2> SUFFICES ASSUME NEW m \in H \ {n} PROVE Before(backups, n, m)
    OBVIOUS
  <2>1. backups[m].time # backups[n].time /\ backups[m].time <= backups[n].time
    BY <1>2, <1>6
  <2> QED BY <1>1, <2>1 DEF Before
<1>9. \A k \in H : (\A m \in H \ {k} : Before(backups, k, m)) => k = n
  <2> SUFFICES ASSUME NEW k \in H, \A m \in H \ {k} : Before(backups, k, m), k # n
               PROVE  FALSE
    OBVIOUS
  <2>1. Before(backups, k, n)
    OBVIOUS
  <2>2. backups[k].time >= backups[n].time
    BY <1>1, <2>1 DEF Before
  <2>3. backups[k].time = backups[n].time
    BY <1>1, <1>6, <2>2
  <2> QED BY <1>2, <2>3
<1>10. Recoverable(backups) = n
  <2>1. \E k \in H : \A m \in H \ {k} : Before(backups, k, m)
    BY <1>8
  <2>2. Recoverable(backups) = CHOOSE k \in H : \A m \in H \ {k} : Before(backups, k, m)
    BY DEF Recoverable, H
  <2> QED BY <1>9, <2>1, <2>2
<1>11. NewestWork(backups) = backups[n].file.work
  <2> DEFINE newest == CHOOSE k \in H : \A m \in H : backups[m].time <= backups[k].time
  <2>1. newest \in H /\ \A m \in H : backups[m].time <= backups[newest].time
    BY <1>6
  <2>2. newest = n
    BY <1>7, <2>1
  <2>3. NewestWork(backups) = backups[newest].file.work
    BY <1>2 DEF NewestWork, H
  <2> QED BY <2>2, <2>3
<1> QED BY <1>1, <1>10, <1>11

\* A new backup is the newest, and pruning takes away without changing what it keeps.
LEMMA BackupAdded ==
    ASSUME StoreTypeOK, BackupsOK, NEW n \in {0} \cup Versions, NEW file \in Files,
           file.kind = "v1", file.applied # 0,
           backups' = With(n, file) \/ backups' = Pruned(With(n, file)),
           stamp' = stamp + 1
    PROVE  /\ stamp' \in Nat /\ DOMAIN backups' \subseteq {0} \cup Versions
           /\ \A m \in DOMAIN backups' : backups'[m].file \in Files /\ backups'[m].time \in Nat
           /\ BackupsOK'
<1> DEFINE W == With(n, file)
<1>1. /\ DOMAIN W = DOMAIN backups \cup {n}
      /\ W[n] = [file |-> file, time |-> stamp + 1]
      /\ \A m \in DOMAIN backups : m # n => W[m] = backups[m]
  BY DEF With
<1>2. DOMAIN Pruned(W) \subseteq DOMAIN W /\ \A m \in DOMAIN Pruned(W) : Pruned(W)[m] = W[m]
  <2> HIDE DEF W
  <2> QED BY DEF Pruned
<1> HIDE DEF W
<1>3. DOMAIN backups' \subseteq DOMAIN W /\ \A m \in DOMAIN backups' : backups'[m] = W[m]
  BY <1>2 DEF W
<1>4. stamp \in Nat /\ stamp' \in Nat /\ stamp' = stamp + 1
  BY DEF StoreTypeOK
<1>5. \A m \in DOMAIN backups' :
         \/ m = n /\ backups'[m] = [file |-> file, time |-> stamp + 1]
         \/ m # n /\ m \in DOMAIN backups /\ backups'[m] = backups[m]
  BY <1>1, <1>3
<1>6. \A m \in DOMAIN backups :
         /\ backups[m].file \in Files /\ backups[m].time \in Nat /\ backups[m].time <= stamp
         /\ backups[m].file.kind = "v1" /\ backups[m].file.applied # 0
  BY DEF StoreTypeOK, BackupsOK
<1>7. \A m \in DOMAIN backups' :
         /\ backups'[m].file \in Files /\ backups'[m].time \in Nat
         /\ backups'[m].file.kind = "v1" /\ backups'[m].file.applied # 0
         /\ backups'[m].time <= stamp'
  BY <1>4, <1>5, <1>6
<1>8. ASSUME NEW k \in DOMAIN backups', NEW m \in DOMAIN backups',
             backups'[m].time = backups'[k].time
      PROVE  m = k
  <2>1. CASE m = n /\ k # n
    BY <1>4, <1>5, <1>6, <1>8, <2>1
  <2>2. CASE m # n /\ k = n
    BY <1>4, <1>5, <1>6, <1>8, <2>2
  <2>3. CASE m # n /\ k # n
    <3>1. /\ m \in DOMAIN backups /\ k \in DOMAIN backups
          /\ backups[m].time = backups[k].time
      BY <1>5, <1>8, <2>3
    <3> QED BY <3>1 DEF BackupsOK
  <2> QED BY <2>1, <2>2, <2>3
<1>9. DOMAIN backups' \subseteq {0} \cup Versions
  BY <1>1, <1>3 DEF StoreTypeOK
<1> QED BY <1>4, <1>7, <1>8, <1>9 DEF BackupsOK

\* Before anything happened there is no backup and nothing is owed.
LEMMA StoreInitOK == StoreInit => StoreInv
<1> SUFFICES ASSUME StoreInit PROVE StoreInv
  OBVIOUS
<1>1. Min(Versions) \in Versions
  BY VersionsHaveEnds, StoreAssumption
<1>2. MaxWork \in Nat /\ 0 \in 0..MaxWork /\ Min(Versions) # 0
  BY <1>1, StoreAssumption
<1>3. db \in Files \cup {NoFile} /\ (db # NoFile => db.kind \in {"v1", "old"} /\ db.applied # 0 /\ db.work = 0)
  BY <1>1, <1>2 DEF StoreInit, Files
<1>4. DOMAIN backups = {}
  BY DEF StoreInit
<1>5. StoreTypeOK
  BY <1>1, <1>2, <1>3, <1>4 DEF StoreInit, StoreTypeOK
<1>6. BackupsOK
  BY <1>4 DEF BackupsOK
<1>7. FileOK
  BY <1>3 DEF StoreInit, FileOK
<1>8. OwedOK
  BY <1>2, <1>3 DEF StoreInit, OwedOK, Recovering
<1> QED BY <1>5, <1>6, <1>7, <1>8 DEF StoreInv

-----------------------------------------------------------------------------
\* The database that is created is of no migration and empty.
LEMMA NewIsFile == New \in Files /\ New.kind = "v1" /\ New.applied = 0 /\ New.work = 0
BY StoreAssumption DEF New, Files

\* What is known of a file in the type.
LEMMA FileFields ==
    ASSUME NEW f \in Files
    PROVE  /\ f # NoFile /\ f.kind \in {"v1", "old", "damaged"}
           /\ f.applied \in {0} \cup Versions /\ f.work \in 0..MaxWork /\ f.work \in Nat
BY StoreAssumption DEF Files

\* A backup restored holds what is owed, and is of v1 with its migrations.
LEMMA RestoredFile ==
    ASSUME StoreInv, Healthy(backups) # {}
    PROVE  /\ backups[Recoverable(backups)].file \in Files
           /\ backups[Recoverable(backups)].file.kind = "v1"
           /\ backups[Recoverable(backups)].file.applied # 0
           /\ backups[Recoverable(backups)].file.work = NewestWork(backups)
BY NewestIsRecoverable DEF StoreInv, StoreTypeOK, BackupsOK

\* With the backups as they were only the file and the phase are to be looked at.
LEMMA SameBackups ==
    ASSUME StoreInv, UNCHANGED <<backups, stamp>>,
           db' \in Files \cup {NoFile}, release' \in Versions,
           phase' \in {"closed", "recovering", "archiving", "migrating", "upgrading", "open"},
           owed' \in 0..MaxWork, cut' \in BOOLEAN, FileOK', OwedOK'
    PROVE  StoreInv'
<1>1. StoreTypeOK'
  BY DEF StoreInv, StoreTypeOK
<1>2. BackupsOK'
  BY DEF StoreInv, BackupsOK
<1> QED BY <1>1, <1>2 DEF StoreInv

LEMMA StoreStep == StoreInv /\ [StoreNext]_storeVars => StoreInv'
<1> SUFFICES ASSUME StoreInv, [StoreNext]_storeVars PROVE StoreInv'
  OBVIOUS
<1> DEFINE restored == backups[Recoverable(backups)].file
<1>0. /\ StoreTypeOK /\ BackupsOK /\ FileOK /\ OwedOK
      /\ release \in Versions /\ owed \in 0..MaxWork /\ owed \in Nat /\ cut \in BOOLEAN
      /\ phase \in {"closed", "recovering", "archiving", "migrating", "upgrading", "open"}
      /\ db \in Files \cup {NoFile} /\ MaxWork \in Nat
  BY StoreAssumption DEF StoreInv, StoreTypeOK
<1>f. /\ db # NoFile => /\ db \in Files /\ db.kind \in {"v1", "old", "damaged"}
                        /\ db.applied \in {0} \cup Versions
                        /\ db.work \in 0..MaxWork /\ db.work \in Nat
  BY <1>0, FileFields
<1>r. Healthy(backups) # {} =>
         /\ restored \in Files /\ restored.kind = "v1" /\ restored.applied # 0
         /\ restored # NoFile /\ restored.work = NewestWork(backups)
         /\ NewestWork(backups) \in 0..MaxWork
  BY RestoredFile, FileFields
<1>n. NewestWork(backups) \in 0..MaxWork
  BY <1>r, <1>0 DEF NewestWork
<1> HIDE DEF restored
<1>1. CASE Open
  <2>1. phase = "closed" /\ UNCHANGED <<backups, release, stamp, owed, cut>>
    BY <1>1 DEF Open
  <2>2. CASE db = NoFile
    <3>1. db' = New /\ phase' = "upgrading"
      BY <1>1, <2>2 DEF Open
    <3>2. db' # NoFile /\ db' \in Files
      BY <3>1, NewIsFile, FileFields
    <3>3. FileOK'
      BY <3>1, <3>2, NewIsFile DEF FileOK
    <3>4. OwedOK'
      BY <1>0, <2>1, <2>2, <3>1, <3>2, NewIsFile DEF OwedOK, Recovering
    <3> QED BY <1>0, <2>1, <3>1, <3>2, <3>3, <3>4, SameBackups
  <2>3. CASE db # NoFile /\ db.kind = "v1" /\ db.applied # 0
    <3>1. db' = db /\ phase' = "migrating"
      BY <1>1, <2>3, NewIsFile DEF Open
    <3>2. FileOK'
      BY <1>0, <2>1, <2>3, <3>1 DEF FileOK
    <3>3. OwedOK'
      BY <1>0, <2>1, <2>3, <3>1 DEF OwedOK, Recovering
    <3> QED BY <1>0, <2>1, <3>1, <3>2, <3>3, SameBackups
  <2>4. CASE db # NoFile /\ ~(db.kind = "v1" /\ db.applied # 0) /\ (db.kind = "old" \/ db = New)
    <3>1. db' = db /\ phase' = "archiving"
      BY <1>1, <2>4, NewIsFile DEF Open
    <3>2. FileOK'
      BY <1>0, <2>1, <2>4, <3>1 DEF FileOK
    <3>3. OwedOK'
      BY <1>0, <2>1, <2>4, <3>1 DEF OwedOK, Recovering
    <3> QED BY <1>0, <2>1, <3>1, <3>2, <3>3, SameBackups
  <2>5. CASE db # NoFile /\ db.kind = "damaged" /\ Healthy(backups) # {}
    <3>1. db' = NoFile /\ phase' = "recovering"
      BY <1>1, <2>5, NewIsFile DEF Open
    <3>2. FileOK'
      BY <2>1, <2>5, <3>1 DEF FileOK, Healthy
    <3>3. OwedOK'
      BY <1>0, <2>1, <2>5, <3>1 DEF OwedOK, Recovering, NewestWork, Healthy
    <3> QED BY <1>0, <2>1, <3>1, <3>2, <3>3, SameBackups
  <2>6. \/ db = NoFile
        \/ db # NoFile /\ db.kind = "v1" /\ db.applied # 0
        \/ db # NoFile /\ ~(db.kind = "v1" /\ db.applied # 0) /\ (db.kind = "old" \/ db = New)
        \/ db # NoFile /\ db.kind = "damaged" /\ Healthy(backups) # {}
    BY <1>1 DEF Open
  <2> QED BY <2>2, <2>3, <2>4, <2>5, <2>6
<1>2. CASE Recover
  <2>1. /\ phase = "recovering" /\ Healthy(backups) # {} /\ db' = restored
        /\ UNCHANGED <<backups, release, stamp, owed, cut>>
    BY <1>0, <1>2 DEF Recover, FileOK, restored
  <2>2. phase' = "migrating" /\ restored \in Files
    BY <1>r, <1>2, <2>1 DEF Recover
  <2>3. FileOK'
    BY <1>r, <2>1, <2>2 DEF FileOK
  <2>4. ~cut => owed = restored.work
    BY <1>0, <1>r, <2>1 DEF OwedOK, Recovering
  <2>5. OwedOK'
    BY <1>0, <1>r, <2>1, <2>2, <2>4 DEF OwedOK, Recovering
  <2> QED BY <1>0, <2>1, <2>2, <2>3, <2>5, SameBackups
<1>3. CASE Archive
  <2>1. /\ db' = New /\ phase' = "upgrading" /\ owed' = 0
        /\ UNCHANGED <<backups, release, stamp, cut>>
    BY <1>3 DEF Archive
  <2>2. db' # NoFile /\ db' \in Files
    BY <2>1, NewIsFile, FileFields
  <2>3. FileOK'
    BY <2>1, <2>2, NewIsFile DEF FileOK
  <2>4. OwedOK'
    BY <2>1, <2>2, NewIsFile DEF OwedOK, Recovering
  <2> QED BY <1>0, <2>1, <2>2, <2>3, <2>4, SameBackups
<1>4. CASE BackupBeforeMigration
  <2>1. /\ phase = "migrating" /\ phase' = "upgrading" /\ UNCHANGED <<db, release, owed, cut>>
        /\ db # NoFile /\ db \in Files /\ db.kind = "v1" /\ db.applied # 0
    BY <1>0, <1>4 DEF BackupBeforeMigration, FileOK
  <2>2. FileOK'
    BY <1>0, <2>1 DEF FileOK
  <2>3. OwedOK'
    BY <1>0, <2>1 DEF OwedOK, Recovering
  <2>4. CASE Pending = {}
    <3>1. UNCHANGED <<backups, stamp>>
      BY <1>4, <2>4 DEF BackupBeforeMigration
    <3> QED BY <1>0, <2>1, <2>2, <2>3, <3>1, SameBackups
  <2>5. CASE Pending # {}
    <3>1. backups' = Pruned(With(release, db)) /\ stamp' = stamp + 1
      BY <1>4, <2>5 DEF BackupBeforeMigration
    <3>2. /\ stamp' \in Nat /\ DOMAIN backups' \subseteq {0} \cup Versions
          /\ \A m \in DOMAIN backups' : backups'[m].file \in Files /\ backups'[m].time \in Nat
          /\ BackupsOK'
      BY <1>0, <2>1, <3>1, BackupAdded
    <3>3. StoreTypeOK'
      BY <1>0, <2>1, <3>2 DEF StoreTypeOK
    <3> QED BY <2>2, <2>3, <3>2, <3>3 DEF StoreInv
  <2> QED BY <2>4, <2>5
<1>5. CASE ApplyMigration
  <2>1. /\ phase = "upgrading" /\ phase' = "upgrading"
        /\ UNCHANGED <<backups, release, stamp, owed, cut>>
        /\ db # NoFile /\ db \in Files /\ db.kind = "v1"
    BY <1>0, <1>5 DEF ApplyMigration, FileOK
  <2>2. PICK v \in Versions : db' = [db EXCEPT !.applied = v]
    <3>1. Min(Pending) \in Versions
      BY <1>5, VersionsHaveEnds DEF ApplyMigration, Pending
    <3> QED BY <1>5, <3>1 DEF ApplyMigration
  <2>3. /\ db' \in Files /\ db'.kind = "v1" /\ db'.applied = v /\ v # 0 /\ db'.work = db.work
    BY <2>1, <2>2, StoreAssumption DEF Files
  <2>4. db' # NoFile
    BY <2>3, FileFields
  <2>5. FileOK'
    BY <2>1, <2>3, <2>4 DEF FileOK
  <2>6. OwedOK'
    BY <1>0, <2>1, <2>3, <2>4 DEF OwedOK, Recovering
  <2> QED BY <1>0, <2>1, <2>3, <2>5, <2>6, SameBackups
<1>6. CASE Opened
  <2>1. /\ phase = "upgrading" /\ Pending = {} /\ phase' = "open"
        /\ UNCHANGED <<db, backups, release, stamp, owed, cut>>
        /\ db # NoFile /\ db \in Files /\ db.kind = "v1"
    BY <1>0, <1>6 DEF Opened, FileOK
  <2>2. db.applied # 0
    <3>1. release > 0 /\ release \in Versions
      BY <1>0, StoreAssumption
    <3>2. release <= release
      BY <1>0, StoreAssumption
    <3> QED BY <2>1, <3>1, <3>2 DEF Pending
  <2>3. FileOK'
    BY <1>0, <2>1, <2>2 DEF FileOK
  <2>4. OwedOK'
    BY <1>0, <2>1 DEF OwedOK, Recovering
  <2> QED BY <1>0, <2>1, <2>3, <2>4, SameBackups
<1>7. CASE Work
  <2>1. /\ phase = "open" /\ db.work < MaxWork /\ owed' = db.work + 1
        /\ db' = [db EXCEPT !.work = db.work + 1]
        /\ UNCHANGED <<backups, release, phase, stamp, cut>>
        /\ db # NoFile /\ db \in Files /\ db.kind = "v1" /\ db.applied # 0
    BY <1>0, <1>7 DEF Work, FileOK
  <2>2. db.work + 1 \in 0..MaxWork
    BY <1>0, <1>f, <2>1
  <2>3. /\ db' \in Files /\ db'.kind = "v1" /\ db'.applied # 0 /\ db'.work = db.work + 1
    BY <2>1, <2>2 DEF Files
  <2>4. db' # NoFile
    BY <2>3, FileFields
  <2>5. FileOK'
    BY <2>1, <2>3, <2>4 DEF FileOK
  <2>6. OwedOK'
    BY <1>f, <2>1, <2>3, <2>4 DEF OwedOK, Recovering
  <2> QED BY <1>0, <2>1, <2>2, <2>3, <2>5, <2>6, SameBackups
<1>8. CASE Backup
  <2>1. /\ phase = "open" /\ UNCHANGED <<db, release, phase, owed, cut>>
        /\ backups' = With(0, db) /\ stamp' = stamp + 1
        /\ db # NoFile /\ db \in Files /\ db.kind = "v1" /\ db.applied # 0
    BY <1>0, <1>8 DEF Backup, FileOK
  <2>2. /\ stamp' \in Nat /\ DOMAIN backups' \subseteq {0} \cup Versions
        /\ \A m \in DOMAIN backups' : backups'[m].file \in Files /\ backups'[m].time \in Nat
        /\ BackupsOK'
    BY <1>0, <2>1, BackupAdded
  <2>3. StoreTypeOK'
    BY <1>0, <2>1, <2>2 DEF StoreTypeOK
  <2>4. FileOK'
    BY <1>0, <2>1 DEF FileOK
  <2>5. OwedOK'
    BY <1>0, <2>1 DEF OwedOK, Recovering
  <2> QED BY <2>2, <2>3, <2>4, <2>5 DEF StoreInv
<1>9. CASE Close
  <2>1. phase = "open" /\ phase' = "closed" /\ UNCHANGED <<db, backups, release, stamp, owed, cut>>
    BY <1>9 DEF Close
  <2>2. FileOK'
    BY <1>0, <2>1 DEF FileOK
  <2>3. OwedOK'
    BY <1>0, <2>1 DEF OwedOK, Recovering, NewestWork, Healthy
  <2> QED BY <1>0, <2>1, <2>2, <2>3, SameBackups
<1>10. CASE Upgrade
  <2>1. phase = "closed" /\ UNCHANGED <<db, backups, phase, stamp, owed, cut>>
    BY <1>10 DEF Upgrade
  <2>2. release' \in Versions
    <3>1. Latest \in Versions
      BY VersionsHaveEnds, StoreAssumption DEF Latest
    <3>2. Latest > release
      BY <1>0, <1>10, <3>1, StoreAssumption DEF Upgrade
    <3>3. {v \in Versions : v > release} # {}
      BY <3>1, <3>2
    <3>4. Min({v \in Versions : v > release}) \in Versions
      BY <3>3, VersionsHaveEnds
    <3> QED BY <1>10, <3>4 DEF Upgrade
  <2>3. FileOK'
    BY <1>0, <2>1 DEF FileOK, Healthy
  <2>4. OwedOK'
    BY <1>0, <2>1 DEF OwedOK, Recovering, NewestWork, Healthy
  <2> QED BY <1>0, <2>1, <2>2, <2>3, <2>4, SameBackups
<1>11. CASE Damage
  <2>1. /\ phase = "closed" /\ db # NoFile /\ db \in Files /\ db.kind = "v1"
        /\ db' = [db EXCEPT !.kind = "damaged"] /\ owed' = NewestWork(backups)
        /\ UNCHANGED <<backups, release, phase, stamp, cut>>
    BY <1>0, <1>11 DEF Damage
  <2>2. db' \in Files /\ db'.kind = "damaged"
    BY <2>1 DEF Files
  <2>3. db' # NoFile
    BY <2>2, FileFields
  <2>4. FileOK'
    BY <2>1, <2>2, <2>3 DEF FileOK
  <2>5. NewestWork(backups)' = NewestWork(backups)
    BY <2>1 DEF NewestWork, Healthy
  <2>6. OwedOK'
    BY <2>1, <2>2, <2>3, <2>5 DEF OwedOK, Recovering
  <2> QED BY <1>0, <1>n, <2>1, <2>2, <2>4, <2>6, SameBackups
<1>12. CASE StoreCrash
  <2>1. /\ phase # "closed" /\ phase' = "closed" /\ cut' = (cut \/ phase = "recovering")
        /\ UNCHANGED <<backups, release, stamp, owed>>
    BY <1>12 DEF StoreCrash
  <2>2. CASE phase = "recovering"
    <3>1. db' \in {NoFile, [restored EXCEPT !.kind = "damaged"]} /\ restored \in Files
      BY <1>0, <1>r, <1>12, <2>2 DEF StoreCrash, FileOK, restored
    <3>2. [restored EXCEPT !.kind = "damaged"] \in Files
      BY <3>1 DEF Files
    <3>3. [restored EXCEPT !.kind = "damaged"].kind = "damaged"
      BY <3>1 DEF Files
    <3>4. FileOK'
      BY <2>1, <3>1, <3>3 DEF FileOK
    <3>5. OwedOK'
      BY <2>1, <2>2 DEF OwedOK
    <3> QED BY <1>0, <2>1, <3>1, <3>2, <3>4, <3>5, SameBackups
  <2>3. CASE phase = "archiving"
    <3>1. db' \in {db, NoFile} /\ db # NoFile /\ db.work = 0 /\ db.kind # "damaged"
      BY <1>0, <1>12, <2>3, NewIsFile DEF StoreCrash, FileOK
    <3>2. FileOK'
      BY <1>0, <2>1, <3>1 DEF FileOK
    <3>3. ~cut => owed = 0
      BY <1>0, <2>3, <3>1 DEF OwedOK, Recovering
    <3>4. OwedOK'
      BY <1>0, <2>1, <2>3, <3>1, <3>3 DEF OwedOK, Recovering
    <3> QED BY <1>0, <2>1, <3>1, <3>2, <3>4, SameBackups
  <2>4. CASE phase \notin {"recovering", "archiving"}
    <3>1. db' = db /\ db # NoFile /\ db.kind = "v1" /\ cut' = cut
      BY <1>0, <1>12, <2>1, <2>4 DEF StoreCrash, FileOK
    <3>2. FileOK'
      BY <1>0, <2>1, <3>1 DEF FileOK
    <3>3. OwedOK'
      BY <1>0, <2>1, <2>4, <3>1 DEF OwedOK, Recovering
    <3> QED BY <1>0, <2>1, <3>1, <3>2, <3>3, SameBackups
  <2> QED BY <2>2, <2>3, <2>4
<1>13. CASE UNCHANGED storeVars
  <2>1. UNCHANGED <<db, backups, release, phase, stamp, owed, cut>>
    BY <1>13 DEF storeVars
  <2> QED BY <1>0, <2>1 DEF StoreInv, StoreTypeOK, BackupsOK, FileOK, OwedOK, Recovering,
                            NewestWork, Healthy
<1> QED
  BY <1>1, <1>2, <1>3, <1>4, <1>5, <1>6, <1>7, <1>8, <1>9, <1>10, <1>11, <1>12, <1>13
  DEF StoreNext

\* Whatever the releases, the retention of backups, and the crashes in opening, archiving
\* and migrating: an open database holds all that was committed, or after a damage all that
\* the newest healthy backup held, unless a recovery itself was cut short.
THEOREM OpenKeepsTheWork == StoreSpec => []StoreIsSound
<1>1. StoreInv => StoreIsSound
  <2> SUFFICES ASSUME StoreInv, phase = "open", ~cut PROVE db.work >= owed
    BY DEF StoreInv, StoreIsSound, OpenKeepsWork
  <2>1. db # NoFile /\ ~Recovering
    BY DEF StoreInv, FileOK, Recovering
  <2> QED BY <2>1 DEF StoreInv, OwedOK
<1> QED BY <1>1, StoreInitOK, StoreStep, PTL DEF StoreSpec

-----------------------------------------------------------------------------
(* The inductive invariant *)

\* What the provider sent up to there is in a log, and in the log.
CoveredIn(s, n) == \A e \in 1..n : e \in Skipped \/ Contains(s, e)
Covered(n) == CoveredIn(stored, n)

\* The places in the stream that are a cursor or may become it.
Marks == {cursor, sync.from, request.cursor, update.cursor}

MarksOK == \A n \in Marks : n <= feed /\ (Exists => Covered(n))

BatchOK == sync.upto <= feed /\ (sync.at = "append" => sync.from <= sync.upto)

StoredOK == \A i \in 1..Len(stored) : Covered(stored[i])

RemoteInv == RemoteTypeOK /\ MarksOK /\ BatchOK /\ StoredOK /\ StoredInOrder

-----------------------------------------------------------------------------
(* The helpers *)

LEMMA ConstantsAreNumbers == MaxFeed \in Nat /\ Limit \in Nat
BY RemoteAssumption

\* The log is a sequence of events of the stream.
LEMMA StoredType ==
    ASSUME RemoteTypeOK
    PROVE  /\ stored \in Seq(1..MaxFeed) /\ Len(stored) \in Nat
           /\ \A i \in 1..Len(stored) : stored[i] \in 1..MaxFeed
<1>1. stored \in Seq(1..MaxFeed)
  BY DEF RemoteTypeOK
<1>2. Len(stored) \in Nat
  BY <1>1
<1>3. ASSUME NEW i \in 1..Len(stored) PROVE stored[i] \in 1..MaxFeed
  BY <1>1, ElementOfSeq
<1> QED BY <1>1, <1>2, <1>3

\* What is stored stays, and the event is stored.
LEMMA StoredWithKeeps ==
    ASSUME stored \in Seq(1..MaxFeed), NEW e \in 1..MaxFeed
    PROVE  /\ StoredWith(e) \in Seq(1..MaxFeed)
           /\ Contains(StoredWith(e), e)
           /\ \A x : Contains(stored, x) => Contains(StoredWith(e), x)
<1>1. CASE Contains(stored, e)
  BY <1>1 DEF StoredWith
<1>2. CASE ~Contains(stored, e)
  <2> DEFINE longer == Append(stored, e)
  <2>1. StoredWith(e) = longer
    BY <1>2 DEF StoredWith
  <2>2. /\ longer \in Seq(1..MaxFeed) /\ Len(longer) = Len(stored) + 1
        /\ longer[Len(stored) + 1] = e
        /\ \A i \in 1..Len(stored) : longer[i] = stored[i]
    OBVIOUS
  <2>3. Len(stored) \in Nat
    OBVIOUS
  <2> HIDE DEF longer
  <2>4. Contains(longer, e)
    BY <2>2, <2>3 DEF Contains
  <2>5. ASSUME NEW x, Contains(stored, x) PROVE Contains(longer, x)
    <3>1. PICK i \in 1..Len(stored) : stored[i] = x
      BY <2>5 DEF Contains
    <3>2. i \in 1..Len(longer) /\ longer[i] = x
      BY <3>1, <2>2, <2>3
    <3> QED BY <3>2 DEF Contains
  <2> QED BY <2>1, <2>2, <2>4, <2>5
<1> QED BY <1>1, <1>2

\* The places remembered stay covered when each was remembered before, or is the start.
LEMMA MarksKept ==
    ASSUME RemoteInv, UNCHANGED stored, Exists' => Exists, feed' \in Nat, feed <= feed',
           Marks' \subseteq Marks \cup {0}
    PROVE  MarksOK'
<1>1. feed \in Nat /\ \A n \in Marks : n \in Nat
  BY ConstantsAreNumbers
     DEF RemoteInv, RemoteTypeOK, Marks, Offsets, SyncStates, RequestStates, UpdateStates
<1>2. ASSUME NEW n \in Marks' PROVE n <= feed' /\ (Exists' => Covered(n)')
  <2>1. CASE n \in Marks
    BY <1>1, <2>1 DEF RemoteInv, MarksOK, Covered, CoveredIn
  <2>2. CASE n = 0
    BY <2>2 DEF Covered, CoveredIn
  <2> QED BY <2>1, <2>2
<1> QED BY <1>2 DEF MarksOK

\* What the log has stays in order and covered as long as it is not written.
LEMMA StoredKept ==
    ASSUME RemoteInv, UNCHANGED stored
    PROVE  StoredOK' /\ StoredInOrder'
BY DEF RemoteInv, StoredOK, StoredInOrder, Covered, CoveredIn

\* A sync begins at the cursor.
LEMMA BeginsAtCursor ==
    ASSUME RemoteTypeOK, NEW by \in {"interval", "resume", "update"}, SyncBegins(by)
    PROVE  sync' \in SyncStates /\ sync'.at = "ensure" /\ sync'.from = cursor /\ sync'.upto = cursor
BY DEF SyncBegins, RemoteTypeOK, SyncStates

LEMMA IdleRecords ==
    /\ NoSync \in SyncStates /\ NoSync.at = "none" /\ NoSync.from = 0 /\ NoSync.upto = 0
    /\ NoRequest \in RequestStates /\ NoRequest.cursor = 0
    /\ NoUpdate \in UpdateStates /\ NoUpdate.cursor = 0
BY ConstantsAreNumbers DEF NoSync, NoRequest, NoUpdate, SyncStates, RequestStates, UpdateStates,
   Offsets, Statuses

-----------------------------------------------------------------------------
LEMMA RemoteInitOK == RemoteInit => RemoteInv
<1> SUFFICES ASSUME RemoteInit PROVE RemoteInv
  OBVIOUS
<1>1. RemoteTypeOK
  <2>1. 0 \in Offsets /\ "active" \in Statuses
    BY ConstantsAreNumbers DEF Offsets, Statuses
  <2>2. <<>> \in Seq(1..MaxFeed)
    OBVIOUS
  <2>3. sync \in SyncStates /\ request \in RequestStates /\ update \in UpdateStates
    BY IdleRecords DEF RemoteInit
  <2> QED BY <2>1, <2>2, <2>3 DEF RemoteInit, RemoteTypeOK
<1>2. MarksOK
  BY IdleRecords DEF RemoteInit, MarksOK, Marks, Covered, CoveredIn
<1>3. BatchOK
  BY IdleRecords DEF RemoteInit, BatchOK
<1>4. StoredOK /\ StoredInOrder
  BY DEF RemoteInit, StoredOK, StoredInOrder
<1> QED BY <1>1, <1>2, <1>3, <1>4 DEF RemoteInv

-----------------------------------------------------------------------------
(* Types *)

\* The records of the calls under way, changed in one field, are such records.
LEMMA RecordsStay ==
    ASSUME RemoteTypeOK
    PROVE  /\ \A place \in {"none", "ensure", "read", "append"} :
                  [sync EXCEPT !.at = place] \in SyncStates
           /\ \A n \in Offsets : [sync EXCEPT !.from = n] \in SyncStates
           /\ \A n \in Offsets : [sync EXCEPT !.at = "append", !.upto = n] \in SyncStates
           /\ \A place \in {"none", "pause", "stopped", "remove", "deleted"} :
                  [request EXCEPT !.at = place] \in RequestStates
           /\ [NoRequest EXCEPT !.at = "remove"] \in RequestStates
           /\ [NoRequest EXCEPT !.at = "remove"].cursor = 0
<1>1. sync \in SyncStates /\ request \in RequestStates
      /\ NoRequest \in RequestStates /\ NoRequest.cursor = 0
  BY IdleRecords DEF RemoteTypeOK
<1>2. [NoRequest EXCEPT !.at = "remove"] \in RequestStates
  BY <1>1 DEF RequestStates
<1>3. [NoRequest EXCEPT !.at = "remove"].cursor = 0
  BY <1>1 DEF RequestStates
<1>4. \A place \in {"none", "pause", "stopped", "remove", "deleted"} :
          [request EXCEPT !.at = place] \in RequestStates
  BY <1>1 DEF RequestStates
<1>5. \A place \in {"none", "ensure", "read", "append"} : [sync EXCEPT !.at = place] \in SyncStates
  BY <1>1 DEF SyncStates
<1>6. \A n \in Offsets : [sync EXCEPT !.from = n] \in SyncStates
  BY <1>1 DEF SyncStates
<1>7. \A n \in Offsets : [sync EXCEPT !.at = "append", !.upto = n] \in SyncStates
  BY <1>1 DEF SyncStates
<1> QED BY <1>2, <1>3, <1>4, <1>5, <1>6, <1>7

LEMMA RemoteTypeStep == RemoteTypeOK /\ BatchOK /\ [RemoteNext]_remoteVars => RemoteTypeOK'
<1> SUFFICES ASSUME RemoteTypeOK, BatchOK, [RemoteNext]_remoteVars PROVE RemoteTypeOK'
  OBVIOUS
<1>a. /\ 0 \in Offsets /\ {"active", "error", "paused", "gone"} \subseteq Statuses
      /\ cursor \in Offsets /\ <<>> \in Seq(1..MaxFeed)
  BY ConstantsAreNumbers DEF Offsets, Statuses, RemoteTypeOK
<1>b. /\ sync.from \in Offsets /\ sync.upto \in Offsets
      /\ request.cursor \in Offsets /\ update.cursor \in Offsets /\ update.status \in Statuses
  BY DEF RemoteTypeOK, SyncStates, RequestStates, UpdateStates
<1>1. CASE IntervalLists
  BY <1>1 DEF RemoteTypeOK, IntervalLists
<1>2. CASE IntervalSyncs
  BY <1>2, BeginsAtCursor DEF RemoteTypeOK, IntervalSyncs
<1>3. CASE PollRequest
  BY <1>3, BeginsAtCursor DEF RemoteTypeOK, PollRequest
<1>4. CASE SyncEnsured
  <2>1. sync' \in SyncStates
    BY <1>4, RecordsStay DEF SyncEnsured
  <2> QED BY <1>4, <2>1 DEF RemoteTypeOK, SyncEnsured
<1>5. CASE SyncRead
  <2> DEFINE to == IF feed < sync.from + Limit THEN feed ELSE sync.from + Limit
  <2>1. to \in Offsets
    BY <1>b, ConstantsAreNumbers DEF RemoteTypeOK, Offsets
  <2>2. sync' = [sync EXCEPT !.at = "append", !.upto = to]
    BY <1>5 DEF SyncRead
  <2> HIDE DEF to
  <2>3. sync' \in SyncStates
    BY <2>1, <2>2, RecordsStay
  <2> QED BY <1>5, <2>3 DEF RemoteTypeOK, SyncRead
<1>6. CASE SyncAppends
  <2>1. sync.from + 1 \in 1..MaxFeed
    BY <1>6, <1>b, ConstantsAreNumbers DEF SyncAppends, Offsets
  <2>2. stored' \in Seq(1..MaxFeed)
    BY <1>6, <2>1, StoredWithKeeps DEF SyncAppends, RemoteTypeOK
  <2>3. sync' \in SyncStates
    <3>1. sync' = [sync EXCEPT !.from = sync.from + 1]
      BY <1>6 DEF SyncAppends
    <3>2. sync.from + 1 \in Offsets
      BY <2>1, ConstantsAreNumbers DEF Offsets
    <3> QED BY <3>1, <3>2, RecordsStay
  <2> QED BY <1>6, <2>2, <2>3 DEF RemoteTypeOK, SyncAppends
<1>7. CASE SyncDone
  <2>1. cursor' \in Offsets /\ status' \in Statuses
    BY <1>7, <1>a, <1>b DEF SyncDone, NextCursor
  <2>2. sync' \in SyncStates /\ update' \in UpdateStates
    BY <1>7, IdleRecords DEF SyncDone, RemoteTypeOK
  <2> QED BY <1>7, <2>1, <2>2 DEF RemoteTypeOK, SyncDone
<1>8. CASE SyncFails
  <2>1. cursor' \in Offsets /\ status' \in Statuses
    BY <1>8, <1>a, <1>b DEF SyncFails, RemoteTypeOK
  <2>2. sync' \in SyncStates /\ update' \in UpdateStates /\ cooling' \in BOOLEAN
    BY <1>8, IdleRecords DEF SyncFails, RemoteTypeOK
  <2> QED BY <1>8, <2>1, <2>2 DEF RemoteTypeOK, SyncFails
<1>9. CASE CoolDown
  BY <1>9 DEF RemoteTypeOK, CoolDown
<1>10. CASE PauseRequest
  <2>1. request' \in RequestStates
    BY <1>10, <1>a DEF PauseRequest, RequestStates
  <2> QED BY <1>10, <2>1 DEF RemoteTypeOK, PauseRequest
<1>11. CASE PauseStops
  <2>1. request' \in RequestStates
    BY <1>11, RecordsStay DEF PauseStops
  <2> QED BY <1>11, <2>1 DEF RemoteTypeOK, PauseStops
<1>12. CASE PauseEnds
  <2>1. cursor' \in Offsets /\ status' \in Statuses
    BY <1>12, <1>a, <1>b DEF PauseEnds, RemoteTypeOK
  <2>2. request' \in RequestStates
    BY <1>12, IdleRecords DEF PauseEnds
  <2> QED BY <1>12, <2>1, <2>2 DEF RemoteTypeOK, PauseEnds
<1>13. CASE RequestFails
  BY <1>13, IdleRecords DEF RemoteTypeOK, RequestFails
<1>14. CASE ResumeRequest
  <2>1. status' \in Statuses
    BY <1>14, <1>a DEF ResumeRequest, RemoteTypeOK
  <2>2. sync' \in SyncStates
    BY <1>14, BeginsAtCursor DEF ResumeRequest, RemoteTypeOK
  <2> QED BY <1>14, <2>1, <2>2 DEF RemoteTypeOK, ResumeRequest
<1>15. CASE UpdateRequest
  <2>1. update' \in UpdateStates
    BY <1>15, <1>a DEF UpdateRequest, UpdateStates, RemoteTypeOK
  <2>2. sync' \in SyncStates
    BY <1>15, BeginsAtCursor DEF UpdateRequest, RemoteTypeOK
  <2> QED BY <1>15, <2>1, <2>2 DEF RemoteTypeOK, UpdateRequest
<1>16. CASE UpdateValidated
  <2>1. cursor' \in Offsets /\ status' \in Statuses
    BY <1>16, <1>a, <1>b DEF UpdateValidated, RemoteTypeOK
  <2>2. update' \in UpdateStates
    BY <1>16, IdleRecords DEF UpdateValidated
  <2> QED BY <1>16, <2>1, <2>2 DEF RemoteTypeOK, UpdateValidated
<1>17. CASE RemoveRequest
  <2>1. request' \in RequestStates
    BY <1>17, RecordsStay DEF RemoveRequest
  <2> QED BY <1>17, <2>1 DEF RemoteTypeOK, RemoveRequest
<1>18. CASE RemoveDeletes
  <2>1. request' \in RequestStates
    BY <1>18, RecordsStay DEF RemoveDeletes
  <2> QED BY <1>18, <2>1 DEF RemoteTypeOK, RemoveDeletes
<1>19. CASE RemoveEnds
  <2>1. request' \in RequestStates
    BY <1>19, IdleRecords DEF RemoveEnds
  <2>2. cursor' \in Offsets /\ status' \in Statuses /\ stored' \in Seq(1..MaxFeed)
    BY <1>19, <1>a DEF RemoveEnds
  <2> QED BY <1>19, <2>1, <2>2 DEF RemoteTypeOK, RemoveEnds
<1>20. CASE Deliver
  <2>1. feed' \in Offsets
    BY <1>20, ConstantsAreNumbers DEF Deliver, RemoteTypeOK, Offsets
  <2> QED BY <1>20, <2>1 DEF RemoteTypeOK, Deliver
<1>21. CASE Restart
  BY <1>21, IdleRecords DEF RemoteTypeOK, Restart
<1>22. CASE UNCHANGED remoteVars
  BY <1>22 DEF remoteVars, RemoteTypeOK
<1> QED
  BY <1>1, <1>2, <1>3, <1>4, <1>5, <1>6, <1>7, <1>8, <1>9, <1>10, <1>11, <1>12, <1>13, <1>14,
     <1>15, <1>16, <1>17, <1>18, <1>19, <1>20, <1>21, <1>22 DEF RemoteNext

-----------------------------------------------------------------------------
(* The steps that do not write the log *)

\* They keep the invariant if they remember no place in the stream that was not remembered,
\* bring no source back, and leave the batch within the stream.
LEMMA TypesStay ==
    ASSUME RemoteInv, RemoteTypeOK', UNCHANGED stored, feed <= feed', Exists' => Exists,
           Marks' \subseteq Marks \cup {0}, BatchOK'
    PROVE  RemoteInv'
<1>1. feed' \in Nat
  BY ConstantsAreNumbers DEF RemoteTypeOK, Offsets
<1>2. MarksOK'
  BY <1>1, MarksKept
<1> QED BY <1>2, StoredKept DEF RemoteInv

\* A batch is within the stream when the sync is not touched, ends, or begins.
LEMMA BatchKept ==
    ASSUME RemoteInv, RemoteTypeOK', feed <= feed',
           \/ UNCHANGED sync
           \/ sync' = NoSync
           \/ \E by \in {"interval", "resume", "update"} : SyncBegins(by)
    PROVE  BatchOK'
<1>1. /\ feed \in Nat /\ feed' \in Nat /\ sync.upto \in Nat /\ sync.from \in Nat
      /\ cursor \in Nat /\ cursor <= feed
  BY ConstantsAreNumbers DEF RemoteInv, RemoteTypeOK, Offsets, SyncStates, MarksOK, Marks
<1>2. CASE UNCHANGED sync
  BY <1>1, <1>2 DEF RemoteInv, BatchOK
<1>3. CASE sync' = NoSync
  BY <1>1, <1>3, IdleRecords DEF BatchOK
<1>4. CASE \E by \in {"interval", "resume", "update"} : SyncBegins(by)
  <2>1. sync'.at = "ensure" /\ sync'.upto = cursor
    BY <1>4, BeginsAtCursor DEF RemoteInv
  <2> QED BY <1>1, <2>1 DEF BatchOK
<1> QED BY <1>2, <1>3, <1>4

\* Where the places that are remembered come from.
LEMMA OtherSteps ==
    ASSUME RemoteInv, RemoteTypeOK', [RemoteNext]_remoteVars, ~SyncAppends, ~RemoveEnds
    PROVE  RemoteInv'
<1>a. RemoteTypeOK /\ feed \in Nat /\ feed <= feed
  BY ConstantsAreNumbers DEF RemoteInv, RemoteTypeOK, Offsets
<1>1. CASE IntervalLists
  BY <1>1, <1>a, TypesStay, BatchKept DEF IntervalLists, Marks, Exists
<1>2. CASE IntervalSyncs
  <2>1. UNCHANGED sync \/ SyncBegins("interval")
    BY <1>2 DEF IntervalSyncs
  <2>2. sync'.from \in {sync.from, cursor}
    BY <2>1, <1>a, BeginsAtCursor
  <2> QED BY <1>2, <1>a, <2>1, <2>2, TypesStay, BatchKept DEF IntervalSyncs, Marks, Exists
<1>3. CASE PollRequest
  <2>1. SyncBegins("interval")
    BY <1>3 DEF PollRequest
  <2>2. sync'.from = cursor
    BY <2>1, <1>a, BeginsAtCursor
  <2> QED BY <1>3, <1>a, <2>1, <2>2, TypesStay, BatchKept DEF PollRequest, Marks, Exists
<1>4. CASE SyncEnsured
  <2>1. sync'.from = sync.from /\ sync'.upto = sync.upto /\ sync'.at = "read"
    BY <1>4, <1>a DEF SyncEnsured, RemoteTypeOK, SyncStates
  <2>2. BatchOK'
    BY <1>4, <2>1 DEF SyncEnsured, BatchOK, RemoteInv
  <2> QED BY <1>4, <1>a, <2>1, <2>2, TypesStay DEF SyncEnsured, Marks, Exists
<1>5. CASE SyncRead
  <2>1. /\ sync'.from = sync.from
        /\ sync'.upto = IF feed < sync.from + Limit THEN feed ELSE sync.from + Limit
    BY <1>5, <1>a DEF SyncRead, RemoteTypeOK, SyncStates
  <2>2. sync.from \in Nat /\ sync.from <= feed
    BY <1>a, ConstantsAreNumbers DEF RemoteInv, MarksOK, Marks, RemoteTypeOK, SyncStates, Offsets
  <2>3. BatchOK'
    BY <1>5, <1>a, <2>1, <2>2, ConstantsAreNumbers DEF SyncRead, BatchOK
  <2> QED BY <1>5, <1>a, <2>1, <2>3, TypesStay DEF SyncRead, Marks, Exists
<1>6. CASE SyncDone
  <2>1. cursor' = sync.from
    BY <1>6 DEF SyncDone, NextCursor
  <2>2. sync'.from = 0 /\ update'.cursor \in {update.cursor, 0}
    BY <1>6, IdleRecords DEF SyncDone
  <2>3. Marks' \subseteq Marks \cup {0}
    BY <1>6, <2>1, <2>2 DEF SyncDone, Marks
  <2> QED BY <1>6, <1>a, <2>3, TypesStay, BatchKept DEF SyncDone, Exists
<1>7. CASE SyncFails
  <2>1. sync'.from = 0 /\ update'.cursor \in {update.cursor, 0}
    BY <1>7, IdleRecords DEF SyncFails
  <2>2. cursor' \in {cursor, update.cursor} /\ (Exists' => Exists)
    BY <1>7 DEF SyncFails, Exists
  <2>3. Marks' \subseteq Marks \cup {0}
    BY <1>7, <2>1, <2>2 DEF SyncFails, Marks
  <2> QED BY <1>7, <1>a, <2>2, <2>3, TypesStay, BatchKept DEF SyncFails
<1>8. CASE CoolDown
  BY <1>8, <1>a, TypesStay, BatchKept DEF CoolDown, Marks, Exists
<1>9. CASE PauseRequest
  <2>1. request'.cursor = cursor
    BY <1>9 DEF PauseRequest
  <2> QED BY <1>9, <1>a, <2>1, TypesStay, BatchKept DEF PauseRequest, Marks, Exists
<1>10. CASE PauseStops
  <2>1. request'.cursor = request.cursor
    BY <1>10, <1>a DEF PauseStops, RemoteTypeOK, RequestStates
  <2> QED BY <1>10, <1>a, <2>1, TypesStay, BatchKept DEF PauseStops, Marks, Exists
<1>11. CASE PauseEnds
  <2>1. request'.cursor = 0 /\ cursor' \in {cursor, request.cursor} /\ (Exists' => Exists)
    BY <1>11, IdleRecords DEF PauseEnds, Exists
  <2> QED BY <1>11, <1>a, <2>1, TypesStay, BatchKept DEF PauseEnds, Marks
<1>12. CASE RequestFails
  BY <1>12, <1>a, IdleRecords, TypesStay, BatchKept DEF RequestFails, Marks, Exists
<1>13. CASE ResumeRequest
  <2>1. /\ UNCHANGED sync \/ SyncBegins("resume")
        /\ Exists
    BY <1>13 DEF ResumeRequest
  <2>2. sync'.from \in {sync.from, cursor}
    BY <2>1, <1>a, BeginsAtCursor
  <2>3. BatchOK'
    BY <1>13, <1>a, <2>1, BatchKept DEF ResumeRequest
  <2> QED BY <1>13, <1>a, <2>1, <2>2, <2>3, TypesStay DEF ResumeRequest, Marks
<1>14. CASE UpdateRequest
  <2>1. UNCHANGED sync \/ SyncBegins("update")
    BY <1>14 DEF UpdateRequest
  <2>2. sync'.from \in {sync.from, cursor}
    BY <2>1, <1>a, BeginsAtCursor
  <2>3. update'.cursor \in {cursor, 0}
    BY <1>14, IdleRecords DEF UpdateRequest
  <2>4. Marks' \subseteq Marks \cup {0}
    BY <1>14, <2>2, <2>3 DEF UpdateRequest, Marks
  <2>5. BatchOK'
    BY <1>14, <1>a, <2>1, BatchKept DEF UpdateRequest
  <2> QED BY <1>14, <1>a, <2>4, <2>5, TypesStay DEF UpdateRequest, Exists
<1>15. CASE UpdateValidated
  <2>1. update'.cursor = 0 /\ cursor' \in {cursor, update.cursor} /\ (Exists' => Exists)
    BY <1>15, IdleRecords DEF UpdateValidated, Exists
  <2> QED BY <1>15, <1>a, <2>1, TypesStay, BatchKept DEF UpdateValidated, Marks
<1>16. CASE RemoveRequest
  <2>1. request'.cursor = 0
    BY <1>16, <1>a, RecordsStay DEF RemoveRequest
  <2> QED BY <1>16, <1>a, <2>1, TypesStay, BatchKept DEF RemoveRequest, Marks, Exists
<1>17. CASE RemoveDeletes
  <2>1. request'.cursor = request.cursor
    BY <1>17, <1>a DEF RemoveDeletes, RemoteTypeOK, RequestStates
  <2> QED BY <1>17, <1>a, <2>1, TypesStay, BatchKept DEF RemoveDeletes, Marks, Exists
<1>18. CASE Deliver
  <2>1. feed <= feed'
    BY <1>18, <1>a DEF Deliver
  <2> QED BY <1>18, <2>1, TypesStay, BatchKept DEF Deliver, Marks, Exists
<1>19. CASE Restart
  <2>1. sync'.from = 0 /\ request'.cursor = 0 /\ update'.cursor = 0
    BY <1>19, IdleRecords DEF Restart
  <2> QED BY <1>19, <1>a, <2>1, TypesStay, BatchKept DEF Restart, Marks, Exists
<1>20. CASE UNCHANGED remoteVars
  BY <1>20, <1>a, TypesStay, BatchKept DEF remoteVars, Marks, Exists
<1> QED
  BY <1>1, <1>2, <1>3, <1>4, <1>5, <1>6, <1>7, <1>8, <1>9, <1>10, <1>11, <1>12, <1>13, <1>14,
     <1>15, <1>16, <1>17, <1>18, <1>19, <1>20 DEF RemoteNext

-----------------------------------------------------------------------------
(* The steps that write the log *)

\* What was covered stays covered when an event is stored.
LEMMA CoverageGrows ==
    ASSUME \A x : Contains(stored, x) => Contains(stored', x), NEW n \in Nat, Covered(n)
    PROVE  CoveredIn(stored', n)
BY DEF Covered, CoveredIn

\* An event that is not in the log is later than all that are, which are covered.
LEMMA MissingIsLatest ==
    ASSUME RemoteInv, NEW e \in 1..MaxFeed, e \notin Skipped, ~Contains(stored, e),
           NEW i \in 1..Len(stored)
    PROVE  stored[i] < e
<1>1. stored[i] \in 1..MaxFeed
  BY StoredType DEF RemoteInv
<1>2. Covered(stored[i])
  BY DEF RemoteInv, StoredOK
<1> QED BY <1>1, <1>2, ConstantsAreNumbers DEF Covered, CoveredIn

LEMMA AppendStep ==
    ASSUME RemoteInv, RemoteTypeOK', SyncAppends
    PROVE  RemoteInv'
<1>0. PICK e : e = sync.from + 1
  OBVIOUS
<1>1. /\ sync.from \in Nat /\ sync.upto \in Nat /\ feed \in Nat /\ e \in 1..MaxFeed
      /\ e <= sync.upto /\ e <= feed /\ Exists
  BY <1>0, ConstantsAreNumbers DEF SyncAppends, RemoteInv, RemoteTypeOK, SyncStates, Offsets, BatchOK
<1>2. stored \in Seq(1..MaxFeed) /\ Len(stored) \in Nat
      /\ \A i \in 1..Len(stored) : stored[i] \in 1..MaxFeed
  BY StoredType DEF RemoteInv
<1>3. stored' = IF e \in Skipped THEN stored ELSE StoredWith(e)
  BY <1>0 DEF SyncAppends
<1>4. sync'.from = e /\ sync'.upto = sync.upto /\ sync'.at = "append"
  BY <1>0 DEF SyncAppends, RemoteInv, RemoteTypeOK, SyncStates
<1>5. UNCHANGED <<status, cursor, feed, request, update>>
  BY DEF SyncAppends
<1>6. \A x : Contains(stored, x) => Contains(stored', x)
  BY <1>1, <1>2, <1>3, StoredWithKeeps
<1>7. e \in Skipped \/ Contains(stored', e)
  BY <1>1, <1>2, <1>3, StoredWithKeeps
<1>8. CoveredIn(stored', e)
  <2>1. Covered(sync.from)
    BY <1>1 DEF RemoteInv, MarksOK, Marks
  <2>2. ASSUME NEW x \in 1..e PROVE x \in Skipped \/ Contains(stored', x)
    <3>1. CASE x = e
      BY <3>1, <1>7
    <3>2. CASE x # e
      <4>1. x \in 1..sync.from
        BY <3>2, <1>0, <1>1
      <4> QED BY <4>1, <2>1, <1>6 DEF Covered, CoveredIn
    <3> QED BY <3>1, <3>2
  <2> QED BY <2>2 DEF CoveredIn
<1>9. MarksOK'
  <2>1. \A n \in Marks : n \in Nat
    BY ConstantsAreNumbers
       DEF Marks, RemoteInv, RemoteTypeOK, Offsets, SyncStates, RequestStates, UpdateStates
  <2>2. Marks' \subseteq Marks \cup {e}
    BY <1>4, <1>5 DEF Marks
  <2>3. \A n \in Marks : n <= feed /\ CoveredIn(stored', n)
    <3>1. \A n \in Marks : n <= feed /\ Covered(n)
      BY <1>1 DEF RemoteInv, MarksOK
    <3> QED BY <2>1, <3>1, <1>6, CoverageGrows
  <2>4. \A n \in Marks' : n <= feed /\ CoveredIn(stored', n)
    BY <2>2, <2>3, <1>1, <1>8
  <2> QED BY <2>4, <1>5 DEF MarksOK, Covered
<1>10. BatchOK'
  BY <1>1, <1>4, <1>5 DEF BatchOK, RemoteInv
<1>11. StoredOK' /\ StoredInOrder'
  <2>1. CASE stored' = stored
    BY <2>1, StoredKept
  <2>2. CASE e \notin Skipped /\ ~Contains(stored, e)
    <3>1. stored' = Append(stored, e)
      BY <2>2, <1>3 DEF StoredWith
    <3>2. /\ Len(stored') = Len(stored) + 1 /\ stored'[Len(stored) + 1] = e
          /\ \A i \in 1..Len(stored) : stored'[i] = stored[i]
      BY <3>1, <1>2, <1>1
    <3>3. ASSUME NEW i \in 1..Len(stored') PROVE CoveredIn(stored', stored'[i])
      <4>1. CASE i = Len(stored) + 1
        BY <4>1, <3>2, <1>8
      <4>2. CASE i # Len(stored) + 1
        <5>1. i \in 1..Len(stored) /\ stored'[i] = stored[i]
          BY <4>2, <3>2, <1>2
        <5>2. Covered(stored[i]) /\ stored[i] \in Nat
          BY <5>1, <1>2 DEF RemoteInv, StoredOK
        <5> QED BY <5>1, <5>2, <1>6, CoverageGrows
      <4> QED BY <4>1, <4>2
    <3>4. ASSUME NEW i \in 1..Len(stored'), NEW j \in 1..Len(stored'), i < j
          PROVE  stored'[i] < stored'[j]
      <4>1. i \in 1..Len(stored) /\ stored'[i] = stored[i]
        BY <3>2, <3>4, <1>2
      <4>2. CASE j = Len(stored) + 1
        BY <4>1, <4>2, <3>2, <1>1, <2>2, MissingIsLatest
      <4>3. CASE j # Len(stored) + 1
        <5>1. j \in 1..Len(stored) /\ stored'[j] = stored[j]
          BY <4>3, <3>2, <1>2
        <5> QED BY <4>1, <5>1, <3>4 DEF RemoteInv, StoredInOrder
      <4> QED BY <4>2, <4>3
    <3> QED BY <3>3, <3>4 DEF StoredOK, StoredInOrder, Covered
  <2>3. CASE e \notin Skipped /\ Contains(stored, e)
    <3>1. stored' = stored
      BY <2>3, <1>3 DEF StoredWith
    <3> QED BY <3>1, StoredKept
  <2> QED BY <2>1, <2>2, <2>3, <1>3
<1> QED BY <1>9, <1>10, <1>11 DEF RemoteInv

\* A source that is removed leaves an empty log.
LEMMA RemovalStep ==
    ASSUME RemoteInv, RemoteTypeOK', RemoveEnds
    PROVE  RemoteInv'
<1>1. stored' = <<>> /\ ~Exists' /\ cursor' = 0 /\ request'.cursor = 0
  BY IdleRecords DEF RemoveEnds, Exists
<1>2. UNCHANGED <<sync, update, feed>>
  BY DEF RemoveEnds
<1>3. feed \in Nat
  BY ConstantsAreNumbers DEF RemoteInv, RemoteTypeOK, Offsets
<1>4. MarksOK'
  <2>1. \A n \in Marks' : n <= feed
    BY <1>1, <1>2, <1>3 DEF Marks, RemoteInv, MarksOK
  <2> QED BY <2>1, <1>1, <1>2 DEF MarksOK
<1>5. BatchOK'
  BY <1>2 DEF RemoteInv, BatchOK
<1>6. StoredOK' /\ StoredInOrder'
  BY <1>1 DEF StoredOK, StoredInOrder
<1> QED BY <1>4, <1>5, <1>6 DEF RemoteInv

-----------------------------------------------------------------------------
(* The theorems *)

\* The invariant holds whatever is paused, resumed, updated, removed or restarted meanwhile.
THEOREM RemoteInvariance == RemoteSpec => []RemoteInv
<1>1. RemoteInit => RemoteInv
  BY RemoteInitOK
<1>2. RemoteInv /\ [RemoteNext]_remoteVars => RemoteInv'
  <2> SUFFICES ASSUME RemoteInv, [RemoteNext]_remoteVars PROVE RemoteInv'
    OBVIOUS
  <2>1. RemoteTypeOK'
    BY RemoteTypeStep DEF RemoteInv
  <2> QED BY <2>1, AppendStep, RemovalStep, OtherSteps
<1> QED BY <1>1, <1>2, PTL DEF RemoteSpec

\* The cursor passes no event that is not in the log, and the log has every event once and
\* in the order of the stream, whichever of the writers of the checkpoint wrote last.
THEOREM FollowsProvider == RemoteSpec => []LogFollowsProvider
<1>1. RemoteInv => LogFollowsProvider
  BY DEF RemoteInv, LogFollowsProvider, NoProviderEventLost, MarksOK, Marks, Covered, CoveredIn
<1> QED BY <1>1, RemoteInvariance, PTL

\* An event that is in the log when it is read again is there once: no two places of the
\* log hold the same event.
COROLLARY StoredOnce ==
    RemoteSpec => [](\A i, j \in 1..Len(stored) : stored[i] = stored[j] => i = j)
<1>1. RemoteInv => \A i, j \in 1..Len(stored) : stored[i] = stored[j] => i = j
  <2> SUFFICES ASSUME RemoteInv, NEW i \in 1..Len(stored), NEW j \in 1..Len(stored),
                      stored[i] = stored[j]
               PROVE  i = j
    OBVIOUS
  <2>1. stored[i] \in Nat /\ i \in Nat /\ j \in Nat
    BY StoredType DEF RemoteInv
  <2>2. ~(i < j) /\ ~(j < i)
    BY <2>1 DEF RemoteInv, StoredInOrder
  <2> QED BY <2>1, <2>2
<1> QED BY <1>1, RemoteInvariance, PTL


-----------------------------------------------------------------------------
(* Timers: the search for the last slot that was missed *)

\* Two numbers that a third divides are that far apart.
LEMMA MultiplesApart ==
    ASSUME NEW m \in Nat \ {0}, NEW a \in Nat, NEW b \in Nat, a % m = 0, b % m = 0, a < b
    PROVE  a + m <= b
<1> DEFINE j == a \div m
           k == b \div m
<1>1. j \in Int /\ k \in Int /\ a = m * j /\ b = m * k
  OBVIOUS
<1> HIDE DEF j, k
<1>2. j < k
  <2>1. CASE k <= j
    <3>1. m * (j - k) >= 0
      BY <1>1, <2>1
    <3>2. m * (j - k) = m * j - m * k
      BY <1>1
    <3> QED BY <1>1, <3>1, <3>2
  <2> QED BY <1>1, <2>1
<1>3. m * (k - j - 1) >= 0
  BY <1>1, <1>2
<1>4. m * (k - j - 1) = m * k - m * j - m
  BY <1>1
<1> QED BY <1>1, <1>3, <1>4

LEMMA NextSlotIs ==
    ASSUME NEW t \in Timers, slots[t] \in SUBSET MinuteSlots, NEW from \in Int
    PROVE  \/ NextSlot(t, from) = Never /\ \A x \in slots[t] : x <= from
           \/ /\ NextSlot(t, from) \in slots[t] /\ NextSlot(t, from) > from
              /\ \A x \in slots[t] : x > from => NextSlot(t, from) <= x
<1> DEFINE later == {s \in slots[t] : s > from}
<1>1. \A x \in slots[t] : x \in Nat
  BY TimersAssumption DEF MinuteSlots, Times
<1>2. CASE later = {}
  <2>1. NextSlot(t, from) = Never
    BY <1>2 DEF NextSlot
  <2> QED BY <1>1, <1>2, <2>1
<1>3. CASE later # {}
  <2>1. MaxTime \in Nat /\ later \in SUBSET (0..MaxTime)
    BY TimersAssumption DEF MinuteSlots, Times
  <2>2. \E m \in later : \A x \in later : m <= x
    <3> HIDE DEF later
    <3> QED BY <1>3, <2>1, LeastAndGreatest
  <2>3. NextSlot(t, from) = Min(later)
    BY <1>3 DEF NextSlot
  <2>4. Min(later) \in later /\ \A x \in later : Min(later) <= x
    <3> HIDE DEF later
    <3> QED BY <2>2 DEF Min
  <2> QED BY <2>3, <2>4
<1> QED BY <1>2, <1>3

\* What a search that began at first knows after i probes: a slot that is over, and, once it
\* is done, that none follows it.  Until then each probe uses up some of the way.
Knows(t, first, i, p) ==
    /\ p \in [slot : Times, step : Nat \ {0}, done : BOOLEAN]
    /\ p.slot \in slots[t] /\ p.slot <= now
    /\ p.done => \A x \in slots[t] : x <= now => x <= p.slot
    /\ ~p.done => i + 3 * (now - p.slot) + p.step <= 3 * (now - first) + Minute

LEMMA ProbeLearns ==
    ASSUME NEW t \in Timers, slots[t] \in SUBSET MinuteSlots, now \in Times, NEW first \in Times,
           NEW i \in Nat, NEW p, Knows(t, first, i, p), ~p.done
    PROVE  Knows(t, first, i + 1, Probe(t, p))
<1> DEFINE edge == p.slot + p.step - 1
           from == Min({edge, now})
           s == NextSlot(t, from)
<1>1. /\ Minute \in Nat \ {0} /\ MaxTime \in Nat /\ now \in Nat /\ first \in Nat
      /\ p.slot \in Nat /\ p.step \in Nat \ {0} /\ Never \notin Int
      /\ \A x \in slots[t] : x \in Times /\ x \in Nat /\ x % Minute = 0
  BY TimersAssumption DEF Knows, MinuteSlots, Times
<1>2. from = IF edge <= now THEN edge ELSE now
  <2>1. edge \in Int /\ now \in Int
    BY <1>1
  <2> HIDE DEF edge
  <2> QED BY <2>1 DEF Min
<1>3. from \in Int
  BY <1>1, <1>2
<1>4. \/ s = Never /\ \A x \in slots[t] : x <= from
      \/ s \in slots[t] /\ s > from /\ \A x \in slots[t] : x > from => s <= x
  <2> HIDE DEF from
  <2> QED BY <1>3, NextSlotIs
<1>5. CASE s # Never /\ s <= now
  <2>1. Probe(t, p) = [p EXCEPT !.slot = s, !.step = 2 * p.step]
    BY <1>5 DEF Probe
  <2>2. s \in slots[t] /\ s \in Times /\ s \in Nat /\ s >= p.slot + p.step
    BY <1>1, <1>2, <1>4, <1>5
  <2> HIDE DEF s
  <2>3. Probe(t, p) = [slot |-> s, step |-> 2 * p.step, done |-> FALSE]
    BY <2>1 DEF Knows
  <2>4. i + 1 + 3 * (now - s) + 2 * p.step <= 3 * (now - first) + Minute
    <3>1. i + 3 * (now - p.slot) + p.step <= 3 * (now - first) + Minute
      BY DEF Knows
    <3>2. ASSUME NEW a \in Int, NEW b \in Nat \ {0}, NEW c \in Int, NEW d \in Int,
                 i + 3 * (now - a) + b <= d, c >= a + b
          PROVE  i + 1 + 3 * (now - c) + 2 * b <= d
      BY <1>1, <3>2
    <3> QED BY <1>1, <2>2, <3>1, <3>2
  <2>5. 2 * p.step \in Nat \ {0} /\ s \in Int /\ s <= now
    BY <1>1, <1>5, <2>2
  <2> DEFINE q == [slot |-> s, step |-> 2 * p.step, done |-> FALSE]
  <2>6. /\ q \in [slot : Times, step : Nat \ {0}, done : BOOLEAN]
        /\ q.slot = s /\ q.step = 2 * p.step /\ ~q.done
    BY <2>2, <2>5
  <2> HIDE DEF q
  <2> QED BY <2>2, <2>3, <2>4, <2>5, <2>6 DEF Knows, q
<1>6. CASE ~(s # Never /\ s <= now) /\ p.step <= Minute
  <2>1. Probe(t, p) = [p EXCEPT !.done = TRUE]
    BY <1>6 DEF Probe
  <2>2. ASSUME NEW x \in slots[t], x <= now, x > p.slot PROVE FALSE
    <3>1. x >= p.slot + Minute
      BY <1>1, <2>2, MultiplesApart DEF Knows
    <3>2. x > from
      BY <1>1, <1>2, <1>6, <2>2, <3>1
    <3> HIDE DEF s, from
    <3>3. s \in slots[t] /\ s <= x
      BY <1>3, <1>1, <1>4, <2>2, <3>2
    <3> QED BY <1>1, <1>6, <2>2, <3>3
  <2>3. \A x \in slots[t] : x <= now => x <= p.slot
    BY <1>1, <2>2
  <2> QED BY <2>1, <2>3 DEF Knows
<1>7. CASE ~(s # Never /\ s <= now) /\ p.step > Minute
  <2>1. Probe(t, p) = [p EXCEPT !.step = p.step \div 2]
    BY <1>1, <1>7 DEF Probe
  <2>2. p.step \div 2 \in Nat \ {0} /\ p.step \div 2 < p.step
    BY <1>1, <1>7
  <2> QED BY <1>1, <2>1, <2>2 DEF Knows
<1> QED BY <1>1, <1>5, <1>6, <1>7

LEMMA ProbeIsTyped ==
    ASSUME NEW t \in Timers, slots[t] \in SUBSET MinuteSlots, now \in Times,
           NEW p \in [slot : Times, step : Nat \ {0}, done : BOOLEAN]
    PROVE  Probe(t, p) \in [slot : Times, step : Nat \ {0}, done : BOOLEAN]
<1> DEFINE from == Min({p.slot + p.step - 1, now})
           s == NextSlot(t, from)
<1>1. /\ Minute \in Nat \ {0} /\ now \in Nat /\ p.slot \in Nat /\ p.step \in Nat \ {0}
      /\ Never \notin Int /\ slots[t] \subseteq Times
  BY TimersAssumption DEF MinuteSlots, Times
<1>2. from \in Int
  <2>1. p.slot + p.step - 1 \in Int /\ now \in Int
    BY <1>1
  <2> QED BY <2>1 DEF Min
<1>3. s = Never \/ s \in Times
  <2> HIDE DEF from
  <2> QED BY <1>1, <1>2, NextSlotIs
<1>4. CASE s # Never /\ s <= now
  <2>1. Probe(t, p) = [p EXCEPT !.slot = s, !.step = 2 * p.step]
    BY <1>4 DEF Probe
  <2> HIDE DEF s
  <2>2. Probe(t, p) = [slot |-> s, step |-> 2 * p.step, done |-> p.done]
    BY <2>1
  <2>3. 2 * p.step \in Nat \ {0} /\ p.done \in BOOLEAN
    BY <1>1
  <2> QED BY <1>3, <1>4, <2>2, <2>3
<1>5. CASE ~(s # Never /\ s <= now) /\ p.step <= Minute
  <2>1. Probe(t, p) = [p EXCEPT !.done = TRUE]
    BY <1>5 DEF Probe
  <2> QED BY <2>1
<1>6. CASE ~(s # Never /\ s <= now) /\ p.step > Minute
  <2>1. Probe(t, p) = [p EXCEPT !.step = p.step \div 2]
    BY <1>1, <1>6 DEF Probe
  <2>2. p.step \div 2 \in Nat \ {0}
    BY <1>1, <1>6
  <2> QED BY <2>1, <2>2
<1> QED BY <1>1, <1>4, <1>5, <1>6

LEMMA LastOverdueIs ==
    ASSUME NEW t \in Timers, slots[t] \in SUBSET MinuteSlots, now \in Times,
           NEW first \in slots[t], first <= now
    PROVE  /\ LastOverdue(t, first) \in slots[t] /\ LastOverdue(t, first) <= now
           /\ \A x \in slots[t] : x <= now => x <= LastOverdue(t, first)
<1> DEFINE n == 4 * MaxTime
           start == [slot |-> first, step |-> Minute, done |-> FALSE]
           F(f) == [i \in 0..n |-> IF i = 0 THEN start
                                   ELSE LET p == f[i - 1] IN IF p.done THEN p ELSE Probe(t, p)]
           probes == CHOOSE f : f = F(f)
<1>1. LastOverdue(t, first) = probes[n].slot
  BY DEF LastOverdue
<1>2. n \in Nat /\ MaxTime \in Nat /\ Minute \in Nat \ {0}
  BY TimersAssumption
<1> DEFINE Known == [slot : Times, step : Nat \ {0}, done : BOOLEAN]
           probe == [p \in Known |-> IF p.done THEN p ELSE Probe(t, p)]
<1>3. first \in Times /\ first \in Nat /\ first >= Minute
  BY <1>2, MultiplesApart DEF MinuteSlots, Times
<1>4. start \in Known
  BY <1>2, <1>3
<1>5. \E f : f = F(f)
  <2>1. probe \in [Known -> Known]
    BY ProbeIsTyped
  <2> HIDE DEF n, start
  <2>2. PICK f \in [0..n -> Known] : f[0] = start /\ \A i \in 1..n : f[i] = probe[f[i - 1]]
    <3> HIDE DEF Known, probe
    <3>1. \A from \in Known, by \in [Known -> Known] :
             \E f \in [0..n -> Known] : f[0] = from /\ \A i \in 1..n : f[i] = by[f[i - 1]]
      <4>1. \A Q : \A from \in Q, by \in [Q -> Q] :
               \E f \in [0..n -> Q] : f[0] = from /\ \A i \in 1..n : f[i] = by[f[i - 1]]
        BY <1>2, ChainExists
      <4> QED BY <4>1
    <3>2. \A by \in [Known -> Known] :
             \E f \in [0..n -> Known] : f[0] = start /\ \A i \in 1..n : f[i] = by[f[i - 1]]
      BY <1>4, <3>1
    <3> QED BY <2>1, <3>2
  <2>3. ASSUME NEW i \in 0..n, i # 0
        PROVE  probe[f[i - 1]] = LET p == f[i - 1] IN IF p.done THEN p ELSE Probe(t, p)
    <3>1. f[i - 1] \in Known
      BY <1>2, <2>3
    <3> HIDE DEF Known
    <3> QED BY <3>1
  <2>4. f = F(f)
    <3>1. ASSUME NEW i \in 0..n
          PROVE  f[i] = IF i = 0 THEN start
                        ELSE LET p == f[i - 1] IN IF p.done THEN p ELSE Probe(t, p)
      <4>1. CASE i = 0
        BY <2>2, <4>1
      <4>2. CASE i # 0
        <5>1. i \in 1..n
          BY <1>2, <4>2
        <5>2. f[i] = probe[f[i - 1]]
          <6> HIDE DEF probe
          <6> QED BY <2>2, <5>1
        <5> HIDE DEF probe
        <5> QED BY <2>3, <4>2, <5>2
      <4> QED BY <4>1, <4>2
    <3> HIDE DEF probe
    <3>2. f = [i \in 0..n |-> f[i]]
      BY <2>2
    <3> QED BY <3>1, <3>2
  <2> HIDE DEF F
  <2> QED BY <2>4
<1> HIDE DEF n
<1>6. probes = F(probes)
  BY <1>5
<1> HIDE DEF probes
<1> DEFINE G == {i \in 0..n : Knows(t, first, i, probes[i])}
<1>7. 0 \in G
  <2>1. 0 \in 0..n
    BY <1>2
  <2>2. probes[0] = start
    BY <1>6, <2>1
  <2>3. Knows(t, first, 0, start)
    <3>1. start.slot = first /\ start.step = Minute /\ ~start.done
      OBVIOUS
    <3> HIDE DEF start
    <3>2. 0 + 3 * (now - first) + Minute <= 3 * (now - first) + Minute
      BY <1>2, <1>3 DEF Times
    <3> QED BY <1>4, <3>1, <3>2 DEF Knows
  <2> QED BY <2>1, <2>2, <2>3
<1>8. ASSUME NEW i \in 1..n, i - 1 \in G PROVE i \in G
  <2> DEFINE p == probes[i - 1]
  <2>1. i \in 0..n /\ i - 1 \in Nat /\ i # 0 /\ (i - 1) + 1 = i
    BY <1>2
  <2>2. probes[i] = IF p.done THEN p ELSE Probe(t, p)
    BY <1>6, <2>1
  <2>3. Knows(t, first, i - 1, p)
    BY <1>8
  <2> HIDE DEF p
  <2>4. CASE p.done
    BY <2>1, <2>2, <2>3, <2>4 DEF Knows
  <2>5. CASE ~p.done
    BY <1>3, <2>1, <2>2, <2>3, <2>5, ProbeLearns
  <2> QED BY <2>4, <2>5
<1> HIDE DEF G
<1>9. n \in G
  <2>1. 0..n \subseteq G
    BY <1>2, <1>7, <1>8, UpTo
  <2> QED BY <1>2, <2>1
<1>10. Knows(t, first, n, probes[n])
  BY <1>9 DEF G
<1>11. probes[n].done
  <2> SUFFICES ASSUME ~probes[n].done PROVE FALSE
    OBVIOUS
  <2> DEFINE p == probes[n]
  <2>1. n + 3 * (now - p.slot) + p.step <= 3 * (now - first) + Minute
    BY <1>10 DEF Knows
  <2>2. p.slot \in Nat /\ p.step \in Nat /\ p.slot <= now /\ now \in Nat /\ now <= MaxTime
    BY <1>2, <1>10 DEF Knows, Times
  <2> HIDE DEF p
  <2> QED BY <1>2, <1>3, <2>1, <2>2 DEF n
<1> QED BY <1>1, <1>10, <1>11 DEF Knows

-----------------------------------------------------------------------------
(* Timers: the invariant *)

Rows == [status : {"none", "active", "paused"}, next : Times \cup {Never},
         last : Times \cup {Never}]

\* A cron timer waits for a slot of its expression.
OnSlots == \A t \in Timers : Mode[t] = "cron" /\ timer[t].next # Never
                                 => timer[t].next \in slots[t]

\* A one-shot timer that waits has not fired.
OneShots == \A t \in Timers : Mode[t] = "at" /\ timer[t].next # Never
                                 => timer[t].next = At[t] /\ timer[t].last = Never

TimersInv == TimersKeepTime /\ OnSlots /\ OneShots

LEMMA SlotsAreTimes ==
    ASSUME TimersTypeOK
    PROVE  /\ MaxTime \in Nat /\ Never \notin Int /\ now \in Nat /\ now <= MaxTime
           /\ \A t \in Timers : slots[t] \in SUBSET MinuteSlots /\ slots[t] \subseteq Times
BY TimersAssumption DEF TimersTypeOK, MinuteSlots, Times

\* The next fire is an instant, of a cron timer one of its slots.
LEMMA NextFireIs ==
    ASSUME TimersTypeOK, NEW t \in Timers, NEW from \in Times, NEW recent \in Times \cup {Never}
    PROVE  /\ NextFire(t, from, recent) \in Times \cup {Never}
           /\ Mode[t] = "cron" /\ NextFire(t, from, recent) # Never
                  => NextFire(t, from, recent) \in slots[t]
<1>1. Mode[t] \in {"at", "every", "cron"} /\ At[t] \in Times /\ Interval[t] \in Nat \ {0}
  BY TimersAssumption
<1>2. CASE Mode[t] = "at"
  BY <1>1, <1>2 DEF NextFire
<1>3. CASE Mode[t] = "every"
  <2> DEFINE base == IF recent # Never /\ recent > from THEN recent ELSE from
  <2>1. base \in Times /\ NextFire(t, from, recent) = In(base + Interval[t])
    BY <1>3 DEF NextFire
  <2> HIDE DEF base
  <2>2. base + Interval[t] \in Nat
    BY <1>1, <2>1 DEF Times
  <2> QED BY <1>3, <2>1, <2>2, SlotsAreTimes DEF In, Times
<1>4. CASE Mode[t] = "cron"
  <2>1. NextFire(t, from, recent) = NextSlot(t, from)
    BY <1>4 DEF NextFire
  <2>2. from \in Int
    BY DEF Times
  <2> QED BY <2>1, <2>2, SlotsAreTimes, NextSlotIs
<1> QED BY <1>1, <1>2, <1>3, <1>4

\* The timeout is not after what is due first.
LEMMA NearestIs ==
    ASSUME TimersTypeOK, NEW rows \in [Timers -> Rows]
    PROVE  /\ Nearest(rows) \in Times \cup {Never}
           /\ \A t \in Timers : rows[t].status = "active" /\ rows[t].next # Never =>
                 Nearest(rows) # Never /\ (Nearest(rows) <= rows[t].next \/ Nearest(rows) <= now)
<1> DEFINE due == {rows[t].next : t \in {u \in Timers : rows[u].status = "active"}} \ {Never}
<1>1. MaxDelay \in Nat /\ MaxTime \in Nat /\ Never \notin Int /\ now \in Times /\ now \in Nat
  BY TimersAssumption, SlotsAreTimes DEF TimersTypeOK
<1>2. /\ due \in SUBSET (0..MaxTime)
      /\ \A t \in Timers : rows[t].status = "active" /\ rows[t].next # Never => rows[t].next \in due
  BY DEF Rows, Times
<1>3. Nearest(rows) = IF due = {} THEN Never
                      ELSE IF Min(due) > now + MaxDelay THEN now
                      ELSE IF Min(due) < now THEN now ELSE Min(due)
  BY DEF Nearest
<1> HIDE DEF due
<1>4. CASE due = {}
  BY <1>2, <1>3, <1>4
<1>5. CASE due # {}
  <2>1. \E m \in due : \A x \in due : m <= x
    BY <1>1, <1>2, <1>5, LeastAndGreatest
  <2>2. Min(due) \in due /\ \A x \in due : Min(due) <= x
    BY <2>1 DEF Min
  <2>3. Min(due) \in Times /\ Min(due) \in Nat
    <3>1. Min(due) \in 0..MaxTime
      BY <1>2, <2>2
    <3> QED BY <1>1, <3>1 DEF Times
  <2> DEFINE first == Min(due)
  <2>4. /\ Nearest(rows) = IF first > now + MaxDelay THEN now ELSE IF first < now THEN now ELSE first
        /\ first \in Times /\ first \in Nat /\ \A x \in due : first <= x
    BY <1>3, <1>5, <2>2, <2>3
  <2> HIDE DEF first
  <2>5. Nearest(rows) \in Times /\ (Nearest(rows) <= now \/ Nearest(rows) = first)
    BY <1>1, <2>4
  <2>6. Nearest(rows) # Never
    BY <1>1, <2>5 DEF Times
  <2> QED BY <1>2, <2>4, <2>5, <2>6
<1> QED BY <1>4, <1>5

LEMMA RowForIs ==
    ASSUME NEW t \in Timers, NEW next \in Times \cup {Never}, NEW recent \in Times \cup {Never},
           Mode[t] = "cron" /\ next # Never => next \in slots[t]
    PROVE  /\ RowFor(t, next, recent) \in Rows /\ RowFor(t, next, recent).next = next
BY DEF RowFor, Rows

\* A start leaves an overdue cron timer at the last slot it missed, and an interval timer
\* ahead.
LEMMA RecoveredIs ==
    ASSUME TimersTypeOK, OnSlots, OneShots, NEW t \in Timers
    PROVE  /\ Recovered(t) \in Rows
           /\ Mode[t] = "cron" /\ Recovered(t).next # Never => Recovered(t).next \in slots[t]
           /\ Mode[t] = "at" /\ Recovered(t).next # Never
                  => Recovered(t).next = At[t] /\ Recovered(t).last = Never
           /\ Active(t) /\ timer[t].next <= now =>
                 CASE Mode[t] = "at"    -> Recovered(t) = timer[t]
                   [] Mode[t] = "every" -> Recovered(t).next \notin 0..now
                   [] Mode[t] = "cron"  -> Recovered(t).next = Max({s \in slots[t] : s <= now})
<1> DEFINE row == timer[t]
           next == IF Mode[t] = "cron" /\ row.next # Never /\ row.next <= now
                      THEN LastOverdue(t, row.next)
                      ELSE IF Mode[t] = "every" THEN In(now + Interval[t])
                      ELSE NextFire(t, now, row.last)
<1>1. /\ row \in Rows /\ now \in Times /\ now \in Nat /\ MaxTime \in Nat /\ Never \notin Int
      /\ slots[t] \in SUBSET MinuteSlots /\ slots[t] \subseteq Times
      /\ Mode[t] \in {"at", "every", "cron"} /\ Interval[t] \in Nat \ {0} /\ At[t] \in Times
      /\ Mode[t] = "cron" /\ row.next # Never => row.next \in slots[t]
      /\ Mode[t] = "at" /\ row.next # Never => row.next = At[t] /\ row.last = Never
  BY SlotsAreTimes, TimersAssumption DEF TimersTypeOK, Rows, OnSlots, OneShots
<1>2. Recovered(t) = IF row.status # "active" THEN row
                     ELSE [row EXCEPT !.next = next,
                                      !.status = IF next = Never THEN "paused" ELSE "active"]
  BY DEF Recovered
<1>3. CASE row.status # "active"
  BY <1>1, <1>2, <1>3 DEF Active
<1>4. CASE row.status = "active" /\ Mode[t] = "cron" /\ row.next # Never /\ row.next <= now
  <2>1. /\ next \in slots[t] /\ next <= now /\ next = LastOverdue(t, row.next)
        /\ \A x \in slots[t] : x <= now => x <= next
    <3> HIDE DEF row
    <3> QED BY <1>1, <1>4, LastOverdueIs
  <2>2. next \in Times /\ next # Never
    BY <1>1, <2>1 DEF Times
  <2>3. next = Max({s \in slots[t] : s <= now})
    <3> HIDE DEF next
    <3> DEFINE S == {s \in slots[t] : s <= now}
    <3>1. next \in S /\ \A x \in S : x <= next
      BY <2>1
    <3>2. S \subseteq Nat
      BY <1>1 DEF Times
    <3> HIDE DEF S
    <3>3. Max(S) \in S /\ \A x \in S : Max(S) >= x
      BY <3>1, <3>2 DEF Max
    <3> QED BY <3>1, <3>2, <3>3 DEF S
  <2> HIDE DEF next, row
  <2>4. Recovered(t).next = next /\ Recovered(t) \in Rows
    BY <1>1, <1>2, <1>4, <2>2 DEF Rows
  <2> QED BY <1>4, <2>1, <2>3, <2>4
<1>5. CASE row.status = "active" /\ Mode[t] = "every"
  <2>1. next = In(now + Interval[t])
    BY <1>5
  <2>2. now + Interval[t] \in Nat /\ now + Interval[t] > now
    BY <1>1
  <2>3. next \in Times \cup {Never} /\ next \notin 0..now
    BY <1>1, <2>1, <2>2 DEF In, Times
  <2> HIDE DEF next, row
  <2>4. Recovered(t).next = next /\ Recovered(t) \in Rows
    BY <1>1, <1>2, <1>5, <2>3 DEF Rows
  <2> QED BY <1>5, <2>3, <2>4
<1>6. CASE /\ row.status = "active" /\ Mode[t] # "every"
           /\ ~(Mode[t] = "cron" /\ row.next # Never /\ row.next <= now)
  <2>1. next = NextFire(t, now, row.last)
    BY <1>6
  <2>2. /\ next \in Times \cup {Never}
        /\ Mode[t] = "cron" /\ next # Never => next \in slots[t]
    <3>1. row.last \in Times \cup {Never}
      BY <1>1 DEF Rows
    <3> HIDE DEF row, next
    <3> QED BY <1>1, <2>1, <3>1, NextFireIs
  <2>3. Mode[t] = "at" => next = IF row.last = Never THEN At[t] ELSE Never
    BY <2>1 DEF NextFire
  <2> HIDE DEF next
  <2>4. /\ Recovered(t).next = next /\ Recovered(t) \in Rows /\ Recovered(t).last = row.last
        /\ Recovered(t).status = IF next = Never THEN "paused" ELSE "active"
    BY <1>1, <1>2, <1>6, <2>2 DEF Rows
  <2>5. ASSUME Active(t), row.next <= now PROVE Mode[t] = "at" /\ Recovered(t) = row
    <3>1. row.next # Never /\ row.next \in Times /\ Mode[t] = "at"
      BY <1>1, <1>6, <2>5 DEF Active, Rows
    <3>2. next = row.next
      BY <1>1, <2>3, <3>1
    <3> HIDE DEF row
    <3>3. Recovered(t) = [row EXCEPT !.next = row.next, !.status = "active"]
      BY <1>2, <1>6, <3>1, <3>2
    <3> QED BY <1>1, <1>6, <3>1, <3>3 DEF Rows
  <2> QED BY <1>1, <1>6, <2>2, <2>3, <2>4, <2>5
<1> QED BY <1>1, <1>3, <1>4, <1>5, <1>6

\* What the invariant says of one row.
Fits(t, row) ==
    /\ row \in Rows
    /\ Mode[t] = "cron" /\ row.next # Never => row.next \in slots[t]
    /\ Mode[t] = "at" /\ row.next # Never => row.next = At[t] /\ row.last = Never

LEMMA InvByRow ==
    TimersInv <=> /\ TimersTypeOK /\ WakesInTime /\ SlotsFireOnce
                  /\ \A t \in Timers : Fits(t, timer[t])
<1>1. TimersTypeOK => \A t \in Timers : timer[t] \in Rows
  BY DEF TimersTypeOK, Rows
<1> QED BY <1>1 DEF TimersInv, TimersKeepTime, OnSlots, OneShots, Fits

\* A row that fits is kept by a step that keeps the slots.
LEMMA RowsFit ==
    ASSUME TimersInv, UNCHANGED <<slots, now, up>>, timer' \in [Timers -> Rows],
           \A t \in Timers : Fits(t, timer'[t]),
           wake' = Nearest(timer') \/ (~up /\ wake' = wake),
           fired' \in [Timers \X Times -> Nat], \A x \in Timers \X Times : fired'[x] <= 1
    PROVE  TimersInv'
<1>1. TimersTypeOK /\ WakesInTime
  BY DEF TimersInv, TimersKeepTime
<1>2. \/ ~up /\ wake' = wake
      \/ /\ wake' \in Times \cup {Never}
         /\ \A t \in Timers : timer'[t].status = "active" /\ timer'[t].next # Never =>
                wake' # Never /\ (wake' <= timer'[t].next \/ wake' <= now)
  BY <1>1, NearestIs
<1>3. TimersTypeOK'
  BY <1>1, <1>2 DEF TimersTypeOK, Rows
<1>4. WakesInTime'
  BY <1>2 DEF WakesInTime, Active
<1>5. \A t \in Timers : Fits(t, timer[t])'
  BY DEF Fits
<1>6. SlotsFireOnce'
  BY DEF SlotsFireOnce
<1> QED BY <1>3, <1>4, <1>5, <1>6 DEF TimersInv, TimersKeepTime, OnSlots, OneShots, Fits

\* A request writes one row and moves the timeout.
LEMMA RequestKeeps ==
    ASSUME TimersInv, NEW t \in Timers, NEW row, Fits(t, row), Set(t, row),
           wake' = Nearest(timer'), UNCHANGED <<slots, fired, up, now>>
    PROVE  TimersInv'
<1>1. timer \in [Timers -> Rows] /\ \A u \in Timers : Fits(u, timer[u])
  BY InvByRow DEF TimersTypeOK, Rows
<1>2. timer' = [timer EXCEPT ![t] = row] /\ row \in Rows
  BY DEF Set, Fits
<1>3. timer' \in [Timers -> Rows] /\ \A u \in Timers : timer'[u] = IF u = t THEN row ELSE timer[u]
  BY <1>1, <1>2
<1>4. \A u \in Timers : Fits(u, timer'[u])
  BY <1>1, <1>3
<1>5. fired' \in [Timers \X Times -> Nat] /\ \A x \in Timers \X Times : fired'[x] <= 1
  BY InvByRow DEF TimersTypeOK, SlotsFireOnce
<1> QED BY <1>3, <1>4, <1>5, RowsFit

LEMMA NewRowFits ==
    ASSUME TimersInv, NEW t \in Timers, NEW from \in Times, NEW recent \in Times \cup {Never},
           NEW fire \in Times \cup {Never},
           Mode[t] = "at" /\ NextFire(t, from, recent) # Never
               => recent = Never /\ fire = Never
    PROVE  Fits(t, RowFor(t, NextFire(t, from, recent), fire))
<1> DEFINE next == NextFire(t, from, recent)
<1>1. /\ next \in Times \cup {Never}
      /\ Mode[t] = "cron" /\ next # Never => next \in slots[t]
  BY NextFireIs DEF TimersInv, TimersKeepTime
<1>2. Mode[t] = "at" /\ next # Never => next = At[t]
  BY DEF NextFire
<1> HIDE DEF next
<1>3. RowFor(t, next, fire) \in Rows /\ RowFor(t, next, fire).next = next
  BY <1>1, RowForIs
<1>4. RowFor(t, next, fire).last = fire
  BY DEF RowFor
<1> QED BY <1>1, <1>2, <1>3, <1>4 DEF Fits, next

\* A pass moves the timers of a set on, each from its slot.
LEMMA PassFits ==
    ASSUME TimersInv, NEW set \in SUBSET Due
    PROVE  Moved(set) \in [Timers -> Rows] /\ \A t \in Timers : Fits(t, Moved(set)[t])
<1>1. ASSUME NEW t \in Timers PROVE Fits(t, Moved(set)[t])
  <2>1. CASE t \notin set
    BY <2>1, InvByRow DEF Moved
  <2>2. CASE t \in set
    <3>1. t \in Due /\ timer[t].next \in Times /\ now \in Times
      BY <2>2, InvByRow DEF Due, Active, Fits, Rows, TimersTypeOK
    <3>2. timer[t].next # Never
      BY <3>1, TimersAssumption DEF Times
    <3>3. Mode[t] = "at" => NextFire(t, timer[t].next, timer[t].next) = Never
      BY <3>2 DEF NextFire
    <3>4. Moved(set)[t] = RowFor(t, NextFire(t, timer[t].next, timer[t].next), now)
      BY <2>2 DEF Moved
    <3> QED BY <3>1, <3>3, <3>4, NewRowFits
  <2> QED BY <2>1, <2>2
<1>2. Moved(set) = [t \in Timers |-> Moved(set)[t]]
  BY DEF Moved
<1>3. \A t \in Timers : Moved(set)[t] \in Rows
  BY <1>1 DEF Fits
<1>4. Moved(set) \in [Timers -> Rows]
  BY <1>2, <1>3
<1> QED BY <1>1, <1>4

LEMMA FiredOnce ==
    ASSUME TimersInv, NEW set
    PROVE  /\ FiredWith(set) \in [Timers \X Times -> Nat]
           /\ \A x \in Timers \X Times : FiredWith(set)[x] <= 1
BY InvByRow DEF FiredWith, Once, TimersTypeOK, SlotsFireOnce

\* The process goes down, with what the step has written before.
LEMMA DownKeeps ==
    ASSUME TimersInv, UNCHANGED <<slots, now>>, timer' \in [Timers -> Rows],
           \A t \in Timers : Fits(t, timer'[t]), ~up', wake' = Never,
           fired' \in [Timers \X Times -> Nat], \A x \in Timers \X Times : fired'[x] <= 1,
           up' \in BOOLEAN
    PROVE  TimersInv'
<1>1. TimersTypeOK'
  BY InvByRow DEF TimersTypeOK, Rows
<1>2. WakesInTime' /\ SlotsFireOnce'
  BY DEF WakesInTime, SlotsFireOnce
<1> QED BY <1>1, <1>2 DEF TimersInv, TimersKeepTime, OnSlots, OneShots, Fits

LEMMA TimersInitOK == TimersInit => TimersInv
<1> SUFFICES ASSUME TimersInit PROVE TimersInv
  OBVIOUS
<1>1. 0 \in Times /\ Never \notin Int
  BY TimersAssumption DEF Times
<1>2. TimersTypeOK
  BY <1>1 DEF TimersInit, TimersTypeOK, NoTimer
<1>3. WakesInTime /\ SlotsFireOnce /\ OnSlots /\ OneShots
  BY DEF TimersInit, WakesInTime, SlotsFireOnce, OnSlots, OneShots, NoTimer
<1> QED BY <1>2, <1>3 DEF TimersInv, TimersKeepTime

LEMMA TimersStep == TimersInv /\ [TimersNext]_timerVars => TimersInv'
<1> SUFFICES ASSUME TimersInv, [TimersNext]_timerVars PROVE TimersInv'
  OBVIOUS
<1>1. /\ now \in Times /\ now \in Nat /\ Never \notin Int /\ timer \in [Timers -> Rows]
      /\ \A t \in Timers : timer[t] \in Rows /\ Fits(t, timer[t])
      /\ fired \in [Timers \X Times -> Nat] /\ \A x \in Timers \X Times : fired[x] <= 1
      /\ \A t \in Timers : timer[t].last \in Times \cup {Never}
  BY InvByRow, SlotsAreTimes DEF TimersTypeOK, Rows, SlotsFireOnce
<1>2. ASSUME NEW t \in Timers, RegisterTimer(t) PROVE TimersInv'
  <2>1. Fits(t, RowFor(t, NextFire(t, now, Never), Never))
    BY <1>1, NewRowFits
  <2> QED BY <1>2, <2>1, RequestKeeps DEF RegisterTimer, Reschedule
<1>3. ASSUME NEW t \in Timers, PauseTimer(t) PROVE TimersInv'
  <2>1. Fits(t, [timer[t] EXCEPT !.status = "paused", !.next = Never])
    BY <1>1 DEF Fits, Rows
  <2> QED BY <1>3, <2>1, RequestKeeps DEF PauseTimer, Reschedule
<1>4. ASSUME NEW t \in Timers, ResumeTimer(t) PROVE TimersInv'
  <2>1. Mode[t] = "at" => timer[t].last = Never
    BY <1>4 DEF ResumeTimer, Resumable
  <2>2. Fits(t, RowFor(t, NextFire(t, now, timer[t].last), timer[t].last))
    BY <1>1, <2>1, NewRowFits
  <2> QED BY <1>4, <2>2, RequestKeeps DEF ResumeTimer, RescheduleResumed
<1>5. ASSUME NEW t \in Timers, RemoveTimer(t) PROVE TimersInv'
  <2>1. Fits(t, NoTimer)
    BY DEF NoTimer, Fits, Rows
  <2> QED BY <1>5, <2>1, RequestKeeps DEF RemoveTimer, Reschedule
<1>6. CASE SyncTimers
  <2>1. timer' \in [Timers -> Rows] /\ \A t \in Timers : Fits(t, timer'[t])
    BY <1>6, PassFits DEF SyncTimers
  <2>2. fired' \in [Timers \X Times -> Nat] /\ \A x \in Timers \X Times : fired'[x] <= 1
    BY <1>6, FiredOnce DEF SyncTimers
  <2> QED BY <1>6, <2>1, <2>2, RowsFit DEF SyncTimers, Reschedule
<1>7. ASSUME NEW set, NEW handled, CrashInSync(set, handled) PROVE TimersInv'
  <2>1. timer' \in [Timers -> Rows] /\ \A t \in Timers : Fits(t, timer'[t])
    BY <1>7, PassFits DEF CrashInSync
  <2>2. fired' \in [Timers \X Times -> Nat] /\ \A x \in Timers \X Times : fired'[x] <= 1
    BY <1>7, FiredOnce DEF CrashInSync
  <2> QED BY <1>7, <2>1, <2>2, DownKeeps DEF CrashInSync
<1>8. CASE Stop
  BY <1>1, <1>8, DownKeeps DEF Stop
<1>9. CASE Start
  <2>1. \A t \in Timers : Fits(t, Recovered(t))
    BY RecoveredIs DEF TimersInv, TimersKeepTime, Fits
  <2>2. timer' \in [Timers -> Rows] /\ \A t \in Timers : timer'[t] = Recovered(t)
    BY <1>9, <2>1 DEF Start, Fits
  <2>3. UNCHANGED <<slots, fired, now>> /\ up' = TRUE /\ wake' = now
    BY <1>9 DEF Start
  <2>4. TimersTypeOK'
    BY <1>1, <2>2, <2>3, InvByRow DEF TimersTypeOK, Rows
  <2>5. WakesInTime'
    BY <1>1, <2>3 DEF WakesInTime
  <2>6. SlotsFireOnce' /\ OnSlots' /\ OneShots'
    BY <1>1, <2>1, <2>2, <2>3 DEF SlotsFireOnce, OnSlots, OneShots, Fits
  <2> QED BY <2>4, <2>5, <2>6 DEF TimersInv, TimersKeepTime
<1>10. CASE Pass
  <2>1. now' = now + 1 /\ now' \in Times /\ UNCHANGED <<slots, timer, fired, wake, up>>
    BY <1>1, <1>10, TimersAssumption DEF Pass, Times
  <2>2. TimersTypeOK'
    BY <2>1, InvByRow DEF TimersTypeOK
  <2>3. wake \in Times \cup {Never} /\ \A t \in Timers : timer[t].next \in Times \cup {Never}
    BY <1>1, InvByRow DEF TimersTypeOK, Rows
  <2>4. WakesInTime'
    BY <1>1, <2>1, <2>3, InvByRow DEF WakesInTime, Active, Times
  <2>5. SlotsFireOnce' /\ OnSlots' /\ OneShots'
    BY <2>1 DEF TimersInv, TimersKeepTime, SlotsFireOnce, OnSlots, OneShots
  <2> QED BY <2>2, <2>4, <2>5 DEF TimersInv, TimersKeepTime
<1>11. CASE UNCHANGED timerVars
  BY <1>11 DEF timerVars, TimersInv, TimersKeepTime, TimersTypeOK, WakesInTime, SlotsFireOnce,
               OnSlots, OneShots, Active
<1> QED BY <1>2, <1>3, <1>4, <1>5, <1>6, <1>7, <1>8, <1>9, <1>10, <1>11 DEF TimersNext

\* While the process runs the timeout expires before an active timer is due, and no slot is
\* fired twice, whatever is registered, paused and resumed, and wherever a pass is cut.
THEOREM TimersAreKept == TimersSpec => []TimersKeepTime
<1>1. TimersInv => TimersKeepTime
  BY DEF TimersInv
<1> QED BY <1>1, TimersInitOK, TimersStep, PTL DEF TimersSpec

\* A start leaves an overdue timer as its mode wants it.  Of a cron timer it finds, with
\* jumps that double and halve, the latest slot missed, whatever the expression allows.
THEOREM StartRecoversByMode == TimersSpec => RecoversByMode
<1>1. TimersInv /\ [TimersNext]_timerVars =>
         [Start => \A t \in Timers :
             (Active(t) /\ timer[t].next <= now) =>
                 CASE Mode[t] = "at"    -> timer'[t] = timer[t]
                   [] Mode[t] = "every" -> timer'[t].next \notin 0..now
                   [] Mode[t] = "cron"  -> timer'[t].next = Max({s \in slots[t] : s <= now})]_timerVars
  <2> SUFFICES ASSUME TimersInv, Start, NEW t \in Timers, Active(t), timer[t].next <= now
               PROVE  CASE Mode[t] = "at"    -> timer'[t] = timer[t]
                        [] Mode[t] = "every" -> timer'[t].next \notin 0..now
                        [] Mode[t] = "cron"  -> timer'[t].next = Max({s \in slots[t] : s <= now})
    OBVIOUS
  <2>1. timer'[t] = Recovered(t)
    BY DEF Start
  <2>2. TimersTypeOK /\ OnSlots /\ OneShots
    BY DEF TimersInv, TimersKeepTime
  <2> HIDE DEF TimersInv
  <2> QED BY <2>1, <2>2, RecoveredIs
<1> QED BY <1>1, TimersInitOK, TimersStep, PTL DEF TimersSpec, RecoversByMode

-----------------------------------------------------------------------------
(* Cron occurrences: the search for the next one and for the last overdue one *)

\* Quotient and remainder, and the numbers they are of.
LEMMA Parts ==
    ASSUME NEW b \in Nat \ {0}, NEW n \in Int
    PROVE  /\ n \div b \in Int /\ n % b \in Nat /\ n % b < b
           /\ n = (n \div b) * b + (n % b)
OBVIOUS

\* The next multiple is at least one length further.
LEMMA Steps ==
    ASSUME NEW b \in Nat, NEW p \in Int, NEW q \in Int, p < q
    PROVE  p * b + b <= q * b
<1>1. b * (q - p - 1) >= 0
  OBVIOUS
<1>2. b * (q - p - 1) = q * b - p * b - b
  OBVIOUS
<1> QED BY <1>1, <1>2

\* A number below a place is in an earlier part, or in the same and before it there.
LEMMA Below ==
    ASSUME NEW b \in Nat \ {0}, NEW x \in Int, NEW q \in Int, NEW r \in Nat, r < b,
           x < q * b + r
    PROVE  x \div b < q \/ (x \div b = q /\ x % b < r)
<1> DEFINE p == x \div b
           s == x % b
<1>1. p \in Int /\ s \in Nat /\ s < b /\ x = p * b + s
  BY Parts
<1>0. q * b \in Int /\ p * b \in Int
  BY <1>1
<1> HIDE DEF p, s
<1>2. CASE q < p
  <2>1. q * b + b <= p * b
    BY <1>1, <1>2, Steps
  <2> QED BY <1>0, <1>1, <2>1
<1>3. CASE q = p
  BY <1>0, <1>1, <1>3 DEF p, s
<1>4. CASE p < q
  BY <1>4 DEF p
<1> QED BY <1>1, <1>2, <1>3, <1>4

\* What is composed of a part and a place in it has them.
LEMMA Composed ==
    ASSUME NEW b \in Nat \ {0}, NEW q \in Int, NEW r \in Nat, r < b
    PROVE  q * b + r \in Int /\ (q * b + r) \div b = q /\ (q * b + r) % b = r
<1> DEFINE x == q * b + r
           p == x \div b
           s == x % b
<1>0. q * b \in Int /\ x \in Int /\ x = q * b + r
  OBVIOUS
<1> HIDE DEF x
<1>1. p \in Int /\ s \in Nat /\ s < b /\ x = p * b + s /\ p * b \in Int
  BY <1>0, Parts
<1> HIDE DEF p, s
<1>2. CASE q < p
  <2>1. q * b + b <= p * b
    BY <1>1, <1>2, Steps
  <2> QED BY <1>0, <1>1, <2>1
<1>3. CASE p < q
  <2>1. p * b + b <= q * b
    BY <1>1, <1>3, Steps
  <2> QED BY <1>0, <1>1, <2>1
<1>4. CASE p = q
  <2>1. s = r
    BY <1>0, <1>1, <1>4
  <2> QED BY <1>0, <1>4, <2>1 DEF p, s, x
<1> QED BY <1>1, <1>2, <1>3, <1>4

\* Of two numbers the greater is in a later part, or in the same and not before it there.
LEMMA Ordered ==
    ASSUME NEW b \in Nat \ {0}, NEW n \in Int, NEW x \in Int, n <= x
    PROVE  n \div b < x \div b \/ (n \div b = x \div b /\ n % b <= x % b)
<1> DEFINE p == n \div b
           s == n % b
           q == x \div b
           r == x % b
<1>1. p \in Int /\ s \in Nat /\ s < b /\ n = p * b + s /\ p * b \in Int
  BY Parts
<1>2. q \in Int /\ r \in Nat /\ r < b /\ x = q * b + r /\ q * b \in Int
  BY Parts
<1> SUFFICES p < q \/ (p = q /\ s <= r)
  OBVIOUS
<1> HIDE DEF p, s, q, r
<1>3. CASE q < p
  <2>1. q * b + b <= p * b
    BY <1>1, <1>2, <1>3, Steps
  <2> QED BY <1>1, <1>2, <2>1
<1>4. CASE q = p
  BY <1>1, <1>2, <1>4
<1> QED BY <1>1, <1>2, <1>3, <1>4

-----------------------------------------------------------------------------
(* The fields of the clock *)

DayOf(n) == (n \div Minutes) \div Hours

LEMMA Sizes ==
    /\ Minutes \in Nat \ {0} /\ Hours \in Nat \ {0} /\ Days \in Nat \ {0}
    /\ Months \in Nat \ {0} /\ Week \in Nat \ {0} /\ Short \in Nat \ {0}
    /\ Week <= Short /\ Short <= Days /\ YearDays \in Nat \ {0}
    /\ (Months - 1) * Days \in Nat /\ YearDays = (Months - 1) * Days + Short
    /\ YearDays <= Months * Days /\ Months * Days \in Nat
<1>1. /\ Minutes \in Nat \ {0} /\ Hours \in Nat \ {0} /\ Days \in Nat \ {0}
      /\ Months \in Nat \ {0} /\ Week \in Nat \ {0} /\ Short \in Nat \ {0}
      /\ Week <= Short /\ Short <= Days
  BY CronAssumption
<1>2. (Months - 1) * Days \in Nat /\ Months * Days \in Nat
  BY <1>1
<1>3. (Months - 1) * Days + Days = Months * Days
  BY <1>1
<1> QED BY <1>1, <1>2, <1>3 DEF YearDays

\* What the clock shows, and that it is all there is to an instant.
LEMMA ClockIs ==
    ASSUME NEW n \in Int
    PROVE  LET w == WallClock(n) IN
           /\ w.year \in Int /\ w.month \in 1..Months /\ w.day \in 1..Days
           /\ w.month = Months => w.day <= Short
           /\ w.hour \in 0..(Hours - 1) /\ w.minute \in 0..(Minutes - 1)
           /\ w.dayOfWeek = DayOf(n) % Week
           /\ DayOf(n) \in Int /\ n \div Minutes \in Int
           /\ DayOf(n) = w.year * YearDays + ((w.month - 1) * Days + (w.day - 1))
           /\ n \div Minutes = DayOf(n) * Hours + w.hour
           /\ n = (n \div Minutes) * Minutes + w.minute
<1> DEFINE hours == n \div Minutes
           days == hours \div Hours
           inYear == days % YearDays
           w == WallClock(n)
<1>1. /\ w.year = days \div YearDays /\ w.month = inYear \div Days + 1
      /\ w.day = (inYear % Days) + 1 /\ w.hour = hours % Hours /\ w.minute = n % Minutes
      /\ w.dayOfWeek = days % Week
  BY DEF WallClock
<1>2. /\ hours \in Int /\ n % Minutes \in Nat /\ n % Minutes < Minutes
      /\ n = hours * Minutes + (n % Minutes)
  BY Sizes, Parts
<1>3. /\ days \in Int /\ hours % Hours \in Nat /\ hours % Hours < Hours
      /\ hours = days * Hours + (hours % Hours)
  <2> HIDE DEF hours
  <2> QED BY <1>2, Sizes, Parts
<1>4. /\ days \div YearDays \in Int /\ inYear \in Nat /\ inYear < YearDays
      /\ days = (days \div YearDays) * YearDays + inYear
  <2> HIDE DEF days
  <2> QED BY <1>3, Sizes, Parts
<1>5. /\ inYear \div Days \in Int /\ inYear % Days \in Nat /\ inYear % Days < Days
      /\ inYear = (inYear \div Days) * Days + (inYear % Days)
  <2> HIDE DEF inYear
  <2> QED BY <1>4, Sizes, Parts
<1>6. inYear \div Days < Months /\ inYear \div Days >= 0
  <2> HIDE DEF inYear
  <2>1. inYear < Months * Days + 0
    BY <1>4, Sizes
  <2>2. inYear \div Days < Months
    <3>1. 0 \in Nat /\ 0 < Days /\ Days \in Nat \ {0} /\ Months \in Int
      BY Sizes
    <3> QED BY <1>4, <1>5, <2>1, <3>1, Below
  <2>3. CASE inYear \div Days < 0
    <3> DEFINE m == inYear \div Days
    <3>1. m * Days + Days <= 0 * Days
      <4>1. m \in Int /\ m < 0 /\ 0 \in Int /\ Days \in Nat
        BY <1>5, <2>3, Sizes
      <4> HIDE DEF m
      <4> QED BY <4>1, Steps
    <3> QED BY <1>4, <1>5, <3>1, Sizes
  <2> QED BY <1>5, <2>2, <2>3
<1>7. inYear \div Days + 1 = Months => (inYear % Days) + 1 <= Short
  <2> HIDE DEF inYear
  <2>1. inYear \div Days + 1 = Months => inYear \div Days = Months - 1
    BY <1>5, Sizes
  <2> QED BY <1>4, <1>5, <2>1, Sizes
<1>8. DayOf(n) = days
  BY DEF DayOf
<1> HIDE DEF w, hours, days, inYear
<1>9. w.month - 1 = inYear \div Days /\ w.day - 1 = inYear % Days
  BY <1>1, <1>5
<1>10. /\ w.year \in Int /\ w.month \in 1..Months /\ w.day \in 1..Days
       /\ w.month = Months => w.day <= Short
       /\ w.hour \in 0..(Hours - 1) /\ w.minute \in 0..(Minutes - 1)
  BY <1>1, <1>2, <1>3, <1>4, <1>5, <1>6, <1>7, Sizes
<1>11. /\ w.dayOfWeek = DayOf(n) % Week
       /\ DayOf(n) = w.year * YearDays + ((w.month - 1) * Days + (w.day - 1))
  BY <1>1, <1>4, <1>5, <1>8, <1>9
<1>12. hours = DayOf(n) * Hours + w.hour /\ n = hours * Minutes + w.minute
  BY <1>1, <1>2, <1>3, <1>8
<1> QED BY <1>2, <1>3, <1>8, <1>10, <1>11, <1>12 DEF w, hours

\* A time that is put together shows what it was put together from.
LEMMA ClockOf ==
    ASSUME NEW year \in Int, NEW month \in 1..Months, NEW day \in 1..Days,
           month = Months => day <= Short,
           NEW hour \in 0..(Hours - 1), NEW minute \in 0..(Minutes - 1)
    PROVE  LET n == Naive(year, month, day, hour, minute)
               w == WallClock(n)
           IN  /\ n \in Int /\ w.year = year /\ w.month = month /\ w.day = day
               /\ w.hour = hour /\ w.minute = minute
               /\ DayOf(n) = year * YearDays + (month - 1) * Days + (day - 1)
               /\ w.dayOfWeek = (year * YearDays + (month - 1) * Days + (day - 1)) % Week
<1> DEFINE n == Naive(year, month, day, hour, minute)
           inYear == (month - 1) * Days + (day - 1)
           days == year * YearDays + inYear
           hours == days * Hours + hour
           w == WallClock(n)
<1>0. (month - 1) * Days \in Nat /\ month - 1 \in Int /\ day - 1 \in Nat /\ day - 1 < Days
  BY Sizes
<1>1. inYear \in Nat /\ inYear < YearDays
  <2>1. CASE month = Months
    BY <1>0, <2>1, Sizes
  <2>2. CASE month < Months
    <3>1. (month - 1) * Days + Days <= (Months - 1) * Days
      <4>1. month - 1 < Months - 1 /\ month - 1 \in Int /\ Months - 1 \in Int /\ Days \in Nat
        BY <2>2, Sizes
      <4> QED BY <4>1, Steps
    <3> QED BY <1>0, <3>1, Sizes
  <2> QED BY <2>1, <2>2, Sizes
<1>2. inYear \div Days = month - 1 /\ inYear % Days = day - 1
  BY <1>0, Sizes, Composed
<1>3. days \in Int /\ days \div YearDays = year /\ days % YearDays = inYear
  <2> HIDE DEF inYear
  <2> QED BY <1>1, Sizes, Composed
<1>4. hours \in Int /\ hours \div Hours = days /\ hours % Hours = hour
  <2>1. hour \in Nat /\ hour < Hours
    BY Sizes
  <2> HIDE DEF days
  <2> QED BY <1>3, <2>1, Sizes, Composed
<1>5. /\ hours * Minutes + minute \in Int
      /\ (hours * Minutes + minute) \div Minutes = hours
      /\ (hours * Minutes + minute) % Minutes = minute
  <2>1. minute \in Nat /\ minute < Minutes
    BY Sizes
  <2> HIDE DEF hours
  <2> QED BY <1>4, <2>1, Sizes, Composed
<1>6. days = year * YearDays + (month - 1) * Days + (day - 1)
  BY <1>0, Sizes
<1>7. n = hours * Minutes + minute
  <2>1. n = ((year * YearDays + (month - 1) * Days + (day - 1)) * Hours + hour) * Minutes + minute
    BY DEF Naive
  <2> HIDE DEF n, days
  <2> QED BY <1>6, <2>1
<1>8. n \in Int /\ n \div Minutes = hours /\ n % Minutes = minute
  <2> HIDE DEF n, hours
  <2> QED BY <1>5, <1>7
<1>9. /\ w.year = days \div YearDays /\ w.month = (days % YearDays) \div Days + 1
      /\ w.day = ((days % YearDays) % Days) + 1 /\ w.hour = hour /\ w.minute = minute
      /\ w.dayOfWeek = days % Week
  <2> HIDE DEF n, hours, days
  <2> QED BY <1>4, <1>8 DEF WallClock
<1>10. DayOf(n) = days
  <2> HIDE DEF n, hours, days
  <2> QED BY <1>4, <1>8 DEF DayOf
<1> HIDE DEF w, n, hours, days, inYear
<1>11. w.year = year /\ w.month = month /\ w.day = day
  <2>1. w.month = inYear \div Days + 1 /\ w.day = (inYear % Days) + 1
    BY <1>3, <1>9
  <2> QED BY <1>2, <1>3, <1>9, <2>1, Sizes
<1> QED BY <1>6, <1>8, <1>9, <1>10, <1>11 DEF w, n

\* Of two instants the later is on a later day, in a later hour of the same, or so on.
LEMMA ClockOrdered ==
    ASSUME NEW n \in Int, NEW x \in Int, n <= x
    PROVE  LET w == WallClock(n)
               v == WallClock(x)
           IN  /\ DayOf(n) <= DayOf(x) /\ n \div Minutes <= x \div Minutes
               /\ w.year < v.year \/ (w.year = v.year /\ w.month <= v.month)
               /\ DayOf(n) = DayOf(x) => w.hour <= v.hour
               /\ n \div Minutes = x \div Minutes => w.minute <= v.minute
<1> DEFINE w == WallClock(n)
           v == WallClock(x)
           i == DayOf(n) % YearDays
           j == DayOf(x) % YearDays
<1>1. /\ w.year = DayOf(n) \div YearDays /\ w.month = i \div Days + 1
      /\ w.hour = (n \div Minutes) % Hours /\ w.minute = n % Minutes
      /\ v.year = DayOf(x) \div YearDays /\ v.month = j \div Days + 1
      /\ v.hour = (x \div Minutes) % Hours /\ v.minute = x % Minutes
  BY DEF WallClock, DayOf
<1>2. /\ n \div Minutes < x \div Minutes
         \/ (n \div Minutes = x \div Minutes /\ n % Minutes <= x % Minutes)
      /\ n \div Minutes \in Int /\ x \div Minutes \in Int
  BY Ordered, Sizes, Parts
<1>3. /\ DayOf(n) < DayOf(x)
         \/ (DayOf(n) = DayOf(x) /\ (n \div Minutes) % Hours <= (x \div Minutes) % Hours)
      /\ DayOf(n) \in Int /\ DayOf(x) \in Int
  <2> DEFINE p == n \div Minutes
             q == x \div Minutes
  <2>1. p \in Int /\ q \in Int /\ p <= q
    BY <1>2
  <2>2. DayOf(n) = p \div Hours /\ DayOf(x) = q \div Hours
    BY DEF DayOf
  <2> HIDE DEF p, q
  <2>3. /\ p \div Hours < q \div Hours \/ (p \div Hours = q \div Hours /\ p % Hours <= q % Hours)
        /\ p \div Hours \in Int /\ q \div Hours \in Int
    BY <2>1, Ordered, Sizes, Parts
  <2> QED BY <2>2, <2>3 DEF p, q
<1>4. /\ w.year < v.year \/ (w.year = v.year /\ i <= j)
      /\ w.year \in Int /\ v.year \in Int /\ i \in Int /\ j \in Int
  <2>1. DayOf(n) <= DayOf(x) /\ DayOf(n) \in Int /\ DayOf(x) \in Int
    BY <1>3
  <2>2. /\ DayOf(n) \div YearDays < DayOf(x) \div YearDays
           \/ (DayOf(n) \div YearDays = DayOf(x) \div YearDays /\ i <= j)
        /\ DayOf(n) \div YearDays \in Int /\ DayOf(x) \div YearDays \in Int
        /\ i \in Int /\ j \in Int
    <3> DEFINE p == DayOf(n)
               q == DayOf(x)
    <3> HIDE DEF p, q
    <3>1. p \in Int /\ q \in Int /\ p <= q
      BY <2>1 DEF p, q
    <3>2. /\ p \div YearDays < q \div YearDays
             \/ (p \div YearDays = q \div YearDays /\ p % YearDays <= q % YearDays)
          /\ p \div YearDays \in Int /\ q \div YearDays \in Int
          /\ p % YearDays \in Int /\ q % YearDays \in Int
      BY <3>1, Ordered, Sizes, Parts
    <3> QED BY <3>2 DEF p, q
  <2> HIDE DEF i, j, w, v
  <2> QED BY <1>1, <2>2
<1> HIDE DEF i, j
<1>5. i <= j => w.month <= v.month
  <2>1. i <= j => i \div Days <= j \div Days
    BY <1>4, Ordered, Sizes, Parts
  <2>2. i \div Days \in Int /\ j \div Days \in Int
    BY <1>4, Sizes, Parts
  <2> HIDE DEF w, v
  <2> QED BY <1>1, <2>1, <2>2
<1>6. DayOf(n) = DayOf(x) => w.hour <= v.hour
  <2> HIDE DEF w, v
  <2> QED BY <1>1, <1>3
<1>7. n \div Minutes = x \div Minutes => w.minute <= v.minute
  <2> HIDE DEF w, v
  <2> QED BY <1>1, <1>2
<1>8. DayOf(n) <= DayOf(x) /\ n \div Minutes <= x \div Minutes
  BY <1>2, <1>3
<1> HIDE DEF w, v
<1> QED BY <1>4, <1>5, <1>6, <1>7, <1>8 DEF w, v

\* An instant before the beginning of a month is in an earlier one.
LEMMA BeforeMonth ==
    ASSUME NEW x \in Int, NEW year \in Int, NEW month \in 1..Months,
           DayOf(x) < year * YearDays + (month - 1) * Days
    PROVE  \/ WallClock(x).year < year
           \/ WallClock(x).year = year /\ WallClock(x).month < month
<1> DEFINE v == WallClock(x)
           j == DayOf(x) % YearDays
           r == (month - 1) * Days
<1>1. v.year = DayOf(x) \div YearDays /\ v.month = j \div Days + 1
  BY DEF WallClock, DayOf
<1>2. r \in Nat /\ r < YearDays
  <2>1. month - 1 \in Nat /\ r \in Nat
    BY Sizes
  <2>2. CASE month = Months
    BY <2>1, <2>2, Sizes
  <2>3. CASE month < Months
    <3>1. (month - 1) * Days + Days <= (Months - 1) * Days
      <4>1. month - 1 < Months - 1 /\ month - 1 \in Int /\ Months - 1 \in Int /\ Days \in Nat
        BY <2>3, Sizes
      <4> QED BY <4>1, Steps
    <3> QED BY <2>1, <3>1, Sizes
  <2> QED BY <2>2, <2>3, Sizes
<1>3. DayOf(x) \in Int
  BY ClockIs
<1>4. /\ v.year < year \/ (v.year = year /\ j < r)
      /\ j \in Nat
  <2>1. DayOf(x) < year * YearDays + r
    OBVIOUS
  <2> HIDE DEF r
  <2>2. /\ DayOf(x) \div YearDays < year \/ (DayOf(x) \div YearDays = year /\ j < r)
        /\ j \in Nat
    BY <1>2, <1>3, <2>1, Below, Sizes, Parts
  <2> HIDE DEF v, j
  <2> QED BY <1>1, <2>2
<1>5. j < r => v.month < month
  <2>1. j < r => j < (month - 1) * Days + 0
    BY <1>2, <1>4
  <2> HIDE DEF j, r
  <2>2. j < r => j \div Days < month - 1
    <3>1. 0 \in Nat /\ 0 < Days /\ month - 1 \in Int /\ j \in Int
      BY <1>4, Sizes
    <3> QED BY <2>1, <3>1, Below, Sizes
  <2>3. j \div Days \in Int /\ month \in Int
    BY <1>4, Sizes, Parts
  <2> HIDE DEF v
  <2> QED BY <1>1, <2>2, <2>3
<1> HIDE DEF v
<1> QED BY <1>4, <1>5 DEF v

\* An instant before an hour of a day is on an earlier day, or in an earlier hour of it.
LEMMA BeforeHour ==
    ASSUME NEW x \in Int, NEW day \in Int, NEW hour \in 0..(Hours - 1),
           x < (day * Hours + hour) * Minutes
    PROVE  DayOf(x) < day \/ (DayOf(x) = day /\ WallClock(x).hour < hour)
<1> DEFINE h == x \div Minutes
<1>0. day * Hours \in Int /\ hour \in Nat /\ hour < Hours
  BY Sizes
<1>1. h < day * Hours + hour /\ h \in Int
  <2> DEFINE q == day * Hours + hour
  <2>1. q \in Int /\ q * Minutes \in Int /\ x < q * Minutes
    BY <1>0, Sizes
  <2> HIDE DEF q
  <2>2. x < q * Minutes + 0 /\ 0 \in Nat /\ 0 < Minutes
    BY <2>1, Sizes
  <2>3. h < q \/ (h = q /\ x % Minutes < 0)
    BY <2>1, <2>2, Below, Sizes
  <2>4. h \in Int /\ x % Minutes \in Nat
    BY Parts, Sizes
  <2> HIDE DEF h
  <2>5. h < q
    BY <2>3, <2>4
  <2> QED BY <2>4, <2>5 DEF q
<1>2. DayOf(x) = h \div Hours /\ WallClock(x).hour = h % Hours
  BY DEF DayOf, WallClock
<1> HIDE DEF h
<1>3. h \div Hours < day \/ (h \div Hours = day /\ h % Hours < hour)
  BY <1>0, <1>1, Below, Sizes
<1> QED BY <1>2, <1>3

\* An instant before a minute of an hour is in an earlier hour, or an earlier minute of it.
LEMMA BeforeMinute ==
    ASSUME NEW x \in Int, NEW h \in Int, NEW minute \in 0..(Minutes - 1),
           x < h * Minutes + minute
    PROVE  x \div Minutes < h \/ (x \div Minutes = h /\ WallClock(x).minute < minute)
<1>1. minute \in Nat /\ minute < Minutes
  BY Sizes
<1>2. x \div Minutes < h \/ (x \div Minutes = h /\ x % Minutes < minute)
  BY <1>1, Below, Sizes
<1> QED BY <1>2 DEF WallClock

-----------------------------------------------------------------------------
(* The fields of the expression *)

LEMMA LeastIs ==
    ASSUME NEW hi \in Nat, NEW S \in SUBSET (0..hi), S # {}
    PROVE  Least(S) \in S /\ \A x \in S : Least(S) <= x
<1>1. \E m \in S : \A x \in S : m <= x
  BY LeastAndGreatest
<1> QED BY <1>1 DEF Least

LEMMA NextIs ==
    ASSUME NEW lo \in Nat, NEW hi \in Nat, NEW values \in SUBSET (lo..hi), NEW v \in lo..hi
    PROVE  LET next == NextAllowed(values, v)
           IN  /\ next = NoTime => \A y \in lo..hi : y >= v => ~Allows(values, y)
               /\ next # NoTime => /\ next \in lo..hi /\ v <= next /\ Allows(values, next)
                                   /\ \A y \in lo..hi : v <= y /\ y < next => ~Allows(values, y)
               /\ Allows(values, v) <=> next = v
               /\ NextAllowed(values, lo) # NoTime
<1> DEFINE Later(u) == {x \in values : x >= u}
<1>0. \A x \in values : x \in Nat /\ lo <= x /\ x <= hi
  OBVIOUS
<1>1. NoTime \notin Int
  BY CronAssumption
<1>2. ASSUME NEW u \in lo..hi, values # {}, Later(u) # {}
      PROVE  /\ NextAllowed(values, u) \in values /\ NextAllowed(values, u) >= u
             /\ \A x \in values : x >= u => NextAllowed(values, u) <= x
  <2>1. Later(u) \in SUBSET (0..hi)
    <3>1. \A x \in values : x \in 0..hi
      BY <1>0
    <3> QED BY <3>1
  <2>2. NextAllowed(values, u) = Least(Later(u))
    BY <1>2 DEF NextAllowed
  <2>3. Least(Later(u)) \in Later(u) /\ \A x \in Later(u) : Least(Later(u)) <= x
    <3> HIDE DEF Later
    <3> QED BY <1>2, <2>1, LeastIs
  <2> QED BY <2>2, <2>3
<1>3. \A u \in lo..hi : values # {} /\ Later(u) = {} => NextAllowed(values, u) = NoTime
  BY DEF NextAllowed
<1>4. lo \in lo..hi
  OBVIOUS
<1>5. CASE values = {}
  BY <1>1, <1>4, <1>5 DEF NextAllowed, Allows
<1>6. CASE values # {} /\ Later(v) = {}
  <2>1. NextAllowed(values, v) = NoTime
    BY <1>3, <1>6
  <2>2. Later(lo) # {}
    BY <1>0, <1>6
  <2>3. NextAllowed(values, lo) \in values
    BY <1>2, <1>4, <1>6, <2>2
  <2>4. NextAllowed(values, lo) # NoTime
    <3>1. NextAllowed(values, lo) \in Nat
      BY <1>0, <2>3
    <3> QED BY <1>1, <3>1
  <2>5. \A y \in lo..hi : y >= v => ~Allows(values, y)
    BY <1>6 DEF Allows
  <2> QED BY <1>1, <2>1, <2>4, <2>5
<1>7. CASE values # {} /\ Later(v) # {}
  <2> DEFINE next == NextAllowed(values, v)
  <2>1. next \in values /\ next >= v /\ \A x \in values : x >= v => next <= x
    BY <1>2, <1>7
  <2>2. Later(lo) # {}
    BY <1>0, <1>7
  <2>3. NextAllowed(values, lo) \in values
    BY <1>2, <1>4, <1>7, <2>2
  <2> HIDE DEF next
  <2>4. NextAllowed(values, lo) # NoTime /\ next # NoTime /\ next \in lo..hi
    <3>1. NextAllowed(values, lo) \in Nat /\ next \in Nat /\ next \in lo..hi
      BY <1>0, <2>1, <2>3
    <3> QED BY <1>1, <3>1
  <2>5. Allows(values, next) /\ \A y \in lo..hi : v <= y /\ y < next => ~Allows(values, y)
    BY <1>7, <2>1 DEF Allows
  <2>6. Allows(values, v) <=> next = v
    BY <1>7, <2>1, <2>5 DEF Allows
  <2> QED BY <2>1, <2>4, <2>5, <2>6 DEF next
<1> QED BY <1>5, <1>6, <1>7

LEMMA FirstIs ==
    ASSUME NEW lo \in Nat, NEW hi \in Nat, lo <= hi, NEW values \in SUBSET (lo..hi)
    PROVE  /\ First(values, lo) \in lo..hi /\ Allows(values, First(values, lo))
           /\ \A y \in lo..hi : y < First(values, lo) => ~Allows(values, y)
<1>1. CASE values = {}
  BY <1>1 DEF First, Allows
<1>2. CASE values # {}
  <2>0. \A x \in values : x \in Nat /\ lo <= x /\ x <= hi
    OBVIOUS
  <2>1. values \in SUBSET (0..hi)
    BY <2>0
  <2>2. Least(values) \in values /\ \A x \in values : Least(values) <= x
    BY <1>2, <2>1, LeastIs
  <2>3. First(values, lo) \in values /\ \A x \in values : First(values, lo) <= x
    BY <1>2, <2>2 DEF First
  <2> DEFINE first == First(values, lo)
  <2>4. first \in Nat /\ first \in lo..hi
    BY <2>0, <2>3
  <2>5. \A y \in lo..hi : y < first => ~Allows(values, y)
    <3> HIDE DEF first
    <3> TAKE y \in lo..hi
    <3>1. y \in Int
      OBVIOUS
    <3>2. y \in values => first <= y
      BY <2>3 DEF first
    <3>3. y < first => y \notin values
      BY <2>4, <3>1, <3>2
    <3> QED BY <1>2, <3>3 DEF Allows
  <2>6. Allows(values, first)
    BY <2>3 DEF Allows
  <2> QED BY <2>4, <2>5, <2>6
<1> QED BY <1>1, <1>2

\* The same for the fields that count from zero.
LEMMA NextOf ==
    ASSUME NEW size \in Nat \ {0}, NEW values \in SUBSET (0..(size - 1)), NEW v \in 0..(size - 1)
    PROVE  LET next == NextAllowed(values, v)
           IN  /\ next = NoTime => \A y \in 0..(size - 1) : y >= v => ~Allows(values, y)
               /\ next # NoTime =>
                     /\ next \in 0..(size - 1) /\ v <= next /\ Allows(values, next)
                     /\ \A y \in 0..(size - 1) : v <= y /\ y < next => ~Allows(values, y)
               /\ Allows(values, v) <=> next = v
               /\ NextAllowed(values, 0) # NoTime
<1> DEFINE hi == size - 1
<1>1. 0 \in Nat /\ hi \in Nat /\ values \in SUBSET (0..hi) /\ v \in 0..hi
  OBVIOUS
<1> HIDE DEF hi
<1>2. LET next == NextAllowed(values, v)
      IN  /\ next = NoTime => \A y \in 0..hi : y >= v => ~Allows(values, y)
          /\ next # NoTime => /\ next \in 0..hi /\ v <= next /\ Allows(values, next)
                              /\ \A y \in 0..hi : v <= y /\ y < next => ~Allows(values, y)
          /\ Allows(values, v) <=> next = v
          /\ NextAllowed(values, 0) # NoTime
  BY <1>1, NextIs
<1> QED BY <1>2 DEF hi

LEMMA FirstOf ==
    ASSUME NEW size \in Nat \ {0}, NEW values \in SUBSET (0..(size - 1))
    PROVE  /\ First(values, 0) \in 0..(size - 1) /\ Allows(values, First(values, 0))
           /\ \A y \in 0..(size - 1) : y < First(values, 0) => ~Allows(values, y)
<1> DEFINE hi == size - 1
<1>1. 0 \in Nat /\ hi \in Nat /\ 0 <= hi /\ values \in SUBSET (0..hi)
  OBVIOUS
<1> HIDE DEF hi
<1>2. /\ First(values, 0) \in 0..hi /\ Allows(values, First(values, 0))
      /\ \A y \in 0..hi : y < First(values, 0) => ~Allows(values, y)
  BY <1>1, FirstIs
<1> QED BY <1>2 DEF hi

-----------------------------------------------------------------------------
(* The jumps *)

FitsAt(n) == Matches(WallClock(n))

\* A jump is ahead and passes no time that fits.
Passes(n, j) == j \in Int /\ n < j /\ \A x \in Int : n <= x /\ x < j => ~FitsAt(x)

LEMMA CronFields ==
    ASSUME cron \in Crons
    PROVE  /\ cron.month \in SUBSET (1..Months) /\ cron.hour \in SUBSET (0..(Hours - 1))
           /\ cron.minute \in SUBSET (0..(Minutes - 1)) /\ cron.dayOfMonth \in SUBSET (1..Days)
           /\ cron.dayOfWeek \in SUBSET (0..(Week - 1))
           /\ Hours - 1 \in Nat /\ Minutes - 1 \in Nat
<1>1. cron \in [minute : SUBSET (0..(Minutes - 1)), hour : SUBSET (0..(Hours - 1)),
                dayOfMonth : SUBSET (1..Days), month : SUBSET (1..Months),
                dayOfWeek : SUBSET (0..(Week - 1))]
  BY CronAssumption
<1> QED BY <1>1, Sizes

LEMMA SameDay ==
    ASSUME NEW n, NEW x, DayOf(n) = DayOf(x)
    PROVE  /\ WallClock(x).year = WallClock(n).year /\ WallClock(x).month = WallClock(n).month
           /\ WallClock(x).day = WallClock(n).day
           /\ WallClock(x).dayOfWeek = WallClock(n).dayOfWeek
           /\ DayMatches(WallClock(x)) <=> DayMatches(WallClock(n))
BY DEF WallClock, DayOf, DayMatches

LEMMA SameHour ==
    ASSUME NEW n, NEW x, n \div Minutes = x \div Minutes
    PROVE  DayOf(n) = DayOf(x) /\ WallClock(x).hour = WallClock(n).hour
BY DEF WallClock, DayOf

LEMMA HourTime ==
    ASSUME NEW h \in Int, NEW minute \in 0..(Minutes - 1)
    PROVE  LET j == h * Minutes + minute
           IN  j \in Int /\ j \div Minutes = h /\ WallClock(j).minute = minute
<1> DEFINE j == h * Minutes + minute
<1>1. minute \in Nat /\ minute < Minutes
  BY Sizes
<1>2. j \in Int /\ j \div Minutes = h /\ j % Minutes = minute
  BY <1>1, Sizes, Composed
<1>3. WallClock(j).minute = j % Minutes
  BY DEF WallClock
<1> QED BY <1>2, <1>3

LEMMA DayTime ==
    ASSUME NEW day \in Int, NEW hour \in 0..(Hours - 1), NEW minute \in 0..(Minutes - 1)
    PROVE  LET j == (day * Hours + hour) * Minutes + minute
           IN  /\ j \in Int /\ DayOf(j) = day
               /\ WallClock(j).hour = hour /\ WallClock(j).minute = minute
<1> DEFINE h == day * Hours + hour
           j == h * Minutes + minute
<1>1. hour \in Nat /\ hour < Hours
  BY Sizes
<1>2. h \in Int /\ h \div Hours = day /\ h % Hours = hour
  BY <1>1, Sizes, Composed
<1>3. j \in Int /\ j \div Minutes = h /\ WallClock(j).minute = minute
  <2> HIDE DEF h
  <2> QED BY <1>2, HourTime
<1>4. DayOf(j) = (j \div Minutes) \div Hours /\ WallClock(j).hour = (j \div Minutes) % Hours
  BY DEF DayOf, WallClock
<1> HIDE DEF j, h
<1>5. DayOf(j) = day /\ WallClock(j).hour = hour
  BY <1>2, <1>3, <1>4
<1> QED BY <1>3, <1>5 DEF j, h

\* A time further on in the day of an instant, or on the next.
LEMMA NaiveIs ==
    ASSUME NEW n \in Int, NEW k \in Int, NEW hour \in Int, NEW minute \in Int
    PROVE  Naive(WallClock(n).year, WallClock(n).month, WallClock(n).day + k, hour, minute)
             = ((DayOf(n) + k) * Hours + hour) * Minutes + minute
<1> DEFINE w == WallClock(n)
<1>1. /\ w.year \in Int /\ w.month \in Int /\ w.day \in Int
      /\ DayOf(n) = w.year * YearDays + ((w.month - 1) * Days + (w.day - 1))
  BY ClockIs
<1>2. Naive(w.year, w.month, w.day + k, hour, minute)
        = ((w.year * YearDays + (w.month - 1) * Days + ((w.day + k) - 1)) * Hours + hour) * Minutes
            + minute
  <2> HIDE DEF w
  <2> QED BY Zenon DEF Naive
<1> HIDE DEF w
<1>3. w.year * YearDays \in Int /\ (w.month - 1) * Days \in Int
  BY <1>1, Sizes
<1>4. w.year * YearDays + (w.month - 1) * Days + ((w.day + k) - 1) = DayOf(n) + k
  BY <1>1, <1>3
<1> QED BY <1>2, <1>4 DEF w

LEMMA BeforeDay ==
    ASSUME NEW x \in Int, NEW j \in Int, x < j, WallClock(j).hour = 0, WallClock(j).minute = 0
    PROVE  DayOf(x) < DayOf(j)
<1>1. j = (DayOf(j) * Hours + 0) * Minutes + 0 /\ DayOf(j) \in Int
  BY ClockIs
<1>2. x < (DayOf(j) * Hours + 0) * Minutes
  BY <1>1, Sizes
<1>3. 0 \in 0..(Hours - 1)
  BY Sizes
<1>4. DayOf(x) < DayOf(j) \/ (DayOf(x) = DayOf(j) /\ WallClock(x).hour < 0)
  BY <1>1, <1>2, <1>3, BeforeHour
<1>5. WallClock(x).hour \in 0..(Hours - 1)
  BY ClockIs
<1> QED BY <1>4, <1>5

LEMMA PastYear ==
    ASSUME cron \in Crons, NEW n \in Int, NextAllowed(cron.month, WallClock(n).month) = NoTime
    PROVE  LET j == Naive(WallClock(n).year + 1, First(cron.month, 1), 1, 0, 0)
           IN  Passes(n, j) /\ DayOf(n) < DayOf(j) /\ WallClock(j).minute = 0
<1> DEFINE w == WallClock(n)
           first == First(cron.month, 1)
           j == Naive(w.year + 1, first, 1, 0, 0)
           u == WallClock(j)
<1>1. w.year \in Int /\ w.month \in 1..Months /\ DayOf(n) \in Int
  BY ClockIs
<1>2. first \in 1..Months /\ \A y \in 1..Months : y < first => ~Allows(cron.month, y)
  <2>1. 1 \in Nat /\ Months \in Nat /\ 1 <= Months
    BY Sizes
  <2> QED BY <2>1, CronFields, FirstIs
<1>3. \A y \in 1..Months : y >= w.month => ~Allows(cron.month, y)
  <2>1. 1 \in Nat /\ Months \in Nat
    BY Sizes
  <2>2. cron.month \in SUBSET (1..Months) /\ NextAllowed(cron.month, w.month) = NoTime
    BY CronFields
  <2> HIDE DEF w
  <2> QED BY <1>1, <2>1, <2>2, NextIs
<1> HIDE DEF w, first
<1>4. /\ j \in Int /\ u.year = w.year + 1 /\ u.month = first /\ u.hour = 0 /\ u.minute = 0
      /\ DayOf(j) = (w.year + 1) * YearDays + (first - 1) * Days + (1 - 1)
  <2>1. /\ w.year + 1 \in Int /\ 1 \in 1..Days /\ 1 <= Short
        /\ 0 \in 0..(Hours - 1) /\ 0 \in 0..(Minutes - 1)
    BY <1>1, Sizes
  <2> QED BY <1>2, <2>1, ClockOf
<1> HIDE DEF j, u
<1>5. DayOf(j) = (w.year + 1) * YearDays + (first - 1) * Days
  <2>1. (w.year + 1) * YearDays \in Int /\ (first - 1) * Days \in Int
    BY <1>1, <1>2, Sizes
  <2> QED BY <1>4, <2>1
<1>6. n < j
  <2>1. CASE j <= n
    <3>1. u.year <= w.year
      <4>1. u.year < w.year \/ u.year = w.year
        BY <1>4, <2>1, ClockOrdered DEF u, w
      <4> QED BY <1>1, <1>4, <4>1
    <3> QED BY <1>1, <1>4, <3>1
  <2> QED BY <1>4, <2>1
<1>7. DayOf(n) < DayOf(j)
  <2>1. DayOf(n) <= DayOf(j) /\ DayOf(j) \in Int
    BY <1>4, <1>6, ClockOrdered, ClockIs
  <2>2. DayOf(n) # DayOf(j)
    <3>1. DayOf(n) = DayOf(j) => u.year = w.year
      BY SameDay DEF u, w
    <3> QED BY <1>1, <1>4, <3>1
  <2> QED BY <1>1, <2>1, <2>2
<1>8. ASSUME NEW x \in Int, n <= x, x < j
      PROVE  ~FitsAt(x)
  <2> DEFINE v == WallClock(x)
  <2>1. v.month \in 1..Months /\ v.year \in Int
    BY ClockIs
  <2>2. DayOf(x) < DayOf(j)
    BY <1>4, <1>8, BeforeDay DEF u
  <2>3. v.year < w.year + 1 \/ (v.year = w.year + 1 /\ v.month < first)
    <3> DEFINE next == w.year + 1
    <3>1. next \in Int /\ first \in 1..Months
      BY <1>1, <1>2
    <3>2. DayOf(x) < next * YearDays + (first - 1) * Days
      BY <1>5, <2>2
    <3> HIDE DEF next, v
    <3>3. \/ WallClock(x).year < next
          \/ WallClock(x).year = next /\ WallClock(x).month < first
      BY <3>1, <3>2, BeforeMonth
    <3> QED BY <3>3 DEF next, v
  <2>4. w.year < v.year \/ (w.year = v.year /\ w.month <= v.month)
    BY <1>8, ClockOrdered DEF w
  <2> HIDE DEF v
  <2>5. ~Allows(cron.month, v.month)
    <3>1. CASE v.year < w.year + 1
      <4>1. v.month >= w.month
        BY <1>1, <2>1, <2>4, <3>1
      <4> QED BY <1>3, <2>1, <4>1
    <3>2. CASE v.month < first
      BY <1>2, <2>1, <3>2
    <3> QED BY <2>3, <3>1, <3>2
  <2> QED BY <2>5 DEF FitsAt, Matches, v
<1>9. Passes(n, j)
  BY <1>4, <1>6, <1>8 DEF Passes
<1> QED BY <1>4, <1>7, <1>9 DEF j, u, w, first

LEMMA PastMonth ==
    ASSUME cron \in Crons, NEW n \in Int,
           NextAllowed(cron.month, WallClock(n).month) \notin {NoTime, WallClock(n).month}
    PROVE  LET j == Naive(WallClock(n).year, NextAllowed(cron.month, WallClock(n).month), 1, 0, 0)
           IN  Passes(n, j) /\ DayOf(n) < DayOf(j) /\ WallClock(j).minute = 0
<1> DEFINE w == WallClock(n)
           next == NextAllowed(cron.month, w.month)
           j == Naive(w.year, next, 1, 0, 0)
           u == WallClock(j)
<1>1. w.year \in Int /\ w.month \in 1..Months /\ DayOf(n) \in Int
  BY ClockIs
<1>2. /\ next \in 1..Months /\ w.month < next
      /\ \A y \in 1..Months : w.month <= y /\ y < next => ~Allows(cron.month, y)
  <2>1. 1 \in Nat /\ Months \in Nat
    BY Sizes
  <2>2. /\ next \in 1..Months /\ w.month <= next
        /\ \A y \in 1..Months : w.month <= y /\ y < next => ~Allows(cron.month, y)
    <3>1. cron.month \in SUBSET (1..Months) /\ next # NoTime
      BY CronFields
    <3>2. Months \in Nat /\ w.month \in 1..Months
      BY <1>1, <2>1
    <3> HIDE DEF w
    <3>3. LET y == NextAllowed(cron.month, w.month)
          IN  /\ y \in 1..Months /\ w.month <= y
              /\ \A z \in 1..Months : w.month <= z /\ z < y => ~Allows(cron.month, z)
      BY <2>1, <3>1, <3>2, NextIs
    <3> QED BY <3>3
  <2>3. next # w.month
    OBVIOUS
  <2> HIDE DEF next, w
  <2> QED BY <1>1, <2>2, <2>3
<1> HIDE DEF w, next
<1>4. /\ j \in Int /\ u.year = w.year /\ u.month = next /\ u.hour = 0 /\ u.minute = 0
      /\ DayOf(j) = w.year * YearDays + (next - 1) * Days + (1 - 1)
  <2>1. /\ 1 \in 1..Days /\ 1 <= Short
        /\ 0 \in 0..(Hours - 1) /\ 0 \in 0..(Minutes - 1)
    BY <1>1, Sizes
  <2> QED BY <1>1, <1>2, <2>1, ClockOf
<1> HIDE DEF j, u
<1>5. DayOf(j) = w.year * YearDays + (next - 1) * Days
  <2>1. w.year * YearDays \in Int /\ (next - 1) * Days \in Int
    BY <1>1, <1>2, Sizes
  <2> QED BY <1>4, <2>1
<1>6. n < j
  <2>1. CASE j <= n
    <3>1. u.year < w.year \/ u.month <= w.month
      BY <1>4, <2>1, ClockOrdered DEF u, w
    <3> QED BY <1>1, <1>2, <1>4, <3>1
  <2> QED BY <1>4, <2>1
<1>7. DayOf(n) < DayOf(j)
  <2>1. DayOf(n) <= DayOf(j) /\ DayOf(j) \in Int
    BY <1>4, <1>6, ClockOrdered, ClockIs
  <2>2. DayOf(n) # DayOf(j)
    <3>1. DayOf(n) = DayOf(j) => u.month = w.month
      BY SameDay DEF u, w
    <3> QED BY <1>1, <1>2, <1>4, <3>1
  <2> QED BY <1>1, <2>1, <2>2
<1>8. ASSUME NEW x \in Int, n <= x, x < j
      PROVE  ~FitsAt(x)
  <2> DEFINE v == WallClock(x)
  <2>1. v.month \in 1..Months /\ v.year \in Int
    BY ClockIs
  <2>2. DayOf(x) < DayOf(j)
    BY <1>4, <1>8, BeforeDay DEF u
  <2>3. v.year < w.year \/ (v.year = w.year /\ v.month < next)
    BY <1>1, <1>2, <1>5, <2>2, BeforeMonth
  <2>4. w.year < v.year \/ (w.year = v.year /\ w.month <= v.month)
    BY <1>8, ClockOrdered DEF w
  <2> HIDE DEF v
  <2>5. ~Allows(cron.month, v.month)
    <3>1. w.month <= v.month /\ v.month < next
      BY <1>1, <2>1, <2>3, <2>4
    <3> QED BY <1>2, <2>1, <3>1
  <2> QED BY <2>5 DEF FitsAt, Matches, v
<1>9. Passes(n, j)
  BY <1>4, <1>6, <1>8 DEF Passes
<1> QED BY <1>4, <1>7, <1>9 DEF j, u, w, next

LEMMA PastDay ==
    ASSUME NEW n \in Int, ~DayMatches(WallClock(n))
    PROVE  LET w == WallClock(n)
               j == Naive(w.year, w.month, w.day + 1, 0, 0)
           IN  Passes(n, j) /\ DayOf(n) < DayOf(j) /\ WallClock(j).minute = 0
<1> DEFINE w == WallClock(n)
           j == Naive(w.year, w.month, w.day + 1, 0, 0)
<1>1. DayOf(n) \in Int /\ 0 \in 0..(Hours - 1) /\ 0 \in 0..(Minutes - 1)
  BY ClockIs, Sizes
<1>2. j = ((DayOf(n) + 1) * Hours + 0) * Minutes + 0
  BY NaiveIs
<1> HIDE DEF j
<1>3. /\ j \in Int /\ DayOf(j) = DayOf(n) + 1
      /\ WallClock(j).hour = 0 /\ WallClock(j).minute = 0
  <2>1. DayOf(n) + 1 \in Int
    BY <1>1
  <2> QED BY <1>1, <1>2, <2>1, DayTime
<1>4. n < j
  <2>1. j <= n => DayOf(j) <= DayOf(n)
    BY <1>3, ClockOrdered
  <2> QED BY <1>1, <1>3, <2>1
<1>5. ASSUME NEW x \in Int, n <= x, x < j
      PROVE  ~FitsAt(x)
  <2>1. DayOf(x) < DayOf(j)
    BY <1>3, <1>5, BeforeDay
  <2>2. DayOf(n) <= DayOf(x) /\ DayOf(x) \in Int
    BY <1>5, ClockOrdered, ClockIs
  <2>3. DayOf(n) = DayOf(x)
    BY <1>1, <1>3, <2>1, <2>2
  <2>4. ~DayMatches(WallClock(x))
    BY <2>3, SameDay
  <2> QED BY <2>4 DEF FitsAt, Matches
<1>6. Passes(n, j)
  BY <1>3, <1>4, <1>5 DEF Passes
<1>7. DayOf(n) < DayOf(j)
  BY <1>1, <1>3
<1> QED BY <1>3, <1>6, <1>7 DEF j

LEMMA PastDaysHours ==
    ASSUME cron \in Crons, NEW n \in Int, NextAllowed(cron.hour, WallClock(n).hour) = NoTime
    PROVE  LET w == WallClock(n)
               j == Naive(w.year, w.month, w.day + 1, First(cron.hour, 0), 0)
           IN  Passes(n, j) /\ DayOf(n) < DayOf(j) /\ WallClock(j).minute = 0
<1> DEFINE w == WallClock(n)
           first == First(cron.hour, 0)
           j == Naive(w.year, w.month, w.day + 1, first, 0)
<1>1. DayOf(n) \in Int /\ w.hour \in 0..(Hours - 1) /\ 0 \in 0..(Minutes - 1)
  BY ClockIs, Sizes
<1>2. /\ first \in 0..(Hours - 1)
      /\ \A y \in 0..(Hours - 1) : y < first => ~Allows(cron.hour, y)
  <2>1. Hours \in Nat \ {0} /\ cron.hour \in SUBSET (0..(Hours - 1))
    BY CronFields, Sizes
  <2> QED BY <2>1, FirstOf
<1>3. \A y \in 0..(Hours - 1) : y >= w.hour => ~Allows(cron.hour, y)
  <2>1. /\ Hours \in Nat \ {0} /\ cron.hour \in SUBSET (0..(Hours - 1))
        /\ NextAllowed(cron.hour, w.hour) = NoTime
    BY CronFields, Sizes
  <2> HIDE DEF w
  <2> QED BY <1>1, <2>1, NextOf
<1>4. j = ((DayOf(n) + 1) * Hours + first) * Minutes + 0
  <2>1. first \in Int
    BY <1>2
  <2> HIDE DEF first
  <2> QED BY <2>1, NaiveIs
<1> HIDE DEF j, w, first
<1>5. /\ j \in Int /\ DayOf(j) = DayOf(n) + 1 /\ WallClock(j).minute = 0
  <2>1. DayOf(n) + 1 \in Int
    BY <1>1
  <2> QED BY <1>1, <1>2, <1>4, <2>1, DayTime
<1>6. n < j
  <2>1. j <= n => DayOf(j) <= DayOf(n)
    BY <1>5, ClockOrdered
  <2> QED BY <1>1, <1>5, <2>1
<1>7. ASSUME NEW x \in Int, n <= x, x < j
      PROVE  ~FitsAt(x)
  <2> DEFINE v == WallClock(x)
  <2>1. v.hour \in 0..(Hours - 1) /\ DayOf(x) \in Int
    BY ClockIs
  <2>2. DayOf(x) < DayOf(n) + 1 \/ (DayOf(x) = DayOf(n) + 1 /\ v.hour < first)
    <3> DEFINE day == DayOf(n) + 1
    <3>1. day \in Int
      BY <1>1
    <3>2. (day * Hours + first) * Minutes \in Int
      BY <1>2, <3>1, Sizes
    <3>3. x < (day * Hours + first) * Minutes
      BY <1>4, <1>7, <3>2
    <3> HIDE DEF day
    <3>4. DayOf(x) < day \/ (DayOf(x) = day /\ v.hour < first)
      BY <1>2, <3>1, <3>3, BeforeHour
    <3> QED BY <3>4 DEF day
  <2>3. DayOf(n) <= DayOf(x) /\ (DayOf(n) = DayOf(x) => w.hour <= v.hour)
    BY <1>7, ClockOrdered DEF w
  <2> HIDE DEF v
  <2>4. w.hour <= v.hour \/ v.hour < first
    BY <1>1, <2>1, <2>2, <2>3
  <2>5. ~Allows(cron.hour, v.hour)
    BY <1>1, <1>2, <1>3, <2>1, <2>4
  <2> QED BY <2>5 DEF FitsAt, Matches, v
<1>8. Passes(n, j)
  BY <1>5, <1>6, <1>7 DEF Passes
<1>9. DayOf(n) < DayOf(j)
  BY <1>1, <1>5
<1> QED BY <1>5, <1>8, <1>9 DEF j, w, first

LEMMA PastHours ==
    ASSUME cron \in Crons, NEW n \in Int,
           NextAllowed(cron.hour, WallClock(n).hour) \notin {NoTime, WallClock(n).hour}
    PROVE  LET w == WallClock(n)
               next == NextAllowed(cron.hour, w.hour)
               j == Naive(w.year, w.month, w.day, next, 0)
           IN  /\ Passes(n, j) /\ DayOf(j) = DayOf(n)
               /\ Allows(cron.hour, WallClock(j).hour) /\ WallClock(j).minute = 0
<1> DEFINE w == WallClock(n)
           next == NextAllowed(cron.hour, w.hour)
           j == Naive(w.year, w.month, w.day, next, 0)
<1>1. /\ DayOf(n) \in Int /\ w.hour \in 0..(Hours - 1) /\ 0 \in 0..(Minutes - 1)
      /\ w.day \in Int
  <2>1. DayOf(n) \in Int /\ w.hour \in 0..(Hours - 1) /\ w.day \in 1..Days
    BY ClockIs
  <2> HIDE DEF w
  <2> QED BY <2>1, Sizes
<1>2. /\ next \in 0..(Hours - 1) /\ w.hour < next /\ Allows(cron.hour, next)
      /\ \A y \in 0..(Hours - 1) : w.hour <= y /\ y < next => ~Allows(cron.hour, y)
  <2>1. /\ Hours \in Nat \ {0} /\ cron.hour \in SUBSET (0..(Hours - 1))
        /\ next # NoTime /\ next # w.hour
    BY CronFields, Sizes
  <2> HIDE DEF w
  <2>2. /\ next \in 0..(Hours - 1) /\ w.hour <= next /\ Allows(cron.hour, next)
        /\ \A y \in 0..(Hours - 1) : w.hour <= y /\ y < next => ~Allows(cron.hour, y)
    BY <1>1, <2>1, NextOf
  <2> HIDE DEF next
  <2> QED BY <1>1, <2>1, <2>2
<1>3. j = (DayOf(n) * Hours + next) * Minutes + 0
  <2>1. next \in Int /\ 0 \in Int
    BY <1>2
  <2> HIDE DEF next
  <2>2. Naive(w.year, w.month, w.day + 0, next, 0) = ((DayOf(n) + 0) * Hours + next) * Minutes + 0
    BY <2>1, NaiveIs
  <2>3. w.day + 0 = w.day /\ DayOf(n) + 0 = DayOf(n)
    BY <1>1
  <2> HIDE DEF w
  <2> QED BY <2>2, <2>3
<1> HIDE DEF j, w, next
<1>4. j \in Int /\ DayOf(j) = DayOf(n) /\ WallClock(j).hour = next /\ WallClock(j).minute = 0
  BY <1>1, <1>2, <1>3, DayTime
<1>5. n < j
  <2>1. j <= n => WallClock(j).hour <= w.hour
    BY <1>4, ClockOrdered DEF w
  <2> QED BY <1>1, <1>2, <1>4, <2>1
<1>6. ASSUME NEW x \in Int, n <= x, x < j
      PROVE  ~FitsAt(x)
  <2> DEFINE v == WallClock(x)
  <2>1. v.hour \in 0..(Hours - 1) /\ DayOf(x) \in Int
    BY ClockIs
  <2>2. DayOf(x) < DayOf(n) \/ (DayOf(x) = DayOf(n) /\ v.hour < next)
    <3>2. (DayOf(n) * Hours + next) * Minutes \in Int
      BY <1>1, <1>2, Sizes
    <3>3. x < (DayOf(n) * Hours + next) * Minutes
      BY <1>3, <1>6, <3>2
    <3> QED BY <1>1, <1>2, <3>3, BeforeHour
  <2>3. DayOf(n) <= DayOf(x) /\ (DayOf(n) = DayOf(x) => w.hour <= v.hour)
    BY <1>6, ClockOrdered DEF w
  <2> HIDE DEF v
  <2>4. w.hour <= v.hour /\ v.hour < next
    BY <1>1, <2>1, <2>2, <2>3
  <2>5. ~Allows(cron.hour, v.hour)
    BY <1>2, <2>1, <2>4
  <2> QED BY <2>5 DEF FitsAt, Matches, v
<1>7. Passes(n, j)
  BY <1>4, <1>5, <1>6 DEF Passes
<1> QED BY <1>2, <1>4, <1>7 DEF j, w, next

LEMMA PastHoursMinutes ==
    ASSUME cron \in Crons, NEW n \in Int, NextAllowed(cron.minute, WallClock(n).minute) = NoTime
    PROVE  LET w == WallClock(n)
               first == First(cron.minute, 0)
               j == Naive(w.year, w.month, w.day, w.hour + 1, first)
           IN  Passes(n, j) /\ DayOf(n) <= DayOf(j) /\ Allows(cron.minute, WallClock(j).minute)
<1> DEFINE w == WallClock(n)
           first == First(cron.minute, 0)
           j == Naive(w.year, w.month, w.day, w.hour + 1, first)
           h == n \div Minutes
<1>1. /\ DayOf(n) \in Int /\ w.minute \in 0..(Minutes - 1) /\ w.hour \in Int
      /\ h = DayOf(n) * Hours + w.hour /\ h \in Int /\ w.day \in Int
  <2>1. /\ DayOf(n) \in Int /\ w.minute \in 0..(Minutes - 1) /\ w.hour \in 0..(Hours - 1)
        /\ h = DayOf(n) * Hours + w.hour /\ h \in Int /\ w.day \in 1..Days
    BY ClockIs
  <2> HIDE DEF w, h
  <2> QED BY <2>1, Sizes
<1>2. /\ first \in 0..(Minutes - 1) /\ Allows(cron.minute, first)
      /\ \A y \in 0..(Minutes - 1) : y < first => ~Allows(cron.minute, y)
  <2>1. Minutes \in Nat \ {0} /\ cron.minute \in SUBSET (0..(Minutes - 1))
    BY CronFields, Sizes
  <2> QED BY <2>1, FirstOf
<1>3. \A y \in 0..(Minutes - 1) : y >= w.minute => ~Allows(cron.minute, y)
  <2>1. /\ Minutes \in Nat \ {0} /\ cron.minute \in SUBSET (0..(Minutes - 1))
        /\ NextAllowed(cron.minute, w.minute) = NoTime
    BY CronFields, Sizes
  <2> HIDE DEF w
  <2> QED BY <1>1, <2>1, NextOf
<1>4. j = (h + 1) * Minutes + first
  <2>1. first \in Int /\ 0 \in Int
    BY <1>2
  <2> HIDE DEF first
  <2>2. w.hour + 1 \in Int
    BY <1>1
  <2>3. Naive(w.year, w.month, w.day + 0, w.hour + 1, first)
          = ((DayOf(n) + 0) * Hours + (w.hour + 1)) * Minutes + first
    BY <2>1, <2>2, NaiveIs
  <2>4. w.day + 0 = w.day /\ DayOf(n) + 0 = DayOf(n)
    BY <1>1
  <2>5. DayOf(n) * Hours \in Int
    BY <1>1, Sizes
  <2> HIDE DEF w, h
  <2>6. DayOf(n) * Hours + (w.hour + 1) = h + 1
    BY <1>1, <2>5
  <2> QED BY <2>3, <2>4, <2>6
<1> HIDE DEF j, w, first, h
<1>5. j \in Int /\ j \div Minutes = h + 1 /\ WallClock(j).minute = first
  <2>1. h + 1 \in Int
    BY <1>1
  <2> QED BY <1>2, <1>4, <2>1, HourTime
<1>6. n < j
  <2>1. j <= n => j \div Minutes <= h
    BY <1>5, ClockOrdered DEF h
  <2> QED BY <1>1, <1>5, <2>1
<1>7. ASSUME NEW x \in Int, n <= x, x < j
      PROVE  ~FitsAt(x)
  <2> DEFINE v == WallClock(x)
             k == x \div Minutes
  <2>1. v.minute \in 0..(Minutes - 1) /\ k \in Int
    BY ClockIs
  <2>2. k < h + 1 \/ (k = h + 1 /\ v.minute < first)
    <3>1. h + 1 \in Int /\ x < (h + 1) * Minutes + first
      BY <1>1, <1>4, <1>7
    <3> QED BY <1>2, <3>1, BeforeMinute
  <2>3. h <= k /\ (h = k => w.minute <= v.minute)
    BY <1>7, ClockOrdered DEF w, h
  <2> HIDE DEF v, k
  <2>4. w.minute <= v.minute \/ v.minute < first
    BY <1>1, <2>1, <2>2, <2>3
  <2>5. ~Allows(cron.minute, v.minute)
    BY <1>1, <1>2, <1>3, <2>1, <2>4
  <2> QED BY <2>5 DEF FitsAt, Matches, v
<1>8. Passes(n, j)
  BY <1>5, <1>6, <1>7 DEF Passes
<1>9. DayOf(n) <= DayOf(j)
  BY <1>5, <1>6, ClockOrdered
<1> QED BY <1>2, <1>5, <1>8, <1>9 DEF j, w, first

LEMMA PastMinutes ==
    ASSUME cron \in Crons, NEW n \in Int,
           NextAllowed(cron.minute, WallClock(n).minute) \notin {NoTime, WallClock(n).minute}
    PROVE  LET w == WallClock(n)
               next == NextAllowed(cron.minute, w.minute)
               j == Naive(w.year, w.month, w.day, w.hour, next)
           IN  /\ Passes(n, j) /\ DayOf(j) = DayOf(n) /\ WallClock(j).hour = w.hour
               /\ Allows(cron.minute, WallClock(j).minute)
<1> DEFINE w == WallClock(n)
           next == NextAllowed(cron.minute, w.minute)
           j == Naive(w.year, w.month, w.day, w.hour, next)
           h == n \div Minutes
<1>1. /\ DayOf(n) \in Int /\ w.minute \in 0..(Minutes - 1) /\ w.hour \in Int
      /\ h = DayOf(n) * Hours + w.hour /\ h \in Int /\ w.day \in Int
      /\ n = h * Minutes + w.minute
  <2>1. /\ DayOf(n) \in Int /\ w.minute \in 0..(Minutes - 1) /\ w.hour \in 0..(Hours - 1)
        /\ h = DayOf(n) * Hours + w.hour /\ h \in Int /\ w.day \in 1..Days
        /\ n = h * Minutes + w.minute
    BY ClockIs
  <2> HIDE DEF w, h
  <2> QED BY <2>1, Sizes
<1>2. /\ next \in 0..(Minutes - 1) /\ w.minute < next /\ Allows(cron.minute, next)
      /\ \A y \in 0..(Minutes - 1) : w.minute <= y /\ y < next => ~Allows(cron.minute, y)
  <2>1. /\ Minutes \in Nat \ {0} /\ cron.minute \in SUBSET (0..(Minutes - 1))
        /\ next # NoTime /\ next # w.minute
    BY CronFields, Sizes
  <2> HIDE DEF w
  <2>2. /\ next \in 0..(Minutes - 1) /\ w.minute <= next /\ Allows(cron.minute, next)
        /\ \A y \in 0..(Minutes - 1) : w.minute <= y /\ y < next => ~Allows(cron.minute, y)
    BY <1>1, <2>1, NextOf
  <2> HIDE DEF next
  <2> QED BY <1>1, <2>1, <2>2
<1>3. j = h * Minutes + next
  <2>1. next \in Int /\ 0 \in Int
    BY <1>2
  <2> HIDE DEF next
  <2>0. w.hour \in Int
    BY <1>1
  <2>2. Naive(w.year, w.month, w.day + 0, w.hour, next)
          = ((DayOf(n) + 0) * Hours + w.hour) * Minutes + next
    BY <2>0, <2>1, NaiveIs
  <2>3. w.day + 0 = w.day /\ DayOf(n) + 0 = DayOf(n)
    BY <1>1
  <2> HIDE DEF w, h
  <2> QED BY <1>1, <2>2, <2>3
<1> HIDE DEF j, w, next, h
<1>4. j \in Int /\ j \div Minutes = h /\ WallClock(j).minute = next
  BY <1>1, <1>2, <1>3, HourTime
<1>5. DayOf(j) = DayOf(n) /\ WallClock(j).hour = w.hour
  BY <1>4, SameHour DEF w, h
<1>6. n < j
  <2> DEFINE start == h * Minutes
  <2>1. start \in Int /\ n = start + w.minute /\ j = start + next
    <3>1. h \in Int /\ Minutes \in Nat
      BY <1>1, Sizes
    <3>2. start \in Int
      BY <3>1
    <3>3. n = start + w.minute
      BY <1>1
    <3>4. j = start + next
      BY <1>3
    <3> QED BY <3>2, <3>3, <3>4
  <2>2. w.minute \in Int /\ next \in Int /\ w.minute < next
    BY <1>1, <1>2
  <2> HIDE DEF start
  <2> QED BY <2>1, <2>2
<1>7. ASSUME NEW x \in Int, n <= x, x < j
      PROVE  ~FitsAt(x)
  <2> DEFINE v == WallClock(x)
             k == x \div Minutes
  <2>1. v.minute \in 0..(Minutes - 1) /\ k \in Int
    BY ClockIs
  <2>2. k < h \/ (k = h /\ v.minute < next)
    BY <1>1, <1>2, <1>3, <1>7, BeforeMinute
  <2>3. h <= k /\ (h = k => w.minute <= v.minute)
    BY <1>7, ClockOrdered DEF w, h
  <2> HIDE DEF v, k
  <2>4. w.minute <= v.minute /\ v.minute < next
    BY <1>1, <2>1, <2>2, <2>3
  <2>5. ~Allows(cron.minute, v.minute)
    BY <1>2, <2>1, <2>4
  <2> QED BY <2>5 DEF FitsAt, Matches, v
<1>8. Passes(n, j)
  BY <1>4, <1>6, <1>7 DEF Passes
<1> QED BY <1>2, <1>4, <1>5, <1>8 DEF j, w, next

-----------------------------------------------------------------------------
(* The search goes on no longer than it must *)

\* A day and a month that go together are within the year.
LEMMA InYear ==
    ASSUME NEW month \in 1..Months, NEW dayOf \in 1..Days, month = Months => dayOf <= Short
    PROVE  /\ (month - 1) * Days \in Nat /\ (month - 1) * Days + (dayOf - 1) \in Nat
           /\ (month - 1) * Days + (dayOf - 1) < YearDays
<1>0. (month - 1) * Days \in Nat /\ dayOf - 1 \in Nat /\ dayOf - 1 < Days
  <2>1. month - 1 \in Nat /\ Days \in Nat
    BY Sizes
  <2> QED BY <2>1, Sizes
<1>1. CASE month = Months
  BY <1>0, <1>1, Sizes
<1>2. CASE month < Months
  <2>1. (month - 1) * Days + Days <= (Months - 1) * Days
    <3>1. month - 1 < Months - 1 /\ month - 1 \in Int /\ Months - 1 \in Int /\ Days \in Nat
      BY <1>2, Sizes
    <3> QED BY <3>1, Steps
  <2> QED BY <1>0, <2>1, Sizes
<1> QED BY <1>1, <1>2, Sizes

\* As many days in a row as a week has include each day of the week.
LEMMA EachOfWeek ==
    ASSUME NEW b \in Nat \ {0}, NEW k \in Int, NEW r \in 0..(b - 1)
    PROVE  \E i \in 1..b : (k + (i - 1)) % b = r
<1> DEFINE q == k \div b
           s == k % b
<1>1. q \in Int /\ s \in Nat /\ s < b /\ k = q * b + s /\ q * b \in Int
  BY Parts
<1> HIDE DEF q, s
<1>2. r \in Nat /\ r < b
  OBVIOUS
<1>3. CASE s <= r
  <2>1. (r - s) + 1 \in 1..b
    BY <1>1, <1>2, <1>3
  <2>2. k + (((r - s) + 1) - 1) = q * b + r
    BY <1>1, <1>2
  <2>3. (q * b + r) % b = r
    BY <1>1, <1>2, Composed
  <2> QED BY <2>1, <2>2, <2>3
<1>4. CASE r < s
  <2>1. ((r - s) + b) + 1 \in 1..b
    BY <1>1, <1>2, <1>4
  <2>2. (q + 1) * b = q * b + b
    BY <1>1
  <2>3. k + ((((r - s) + b) + 1) - 1) = (q + 1) * b + r
    BY <1>1, <1>2, <2>2
  <2>4. ((q + 1) * b + r) % b = r
    <3>1. q + 1 \in Int
      BY <1>1
    <3> QED BY <1>2, <3>1, Composed
  <2> QED BY <2>1, <2>3, <2>4
<1> QED BY <1>1, <1>2, <1>3, <1>4

\* What fits once fits again in every year.
LEMMA Recurs ==
    ASSUME cron \in Crons, NEW n \in Int, FitsAt(n), NEW s \in Int
    PROVE  \E x \in Int : /\ DayOf(s) < DayOf(x) /\ DayOf(x) <= DayOf(s) + 2 * YearDays
                          /\ FitsAt(x)
<1> DEFINE w == WallClock(n)
           year == WallClock(s).year + 1
           start == year * YearDays + (w.month - 1) * Days
<1>1. /\ w.month \in 1..Months /\ w.day \in 1..Days
      /\ w.month = Months => w.day <= Short
      /\ w.hour \in 0..(Hours - 1) /\ w.minute \in 0..(Minutes - 1)
      /\ w.dayOfWeek = DayOf(n) % Week /\ DayOf(n) \in Int
  BY ClockIs
<1>2. w.dayOfWeek \in 0..(Week - 1)
  <2>1. DayOf(n) % Week \in Nat /\ DayOf(n) % Week < Week
    BY <1>1, Sizes, Parts
  <2> QED BY <1>1, <2>1, Sizes
<1>3. year \in Int /\ start \in Int
  <2>1. year \in Int
    BY ClockIs
  <2>2. year * YearDays \in Int /\ (w.month - 1) * Days \in Int
    <3>1. w.month - 1 \in Int /\ YearDays \in Int /\ Days \in Int
      BY <1>1, Sizes
    <3> HIDE DEF w, year
    <3> QED BY <2>1, <3>1
  <2> HIDE DEF w, year
  <2> QED BY <2>1, <2>2
<1>4. /\ Allows(cron.month, w.month) /\ DayMatches(w)
      /\ Allows(cron.hour, w.hour) /\ Allows(cron.minute, w.minute)
  BY DEF FitsAt, Matches
<1>5. \E i \in 1..Days :
         /\ w.month = Months => i <= Short
         /\ \A u : u.day = i /\ u.dayOfWeek = (start + (i - 1)) % Week => DayMatches(u)
  <2>1. CASE w.dayOfWeek \in cron.dayOfWeek
    <3> HIDE DEF w, start
    <3>1. PICK i \in 1..Week : (start + (i - 1)) % Week = w.dayOfWeek
      BY <1>2, <1>3, EachOfWeek, Sizes
    <3>2. i \in 1..Days /\ i <= Short
      BY Sizes
    <3>3. CASE cron.dayOfMonth # {} 
      BY <2>1, <3>1, <3>2, <3>3 DEF DayMatches
    <3>4. CASE cron.dayOfMonth = {} 
      BY <2>1, <3>1, <3>2, <3>4 DEF DayMatches, Allows
    <3> QED BY <3>3, <3>4
  <2>2. CASE w.dayOfWeek \notin cron.dayOfWeek
    <3>1. \A u : u.day = w.day => DayMatches(u)
      <4> HIDE DEF w
      <4> QED BY <1>4, <2>2 DEF DayMatches, Allows
    <3>2. /\ w.month = Months => w.day <= Short
          /\ \A u : u.day = w.day /\ u.dayOfWeek = (start + (w.day - 1)) % Week => DayMatches(u)
      BY <1>1, <3>1
    <3> HIDE DEF w, start
    <3> QED BY <1>1, <3>2, Zenon
  <2> QED BY <2>1, <2>2
<1>6. PICK i \in 1..Days :
         /\ w.month = Months => i <= Short
         /\ \A u : u.day = i /\ u.dayOfWeek = (start + (i - 1)) % Week => DayMatches(u)
  BY <1>5
<1> DEFINE x == Naive(year, w.month, i, w.hour, w.minute)
           v == WallClock(x)
<1>7. /\ x \in Int /\ v.month = w.month /\ v.day = i /\ v.hour = w.hour /\ v.minute = w.minute
      /\ DayOf(x) = start + (i - 1) /\ v.dayOfWeek = (start + (i - 1)) % Week
  <2>1. w.month = Months => i <= Short
    BY <1>6
  <2>2. start = year * YearDays + (w.month - 1) * Days
    OBVIOUS
  <2> HIDE DEF w, year, start, x, v
  <2>3. /\ x \in Int /\ v.month = w.month /\ v.day = i /\ v.hour = w.hour /\ v.minute = w.minute
        /\ DayOf(x) = year * YearDays + (w.month - 1) * Days + (i - 1)
        /\ v.dayOfWeek = (year * YearDays + (w.month - 1) * Days + (i - 1)) % Week
    <3> DEFINE month == w.month
               hour == w.hour
               minute == w.minute
    <3>1. /\ year \in Int /\ month \in 1..Months
          /\ month = Months => i <= Short
          /\ hour \in 0..(Hours - 1) /\ minute \in 0..(Minutes - 1)
      BY <1>1, <1>3, <2>1
    <3> HIDE DEF month, hour, minute
    <3>2. LET y == Naive(year, month, i, hour, minute)
              z == WallClock(y)
          IN  /\ y \in Int /\ z.month = month /\ z.day = i /\ z.hour = hour /\ z.minute = minute
              /\ DayOf(y) = year * YearDays + (month - 1) * Days + (i - 1)
              /\ z.dayOfWeek = (year * YearDays + (month - 1) * Days + (i - 1)) % Week
      BY <3>1, ClockOf
    <3> QED BY <3>2 DEF x, v, month, hour, minute
  <2> QED BY <2>2, <2>3
<1>8. FitsAt(x)
  <2> HIDE DEF x, w, start
  <2>1. DayMatches(v)
    BY <1>6, <1>7
  <2> HIDE DEF v
  <2>2. Matches(v)
    BY <1>4, <1>7, <2>1 DEF Matches
  <2> QED BY <2>2 DEF FitsAt, v
<1>9. DayOf(s) < DayOf(x) /\ DayOf(x) <= DayOf(s) + 2 * YearDays
  <2> DEFINE t == WallClock(s)
             a == (t.month - 1) * Days + (t.day - 1)
             c == (w.month - 1) * Days + (i - 1)
             y == t.year * YearDays
  <2>1. /\ t.year \in Int /\ t.month \in 1..Months /\ t.day \in 1..Days
        /\ t.month = Months => t.day <= Short
        /\ DayOf(s) = y + a
    BY ClockIs
  <2>2. a \in Nat /\ a < YearDays
    <3> HIDE DEF t
    <3> QED BY <2>1, InYear
  <2>3. c \in Nat /\ c < YearDays /\ (w.month - 1) * Days \in Nat
    <3>1. w.month = Months => i <= Short
      BY <1>6
    <3> HIDE DEF w
    <3> QED BY <1>1, <3>1, InYear
  <2>4. year * YearDays = y + YearDays /\ y \in Int
    <3>1. year = t.year + 1
      OBVIOUS
    <3> HIDE DEF t, year
    <3> QED BY <2>1, <3>1, Sizes
  <2>5. start = year * YearDays + (w.month - 1) * Days
    OBVIOUS
  <2> HIDE DEF start, x, year, a, y
  <2>6. DayOf(x) = (y + YearDays) + c
    <3> DEFINE m == (w.month - 1) * Days
    <3>1. m \in Nat /\ start = (y + YearDays) + m /\ c = m + (i - 1)
      BY <2>3, <2>4, <2>5
    <3> HIDE DEF m, c, w
    <3> QED BY <1>7, <2>4, <3>1, Sizes
  <2> HIDE DEF c, t
  <2> QED BY <2>1, <2>2, <2>3, <2>4, <2>6, Sizes
<1> HIDE DEF x
<1> QED BY <1>7, <1>8, <1>9

\* So many days later at most.
LEMMA DaysLater ==
    ASSUME NEW n \in Int, NEW x \in Int, NEW m \in Nat, x < n + m * DayLength
    PROVE  DayOf(x) <= DayOf(n) + m
<1> DEFINE w == WallClock(n)
           d == DayOf(n)
           j == ((d + m) * Hours + w.hour) * Minutes + w.minute
<1>1. /\ d \in Int /\ w.hour \in 0..(Hours - 1) /\ w.minute \in 0..(Minutes - 1)
      /\ n = (d * Hours + w.hour) * Minutes + w.minute
  BY ClockIs
<1>2. d + m \in Int
  BY <1>1
<1> HIDE DEF w, d
<1>3. j \in Int /\ DayOf(j) = d + m
  BY <1>1, <1>2, DayTime
<1>4. j = n + m * DayLength
  <2> DEFINE a == d * Hours + w.hour
             k == m * Hours
  <2>1. d * Hours \in Int /\ k \in Int /\ w.hour \in Int /\ w.minute \in Int
        /\ Hours \in Nat /\ Minutes \in Nat
    BY <1>1, Sizes
  <2>2. (d + m) * Hours = d * Hours + k
    BY <1>1, <2>1
  <2>3. (d + m) * Hours + w.hour = a + k /\ a \in Int
    BY <2>1, <2>2
  <2>4. n = a * Minutes + w.minute
    BY <1>1
  <2>5. k * Minutes = m * DayLength
    <3> QED BY <2>1 DEF DayLength
  <2> HIDE DEF a, k
  <2>6. (a + k) * Minutes = a * Minutes + k * Minutes /\ a * Minutes \in Int /\ k * Minutes \in Int
    BY <2>1, <2>3
  <2>7. j = (a + k) * Minutes + w.minute
    BY <2>3
  <2> HIDE DEF j
  <2>8. j = (a * Minutes + k * Minutes) + w.minute
    BY <2>6, <2>7
  <2> QED BY <2>1, <2>4, <2>5, <2>6, <2>8
<1> HIDE DEF j
<1>5. x <= j
  <2> DEFINE e == m * DayLength
  <2> HIDE DEF e
  <2>1. j = n + e /\ x < n + e
    BY <1>4 DEF e
  <2> QED BY <1>3, <2>1
<1>6. DayOf(x) <= DayOf(j)
  BY <1>3, <1>5, ClockOrdered
<1> QED BY <1>3, <1>6 DEF d

-----------------------------------------------------------------------------
(* The invariant *)

\* The jumps made so far against the days passed: a jump within a day brings the search
\* closer to an occurrence, and there are three such at most.
Effort(n, from, jumps) ==
    LET w == WallClock(n)
        days == DayOf(n) - from
        minuteLeft == NextAllowed(cron.minute, w.minute) # NoTime
    IN  \/ jumps <= days
        \/ jumps <= days + 1 /\ minuteLeft
        \/ /\ jumps <= days + 2 /\ minuteLeft
           /\ Allows(cron.month, w.month) /\ DayMatches(w) /\ Allows(cron.hour, w.hour)
        \/ jumps <= days + 3 /\ FitsAt(n)

\* Where the search that goes on began.
Begin == IF last = NoTime THEN after + 1
         ELSE IF Edge(last, step) <= until THEN Edge(last, step) ELSE until + 1

CronTyped ==
    /\ cron \in Crons /\ zone \in Zones /\ goal \in Goals
    /\ after \in Int /\ until \in Int /\ after <= until
    /\ candidate \in Int /\ guard \in Nat /\ guard <= MaxGuard
    /\ found \in Int \cup {NoTime} /\ last \in Int \cup {NoTime}
    /\ step \in Nat \ {0} /\ done \in BOOLEAN

Scanned == Begin <= candidate /\ \A u \in Begin..(candidate - 1) : ~Occurs(u)
InTime == Effort(candidate + zone.since, DayOf(Begin + zone.since), guard)
FoundIt == found # NoTime => found = candidate /\ Occurs(found)
LastIt == last # NoTime => goal = "overdue" /\ last \in (after + 1)..until /\ Occurs(last)
AtEnd == done => /\ found # NoTime
                 /\ last # NoTime => \A u \in (last + 1)..until : ~Occurs(u)

CronInv == CronTyped /\ Scanned /\ InTime /\ FoundIt /\ LastIt /\ AtEnd

Steady == \A z \in Zones : z.before = z.since

LEMMA SteadyOffset ==
    ASSUME Steady, zone \in Zones, NEW u
    PROVE  /\ zone.since \in Int /\ Offset(u) = zone.since
           /\ Zoned(u) = WallClock(u + zone.since) /\ UtcFor(u) = u - zone.since
           /\ Occurs(u) <=> FitsAt(u + zone.since)
<1>1. zone \in [change : Int, before : Int, since : Int] /\ zone.before = zone.since
  BY CronAssumption DEF Steady
<1>2. Offset(u) = zone.since
  BY <1>1 DEF Offset
<1> QED BY <1>1, <1>2 DEF Zoned, UtcFor, Occurs, FitsAt

LEMMA BeginIs ==
    ASSUME CronTyped, LastIt
    PROVE  /\ Begin \in Int /\ after < Begin
           /\ last # NoTime => last < Begin
           /\ last # NoTime /\ step = 1 => Begin = last + 1
<1>1. NoTime \notin Int
  BY CronAssumption
<1>2. CASE last = NoTime
  BY <1>2 DEF CronTyped, Begin
<1>3. CASE last # NoTime
  BY <1>1, <1>3 DEF CronTyped, Begin, LastIt, Edge
<1> QED BY <1>2, <1>3

LEMMA SameOccurrences ==
    ASSUME UNCHANGED <<cron, zone>>, NEW u
    PROVE  /\ Occurs(u)' <=> Occurs(u)
           /\ FitsAt(u)' <=> FitsAt(u)
BY DEF Occurs, FitsAt, Matches, Zoned, Offset, DayMatches

LEMMA SameEffort ==
    ASSUME UNCHANGED <<cron, zone>>, NEW n, NEW from, NEW jumps
    PROVE  Effort(n, from, jumps)' <=> Effort(n, from, jumps)
BY DEF Effort, FitsAt, Matches, DayMatches

\* A jump that passes no occurrence, and is worth its count.
LEMMA JumpKeeps ==
    ASSUME Steady, CronInv, Searching, NEW j \in Int, Jump(j),
           Passes(candidate + zone.since, j),
           Effort(j, DayOf(Begin + zone.since), guard + 1)
    PROVE  CronInv'
<1> DEFINE c == zone.since
<1>1. c \in Int /\ UtcFor(j) = j - c
  BY SteadyOffset DEF CronInv, CronTyped
<1>2. /\ candidate' = j - c /\ guard' = guard + 1
      /\ UNCHANGED <<cron, zone, goal, after, until, found, last, step, done>>
  BY <1>1 DEF Jump
<1>3. CronTyped'
  <2>1. MaxGuard \in Nat /\ guard < MaxGuard /\ guard \in Nat
    BY CronAssumption DEF CronInv, CronTyped, Searching
  <2>2. guard' \in Nat /\ guard' <= MaxGuard /\ candidate' \in Int
    BY <1>1, <1>2, <2>1
  <2> QED BY <1>2, <2>2 DEF CronInv, CronTyped
<1>4. Begin' = Begin /\ Begin \in Int
  BY <1>2, BeginIs DEF Begin, CronInv, Edge
<1>5. candidate \in Int /\ candidate + c < j
  BY DEF CronInv, CronTyped, Passes
<1>6. Scanned'
  <2>1. candidate' \in Int /\ candidate < candidate' /\ Begin <= candidate
    BY <1>1, <1>2, <1>5 DEF CronInv, Scanned
  <2>2. ASSUME NEW u \in Begin..(candidate' - 1)
        PROVE  ~Occurs(u)'
    <3>1. CASE u < candidate
      <4>1. u \in Begin..(candidate - 1)
        BY <1>4, <1>5, <2>1, <3>1
      <4> QED BY <1>2, <4>1, SameOccurrences DEF CronInv, Scanned
    <3>2. CASE u >= candidate
      <4>0. u \in Int
        BY <1>4, <2>1
      <4>1. u + c \in Int /\ candidate + c <= u + c /\ u + c < j
        BY <1>1, <1>2, <1>4, <1>5, <2>1, <2>2, <3>2, <4>0
      <4>2. ~FitsAt(u + c)
        <5> DEFINE x == u + c
        <5> HIDE DEF x
        <5>1. ~FitsAt(x)
          BY <4>1 DEF Passes, x
        <5> QED BY <5>1 DEF x
      <4>3. ~Occurs(u)
        BY <4>2, SteadyOffset DEF CronInv, CronTyped
      <4> QED BY <1>2, <4>3, SameOccurrences
    <3> QED BY <1>4, <1>5, <2>1, <3>1, <3>2
  <2>3. Begin' <= candidate'
    BY <1>4, <1>5, <2>1
  <2>4. \A u \in Begin'..(candidate' - 1) : ~Occurs(u)'
    BY <1>4, <2>2
  <2> QED BY <2>3, <2>4 DEF Scanned
<1>7. InTime'
  <2>1. candidate' + c = j
    BY <1>1, <1>2
  <2>2. (candidate + zone.since)' = j /\ (DayOf(Begin + zone.since))' = DayOf(Begin + zone.since)
    BY <1>2, <1>4, <2>1 DEF DayOf
  <2> QED BY <1>2, <2>2, SameEffort DEF InTime
<1>8. FoundIt' /\ AtEnd'
  BY <1>2 DEF FoundIt, AtEnd, Searching
<1>9. LastIt'
  BY <1>2, SameOccurrences DEF CronInv, LastIt
<1> QED BY <1>3, <1>6, <1>7, <1>8, <1>9 DEF CronInv

LEMMA NoneBetween ==
    ASSUME NEW i \in Int
    PROVE  i..(i - 1) = {}
OBVIOUS

\* A new probe starts with nothing scanned.
LEMMA ProbeKeeps ==
    ASSUME Steady, CronInv, ~done, goal = "overdue",
           NEW t \in (after + 1)..until, Occurs(t), NEW length \in Nat \ {0},
           ProbeFrom(t, length)
    PROVE  CronInv'
<1>0. NoTime \notin Int /\ MaxGuard \in Nat
  BY CronAssumption
<1>1. /\ last' = t /\ step' = length /\ guard' = 0 /\ found' = NoTime
      /\ candidate' = IF Edge(t, length) <= until THEN Edge(t, length) ELSE until + 1
      /\ UNCHANGED <<cron, zone, goal, after, until, done>>
  BY DEF ProbeFrom
<1>2. t \in Int /\ t # NoTime
  BY <1>0 DEF CronInv, CronTyped
<1>3. Begin' = candidate' /\ candidate' \in Int
  BY <1>1, <1>2 DEF Begin, Edge, CronInv, CronTyped
<1>4. CronTyped'
  BY <1>0, <1>1, <1>2, <1>3 DEF CronInv, CronTyped
<1>5. Scanned'
  <2>1. Begin' <= candidate'
    BY <1>3
  <2>2. Begin'..(candidate' - 1) = {}
    <3>1. candidate' \in Int
      BY <1>3
    <3>2. candidate'..(candidate' - 1) = {}
      BY <3>1, NoneBetween
    <3> QED BY <1>3, <3>2
  <2> QED BY <2>1, <2>2 DEF Scanned
<1>6. InTime'
  <2>1. zone.since \in Int
    BY SteadyOffset DEF CronInv, CronTyped
  <2>2. candidate' + zone'.since \in Int
    BY <1>1, <1>3, <2>1
  <2>3. DayOf(candidate' + zone'.since) \in Int
    BY <2>2, ClockIs
  <2>4. guard' <= DayOf(candidate' + zone'.since) - DayOf(Begin' + zone'.since)
    BY <1>1, <1>3, <2>3
  <2> QED BY <2>4 DEF InTime, Effort, DayOf
<1>7. LastIt'
  BY <1>1, SameOccurrences DEF LastIt
<1>8. FoundIt' /\ AtEnd'
  BY <1>1 DEF FoundIt, AtEnd
<1> QED BY <1>4, <1>5, <1>6, <1>7, <1>8 DEF CronInv

\* A search that is given up has looked at more than two years.
LEMMA GivenUp ==
    ASSUME Steady, CronInv, guard = MaxGuard, found = NoTime
    PROVE  /\ \A u \in Int : /\ Begin <= u
                             /\ DayOf(u + zone.since) <= DayOf(Begin + zone.since) + 2 * YearDays
                             => ~Occurs(u)
           /\ last = NoTime
<1> DEFINE c == zone.since
           n == candidate + c
           b == Begin + c
<1>1. c \in Int /\ candidate \in Int /\ Begin \in Int /\ Begin <= candidate
  BY SteadyOffset, BeginIs DEF CronInv, CronTyped, Scanned
<1>2. n \in Int /\ b \in Int /\ DayOf(n) \in Int /\ DayOf(b) \in Int
  <2>1. n \in Int /\ b \in Int
    BY <1>1
  <2> QED BY <2>1, ClockIs
<1>3. DayOf(b) + 2 * YearDays + 2 <= DayOf(n)
  <2>1. MaxGuard \in Nat /\ MaxGuard >= 2 * YearDays + 5 /\ YearDays \in Nat
    BY CronAssumption, Sizes
  <2>2. MaxGuard <= (DayOf(n) - DayOf(b)) + 3
    <3> DEFINE k == DayOf(n) - DayOf(b)
    <3>1. Effort(n, DayOf(b), MaxGuard)
      BY DEF CronInv, InTime
    <3>2. k \in Int /\ MaxGuard \in Int
      BY <1>2, <2>1
    <3> HIDE DEF n, b
    <3>3. MaxGuard <= k \/ MaxGuard <= k + 1 \/ MaxGuard <= k + 2 \/ MaxGuard <= k + 3
      BY <3>1 DEF Effort
    <3> HIDE DEF k
    <3>4. MaxGuard <= k + 3
      BY <3>2, <3>3
    <3> QED BY <3>4 DEF k
  <2> HIDE DEF n, b
  <2> QED BY <1>2, <2>1, <2>2
<1>4. ASSUME NEW u \in Int, Begin <= u, DayOf(u + c) <= DayOf(b) + 2 * YearDays
      PROVE  ~Occurs(u)
  <2>1. u < candidate
    <3> SUFFICES ASSUME candidate <= u PROVE FALSE
      BY <1>1
    <3> DEFINE x == u + c
    <3>1. x \in Int /\ n <= x
      BY <1>1
    <3> HIDE DEF n, x, b
    <3>2. DayOf(n) <= DayOf(x) /\ DayOf(x) \in Int
      BY <1>2, <3>1, ClockOrdered, ClockIs
    <3>3. DayOf(x) <= DayOf(b) + 2 * YearDays
      BY <1>4 DEF x
    <3> QED BY <1>2, <1>3, <3>2, <3>3, Sizes
  <2>2. u \in Begin..(candidate - 1)
    BY <1>1, <1>4, <2>1
  <2> QED BY <2>2 DEF CronInv, Scanned
<1>5. last = NoTime
  <2> SUFFICES ASSUME last # NoTime PROVE FALSE
    OBVIOUS
  <2> DEFINE l == last + c
  <2>1. last \in Int /\ Occurs(last)
    BY DEF CronInv, CronTyped, LastIt
  <2>2. l \in Int /\ FitsAt(l)
    BY <1>1, <2>1, SteadyOffset DEF CronInv, CronTyped
  <2> HIDE DEF l
  <2>3. cron \in Crons
    BY DEF CronInv, CronTyped
  <2> HIDE DEF b
  <2>4. PICK x \in Int : /\ DayOf(b) < DayOf(x) /\ DayOf(x) <= DayOf(b) + 2 * YearDays
                         /\ FitsAt(x)
    BY <1>2, <2>2, <2>3, Recurs
  <2> DEFINE u == x - c
  <2>5. u \in Int /\ u + c = x
    BY <1>1
  <2>6. b < x
    <3>1. x <= b => DayOf(x) <= DayOf(b)
      BY <1>2, ClockOrdered
    <3>2. DayOf(x) \in Int
      BY ClockIs
    <3> QED BY <1>2, <2>4, <3>1, <3>2
  <2>7. Begin <= u
    BY <1>1, <2>5, <2>6 DEF b
  <2> HIDE DEF u
  <2>8. Occurs(u)
    BY <2>4, <2>5, SteadyOffset DEF CronInv, CronTyped
  <2> QED BY <1>4, <2>4, <2>5, <2>7, <2>8
<1> QED BY <1>4, <1>5

-----------------------------------------------------------------------------
(* The steps *)

\* A field fits when the next allowed value is its own.
LEMMA FieldsFit ==
    ASSUME cron \in Crons, NEW n \in Int
    PROVE  LET w == WallClock(n)
           IN  /\ Allows(cron.month, w.month) <=> NextAllowed(cron.month, w.month) = w.month
               /\ Allows(cron.hour, w.hour) <=> NextAllowed(cron.hour, w.hour) = w.hour
               /\ Allows(cron.minute, w.minute) <=> NextAllowed(cron.minute, w.minute) = w.minute
               /\ w.month # NoTime /\ w.hour # NoTime /\ w.minute # NoTime
               /\ NextAllowed(cron.minute, 0) # NoTime
<1> DEFINE w == WallClock(n)
<1>1. w.month \in 1..Months /\ w.hour \in 0..(Hours - 1) /\ w.minute \in 0..(Minutes - 1)
  BY ClockIs
<1>2. /\ cron.month \in SUBSET (1..Months) /\ cron.hour \in SUBSET (0..(Hours - 1))
      /\ cron.minute \in SUBSET (0..(Minutes - 1))
  BY CronFields
<1>3. Minutes \in Nat \ {0} /\ Hours \in Nat \ {0} /\ Months \in Nat /\ 1 \in Nat
  BY Sizes
<1>4. NoTime \notin Int
  BY CronAssumption
<1> HIDE DEF w
<1>5. Allows(cron.month, w.month) <=> NextAllowed(cron.month, w.month) = w.month
  BY <1>1, <1>2, <1>3, NextIs
<1>6. Allows(cron.hour, w.hour) <=> NextAllowed(cron.hour, w.hour) = w.hour
  BY <1>1, <1>2, <1>3, NextOf
<1>7. /\ Allows(cron.minute, w.minute) <=> NextAllowed(cron.minute, w.minute) = w.minute
      /\ NextAllowed(cron.minute, 0) # NoTime
  BY <1>1, <1>2, <1>3, NextOf
<1>8. w.month \in Int /\ w.hour \in Int /\ w.minute \in Int
  BY <1>1
<1> QED BY <1>4, <1>5, <1>6, <1>7, <1>8 DEF w

LEMMA EffortOverDays ==
    ASSUME cron \in Crons, NEW n \in Int, NEW d \in Int, NEW g \in Nat, Effort(n, d, g),
           NEW j \in Int, DayOf(n) < DayOf(j), WallClock(j).minute = 0,
           ~(/\ Allows(cron.month, WallClock(n).month) /\ DayMatches(WallClock(n))
             /\ Allows(cron.hour, WallClock(n).hour))
    PROVE  Effort(j, d, g + 1)
<1>1. DayOf(n) \in Int /\ DayOf(j) \in Int
  BY ClockIs
<1>2. NextAllowed(cron.minute, WallClock(j).minute) # NoTime
  BY FieldsFit
<1>3. ~FitsAt(n)
  BY DEF FitsAt, Matches
<1>4. g <= DayOf(n) - d \/ g <= DayOf(n) - d + 1
  BY <1>3 DEF Effort
<1>5. g + 1 <= DayOf(j) - d + 1
  BY <1>1, <1>4
<1> QED BY <1>2, <1>5 DEF Effort

LEMMA EffortToHour ==
    ASSUME cron \in Crons, NEW n \in Int, NEW d \in Int, NEW g \in Nat, Effort(n, d, g),
           NEW j \in Int, DayOf(j) = DayOf(n), WallClock(j).minute = 0,
           Allows(cron.month, WallClock(n).month), DayMatches(WallClock(n)),
           ~Allows(cron.hour, WallClock(n).hour), Allows(cron.hour, WallClock(j).hour)
    PROVE  Effort(j, d, g + 1)
<1>1. DayOf(n) \in Int /\ DayOf(j) \in Int
  BY ClockIs
<1>2. NextAllowed(cron.minute, WallClock(j).minute) # NoTime
  BY FieldsFit
<1>3. ~FitsAt(n)
  BY DEF FitsAt, Matches
<1>4. g <= DayOf(n) - d \/ g <= DayOf(n) - d + 1
  BY <1>3 DEF Effort
<1>5. g + 1 <= DayOf(j) - d + 2
  BY <1>1, <1>4
<1>6. Allows(cron.month, WallClock(j).month) /\ DayMatches(WallClock(j))
  BY SameDay
<1> QED BY <1>2, <1>5, <1>6 DEF Effort

LEMMA EffortToNextHour ==
    ASSUME cron \in Crons, NEW n \in Int, NEW d \in Int, NEW g \in Nat, Effort(n, d, g),
           NEW j \in Int, DayOf(n) <= DayOf(j),
           NextAllowed(cron.minute, WallClock(n).minute) = NoTime,
           Allows(cron.minute, WallClock(j).minute)
    PROVE  Effort(j, d, g + 1)
<1>1. DayOf(n) \in Int /\ DayOf(j) \in Int
  BY ClockIs
<1>2. NextAllowed(cron.minute, WallClock(j).minute) # NoTime
  BY FieldsFit
<1>3. ~FitsAt(n)
  BY FieldsFit DEF FitsAt, Matches
<1>4. g <= DayOf(n) - d
  BY <1>3 DEF Effort
<1>5. g + 1 <= DayOf(j) - d + 1
  BY <1>1, <1>4
<1> QED BY <1>2, <1>5 DEF Effort

LEMMA EffortToMinute ==
    ASSUME cron \in Crons, NEW n \in Int, NEW d \in Int, NEW g \in Nat, Effort(n, d, g),
           NEW j \in Int, DayOf(j) = DayOf(n), WallClock(j).hour = WallClock(n).hour,
           Allows(cron.month, WallClock(n).month), DayMatches(WallClock(n)),
           Allows(cron.hour, WallClock(n).hour),
           NextAllowed(cron.minute, WallClock(n).minute) # WallClock(n).minute,
           Allows(cron.minute, WallClock(j).minute)
    PROVE  Effort(j, d, g + 1)
<1>1. DayOf(n) \in Int /\ DayOf(j) \in Int
  BY ClockIs
<1>2. FitsAt(j)
  BY SameDay DEF FitsAt, Matches
<1>3. ~FitsAt(n)
  BY FieldsFit DEF FitsAt, Matches
<1>4. g <= DayOf(n) - d \/ g <= DayOf(n) - d + 1 \/ g <= DayOf(n) - d + 2
  BY <1>3 DEF Effort
<1>5. g + 1 <= DayOf(j) - d + 3
  BY <1>1, <1>4
<1> QED BY <1>2, <1>5 DEF Effort

LEMMA CronStart ==
    ASSUME Steady, CronInit
    PROVE  CronInv
<1>0. Starts \subseteq Int /\ MaxGap \in Nat /\ MaxGuard \in Nat /\ NoTime \notin Int
  BY CronAssumption
<1>1. /\ cron \in Crons /\ zone \in Zones /\ after \in Int /\ goal \in Goals
      /\ until \in IF goal = "next" THEN {after} ELSE after..(after + MaxGap)
      /\ candidate = after + 1 /\ guard = 0 /\ found = NoTime
      /\ last = NoTime /\ step = 1 /\ done = FALSE
  BY <1>0 DEF CronInit
<1>2. CronTyped
  <2>1. until \in Int /\ after <= until
    BY <1>0, <1>1
  <2>2. /\ candidate \in Int /\ guard \in Nat /\ guard <= MaxGuard
        /\ step \in Nat \ {0} /\ done \in BOOLEAN
    <3>1. MaxGuard \in Nat /\ after \in Int
      BY <1>0, <1>1
    <3>2. candidate = after + 1 /\ guard = 0 /\ step = 1 /\ done = FALSE
      BY <1>1
    <3>3. done \in BOOLEAN
      BY <3>2, Zenon
    <3> QED BY <3>1, <3>2, <3>3
  <2>3. found \in Int \cup {NoTime} /\ last \in Int \cup {NoTime}
    BY <1>1
  <2> QED BY <1>1, <2>1, <2>2, <2>3 DEF CronTyped
<1>3. Begin = candidate /\ candidate \in Int
  BY <1>1 DEF Begin
<1>4. Scanned
  <2>1. Begin..(candidate - 1) = {}
    BY <1>3, NoneBetween
  <2> QED BY <1>3, <2>1 DEF Scanned
<1>5. InTime
  <2>1. zone.since \in Int
    BY <1>1, SteadyOffset
  <2>2. candidate + zone.since \in Int
    BY <1>3, <2>1
  <2>3. DayOf(candidate + zone.since) \in Int
    BY <2>2, ClockIs
  <2>4. guard <= DayOf(candidate + zone.since) - DayOf(Begin + zone.since)
    BY <1>1, <1>3, <2>3
  <2> QED BY <2>4 DEF InTime, Effort
<1> QED BY <1>1, <1>2, <1>4, <1>5 DEF CronInv, FoundIt, LastIt, AtEnd

LEMMA CronStep ==
    ASSUME Steady, CronInv, [CronNext]_cronVars
    PROVE  CronInv'
<1> DEFINE n == candidate + zone.since
           d == DayOf(Begin + zone.since)
<1>1. /\ cron \in Crons /\ zone \in Zones /\ n \in Int /\ d \in Int /\ guard \in Nat
      /\ Effort(n, d, guard) /\ Here = WallClock(n)
  <2>1. cron \in Crons /\ zone \in Zones /\ candidate \in Int /\ guard \in Nat
    BY DEF CronInv, CronTyped
  <2>2. zone.since \in Int /\ Begin \in Int /\ Here = WallClock(n)
    BY <2>1, SteadyOffset, BeginIs DEF CronInv, Here
  <2>3. Begin + zone.since \in Int /\ n \in Int
    BY <2>1, <2>2
  <2>4. d \in Int
    BY <2>3, ClockIs
  <2>5. Effort(n, d, guard)
    BY DEF CronInv, InTime
  <2> QED BY <2>1, <2>2, <2>3, <2>4, <2>5
<1> DEFINE w == WallClock(n)
<1>2. /\ Allows(cron.month, w.month) <=> MonthFits
      /\ Allows(cron.hour, w.hour) <=> HourFits
      /\ NextMonth = NextAllowed(cron.month, w.month) /\ NextHour = NextAllowed(cron.hour, w.hour)
      /\ NextMinute = NextAllowed(cron.minute, w.minute)
      /\ w.month # NoTime /\ w.hour # NoTime
  BY <1>1, FieldsFit DEF MonthFits, HourFits, NextMonth, NextHour, NextMinute
<1> HIDE DEF n, d
<1>3. ASSUME NEW j \in Int, Searching, Jump(j), Passes(n, j), Effort(j, d, guard + 1)
      PROVE  CronInv'
  BY <1>3, JumpKeeps DEF n, d
<1>4. CASE ToNextYear
  <2> DEFINE j == Naive(w.year + 1, First(cron.month, 1), 1, 0, 0)
  <2>1. Searching /\ NextMonth = NoTime /\ Jump(j)
    BY <1>1, <1>4 DEF ToNextYear
  <2>2. Passes(n, j) /\ DayOf(n) < DayOf(j) /\ WallClock(j).minute = 0
    BY <1>1, <1>2, <2>1, PastYear
  <2> HIDE DEF j
  <2>3. j \in Int
    BY <2>2 DEF Passes
  <2>4. ~Allows(cron.month, w.month)
    BY <1>1, <1>2, <2>1 DEF MonthFits
  <2>5. Effort(j, d, guard + 1)
    BY <1>1, <2>2, <2>3, <2>4, EffortOverDays
  <2> QED BY <1>3, <2>1, <2>2, <2>3, <2>5
<1>5. CASE ToMonth
  <2> DEFINE j == Naive(w.year, NextAllowed(cron.month, w.month), 1, 0, 0)
  <2>1. Searching /\ NextMonth \notin {NoTime, w.month} /\ Jump(j)
    BY <1>1, <1>2, <1>5 DEF ToMonth
  <2>2. Passes(n, j) /\ DayOf(n) < DayOf(j) /\ WallClock(j).minute = 0
    BY <1>1, <1>2, <2>1, PastMonth
  <2> HIDE DEF j
  <2>3. j \in Int
    BY <2>2 DEF Passes
  <2>4. ~Allows(cron.month, w.month)
    BY <1>1, <1>2, <2>1 DEF MonthFits
  <2>5. Effort(j, d, guard + 1)
    BY <1>1, <2>2, <2>3, <2>4, EffortOverDays
  <2> QED BY <1>3, <2>1, <2>2, <2>3, <2>5
<1>6. CASE ToNextDay
  <2> DEFINE j == Naive(w.year, w.month, w.day + 1, 0, 0)
  <2>1. Searching /\ ~DayMatches(w) /\ Jump(j)
    BY <1>1, <1>6 DEF ToNextDay
  <2>2. Passes(n, j) /\ DayOf(n) < DayOf(j) /\ WallClock(j).minute = 0
    BY <1>1, <2>1, PastDay
  <2> HIDE DEF j
  <2>3. j \in Int
    BY <2>2 DEF Passes
  <2>4. Effort(j, d, guard + 1)
    BY <1>1, <2>1, <2>2, <2>3, EffortOverDays
  <2> QED BY <1>3, <2>1, <2>2, <2>3, <2>4
<1>7. CASE ToNextDaysHour
  <2> DEFINE j == Naive(w.year, w.month, w.day + 1, First(cron.hour, 0), 0)
  <2>1. Searching /\ NextHour = NoTime /\ Jump(j)
    BY <1>1, <1>7 DEF ToNextDaysHour
  <2>2. Passes(n, j) /\ DayOf(n) < DayOf(j) /\ WallClock(j).minute = 0
    BY <1>1, <1>2, <2>1, PastDaysHours
  <2> HIDE DEF j
  <2>3. j \in Int
    BY <2>2 DEF Passes
  <2>4. ~Allows(cron.hour, w.hour)
    BY <1>1, <1>2, <2>1 DEF HourFits
  <2>5. Effort(j, d, guard + 1)
    BY <1>1, <2>2, <2>3, <2>4, EffortOverDays
  <2> QED BY <1>3, <2>1, <2>2, <2>3, <2>5
<1>8. CASE ToHour
  <2> DEFINE j == Naive(w.year, w.month, w.day, NextAllowed(cron.hour, w.hour), 0)
  <2>1. /\ Searching /\ MonthFits /\ DayMatches(w) /\ NextHour \notin {NoTime, w.hour}
        /\ Jump(j)
    BY <1>1, <1>2, <1>8 DEF ToHour
  <2>2. /\ Passes(n, j) /\ DayOf(j) = DayOf(n)
        /\ Allows(cron.hour, WallClock(j).hour) /\ WallClock(j).minute = 0
    BY <1>1, <1>2, <2>1, PastHours
  <2> HIDE DEF j
  <2>3. j \in Int
    BY <2>2 DEF Passes
  <2>4. Allows(cron.month, w.month) /\ ~Allows(cron.hour, w.hour)
    BY <1>1, <1>2, <2>1 DEF HourFits
  <2>5. Effort(j, d, guard + 1)
    BY <1>1, <2>1, <2>2, <2>3, <2>4, EffortToHour
  <2> QED BY <1>3, <2>1, <2>2, <2>3, <2>5
<1>9. CASE ToNextHoursMinute
  <2> DEFINE j == Naive(w.year, w.month, w.day, w.hour + 1, First(cron.minute, 0))
  <2>1. Searching /\ NextMinute = NoTime /\ Jump(j)
    BY <1>1, <1>9 DEF ToNextHoursMinute
  <2>2. Passes(n, j) /\ DayOf(n) <= DayOf(j) /\ Allows(cron.minute, WallClock(j).minute)
    BY <1>1, <1>2, <2>1, PastHoursMinutes
  <2> HIDE DEF j
  <2>3. j \in Int
    BY <2>2 DEF Passes
  <2>4. Effort(j, d, guard + 1)
    BY <1>1, <1>2, <2>1, <2>2, <2>3, EffortToNextHour
  <2> QED BY <1>3, <2>1, <2>2, <2>3, <2>4
<1>10. CASE ToMinute
  <2> DEFINE j == Naive(w.year, w.month, w.day, w.hour, NextAllowed(cron.minute, w.minute))
  <2>1. /\ Searching /\ MonthFits /\ DayMatches(w) /\ HourFits
        /\ NextMinute \notin {NoTime, w.minute} /\ Jump(j)
    BY <1>1, <1>2, <1>10 DEF ToMinute
  <2>2. /\ Passes(n, j) /\ DayOf(j) = DayOf(n) /\ WallClock(j).hour = w.hour
        /\ Allows(cron.minute, WallClock(j).minute)
    BY <1>1, <1>2, <2>1, PastMinutes
  <2> HIDE DEF j
  <2>3. j \in Int
    BY <2>2 DEF Passes
  <2>4. Effort(j, d, guard + 1)
    BY <1>1, <1>2, <2>1, <2>2, <2>3, EffortToMinute
  <2> QED BY <1>3, <2>1, <2>2, <2>3, <2>4
<1>11. CASE Find
  <2>1. /\ Searching /\ Matches(Here) /\ found' = candidate
        /\ UNCHANGED <<cron, zone, goal, after, until, candidate, guard, last, step, done>>
    BY <1>11 DEF Find
  <2>2. CronTyped'
    BY <2>1 DEF CronInv, CronTyped
  <2>3. Begin' = Begin /\ Scanned' /\ LastIt'
    BY <2>1, SameOccurrences DEF CronInv, Begin, Edge, Scanned, LastIt
  <2>4. InTime'
    <3>1. (candidate + zone.since)' = n /\ (DayOf(Begin + zone.since))' = d
      BY <2>1, <2>3 DEF DayOf, n, d
    <3> QED BY <1>1, <2>1, <3>1, SameEffort DEF InTime
  <2>5. FoundIt'
    <3>1. Occurs(candidate)
      BY <2>1 DEF Occurs, Here
    <3> QED BY <2>1, <3>1, SameOccurrences DEF FoundIt
  <2>6. AtEnd'
    BY <2>1 DEF AtEnd, Searching
  <2> QED BY <2>2, <2>3, <2>4, <2>5, <2>6 DEF CronInv
<1>12. ASSUME Finish, found # NoTime,
              last # NoTime => \A u \in (last + 1)..until : ~Occurs(u)
       PROVE  CronInv'
  <2>1. /\ done' = TRUE
        /\ UNCHANGED <<cron, zone, goal, after, until, candidate, guard, found, last, step>>
    BY <1>12 DEF Finish
  <2>2. CronTyped'
    BY <2>1 DEF CronInv, CronTyped
  <2>3. Begin' = Begin /\ Scanned' /\ LastIt' /\ FoundIt'
    BY <2>1, SameOccurrences DEF CronInv, Begin, Edge, Scanned, LastIt, FoundIt
  <2>4. InTime'
    <3>1. (candidate + zone.since)' = n /\ (DayOf(Begin + zone.since))' = d
      BY <2>1, <2>3 DEF DayOf, n, d
    <3> QED BY <1>1, <2>1, <3>1, SameEffort DEF InTime
  <2>5. AtEnd'
    BY <1>12, <2>1, SameOccurrences DEF AtEnd
  <2> QED BY <2>2, <2>3, <2>4, <2>5 DEF CronInv
<1>13. CASE FirstMissed
  <2>1. /\ found # NoTime /\ ~done /\ goal = "overdue" /\ last = NoTime
        /\ IF found <= until THEN ProbeFrom(found, 1) ELSE Finish
    BY <1>13 DEF FirstMissed
  <2>2. CASE found <= until
    <3>1. found \in (after + 1)..until /\ Occurs(found)
      BY <2>1, <2>2, BeginIs DEF CronInv, CronTyped, FoundIt, Scanned
    <3>2. 1 \in Nat \ {0}
      OBVIOUS
    <3> QED BY <2>1, <2>2, <3>1, <3>2, ProbeKeeps
  <2>3. CASE ~(found <= until)
    BY <1>12, <2>1, <2>3
  <2> QED BY <2>2, <2>3
<1>14. CASE Ahead
  <2>1. /\ found # NoTime /\ ~done /\ last # NoTime /\ found <= until
        /\ ProbeFrom(found, 2 * step)
    BY <1>14 DEF Ahead
  <2>2. found \in (after + 1)..until /\ Occurs(found) /\ goal = "overdue"
    BY <2>1, BeginIs DEF CronInv, CronTyped, FoundIt, Scanned, LastIt
  <2>3. 2 * step \in Nat \ {0}
    BY DEF CronInv, CronTyped
  <2> QED BY <2>1, <2>2, <2>3, ProbeKeeps
<1>15. CASE Back
  <2>1. /\ ~done /\ last # NoTime
        /\ IF found = NoTime THEN guard = MaxGuard ELSE found > until
        /\ IF step = 1 THEN Finish ELSE ProbeFrom(last, step \div 2)
    BY <1>15 DEF Back
  <2>2. found # NoTime /\ found > until
    BY <2>1, GivenUp
  <2>3. last \in (after + 1)..until /\ Occurs(last) /\ goal = "overdue"
    BY <2>1 DEF CronInv, LastIt
  <2>4. CASE step = 1
    <3>1. \A u \in (last + 1)..until : ~Occurs(u)
      <4>1. Begin = last + 1 /\ found = candidate
        BY <2>1, <2>2, <2>4, BeginIs DEF CronInv, FoundIt
      <4>2. until \in Int /\ candidate \in Int /\ until <= candidate - 1
        BY <2>2, <4>1 DEF CronInv, CronTyped
      <4>3. last \in Int
        BY <2>3 DEF CronInv, CronTyped
      <4>4. \A u \in (last + 1)..until : u \in Begin..(candidate - 1)
        BY <4>1, <4>2, <4>3
      <4> QED BY <4>4 DEF CronInv, Scanned
    <3> QED BY <1>12, <2>1, <2>2, <2>4, <3>1
  <2>5. CASE step # 1
    <3>1. step \div 2 \in Nat \ {0}
      BY <2>5 DEF CronInv, CronTyped
    <3> QED BY <2>1, <2>3, <2>5, <3>1, ProbeKeeps
  <2> QED BY <2>4, <2>5
<1>16. CASE NextFound
  <2>1. found # NoTime /\ ~done /\ goal = "next" /\ Finish
    BY <1>16 DEF NextFound
  <2>2. last = NoTime
    BY <2>1 DEF CronInv, LastIt
  <2> QED BY <1>12, <2>1, <2>2
<1>17. CASE UNCHANGED cronVars
  <2>1. UNCHANGED <<cron, zone, goal, after, until, candidate, guard, found, last, step, done>>
    BY <1>17 DEF cronVars
  <2>2. CronTyped'
    BY <2>1 DEF CronInv, CronTyped
  <2>3. Begin' = Begin /\ Scanned' /\ LastIt' /\ FoundIt' /\ AtEnd'
    BY <2>1, SameOccurrences DEF CronInv, Begin, Edge, Scanned, LastIt, FoundIt, AtEnd
  <2>4. InTime'
    <3>1. (candidate + zone.since)' = n /\ (DayOf(Begin + zone.since))' = d
      BY <2>1, <2>3 DEF DayOf, n, d
    <3> QED BY <1>1, <2>1, <3>1, SameEffort DEF InTime
  <2> QED BY <2>2, <2>3, <2>4 DEF CronInv
<1> QED
  BY <1>4, <1>5, <1>6, <1>7, <1>8, <1>9, <1>10, <1>11, <1>13, <1>14, <1>15, <1>16, <1>17
     DEF CronNext

LEMMA CronInvExact ==
    ASSUME Steady, CronInv
    PROVE  SearchIsExact
<1>0. NoTime \notin Int
  BY CronAssumption
<1>1. ASSUME guard = MaxGuard, found = NoTime,
             NEW u \in (after + 1)..(after + 2 * YearDays * DayLength)
      PROVE  ~Occurs(u)
  <2> DEFINE c == zone.since
             m == 2 * YearDays
             l == m * DayLength
             b == Begin + c
             x == u + c
  <2>1. last = NoTime
    BY <1>1, GivenUp
  <2>2. Begin = after + 1 /\ after \in Int /\ c \in Int
    BY <2>1, SteadyOffset DEF Begin, CronInv, CronTyped
  <2>3. m \in Nat /\ l \in Int
    <3>1. m \in Nat
      BY Sizes
    <3>2. DayLength \in Nat
      BY Sizes DEF DayLength
    <3> HIDE DEF m
    <3> QED BY <3>1, <3>2
  <2>4. u \in (after + 1)..(after + l)
    OBVIOUS
  <2> HIDE DEF l
  <2>5. b \in Int /\ x \in Int /\ x < b + l /\ u \in Int /\ Begin <= u
    BY <2>2, <2>3, <2>4
  <2>6. DayOf(x) <= DayOf(b) + m
    <3> HIDE DEF m, x, b
    <3> QED BY <2>3, <2>5, DaysLater DEF l
  <2> QED BY <1>1, <2>5, <2>6, GivenUp
<1>2. ASSUME done, goal = "next"
      PROVE  found > after /\ Occurs(found) /\ \A u \in (after + 1)..(found - 1) : ~Occurs(u)
  <2>1. found # NoTime /\ found = candidate /\ Occurs(found) /\ last = NoTime
    BY <1>2 DEF CronInv, AtEnd, FoundIt, LastIt
  <2>2. Begin = after + 1 /\ after \in Int /\ candidate \in Int
    BY <2>1 DEF Begin, CronInv, CronTyped
  <2> QED BY <2>1, <2>2 DEF CronInv, Scanned
<1>3. ASSUME done, goal = "overdue", last # NoTime
      PROVE  last \in after..until /\ Occurs(last) /\ \A u \in (last + 1)..until : ~Occurs(u)
  BY <1>3 DEF CronInv, AtEnd, LastIt, CronTyped
<1> QED BY <1>1, <1>2, <1>3 DEF SearchIsExact

\* Where the offset of a zone does not change, the search finds the next instant a cron
\* expression allows, whatever the sizes of the calendar, the expression and the start: no
\* jump passes an occurrence, giving up means that there is none in two years, and the
\* search for an overdue one ends at the last.
THEOREM SearchesAreExact ==
    (\A z \in Zones : z.before = z.since) => (CronSpec => []SearchIsExact)
<1> SUFFICES ASSUME \A z \in Zones : z.before = z.since
             PROVE  CronSpec => []SearchIsExact
  OBVIOUS
<1>1. Steady
  BY DEF Steady
<1>2. CronInit => CronInv
  BY <1>1, CronStart
<1>3. CronInv /\ [CronNext]_cronVars => CronInv'
  BY <1>1, CronStep
<1>4. CronInv => SearchIsExact
  BY <1>1, CronInvExact
<1> QED BY <1>2, <1>3, <1>4, PTL DEF CronSpec
=============================================================================
