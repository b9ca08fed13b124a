---------------------------- MODULE StoreOpening ----------------------------
(***************************************************************************)
(* The opening of the database file (src/store.ts, src/db_integrity.ts):   *)
(* the integrity scan and the recovery from a backup, the archive of a     *)
(* database of before v1, the backup before migrations and the migrations. *)
(* What the process committed is a number that grows.  The file may be     *)
(* damaged, and the process may be killed between any two steps.           *)
(***************************************************************************)
EXTENDS Naturals, FiniteSets, FiniteSetsExt

CONSTANTS
    NoFile,        \* no file
    Versions,      \* schema versions of successive releases
    Keep,          \* AGENTINBOX_MIGRATION_BACKUP_KEEP; 0 keeps all
    MaxWork, MaxDamages, MaxStoreCrashes, MaxBackups   \* bounds

VARIABLES
    db,         \* the database file
    backups,    \* "<db>.bak" under 0 and "<db>.pre-migrate-v<n>.bak" under n
    release,    \* the schema version of the installed release
    phase,      \* "closed", "recovering", "archiving", "migrating", "upgrading" or "open"
    stamp,      \* orders the modification times of backups
    owed,       \* the work that a healthy file holds which may be restored
    cut,        \* whether a recovery was ever cut short
    damages, storeCrashes

storeVars == <<db, backups, release, phase, stamp, owed, cut, damages, storeCrashes>>

Latest == Max(Versions)

\* A file: its kind, the migrations applied and the work in it.
Files == [kind : {"v1", "old", "damaged"}, applied : {0} \cup Versions, work : 0..MaxWork]
ASSUME StoreAssumption ==
    /\ Versions \subseteq Nat \ {0} /\ IsFiniteSet(Versions) /\ Versions # {}
    /\ MaxWork \in Nat /\ NoFile \notin Files

New == [kind |-> "v1", applied |-> 0, work |-> 0]

StoreTypeOK ==
    /\ db \in Files \cup {NoFile}
    /\ DOMAIN backups \subseteq {0} \cup Versions
    /\ \A n \in DOMAIN backups : backups[n].file \in Files /\ backups[n].time \in Nat
    /\ release \in Versions
    /\ phase \in {"closed", "recovering", "archiving", "migrating", "upgrading", "open"}
    /\ stamp \in Nat /\ owed \in 0..MaxWork /\ cut \in BOOLEAN

StoreInit ==
    /\ db \in {NoFile} \cup [kind : {"v1", "old"}, applied : {Min(Versions)}, work : {0}]
    /\ backups = [n \in {} |-> NoFile]
    /\ release = Min(Versions) /\ phase = "closed" /\ stamp = 0
    /\ owed = 0 /\ cut = FALSE
    /\ damages = 0 /\ storeCrashes = 0

-----------------------------------------------------------------------------
(* Backups *)

With(n, file) == [m \in DOMAIN backups \cup {n} |->
                    IF m = n THEN [file |-> file, time |-> stamp + 1] ELSE backups[m]]

\* pruneMigrationBackups: the highest versions stay, and "<db>.bak".
Pruned(b) ==
    LET pre  == DOMAIN b \ {0}
        kept == IF Keep = 0 THEN pre
                ELSE {n \in pre : Cardinality({m \in pre : m > n}) < Keep}
    IN  [n \in kept \cup (DOMAIN b \cap {0}) |-> b[n]]

\* Mutation: the backup of the highest version first.
ByVersion(b, m, n) == m > n
\* listBackupCandidates: the most recent first.
Before(b, m, n) == b[m].time > b[n].time \/ (b[m].time = b[n].time /\ m > n)

Healthy(b) == {n \in DOMAIN b : b[n].file.kind # "damaged"}

\* findRecoverableBackup: the first candidate that is healthy.
Recoverable(b) == CHOOSE n \in Healthy(b) : \A m \in Healthy(b) \ {n} : Before(b, n, m)

NewestWork(b) ==
    IF Healthy(b) = {} THEN 0
    ELSE LET newest == CHOOSE n \in Healthy(b) : \A m \in Healthy(b) : b[m].time <= b[n].time
         IN  b[newest].file.work

-----------------------------------------------------------------------------
(* AgentInboxStore.open *)

\* A missing file is created, a healthy one is opened, a damaged one is put aside if there
\* is a backup to restore, and is an error otherwise.  One without the baseline migration
\* counts as older than v1.
Open ==
    /\ phase = "closed"
    /\ CASE db = NoFile -> db' = New /\ phase' = "upgrading"
         [] db # NoFile /\ db.kind = "v1" /\ db.applied # 0 -> phase' = "migrating" /\ UNCHANGED db
         [] db # NoFile /\ (db.kind = "old" \/ db = New) -> phase' = "archiving" /\ UNCHANGED db
         [] db # NoFile /\ db.kind = "damaged" /\ Healthy(backups) # {} ->
                db' = NoFile /\ phase' = "recovering"
         [] OTHER -> FALSE
    /\ UNCHANGED <<backups, release, stamp, owed, cut, damages, storeCrashes>>

\* The copy of the backup, and a database of before v1 may be what it is.
Recover ==
    /\ phase = "recovering"
    /\ db' = backups[Recoverable(backups)].file
    /\ phase' = IF db'.kind = "old" THEN "archiving" ELSE "migrating"
    /\ UNCHANGED <<backups, release, stamp, owed, cut, damages, storeCrashes>>

\* archivePreV1Database: renamed, and a fresh database is created.
Archive ==
    /\ phase = "archiving"
    /\ db' = New /\ phase' = "upgrading"
    /\ owed' = 0
    /\ UNCHANGED <<backups, release, stamp, cut, damages, storeCrashes>>

Pending == {v \in Versions : v > db.applied /\ v <= release}

\* migrate: a backup first, if there was a database and there are migrations to apply.
BackupBeforeMigration ==
    /\ phase = "migrating"
    /\ IF Pending = {} THEN UNCHANGED <<backups, stamp>>
       ELSE backups' = Pruned(With(release, db)) /\ stamp' = stamp + 1
    /\ phase' = "upgrading"
    /\ UNCHANGED <<db, release, owed, cut, damages, storeCrashes>>

\* One migration in a transaction of its own.
ApplyMigration ==
    /\ phase = "upgrading" /\ Pending # {}
    /\ db' = [db EXCEPT !.applied = Min(Pending)]
    /\ UNCHANGED <<backups, release, phase, stamp, owed, cut, damages, storeCrashes>>

Opened ==
    /\ phase = "upgrading" /\ Pending = {}
    /\ phase' = "open"
    /\ UNCHANGED <<db, backups, release, stamp, owed, cut, damages, storeCrashes>>

-----------------------------------------------------------------------------
(* What happens to an open or a closed database *)

Work ==
    /\ phase = "open" /\ db.work < MaxWork
    /\ db' = [db EXCEPT !.work = @ + 1]
    /\ owed' = db.work + 1
    /\ UNCHANGED <<backups, release, phase, stamp, cut, damages, storeCrashes>>

\* `agentinbox backup`: a temporary file, renamed when it is complete.
Backup ==
    /\ phase = "open" /\ stamp < MaxBackups
    /\ backups' = With(0, db) /\ stamp' = stamp + 1
    /\ UNCHANGED <<db, release, phase, owed, cut, damages, storeCrashes>>

Close ==
    /\ phase = "open" /\ phase' = "closed"
    /\ UNCHANGED <<db, backups, release, stamp, owed, cut, damages, storeCrashes>>

Upgrade ==
    /\ phase = "closed" /\ release < Latest
    /\ release' = Min({v \in Versions : v > release})
    /\ UNCHANGED <<db, backups, phase, stamp, owed, cut, damages, storeCrashes>>

\* The file of a closed database is damaged: the newest backup is what is left.
Damage ==
    /\ phase = "closed" /\ damages < MaxDamages
    /\ db # NoFile /\ db.kind = "v1"
    /\ db' = [db EXCEPT !.kind = "damaged"]
    /\ owed' = NewestWork(backups)
    /\ damages' = damages + 1
    /\ UNCHANGED <<backups, release, phase, stamp, cut, storeCrashes>>

StoreCrash ==
    /\ phase # "closed" /\ storeCrashes < MaxStoreCrashes
    /\ phase' = "closed" /\ storeCrashes' = storeCrashes + 1
    /\ cut' = (cut \/ phase = "recovering")
    \* The copy of a backup may be cut in its middle, the archived file may be gone.
    /\ db' \in CASE phase = "recovering" ->
                      {NoFile, [backups[Recoverable(backups)].file EXCEPT !.kind = "damaged"]}
                 [] phase = "archiving" -> {db, NoFile}
                 [] OTHER -> {db}
    /\ UNCHANGED <<backups, release, stamp, owed, damages>>

StoreNext ==
    \/ Open \/ Recover \/ Archive \/ BackupBeforeMigration \/ ApplyMigration \/ Opened
    \/ Work \/ Backup \/ Close \/ Upgrade \/ Damage \/ StoreCrash

StoreSpec == StoreInit /\ [][StoreNext]_storeVars

-----------------------------------------------------------------------------
(* An open database holds all that was committed, or, after a damage, all that the    *)
(* newest healthy backup held, through any crashes in opening, archiving and          *)
(* migrating, and the pruning of backups; a crash in the recovery itself excepted.    *)
OpenKeepsWork == phase = "open" /\ ~cut => db.work >= owed

\* With the types.
StoreIsSound == StoreTypeOK /\ OpenKeepsWork

(* README.md: "recovery considers manual and pre-migration backups, most recent       *)
(* first".  Violated: a crash after the damaged file was put aside leaves no file,     *)
(* and the next open creates an empty database without a look at the backups.         *)
RecoveryIsResumed == phase = "open" => db.work >= owed
=============================================================================
