--------------------------- MODULE DaemonProcess ---------------------------
(***************************************************************************)
(* The processes that become, stop and look for the daemon of one socket   *)
(* (src/daemon.ts, src/control_server.ts, runServe of src/cli.ts).  They   *)
(* share four files: the admission lock, the pid file, the socket and the  *)
(* metadata.  A process may be killed anywhere; its files stay.            *)
(***************************************************************************)
EXTENDS Naturals, FiniteSets

CONSTANTS
    Servers,    \* processes of `agentinbox serve`, whoever spawned them
    Cleaners,   \* processes of `daemon stop` and `daemon status`
    Stopping,   \* those that stop
    None,       \* no file, or no process
    MaxKills    \* bound on processes killed

ASSUME DaemonAssumption == None \notin Servers

VARIABLES
    at,         \* where a process is
    attempt,    \* of a server to take the lock
    victim,     \* the process a cleaner found
    lock, pidFile, socket, metadata,   \* whose file it is
    kills,
    removal     \* whether a lock was ever removed as stale

files == <<lock, pidFile, socket, metadata>>
daemonVars == <<at, attempt, victim, lock, pidFile, socket, metadata, kills, removal>>

ServerPlaces == {"new", "reading", "stale", "locked", "opening", "starting", "unlinking", "listen",
                 "listening", "serving", "closing", "closed", "releasing", "released", "dead"}
CleanerPlaces == {"new", "waiting", "checking", "cleaning", "dead"}

DaemonTypeOK ==
    /\ at \in [Servers \cup Cleaners -> ServerPlaces \cup CleanerPlaces]
    /\ attempt \in [Servers -> 1..2]
    /\ victim \in [Cleaners -> Servers \cup {None}]
    /\ removal \in BOOLEAN
    /\ {lock, pidFile, socket, metadata} \subseteq Servers \cup {None}

Alive(p) == p # None /\ at[p] \notin {"new", "dead"}

\* The socket file leads to a process that listens: canReachHealthz, canConnectToSocket.
Reachable == socket # None /\ at[socket] \in {"listening", "serving"}

\* The processes that have the store open.
Running == {p \in Servers : at[p] \in {"opening", "starting", "unlinking", "listen", "listening",
                                       "serving", "closing"}}

Owned(file, p) == file = p

DaemonInit ==
    /\ at = [p \in Servers \cup Cleaners |-> "new"]
    /\ attempt = [p \in Servers |-> 1]
    /\ victim = [c \in Cleaners |-> None]
    /\ lock = None /\ pidFile = None /\ socket = None /\ metadata = None
    /\ kills = 0 /\ removal = FALSE

Go(p, from, to) == at[p] = from /\ at' = [at EXCEPT ![p] = to]

-----------------------------------------------------------------------------
(* acquireDaemonLock *)

\* Mutation: a lock whose holder does not answer is written over.
CreateLockUnlessServed(p) ==
    /\ IF lock = None \/ ~Reachable THEN Go(p, "new", "locked") /\ lock' = p
                                    ELSE Go(p, "new", "reading") /\ UNCHANGED lock
    /\ UNCHANGED <<attempt, victim, pidFile, socket, metadata, kills, removal>>

\* The exclusive creation of the file.
CreateLock(p) ==
    /\ IF lock = None THEN Go(p, "new", "locked") /\ lock' = p
                      ELSE Go(p, "new", "reading") /\ UNCHANGED lock
    /\ UNCHANGED <<attempt, victim, pidFile, socket, metadata, kills, removal>>

\* The holder is read and its process looked up.  A lock that vanished is not a holder's.
ReadLock(p) ==
    /\ Go(p, "reading", IF Alive(lock) THEN "dead" ELSE "stale")
    /\ UNCHANGED <<attempt, victim, lock, pidFile, socket, metadata, kills, removal>>

\* The stale lock is removed, whoever's it is by now, and the creation retried once.
RemoveStale(p) ==
    /\ Go(p, "stale", IF attempt[p] = 1 THEN "new" ELSE "dead")
    /\ attempt' = [attempt EXCEPT ![p] = 2]
    /\ lock' = None
    /\ removal' = TRUE
    /\ UNCHANGED <<victim, pidFile, socket, metadata, kills>>

-----------------------------------------------------------------------------
(* runServe and startControlServer *)

WritePid(p) ==
    /\ Go(p, "locked", "opening")
    /\ pidFile' = p
    /\ UNCHANGED <<attempt, victim, lock, socket, metadata, kills, removal>>

\* The store is opened and the service started.
OpenStore(p) ==
    /\ Go(p, "opening", "starting")
    /\ UNCHANGED <<attempt, victim, files, kills, removal>>

\* prepareSocketPath: a daemon that answers ends the start, a dead socket is removed.
PrepareSocket(p) ==
    /\ Go(p, "starting", IF socket = None THEN "listen"
                         ELSE IF Reachable THEN "dead" ELSE "unlinking")
    /\ UNCHANGED <<attempt, victim, files, kills, removal>>

UnlinkSocket(p) ==
    /\ Go(p, "unlinking", "listen")
    /\ socket' = None
    /\ UNCHANGED <<attempt, victim, lock, pidFile, metadata, kills, removal>>

Listen(p) ==
    /\ IF socket = None THEN Go(p, "listen", "listening") /\ socket' = p
                        ELSE Go(p, "listen", "dead") /\ UNCHANGED socket
    /\ UNCHANGED <<attempt, victim, lock, pidFile, metadata, kills, removal>>

WriteMetadata(p) ==
    /\ Go(p, "listening", "serving")
    /\ metadata' = p
    /\ UNCHANGED <<attempt, victim, lock, pidFile, socket, kills, removal>>

\* shutdown: the socket is closed and unlinked, then the store is closed and the files go.
CloseSocket(p) ==
    /\ Go(p, "closing", "closed")
    /\ socket' = None
    /\ UNCHANGED <<attempt, victim, lock, pidFile, metadata, kills, removal>>

RemovePid(p) ==
    /\ Go(p, "closed", "releasing")
    /\ pidFile' = IF Owned(pidFile, p) THEN None ELSE pidFile
    /\ UNCHANGED <<attempt, victim, lock, socket, metadata, kills, removal>>

ReleaseLock(p) ==
    /\ Go(p, "releasing", "released")
    /\ lock' = IF Owned(lock, p) THEN None ELSE lock
    /\ UNCHANGED <<attempt, victim, pidFile, socket, metadata, kills, removal>>

\* The metadata go whoever's they are.
RemoveMetadata(p) ==
    /\ Go(p, "released", "dead")
    /\ metadata' = None
    /\ UNCHANGED <<attempt, victim, lock, pidFile, socket, kills, removal>>

\* SIGKILL, an error, or the machine.
Kill(p) ==
    /\ kills < MaxKills /\ Alive(p)
    /\ at' = [at EXCEPT ![p] = "dead"]
    /\ kills' = kills + 1
    /\ UNCHANGED <<attempt, victim, files, removal>>

-----------------------------------------------------------------------------
(* stopDaemon and daemonStatus *)

LiveHolder == IF Alive(lock) THEN lock ELSE None
Found == IF Alive(pidFile) THEN pidFile ELSE LiveHolder

\* stop: SIGTERM.  The handler is there once the daemon serves; before, it just dies.
Terminate(c) ==
    /\ c \in Stopping
    /\ victim' = [victim EXCEPT ![c] = Found]
    /\ at[c] = "new"
    /\ at' = IF Found = None THEN [at EXCEPT ![c] = "waiting"]
             ELSE [at EXCEPT ![c] = "waiting",
                             ![Found] = CASE at[Found] = "serving" -> "closing"
                                          [] at[Found] \in {"closing", "closed", "releasing", "released"}
                                               -> at[Found]
                                          [] OTHER -> "dead"]
    /\ UNCHANGED <<attempt, files, kills, removal>>

\* The end of the process is waited for, for a while.
Awaited(c) ==
    /\ Go(c, "waiting", IF Alive(victim[c]) THEN "dead" ELSE "checking")
    /\ UNCHANGED <<attempt, victim, files, kills, removal>>

\* status: only a pid file of a dead process and no live holder leads to a look at the socket.
Status(c) ==
    /\ c \notin Stopping
    /\ Go(c, "new", IF pidFile # None /\ ~Alive(pidFile) /\ LiveHolder = None
                    THEN "checking" ELSE "dead")
    /\ UNCHANGED <<attempt, victim, files, kills, removal>>

\* Nothing answers at the socket, so the files are stale.
CheckHealth(c) ==
    /\ Go(c, "checking", IF Reachable THEN "dead" ELSE "cleaning")
    /\ UNCHANGED <<attempt, victim, files, kills, removal>>

Clean(c) ==
    /\ Go(c, "cleaning", "dead")
    /\ pidFile' = IF Alive(pidFile) THEN pidFile ELSE None
    /\ socket' = None /\ metadata' = None
    /\ UNCHANGED <<attempt, victim, lock, kills, removal>>

-----------------------------------------------------------------------------
Server(p) ==
    \/ CreateLock(p) \/ ReadLock(p) \/ RemoveStale(p) \/ WritePid(p) \/ OpenStore(p)
    \/ PrepareSocket(p) \/ UnlinkSocket(p) \/ Listen(p) \/ WriteMetadata(p)
    \/ CloseSocket(p) \/ RemovePid(p) \/ ReleaseLock(p) \/ RemoveMetadata(p) \/ Kill(p)

DaemonNext ==
    \/ \E p \in Servers : Server(p)
    \/ \E c \in Cleaners : Terminate(c) \/ Awaited(c) \/ Status(c) \/ CheckHealth(c) \/ Clean(c)

DaemonSpec == DaemonInit /\ [][DaemonNext]_daemonVars

-----------------------------------------------------------------------------
(* As long as no lock had to be removed as stale, the lock admits one daemon: however  *)
(* many are started, stopped and looked for at once, in whatever phase of their start *)
(* and their shutdown, two never have the store open.                                 *)
OneDaemonPerLock == ~removal => Cardinality(Running) <= 1

\* With the types.
DaemonIsSound == DaemonTypeOK /\ OneDaemonPerLock

(* CHANGELOG.md: "Daemon is now single-instance: `serve` takes an exclusive admission *)
(* lock before opening the store, so a second `serve` exits cleanly".  Violated: two   *)
(* that read the same stale lock both remove it, the later one the other's new lock.  *)
SingleInstance == Cardinality(Running) <= 1
=============================================================================
