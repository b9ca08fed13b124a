------------------------------ MODULE MCParts ------------------------------
(***************************************************************************)
(* SubscriptionLifecycle, RemoteSource, RuntimeGate, DaemonProcess,        *)
(* StoreOpening and EmailBody, one at a time: they share nothing, and the  *)
(* module that runs is chosen in the initial state.                        *)
(***************************************************************************)
EXTENDS SubscriptionLifecycle, RemoteSource, RuntimeGate, DaemonProcess, StoreOpening, EmailBody,
        TLC

CONSTANTS a, b, p, q, r, s, t, e1, e2, r1, r2

VARIABLE part

GateTarget(runtime, pid, session, backend, addressed) ==
    [runtime |-> runtime, pid |-> pid, session |-> session, backend |-> backend,
     addressed |-> addressed]
GateTargets ==
    {GateTarget(kind, TRUE, TRUE, back, TRUE) :
        kind \in {"codex", "claude_code"}, back \in {"tmux", "iterm2"}}
    \cup {GateTarget(kind, has, ~has, "tmux", TRUE) :
            kind \in {"codex", "claude_code"}, has \in BOOLEAN}
    \cup {GateTarget("codex", has, TRUE, "iterm2", FALSE) : has \in BOOLEAN}
    \cup {GateTarget("claude_code", TRUE, TRUE, "iterm2", FALSE)}
    \cup {GateTarget("unknown", FALSE, FALSE, "iterm2", has) : has \in BOOLEAN}

\* Two subscriptions, one retired by terminal events and one by its deadline; the two
\* terminal events of its resource retire it at two different instants.
SubPolicy == (a :> "on_terminal") @@ (b :> "at")
PairMembers == <<a, b>>
Graces == [early |-> 0, late |-> 1]

\* One entry that carries a part of its body and one that carries nothing; the cache
\* holds one whole body, or a whole one and a part.
BodyCarried == (e1 :> "part") @@ (e2 :> "none")
BodySize == [whole |-> 4, part |-> 2]

partVars == <<part, vars, remoteVars, gateVars, daemonVars, storeVars, bodyVars>>

InLifecycle == part = "lifecycle"
    /\ UNCHANGED <<part, remoteVars, gateVars, daemonVars, storeVars, bodyVars>>
InRemote == part = "remote"
    /\ UNCHANGED <<part, vars, gateVars, daemonVars, storeVars, bodyVars>>
InGate == part = "gate"
    /\ UNCHANGED <<part, vars, remoteVars, daemonVars, storeVars, bodyVars>>
InDaemon == part = "daemon"
    /\ UNCHANGED <<part, vars, remoteVars, gateVars, storeVars, bodyVars>>
InStore == part = "store"
    /\ UNCHANGED <<part, vars, remoteVars, gateVars, daemonVars, bodyVars>>
InBody == part = "body"
    /\ UNCHANGED <<part, vars, remoteVars, gateVars, daemonVars, storeVars>>

\* The bounds of the lifecycle are spent in one of three ways.  Requests and a restart
\* meet one subscription and two terminal events of its resource, the registration of
\* the other having failed; or the two are registered, alone or by a template, with a
\* request and no restart left, or with a restart and no request, and one more event.
LifecycleInit ==
    /\ Nothing /\ agent = TRUE
    /\ \/ /\ reg = (a :> "none") @@ (b :> "failed")
          /\ log = <<>> /\ ops = 0 /\ crashes = 0
       \/ /\ reg = [x \in Subs |-> "none"] /\ log = <<"poison">>
          /\ \/ ops = 0 /\ crashes = MaxCrashes
             \/ ops = MaxOps /\ crashes = 0

\* A module that does not run starts in one of its initial states.
PartsInit ==
    /\ part \in {"lifecycle", "remote", "gate", "daemon", "store", "body"}
    /\ LifecycleInit /\ RemoteInit /\ GateInit /\ DaemonInit /\ StoreInit /\ BodyInit
    /\ part # "lifecycle" => ops = MaxOps
    /\ part # "gate" => target = CHOOSE g \in GateTargets : TRUE
    /\ part # "gate" => world = CHOOSE w \in Worlds : TRUE
    /\ part # "store" => db = NoFile

PartsNext ==
    \/ InLifecycle /\ Next
    \/ InRemote /\ RemoteNext
    \/ InGate /\ GateNext
    \/ InDaemon /\ DaemonNext
    \/ InStore /\ StoreNext
    \/ InBody /\ BodyNext

PartsSpec == PartsInit /\ [][PartsNext]_partVars
=============================================================================
