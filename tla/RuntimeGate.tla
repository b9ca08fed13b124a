---------------------------- MODULE RuntimeGate ----------------------------
(***************************************************************************)
(* The decision whether a prompt may be typed into the terminal of an      *)
(* agent (src/runtime_gate.ts) and the typing (src/terminal.ts).  The      *)
(* agent's process, its session file, its log and its screen go on         *)
(* changing while they are read one after another; any command that reads  *)
(* them may fail.                                                          *)
(***************************************************************************)
EXTENDS Naturals, FiniteSets

CONSTANTS
    Targets,      \* [runtime : {"codex", "claude_code", "unknown"}, pid : BOOLEAN,
                  \*  session : BOOLEAN, backend : {"tmux", "iterm2"}, addressed : BOOLEAN]:
                  \* which of the pid, the session id, and the pane or iTerm2 session id
                  \* the row has (one of iTerm2 may have only a tty)
    MaxChanges    \* bound on changes of the world during an evaluation

VARIABLES
    target,
    world,
    step,       \* how far the evaluation is
    seen,       \* what it has read: presence, busy, and of the screen: its marker at the first
                \* sample and whether it moved since
    outcome,    \* "none", "inject", "defer" or "offline"
    typed,      \* what of the prompt is in the terminal: "no", "text" or "sent"
    history,    \* gone, hidden, still, silent: what was so at some instant of the evaluation
    changes

gateVars == <<target, world, step, seen, outcome, typed, history, changes>>

Worlds == [process : {"running", "gone"},
           \* the session's file: "hidden" is one whose directories cannot be listed
           session : {"ours", "other", "missing", "unreadable", "hidden"},
           pane    : {"there", "gone"},
           age     : {"recent", "lately", "stale"},   \* of the log
           marker  : BOOLEAN]                         \* on the screen

Unread == [presence |-> "unknown", busy |-> "unknown", moved |-> FALSE, marker |-> FALSE]

GateTypeOK ==
    /\ target \in Targets
    /\ world \in Worlds
    /\ step \in {"start", "process", "screen", "sampled", "activity", "log", "logged",
                 "presence", "decide", "done"}
    /\ seen \in [presence : {"available", "unknown", "gone"},
                 busy : {"busy", "idle", "unknown"}, moved : BOOLEAN, marker : BOOLEAN]
    /\ outcome \in {"none", "inject", "defer", "offline"}
    /\ typed \in {"no", "text", "sent"}
    /\ history \in [gone : BOOLEAN, hidden : BOOLEAN, still : BOOLEAN, silent : BOOLEAN]

Codex == target.runtime = "codex"
Claude == target.runtime = "claude_code"

\* The process is looked at by its pid, and a session only with it.
Signalled == target.pid /\ (Codex \/ Claude)

\* The screen is sampled, and the log of the session is read.
Screened == target.addressed /\ ~Claude
Logged == target.session /\ (Codex \/ (Claude /\ target.pid))

\* The session of iTerm2 is looked for, of which a log is read.
Windowed == Claude /\ Logged /\ target.addressed /\ target.backend = "iterm2"

\* The reader finds no file: that of Codex lists directories, that of Claude opens one file.
Unfound(w) == w.session \in IF Codex THEN {"missing", "hidden"}
                            ELSE {"missing", "unreadable", "hidden"}

\* A process of Claude may have been started anew for another session.
Moved(w) == Claude /\ target.session /\ w.session = "other"

\* What identifies the target is gone.
Gone(w) ==
    \/ Signalled /\ w.process = "gone"
    \/ Signalled /\ (target.session \/ Claude) /\ w.session = "missing"
    \/ Signalled /\ Moved(w)
    \/ (Screened \/ Windowed) /\ w.pane = "gone"

\* The file is there, but looks as if it were not.
Hidden(w) == Signalled /\ (target.session \/ Claude) /\ Unfound(w) /\ w.session # "missing"

\* What shows that the agent works: the marker on the screen, and the log just written.
ShowsWork(w) == Screened /\ w.marker
LogsWork(w) ==
    Logged /\ w.session = "ours" /\ w.age \in IF Codex THEN {"recent", "lately"} ELSE {"recent"}

Observed(w, h) ==
    [h EXCEPT !.gone = @ \/ Gone(w), !.hidden = @ \/ Hidden(w),
              !.still = @ \/ ~ShowsWork(w), !.silent = @ \/ ~LogsWork(w)]

-----------------------------------------------------------------------------
GateInit ==
    /\ target \in Targets
    /\ world \in Worlds
    /\ step = "start" /\ seen = Unread /\ outcome = "none" /\ typed = "no"
    /\ history = Observed(world, [gone |-> FALSE, hidden |-> FALSE, still |-> FALSE,
                                   silent |-> FALSE])
    /\ changes = 0

\* The world changes one thing at a time; the log and the screen age and are written.
World ==
    /\ step # "done" /\ changes < MaxChanges
    /\ world' \in Worlds
    /\ Cardinality({f \in DOMAIN world : world'[f] # world[f]}) = 1
    /\ history' = Observed(world', history)
    /\ seen' = [seen EXCEPT !.moved = @ \/ world'.marker # world.marker]
    /\ changes' = changes + 1
    /\ UNCHANGED <<target, step, outcome, typed>>

\* The screen is written without anything else to tell.
Output ==
    /\ step = "sampled" /\ ~seen.moved
    /\ seen' = [seen EXCEPT !.moved = TRUE]
    /\ UNCHANGED <<target, world, step, outcome, typed, history, changes>>

Read(from, to, what) ==
    /\ step = from /\ step' = to
    /\ seen' = what
    /\ UNCHANGED <<target, world, outcome, typed, changes>>

Decided(what) ==
    /\ step' = "done" /\ outcome' = what
    /\ UNCHANGED <<target, world, seen, typed, history, changes>>

\* A command fails, or its answer makes no sense: the screen or the log was not seen.
Blind == history' = [history EXCEPT !.still = TRUE]
Deaf == history' = [history EXCEPT !.silent = TRUE]
Fine == UNCHANGED history

\* The terminal probe that is found for the target, and its first step.
AfterScreen == IF Codex /\ target.session THEN "activity" ELSE "decide"
TerminalProbe == IF Claude THEN IF Logged THEN "log" ELSE "decide"
            ELSE IF Screened THEN "screen" ELSE AfterScreen

-----------------------------------------------------------------------------
(* The runtime: CodexRuntimePresenceProbe, ClaudeCodeRuntimePresenceProbe *)

\* The signal 0.  One that fails for another reason than ESRCH leaves the presence unknown,
\* and the session unread.
ProbeProcess ==
    \/ /\ step = "start" /\ Signalled /\ world.process = "gone"
       /\ Decided("offline")
    \/ /\ Signalled /\ world.process # "gone" /\ (target.session \/ Claude)
       /\ Read("start", "process", seen) /\ Fine
    \/ Read("start", TerminalProbe, seen) /\ ~(Signalled /\ world.process = "gone") /\ Fine

\* The reader found no file, or that of another session of Claude.  What Codex's file tells of
\* another session, or not at all, is unknown.
SessionGone(w) == Unfound(w) \/ Moved(w)

ProbeSession ==
    /\ step = "process"
    /\ IF SessionGone(world) THEN Decided("offline")
       ELSE Read("process", TerminalProbe, seen) /\ Fine

-----------------------------------------------------------------------------
(* The terminal of Codex and of an unknown runtime: CodexTerminalStateProbe over    *)
(* TmuxTerminalStateProbe or Iterm2TerminalStateProbe                               *)

\* The pane, then the first sample of the screen.
ProbePane ==
    \/ /\ world.pane = "gone"
       /\ Read("screen", AfterScreen, [Unread EXCEPT !.presence = "gone"]) /\ Fine
    \/ /\ world.pane = "there"
       /\ Read("screen", "sampled",
               [Unread EXCEPT !.presence = "available", !.marker = world.marker])
       /\ Fine
    \/ Read("screen", AfterScreen, Unread) /\ Blind
    \/ /\ world.pane = "there"
       /\ Read("screen", AfterScreen, [Unread EXCEPT !.presence = "available"]) /\ Blind

\* Mutation: nobody works at a screen that does not change.
ScreenMoved(marker) == seen.moved
\* The second sample differs, or the marker of work is shown.
SampleBusy(marker) == seen.moved \/ marker

\* The marker is looked for in the second sample, by the Python helper of iTerm2 in the first.
Markers == IF target.backend = "iterm2" THEN {seen.marker, world.marker} ELSE {world.marker}

\* A prompt on the cursor's line with text typed before the cursor.
Typing == BOOLEAN

SampleAgain ==
    \/ /\ \E marker \in Markers, typing \in Typing :
             Read("sampled", AfterScreen,
                  [seen EXCEPT !.busy = IF SampleBusy(marker) \/ typing THEN "busy" ELSE "unknown"])
       /\ Fine
    \/ Read("sampled", AfterScreen, [seen EXCEPT !.busy = "unknown"]) /\ Blind
    \/ /\ target.backend = "iterm2" /\ seen.marker
       /\ Read("sampled", AfterScreen, [seen EXCEPT !.busy = "busy"]) /\ Blind

\* The age of the session file, unless the screen told already or there is no such file.
ProbeActivity ==
    \/ /\ seen.busy # "busy" /\ seen.presence # "gone" /\ world.session = "ours"
       /\ Read("activity", "decide",
               [seen EXCEPT !.busy = CASE world.age = "recent" -> "busy"
                                       [] world.age = "lately" -> "idle"
                                       [] OTHER -> @])
       /\ Fine
    \/ /\ seen.busy = "busy" \/ seen.presence = "gone" \/ world.session # "ours"
       /\ Read("activity", "decide", seen) /\ Fine
    \/ Read("activity", "decide", seen) /\ Deaf

-----------------------------------------------------------------------------
(* The terminal of Claude Code: ClaudeCodeTerminalStateProbe *)

\* The session file again, then the log for the first time.
ProbeLog ==
    \/ /\ SessionGone(world)
       /\ Read("log", "decide", [Unread EXCEPT !.presence = "gone"]) /\ Fine
    \/ /\ ~SessionGone(world)
       /\ IF world.age = "recent"
          THEN Read("log", "presence", [Unread EXCEPT !.busy = "busy"])
          ELSE Read("log", "logged", Unread)
       /\ Fine
    \/ /\ ~SessionGone(world)
       /\ \E to \in {"presence", "decide"} : Read("log", to, Unread)
       /\ Deaf

\* A quarter of a second later: written again is busy, written lately is idle.
ProbeLogAgain ==
    \/ /\ Read("logged", "presence",
               [seen EXCEPT !.busy = CASE world.age = "recent" -> "busy"
                                       [] world.age = "lately" -> "idle"
                                       [] OTHER -> "unknown"])
       /\ Fine
    \/ Read("logged", "presence", seen) /\ Deaf

\* The session of iTerm2; a tmux pane, or a tty, is taken to be there.
ProbePresence ==
    \/ /\ Read("presence", "decide",
               [seen EXCEPT !.presence = IF Windowed /\ world.pane = "gone" THEN "gone"
                                         ELSE "available"])
       /\ Fine
    \/ Read("presence", "decide", [seen EXCEPT !.presence = "unknown"]) /\ Windowed /\ Fine

-----------------------------------------------------------------------------
\* DefaultActivationGate.evaluate
Decide ==
    /\ step = "decide"
    /\ Decided(CASE seen.presence = "gone" -> "offline"
                 [] seen.presence # "gone" /\ seen.busy = "busy" -> "defer"
                 [] seen.presence # "gone" /\ seen.busy = "idle" /\ Codex -> "defer"
                 [] OTHER -> "inject")

\* TerminalDispatcher.dispatch: the text, then the Return by a command of its own.  A row
\* without an address is refused.
SendText ==
    /\ outcome = "inject" /\ typed = "no"
    /\ typed' \in {"no"} \cup IF target.addressed THEN {"text"} ELSE {}
    /\ outcome' = IF typed' = "text" THEN outcome ELSE "none"
    /\ UNCHANGED <<target, world, step, seen, history, changes>>

SendReturn ==
    /\ outcome = "inject" /\ typed = "text"
    /\ typed' \in {"text", "sent"}
    /\ outcome' = IF typed' = "sent" THEN outcome ELSE "none"
    /\ UNCHANGED <<target, world, step, seen, history, changes>>

GateNext ==
    \/ World \/ Output
    \/ ProbeProcess \/ ProbeSession \/ ProbePane \/ SampleAgain \/ ProbeActivity
    \/ ProbeLog \/ ProbeLogAgain \/ ProbePresence
    \/ Decide \/ SendText \/ SendReturn

GateSpec == GateInit /\ [][GateNext]_gateVars

-----------------------------------------------------------------------------
(* A target goes offline only if at some instant of the evaluation what the row        *)
(* identifies it by was gone (process, session, pane), or its session was there but    *)
(* could not be read: the directories of Codex's sessions, the file of Claude's.       *)
(* Neither a command that fails, nor a Codex file that is unreadable or names another  *)
(* session, nor a mixture of answers read at different instants takes it down.  A      *)
(* prompt may be typed only if at some instant the screen, if it is sampled, showed no *)
(* work or could not be read, and at some instant the log, if there is one, was not    *)
(* being written or could not be read.  An agent that works all through in sight of    *)
(* both is not interrupted; a row that has neither, as that of a Claude without a pid, *)
(* is not looked at.                                                                   *)
VerdictIsGrounded ==
    /\ outcome = "offline" => history.gone \/ history.hidden
    /\ outcome = "inject" => history.still /\ history.silent

\* With the types.
GateIsSound == GateTypeOK /\ VerdictIsGrounded
=============================================================================
