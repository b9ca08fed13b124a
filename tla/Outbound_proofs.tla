--------------------------- MODULE Outbound_proofs ---------------------------
(***************************************************************************)
(* Proofs about what leaves for a terminal, a chat or a watcher, and what  *)
(* is kept for an agent to fetch: the decision to type a prompt            *)
(* (RuntimeGate), the routes of replies (OperatorRoutes), the files of     *)
(* attachments (EmailAttachments), the pages of a body (EmailBody) and the *)
(* streams of inbox entries (InboxWatch), for any targets, messages,       *)
(* bindings, routes, attachments, readers and watchers and any limits.     *)
(*                                                                         *)
(* A verdict is about readings of different instants.  That it has a       *)
(* ground follows from what each reading on the way was a ground of        *)
(* (SeenOK).  That a reply comes to its chat follows from the same of the  *)
(* row of a route and of every reply under way, as long as no other        *)
(* message came by the route (RoutesOK).  That a stored attachment has its *)
(* file must be known between the check of the file and the writing of the *)
(* row, while others collect and delete (PhasesOK).  That the pages of a   *)
(* read are of one body needs what a reader waits for while another        *)
(* reader's load ends (ReadersOK).  That a watcher misses no entry needs   *)
(* that all it is still to get is newer than all it was shown, wherever on *)
(* its way it is, and that whatever was listed is on its way               *)
(* (ListedIsComing).                                                       *)
(***************************************************************************)
EXTENDS RuntimeGate, OperatorRoutes, EmailAttachments, EmailBody, InboxWatch,
        DataLemmas

-----------------------------------------------------------------------------
(* The decision to type *)

\* What the world shows now was noted.
WorldNoted ==
    /\ Gone(world) => history.gone
    /\ Hidden(world) => history.hidden
    /\ ~ShowsWork(world) => history.still
    /\ ~LogsWork(world) => history.silent

\* A step of a probe is taken only for a target that has what the probe reads.
ProbesOK ==
    /\ step = "process" => Signalled /\ (target.session \/ Claude)
    /\ step \in {"screen", "sampled"} => Screened
    /\ step = "activity" => Codex /\ target.session
    /\ step \in {"log", "logged", "presence"} => Claude /\ Logged

\* What takes the target down, and what lets a prompt be typed.
Down == history.gone \/ history.hidden
Excused == history.still /\ history.silent

SeenOK ==
    /\ seen.presence = "gone" => Down
    /\ step = "sampled" /\ ~seen.marker => history.still
    /\ step = "activity" /\ seen.presence # "gone" /\ seen.busy # "busy" => history.still
    /\ step = "logged" => history.silent
    /\ step \in {"logged", "presence"} => seen.presence # "gone"
    /\ step = "presence" /\ seen.busy # "busy" => Excused
    /\ step = "decide" /\ seen.presence # "gone" /\ seen.busy # "busy"
          /\ ~(seen.busy = "idle" /\ Codex) => Excused

GateInv == GateTypeOK /\ WorldNoted /\ ProbesOK /\ SeenOK /\ VerdictIsGrounded

Histories == [gone : BOOLEAN, hidden : BOOLEAN, still : BOOLEAN, silent : BOOLEAN]
Readings == [presence : {"available", "unknown", "gone"},
             busy : {"busy", "idle", "unknown"}, moved : BOOLEAN, marker : BOOLEAN]
Steps == {"start", "process", "screen", "sampled", "activity", "log", "logged", "presence",
          "decide"}

\* Noting a world adds to what was noted.
LEMMA ObservedFacts ==
    ASSUME NEW w, NEW h \in Histories
    PROVE  /\ Observed(w, h) \in Histories
           /\ Observed(w, h).gone <=> h.gone \/ Gone(w)
           /\ Observed(w, h).hidden <=> h.hidden \/ Hidden(w)
           /\ Observed(w, h).still <=> h.still \/ ~ShowsWork(w)
           /\ Observed(w, h).silent <=> h.silent \/ ~LogsWork(w)
<1> DEFINE gone == h.gone \/ Gone(w)
           hidden == h.hidden \/ Hidden(w)
           still == h.still \/ ~ShowsWork(w)
           silent == h.silent \/ ~LogsWork(w)
<1>1. gone \in BOOLEAN /\ hidden \in BOOLEAN /\ still \in BOOLEAN /\ silent \in BOOLEAN
  OBVIOUS
<1>2. Observed(w, h) = [h EXCEPT !.gone = gone, !.hidden = hidden, !.still = still,
                                  !.silent = silent]
  BY DEF Observed
<1> HIDE DEF gone, hidden, still, silent
<1>3. /\ Observed(w, h) \in Histories
      /\ Observed(w, h).gone = gone /\ Observed(w, h).hidden = hidden
      /\ Observed(w, h).still = still /\ Observed(w, h).silent = silent
  BY <1>1, <1>2 DEF Histories
<1> QED BY <1>3 DEF gone, hidden, still, silent

LEMMA GateInitOK == GateInit => GateInv
<1> SUFFICES ASSUME GateInit PROVE GateInv
  OBVIOUS
<1> DEFINE none == [gone |-> FALSE, hidden |-> FALSE, still |-> FALSE, silent |-> FALSE]
<1>1. none \in Histories
  BY DEF Histories
<1>2. history = Observed(world, none)
  BY DEF GateInit
<1> HIDE DEF none
<1>3. history \in Histories /\ WorldNoted
  BY <1>1, <1>2, ObservedFacts DEF WorldNoted
<1>4. GateTypeOK
  BY <1>3 DEF GateInit, GateTypeOK, Unread, Histories
<1> QED BY <1>3, <1>4 DEF GateInit, GateInv, ProbesOK, SeenOK, VerdictIsGrounded, Unread

\* What was noted stays noted when a reading fails.
LEMMA NotesKept ==
    ASSUME history \in Histories, Fine \/ Blind \/ Deaf
    PROVE  /\ history' \in Histories
           /\ history'.gone = history.gone /\ history'.hidden = history.hidden
           /\ (history.still => history'.still) /\ (history.silent => history'.silent)
           /\ (Blind => history'.still) /\ (Deaf => history'.silent)
BY DEF Fine, Blind, Deaf, Histories

\* A step that reads: what it adds to the readings must have a ground.
LEMMA ReadKeeps ==
    ASSUME GateInv, NEW from, NEW to \in Steps, NEW what \in Readings, Read(from, to, what),
           Fine \/ Blind \/ Deaf, ProbesOK', SeenOK'
    PROVE  GateInv'
<1>1. UNCHANGED <<target, world, outcome, typed>> /\ step' = to /\ seen' = what
  BY DEF Read
<1>2. history \in Histories
  BY DEF GateInv, GateTypeOK, Histories
<1>3. /\ history' \in Histories
      /\ history'.gone = history.gone /\ history'.hidden = history.hidden
      /\ (history.still => history'.still) /\ (history.silent => history'.silent)
  BY <1>2, NotesKept
<1>4. GateTypeOK'
  BY <1>1, <1>3 DEF GateInv, GateTypeOK, Readings, Histories, Steps
<1>5. WorldNoted'
  BY <1>1, <1>3 DEF GateInv, WorldNoted, Gone, Hidden, ShowsWork, LogsWork, Signalled, Screened,
                    Logged, Windowed, Unfound, Moved, Codex, Claude
<1>6. VerdictIsGrounded'
  BY <1>1, <1>3 DEF GateInv, VerdictIsGrounded
<1> QED BY <1>4, <1>5, <1>6 DEF GateInv

\* A verdict must have its ground.
LEMMA DecidedKeeps ==
    ASSUME GateInv, NEW what \in {"inject", "defer", "offline"}, Decided(what),
           what = "offline" => Down, what = "inject" => Excused
    PROVE  GateInv'
<1>1. step' = "done" /\ outcome' = what /\ UNCHANGED <<target, world, seen, typed, history>>
  BY DEF Decided
<1>2. GateTypeOK'
  BY <1>1 DEF GateInv, GateTypeOK
<1>3. WorldNoted'
  BY <1>1 DEF GateInv, WorldNoted, Gone, Hidden, ShowsWork, LogsWork, Signalled, Screened,
              Logged, Windowed, Unfound, Moved, Codex, Claude
<1> QED BY <1>1, <1>2, <1>3 DEF GateInv, ProbesOK, SeenOK, VerdictIsGrounded, Excused, Down

\* Nothing but the typing, or nothing, changes.
LEMMA TypingKeeps ==
    ASSUME GateInv, UNCHANGED <<target, world, step, seen, history>>,
           outcome' \in {outcome, "none"}, typed' \in {"no", "text", "sent"}
    PROVE  GateInv'
<1>1. GateTypeOK' /\ VerdictIsGrounded'
  BY DEF GateInv, GateTypeOK, VerdictIsGrounded
<1>2. WorldNoted'
  BY DEF GateInv, WorldNoted, Gone, Hidden, ShowsWork, LogsWork, Signalled, Screened,
         Logged, Windowed, Unfound, Moved, Codex, Claude
<1>3. ProbesOK' /\ SeenOK'
  BY DEF GateInv, ProbesOK, SeenOK, Excused, Down, Signalled, Screened, Logged, Codex, Claude
<1> QED BY <1>1, <1>2, <1>3 DEF GateInv

\* The world moves, or only the screen is written.
LEMMA WorldKeeps ==
    ASSUME GateInv, World \/ Output
    PROVE  GateInv'
<1>1. history \in Histories /\ seen \in Readings
  BY DEF GateInv, GateTypeOK, Histories, Readings
<1>2. CASE World
  <2>1. /\ UNCHANGED <<target, step, outcome, typed>> /\ world' \in Worlds
        /\ history' = Observed(world', history)
        /\ seen' = [seen EXCEPT !.moved = seen.moved \/ world'.marker # world.marker]
    BY <1>2 DEF World
  <2>2. /\ history' \in Histories
        /\ (history.gone => history'.gone) /\ (history.hidden => history'.hidden)
        /\ (history.still => history'.still) /\ (history.silent => history'.silent)
        /\ (Gone(world') => history'.gone) /\ (Hidden(world') => history'.hidden)
        /\ (~ShowsWork(world') => history'.still) /\ (~LogsWork(world') => history'.silent)
    BY <1>1, <2>1, ObservedFacts
  <2>3. /\ seen' \in Readings /\ seen'.presence = seen.presence
        /\ seen'.busy = seen.busy /\ seen'.marker = seen.marker
    BY <1>1, <2>1 DEF Readings
  <2>4. GateTypeOK'
    BY <2>1, <2>2, <2>3 DEF GateInv, GateTypeOK, Histories, Readings
  <2>5. WorldNoted'
    BY <2>1, <2>2 DEF WorldNoted, Gone, Hidden, ShowsWork, LogsWork, Signalled, Screened,
                      Logged, Windowed, Unfound, Moved, Codex, Claude
  <2>6. ProbesOK' /\ SeenOK' /\ VerdictIsGrounded'
    BY <2>1, <2>2, <2>3 DEF GateInv, ProbesOK, SeenOK, VerdictIsGrounded, Excused, Down,
                            Signalled, Screened, Logged, Codex, Claude
  <2> QED BY <2>4, <2>5, <2>6 DEF GateInv
<1>3. CASE Output
  <2>1. /\ UNCHANGED <<target, world, step, outcome, typed, history>>
        /\ seen' = [seen EXCEPT !.moved = TRUE]
    BY <1>3 DEF Output
  <2>2. /\ seen' \in Readings /\ seen'.presence = seen.presence
        /\ seen'.busy = seen.busy /\ seen'.marker = seen.marker
    BY <1>1, <2>1 DEF Readings
  <2>3. GateTypeOK'
    BY <2>1, <2>2 DEF GateInv, GateTypeOK, Readings
  <2>4. WorldNoted'
    BY <2>1 DEF GateInv, WorldNoted, Gone, Hidden, ShowsWork, LogsWork, Signalled, Screened,
                Logged, Windowed, Unfound, Moved, Codex, Claude
  <2>5. ProbesOK' /\ SeenOK' /\ VerdictIsGrounded'
    BY <2>1, <2>2 DEF GateInv, ProbesOK, SeenOK, VerdictIsGrounded, Excused, Down,
                      Signalled, Screened, Logged, Codex, Claude
  <2> QED BY <2>3, <2>4, <2>5 DEF GateInv
<1> QED BY <1>2, <1>3

\* What is not looked at has no part in the verdict.
LEMMA UnseenFacts ==
    ASSUME WorldNoted
    PROVE  /\ ~Screened => history.still
           /\ ~Logged \/ world.session # "ours" => history.silent
BY DEF WorldNoted, ShowsWork, LogsWork

\* The screen was read, or is not: the activity of Codex follows, or the verdict.
LEMMA ScreenRead ==
    ASSUME GateInv, NEW from, NEW what \in Readings, Read(from, AfterScreen, what),
           Fine \/ Blind, ~Claude, what.presence = "gone" => Down,
           what.presence # "gone" /\ what.busy # "busy" => history'.still
    PROVE  GateInv'
<1>1. step' = AfterScreen /\ seen' = what /\ UNCHANGED target
  BY DEF Read
<1>2. /\ history' \in Histories /\ history'.gone = history.gone
      /\ history'.hidden = history.hidden /\ (history.silent => history'.silent)
  BY NotesKept DEF GateInv, GateTypeOK, Histories
<1>3. CASE Codex /\ target.session
  <2>1. AfterScreen = "activity"
    BY <1>3 DEF AfterScreen
  <2>2. ProbesOK' /\ SeenOK'
    BY <1>1, <1>2, <1>3, <2>1 DEF ProbesOK, SeenOK, Down, Codex
  <2> QED BY <2>1, <2>2, ReadKeeps DEF Steps
<1>4. CASE ~(Codex /\ target.session)
  <2>1. AfterScreen = "decide"
    BY <1>4 DEF AfterScreen
  <2>2. history'.silent
    BY <1>2, <1>4, UnseenFacts DEF GateInv, Logged
  <2>3. ProbesOK' /\ SeenOK'
    BY <1>1, <1>2, <2>1, <2>2 DEF ProbesOK, SeenOK, Down, Excused
  <2> QED BY <2>1, <2>3, ReadKeeps DEF Steps
<1> QED BY <1>3, <1>4

\* From the process or the session on to the terminal.
LEMMA TerminalReached ==
    ASSUME GateInv, NEW from, Read(from, TerminalProbe, seen), Fine
    PROVE  GateInv'
<1>1. step' = TerminalProbe /\ seen' = seen /\ UNCHANGED <<target, history>>
  BY DEF Read, Fine
<1>2. seen \in Readings /\ (seen.presence = "gone" => Down)
  BY DEF GateInv, GateTypeOK, SeenOK, Readings
<1>3. CASE Claude /\ Logged
  <2>1. TerminalProbe = "log"
    BY <1>3 DEF TerminalProbe
  <2>2. ProbesOK' /\ SeenOK'
    BY <1>1, <1>2, <1>3, <2>1 DEF ProbesOK, SeenOK, Down, Claude, Logged, Codex
  <2> QED BY <1>2, <2>1, <2>2, ReadKeeps DEF Steps
<1>4. CASE Claude /\ ~Logged
  <2>1. TerminalProbe = "decide"
    BY <1>4 DEF TerminalProbe
  <2>2. Excused
    BY <1>4, UnseenFacts DEF GateInv, Excused, Screened
  <2>3. ProbesOK' /\ SeenOK'
    BY <1>1, <1>2, <2>1, <2>2 DEF ProbesOK, SeenOK, Excused, Down
  <2> QED BY <1>2, <2>1, <2>3, ReadKeeps DEF Steps
<1>5. CASE ~Claude /\ Screened
  <2>1. TerminalProbe = "screen"
    BY <1>5 DEF TerminalProbe
  <2>2. ProbesOK' /\ SeenOK'
    BY <1>1, <1>2, <1>5, <2>1 DEF ProbesOK, SeenOK, Down, Screened, Claude
  <2> QED BY <1>2, <2>1, <2>2, ReadKeeps DEF Steps
<1>6. CASE ~Claude /\ ~Screened
  <2>1. TerminalProbe = AfterScreen
    BY <1>6 DEF TerminalProbe
  <2>2. history'.still
    BY <1>1, <1>6, UnseenFacts DEF GateInv
  <2> QED BY <1>2, <1>6, <2>1, <2>2, ScreenRead
<1> QED BY <1>3, <1>4, <1>5, <1>6

\* The readings of the process and of the session's file.
LEMMA RuntimeKeeps ==
    ASSUME GateInv, ProbeProcess \/ ProbeSession
    PROVE  GateInv'
<1>1. seen \in Readings
  BY DEF GateInv, GateTypeOK, Readings
<1>2. CASE ProbeProcess
  <2>1. CASE step = "start" /\ Signalled /\ world.process = "gone" /\ Decided("offline")
    <3>1. Down
      BY <2>1 DEF GateInv, WorldNoted, Gone, Down
    <3> QED BY <2>1, <3>1, DecidedKeeps
  <2>2. CASE /\ Signalled /\ (target.session \/ Claude)
             /\ Read("start", "process", seen) /\ Fine
    <3>1. ProbesOK' /\ SeenOK'
      BY <2>2 DEF Read, Fine, ProbesOK, SeenOK, GateInv, Signalled, Codex, Claude, Down
    <3> QED BY <1>1, <2>2, <3>1, ReadKeeps DEF Steps
  <2>3. CASE Read("start", TerminalProbe, seen) /\ Fine
    BY <2>3, TerminalReached
  <2> QED BY <1>2, <2>1, <2>2, <2>3 DEF ProbeProcess
<1>3. CASE ProbeSession
  <2>1. CASE SessionGone(world) /\ Decided("offline")
    <3>1. Signalled /\ (target.session \/ Claude)
      BY <1>3 DEF ProbeSession, GateInv, ProbesOK
    <3>2. Down
      BY <2>1, <3>1 DEF SessionGone, GateInv, WorldNoted, Gone, Hidden, Down
    <3> QED BY <2>1, <3>2, DecidedKeeps
  <2>2. CASE Read("process", TerminalProbe, seen) /\ Fine
    BY <2>2, TerminalReached
  <2> QED BY <1>3, <2>1, <2>2 DEF ProbeSession
<1> QED BY <1>2, <1>3

\* The readings of the screen, and of the age of the session's file of Codex.
LEMMA ScreenKeeps ==
    ASSUME GateInv, ProbePane \/ SampleAgain \/ ProbeActivity
    PROVE  GateInv'
<1>1. /\ seen \in Readings /\ Unread \in Readings /\ history \in Histories
      /\ Unread.presence = "unknown" /\ Unread.busy = "unknown" /\ Unread.marker = FALSE
  BY DEF GateInv, GateTypeOK, Readings, Unread, Histories
<1>2. world.marker \in BOOLEAN
  BY DEF GateInv, GateTypeOK, Worlds
<1>3. Blind => history'.still
  BY <1>1, NotesKept
<1>4. CASE ProbePane
  <2> DEFINE gone == [Unread EXCEPT !.presence = "gone"]
             sample == [Unread EXCEPT !.presence = "available", !.marker = world.marker]
             there == [Unread EXCEPT !.presence = "available"]
  <2>1. step = "screen" /\ Screened /\ ~Claude
    BY <1>4 DEF ProbePane, Read, GateInv, ProbesOK, Screened
  <2>2. /\ gone \in Readings /\ gone.presence = "gone"
        /\ sample \in Readings /\ sample.presence = "available" /\ sample.marker = world.marker
        /\ there \in Readings
        /\ there.presence = "available"
    BY <1>1, <1>2 DEF Readings
  <2> HIDE DEF gone, sample, there
  <2>3. CASE world.pane = "gone" /\ Read("screen", AfterScreen, gone) /\ Fine
    <3>1. Down
      BY <2>1, <2>3 DEF GateInv, WorldNoted, Gone, Down
    <3> QED BY <2>1, <2>2, <2>3, <3>1, ScreenRead
  <2>4. CASE Read("screen", "sampled", sample) /\ Fine
    <3>1. ~world.marker => history.still
      BY <2>1 DEF GateInv, WorldNoted, ShowsWork
    <3>2. ProbesOK' /\ SeenOK'
      BY <2>1, <2>2, <2>4, <3>1
         DEF Read, Fine, ProbesOK, SeenOK, GateInv, Screened, Claude
    <3> QED BY <2>2, <2>4, <3>2, ReadKeeps DEF Steps
  <2>5. CASE Read("screen", AfterScreen, Unread) /\ Blind
    BY <1>1, <1>3, <2>1, <2>5, ScreenRead
  <2>6. CASE Read("screen", AfterScreen, there) /\ Blind
    BY <1>3, <2>1, <2>2, <2>6, ScreenRead
  <2> QED BY <1>4, <2>3, <2>4, <2>5, <2>6 DEF ProbePane, gone, sample, there
<1>5. CASE SampleAgain
  <2>1. step = "sampled" /\ Screened /\ ~Claude
    BY <1>5 DEF SampleAgain, Read, GateInv, ProbesOK, Screened
  <2>2. seen.presence = "gone" => Down
    BY DEF GateInv, SeenOK
  <2>3. ASSUME NEW busy \in {"busy", "unknown"}, Read("sampled", AfterScreen, [seen EXCEPT !.busy = busy]),
               Fine \/ Blind, busy # "busy" => history'.still
        PROVE  GateInv'
    <3> DEFINE what == [seen EXCEPT !.busy = busy]
    <3>1. what \in Readings /\ what.busy = busy /\ what.presence = seen.presence
      BY <1>1 DEF Readings
    <3>2. Read("sampled", AfterScreen, what)
      BY <2>3
    <3> HIDE DEF what
    <3> QED BY <2>1, <2>2, <2>3, <3>1, <3>2, ScreenRead
  <2>4. ASSUME NEW marker \in Markers, NEW typing \in Typing,
               Read("sampled", AfterScreen,
                    [seen EXCEPT !.busy = IF SampleBusy(marker) \/ typing THEN "busy"
                                          ELSE "unknown"]),
               Fine
        PROVE  GateInv'
    <3> DEFINE now == IF SampleBusy(marker) \/ typing THEN "busy" ELSE "unknown"
    <3>1. now \in {"busy", "unknown"} /\ (now # "busy" => ~marker)
      BY DEF SampleBusy
    <3>2. ~marker => history.still
      <4>1. CASE marker = seen.marker
        BY <2>1, <4>1 DEF GateInv, SeenOK
      <4>2. CASE marker = world.marker
        BY <2>1, <4>2 DEF GateInv, WorldNoted, ShowsWork
      <4> QED BY <4>1, <4>2 DEF Markers
    <3>3. now # "busy" => history'.still
      BY <2>4, <3>1, <3>2 DEF Fine
    <3>4. Read("sampled", AfterScreen, [seen EXCEPT !.busy = now])
      BY <2>4
    <3> HIDE DEF now
    <3> QED BY <2>3, <2>4, <3>1, <3>3, <3>4
  <2>5. CASE /\ \/ Read("sampled", AfterScreen, [seen EXCEPT !.busy = "unknown"])
                \/ Read("sampled", AfterScreen, [seen EXCEPT !.busy = "busy"])
             /\ Blind
    BY <1>3, <2>3, <2>5
  <2> QED BY <1>5, <2>4, <2>5 DEF SampleAgain
<1>6. CASE ProbeActivity
  <2> DEFINE now == CASE world.age = "recent" -> "busy" [] world.age = "lately" -> "idle"
                      [] OTHER -> seen.busy
             what == [seen EXCEPT !.busy = now]
  <2>1. step = "activity" /\ Codex /\ target.session
    BY <1>6 DEF ProbeActivity, Read, GateInv, ProbesOK
  <2>2. CASE Read("activity", "decide", what) /\ world.session = "ours" /\ Fine
    <3>1. now \in {"busy", "idle", "unknown"}
      BY <1>1 DEF Readings
    <3>2. now # "busy" /\ now # "idle" => seen.busy # "busy"
      OBVIOUS
    <3>3. now # "busy" /\ now # "idle" => world.age \notin {"recent", "lately"}
      OBVIOUS
    <3>4. now # "busy" /\ now # "idle" => history.silent
      BY <2>1, <3>3 DEF GateInv, WorldNoted, LogsWork
    <3> HIDE DEF now
    <3>5. what \in Readings /\ what.presence = seen.presence /\ what.busy = now
      BY <1>1, <3>1 DEF Readings
    <3> HIDE DEF what
    <3>6. ProbesOK' /\ SeenOK'
      BY <2>1, <2>2, <3>2, <3>4, <3>5
         DEF Read, Fine, GateInv, ProbesOK, SeenOK, Excused, Down, Codex
    <3> QED BY <2>2, <3>5, <3>6, ReadKeeps DEF Steps
  <2>3. CASE /\ Read("activity", "decide", seen) /\ Fine
             /\ seen.busy = "busy" \/ seen.presence = "gone" \/ world.session # "ours"
    <3>1. ProbesOK' /\ SeenOK'
      BY <2>1, <2>3, UnseenFacts
         DEF Read, Fine, GateInv, ProbesOK, SeenOK, Excused, Down
    <3> QED BY <1>1, <2>3, <3>1, ReadKeeps DEF Steps
  <2>4. CASE Read("activity", "decide", seen) /\ Deaf
    <3>1. /\ history'.gone = history.gone /\ history'.hidden = history.hidden
          /\ (history.still => history'.still) /\ history'.silent
      BY <1>1, <2>4, NotesKept
    <3>2. ProbesOK' /\ SeenOK'
      BY <2>1, <2>4, <3>1 DEF Read, GateInv, ProbesOK, SeenOK, Excused, Down
    <3> QED BY <1>1, <2>4, <3>2, ReadKeeps DEF Steps
  <2> QED BY <1>6, <2>2, <2>3, <2>4 DEF ProbeActivity
<1> QED BY <1>4, <1>5, <1>6

\* The readings of Claude's log and of its session of iTerm2.
LEMMA LogKeeps ==
    ASSUME GateInv, ProbeLog \/ ProbeLogAgain \/ ProbePresence
    PROVE  GateInv'
<1>1. /\ seen \in Readings /\ Unread \in Readings /\ history \in Histories
      /\ Unread.presence = "unknown" /\ Unread.busy = "unknown" /\ Unread.marker = FALSE
  BY DEF GateInv, GateTypeOK, Readings, Unread, Histories
<1>2. step \in {"log", "logged", "presence"} /\ Claude /\ Logged /\ ~Codex
  BY DEF ProbeLog, ProbeLogAgain, ProbePresence, Read, GateInv, ProbesOK, Claude, Codex
<1>3. Signalled /\ target.session
  BY <1>2 DEF Logged, Signalled
<1>4. history.still
  BY <1>2, UnseenFacts DEF GateInv, Screened
<1>5. Deaf => /\ history'.gone = history.gone /\ history'.hidden = history.hidden
              /\ history'.still /\ history'.silent
  BY <1>1, <1>4, NotesKept
<1>6. CASE ProbeLog
  <2> DEFINE gone == [Unread EXCEPT !.presence = "gone"]
             busy == [Unread EXCEPT !.busy = "busy"]
  <2>1. gone \in Readings /\ busy \in Readings /\ gone.presence = "gone" /\ busy.busy = "busy"
        /\ busy.presence = "unknown"
    BY <1>1 DEF Readings
  <2> HIDE DEF gone, busy
  <2>2. CASE SessionGone(world) /\ Read("log", "decide", gone) /\ Fine
    <3>1. Down
      BY <1>3, <2>2 DEF SessionGone, GateInv, WorldNoted, Gone, Hidden, Down
    <3>2. ProbesOK' /\ SeenOK'
      BY <2>1, <2>2, <3>1 DEF Read, Fine, ProbesOK, SeenOK, Down
    <3> QED BY <2>1, <2>2, <3>2, ReadKeeps DEF Steps
  <2>3. CASE Read("log", "presence", busy) /\ Fine
    <3>1. ProbesOK' /\ SeenOK'
      BY <1>2, <2>1, <2>3 DEF Read, Fine, ProbesOK, SeenOK, Claude, Logged, Codex
    <3> QED BY <2>1, <2>3, <3>1, ReadKeeps DEF Steps
  <2>4. CASE world.age # "recent" /\ Read("log", "logged", Unread) /\ Fine
    <3>1. history.silent
      BY <1>2, <2>4 DEF GateInv, WorldNoted, LogsWork
    <3>2. ProbesOK' /\ SeenOK'
      BY <1>1, <1>2, <2>4, <3>1 DEF Read, Fine, ProbesOK, SeenOK, Claude, Logged, Codex
    <3> QED BY <1>1, <2>4, <3>2, ReadKeeps DEF Steps
  <2>5. ASSUME NEW to \in {"presence", "decide"}, Read("log", to, Unread), Deaf
        PROVE  GateInv'
    <3>1. ProbesOK' /\ SeenOK'
      BY <1>1, <1>2, <1>5, <2>5 DEF Read, ProbesOK, SeenOK, Excused, Claude, Logged, Codex
    <3> QED BY <1>1, <2>5, <3>1, ReadKeeps DEF Steps
  <2> QED BY <1>6, <2>2, <2>3, <2>4, <2>5 DEF ProbeLog, gone, busy
<1>7. CASE ProbeLogAgain
  <2> DEFINE now == CASE world.age = "recent" -> "busy" [] world.age = "lately" -> "idle"
                      [] OTHER -> "unknown"
             what == [seen EXCEPT !.busy = now]
  <2>1. step = "logged" /\ history.silent /\ seen.presence # "gone"
    BY <1>7 DEF ProbeLogAgain, Read, GateInv, SeenOK
  <2>2. CASE Read("logged", "presence", what) /\ Fine
    <3>1. now \in {"busy", "idle", "unknown"}
      OBVIOUS
    <3> HIDE DEF now
    <3>2. what \in Readings /\ what.presence = seen.presence
      BY <1>1, <3>1 DEF Readings
    <3> HIDE DEF what
    <3>3. ProbesOK' /\ SeenOK'
      BY <1>2, <1>4, <2>1, <2>2, <3>2
         DEF Read, Fine, ProbesOK, SeenOK, Excused, Claude, Logged, Codex
    <3> QED BY <2>2, <3>2, <3>3, ReadKeeps DEF Steps
  <2>3. CASE Read("logged", "presence", seen) /\ Deaf
    <3>1. ProbesOK' /\ SeenOK'
      BY <1>2, <1>5, <2>1, <2>3 DEF Read, ProbesOK, SeenOK, Excused, Claude, Logged, Codex
    <3> QED BY <1>1, <2>3, <3>1, ReadKeeps DEF Steps
  <2> QED BY <1>7, <2>2, <2>3 DEF ProbeLogAgain
<1>8. CASE ProbePresence
  <2> DEFINE now == IF Windowed /\ world.pane = "gone" THEN "gone" ELSE "available"
             what == [seen EXCEPT !.presence = now]
             unknown == [seen EXCEPT !.presence = "unknown"]
  <2>1. step = "presence"
    BY <1>8 DEF ProbePresence, Read
  <2>2. seen.busy # "busy" => Excused
    BY <2>1 DEF GateInv, SeenOK
  <2>3. CASE Read("presence", "decide", what) /\ Fine
    <3>1. now \in {"gone", "available"} /\ (now = "gone" => Down)
      BY DEF GateInv, WorldNoted, Gone, Down
    <3> HIDE DEF now
    <3>2. what \in Readings /\ what.presence = now /\ what.busy = seen.busy
      BY <1>1, <3>1 DEF Readings
    <3> HIDE DEF what
    <3>3. ProbesOK' /\ SeenOK'
      BY <2>2, <2>3, <3>1, <3>2 DEF Read, Fine, ProbesOK, SeenOK, Excused, Down
    <3> QED BY <2>3, <3>2, <3>3, ReadKeeps DEF Steps
  <2>4. CASE Read("presence", "decide", unknown) /\ Fine
    <3>1. unknown \in Readings /\ unknown.presence = "unknown" /\ unknown.busy = seen.busy
      BY <1>1 DEF Readings
    <3> HIDE DEF unknown
    <3>2. ProbesOK' /\ SeenOK'
      BY <2>2, <2>4, <3>1 DEF Read, Fine, ProbesOK, SeenOK, Excused
    <3> QED BY <2>4, <3>1, <3>2, ReadKeeps DEF Steps
  <2> QED BY <1>8, <2>3, <2>4 DEF ProbePresence
<1> QED BY <1>6, <1>7, <1>8

\* The rest: the verdict, and the typing that follows it.
LEMMA DecideKeeps ==
    ASSUME GateInv, Decide \/ SendText \/ SendReturn
    PROVE  GateInv'
<1>1. CASE Decide
  <2> DEFINE what == CASE seen.presence = "gone" -> "offline"
                       [] seen.presence # "gone" /\ seen.busy = "busy" -> "defer"
                       [] seen.presence # "gone" /\ seen.busy = "idle" /\ Codex -> "defer"
                       [] OTHER -> "inject"
  <2>1. step = "decide" /\ Decided(what)
    BY <1>1 DEF Decide
  <2>2. what \in {"inject", "defer", "offline"}
    OBVIOUS
  <2>3. what = "offline" => seen.presence = "gone"
    OBVIOUS
  <2>4. what = "inject" => /\ seen.presence # "gone" /\ seen.busy # "busy"
                           /\ ~(seen.busy = "idle" /\ Codex)
    OBVIOUS
  <2> HIDE DEF what
  <2>5. (what = "offline" => Down) /\ (what = "inject" => Excused)
    BY <2>1, <2>3, <2>4 DEF GateInv, SeenOK
  <2> QED BY <2>1, <2>2, <2>5, DecidedKeeps
<1>2. CASE SendText \/ SendReturn
  <2>1. /\ UNCHANGED <<target, world, step, seen, history>>
        /\ outcome' \in {outcome, "none"} /\ typed' \in {"no", "text", "sent"}
    BY <1>2 DEF SendText, SendReturn
  <2> QED BY <2>1, TypingKeeps
<1> QED BY <1>1, <1>2

\* A target is taken for gone only if at some instant of the evaluation what its row names was
\* gone, or its session could not be read; and a prompt is typed only if at some instant the
\* agent showed no work on the screen, and at some instant none in the log, or could not be
\* seen there: whatever the terminal, the process and the session do between the probes, and
\* for any kinds of target.
THEOREM VerdictsAreGrounded == GateSpec => []GateIsSound
<1>1. GateInit => GateInv
  BY GateInitOK
<1>2. GateInv /\ [GateNext]_gateVars => GateInv'
  <2> SUFFICES ASSUME GateInv, [GateNext]_gateVars PROVE GateInv'
    OBVIOUS
  <2>1. CASE UNCHANGED gateVars
    BY <2>1, TypingKeeps DEF gateVars, GateInv, GateTypeOK
  <2> QED BY <2>1, WorldKeeps, RuntimeKeeps, ScreenKeeps, LogKeeps, DecideKeeps DEF GateNext
<1>3. GateInv => GateIsSound
  BY DEF GateInv, GateIsSound
<1> QED BY <1>1, <1>2, <1>3, PTL DEF GateSpec

-----------------------------------------------------------------------------
(* The routes of replies *)

\* A message that names a route was passed on with it.
PassedOK == \A m \in Messages : Named[m] # Unset /\ passed[m] # Unset => passed[m] = Named[m]

\* A message that has not come yet was not passed on.
FreshOK == \A m \in Messages : forward[m] = Fresh => passed[m] = Unset

\* The row of a route of one message points at the chat of the message.
RoutesOK ==
    \A m \in Messages : ~Shared(m) /\ route[Named[m]] # Unset => route[Named[m]].chat = ChatOf[m]

\* A reply to such a message goes to its chat.
ToItsChat(x) == \A m \in Messages : x.to = m /\ ~Shared(m) => x.chat = ChatOf[m]
RepliesOK == \A x \in reply \cup taken : ToItsChat(x)

OperatorInv == OperatorTypeOK /\ PassedOK /\ FreshOK /\ RoutesOK /\ RepliesOK

LEMMA OperatorInitOK == OperatorInit => OperatorInv
<1> SUFFICES ASSUME OperatorInit PROVE OperatorInv
  OBVIOUS
<1>1. OperatorTypeOK
  BY DEF OperatorInit, OperatorTypeOK, Fresh
<1>2. RoutesOK
  BY OperatorAssumption DEF OperatorInit, RoutesOK, Shared
<1> QED BY <1>1, <1>2 DEF OperatorInit, OperatorInv, PassedOK, FreshOK, RepliesOK

\* Once another message came by its route, a message's route is shared for ever.
LEMMA SharedStays ==
    ASSUME \A k \in Messages : passed[k] # Unset => passed'[k] = passed[k]
    PROVE  \A m \in Messages : Shared(m) => Shared(m)'
BY DEF Shared

\* A step that leaves the routes and what was passed alone keeps what is known of them, and
\* need only see to the replies it adds.
LEMMA RoutesKept ==
    ASSUME OperatorInv, UNCHANGED <<route, passed>>, OperatorTypeOK',
           \A m \in Messages : forward'[m] = Fresh => forward[m] = Fresh,
           \A x \in (reply \cup taken)' : x \in reply \cup taken \/ ToItsChat(x)
    PROVE  OperatorInv'
<1>1. \A m \in Messages : Shared(m)' <=> Shared(m)
  BY DEF Shared
<1>2. PassedOK' /\ FreshOK' /\ RoutesOK'
  BY <1>1 DEF OperatorInv, PassedOK, FreshOK, RoutesOK
<1>3. RepliesOK'
  BY <1>1 DEF OperatorInv, RepliesOK, ToItsChat
<1> QED BY <1>2, <1>3 DEF OperatorInv

\* A message comes in: its route now points at its chat, and it is the other message of
\* every message whose route that was.
LEMMA IngressKeeps ==
    ASSUME OperatorInv, NEW m \in Messages, NEW b \in Bindings, Ingress(m, b)
    PROVE  OperatorInv'
<1> DEFINE r == RouteFor(m, b)
<1>1. /\ forward[m] = Fresh /\ binding[b] # Unset
      /\ forward' = [forward EXCEPT ![m] = [at |-> "posted", by |-> b]]
      /\ passed' = [passed EXCEPT ![m] = r]
      /\ UNCHANGED <<binding, present, reply, taken, record, binds, replies>>
  BY DEF Ingress
<1>2. binding[b] \in BindingRows
  BY <1>1 DEF OperatorInv, OperatorTypeOK
<1>3. r \in Routes \cup {Unset}
  BY <1>2, OperatorAssumption DEF RouteFor, BindingRows
<1>4. \/ r = Unset /\ route' = route
      \/ /\ r # Unset
         /\ \E s \in Sources \cup {Unset} : route' = [route EXCEPT ![r] = RouteRow(m, b, s)]
  BY DEF Ingress
<1>5. \A s \in Sources \cup {Unset} : RouteRow(m, b, s) \in RouteRows
                                      /\ RouteRow(m, b, s).chat = ChatOf[m]
  BY <1>2 DEF RouteRow, RouteRows, BindingRows, Chats
<1>6. passed[m] = Unset /\ passed'[m] = r
  BY <1>1 DEF OperatorInv, FreshOK, OperatorTypeOK
<1>7. Named[m] # Unset => r = Named[m]
  BY DEF RouteFor
<1> HIDE DEF r
<1>8. OperatorTypeOK'
  <2>1. route' \in [Routes -> RouteRows \cup {Unset}]
    BY <1>3, <1>4, <1>5 DEF OperatorInv, OperatorTypeOK
  <2>2. passed' \in [Messages -> Routes \cup {Unset}]
    BY <1>1, <1>3 DEF OperatorInv, OperatorTypeOK
  <2>3. forward' \in [Messages -> [at : {"new", "posted", "accepted", "refused"},
                                   by : Bindings \cup {Unset}]]
    BY <1>1 DEF OperatorInv, OperatorTypeOK
  <2> QED BY <1>1, <2>1, <2>2, <2>3 DEF OperatorInv, OperatorTypeOK
<1>9. \A k \in Messages : k # m => passed'[k] = passed[k] /\ forward'[k] = forward[k]
  BY <1>1 DEF OperatorInv, OperatorTypeOK
<1>10. \A k \in Messages : Shared(k) => Shared(k)'
  BY <1>6, <1>9, SharedStays
<1>11. PassedOK'
  BY <1>6, <1>7, <1>9 DEF OperatorInv, PassedOK
<1>12. FreshOK'
  <2>1. forward'[m] # Fresh
    BY <1>1 DEF OperatorInv, OperatorTypeOK, Fresh
  <2> QED BY <1>9, <2>1 DEF OperatorInv, FreshOK
<1>13. RepliesOK'
  BY <1>1, <1>10 DEF OperatorInv, RepliesOK, ToItsChat
<1>14. RoutesOK'
  <2> SUFFICES ASSUME NEW k \in Messages, ~Shared(k)', route'[Named[k]] # Unset
               PROVE  route'[Named[k]].chat = ChatOf[k]
    BY DEF RoutesOK
  <2>1. ~Shared(k) /\ Named[k] # Unset /\ Named[k] \in Routes
    BY <1>10, OperatorAssumption DEF Shared
  <2>2. CASE k = m
    <3>1. r = Named[m] /\ r # Unset
      BY <1>7, <2>1, <2>2
    <3> QED BY <1>4, <1>5, <2>1, <2>2, <3>1 DEF OperatorInv, OperatorTypeOK
  <2>3. CASE k # m
    <3>1. r # Named[k]
      BY <1>6, <2>3 DEF Shared
    <3>2. route'[Named[k]] = route[Named[k]]
      BY <1>4, <2>1, <3>1 DEF OperatorInv, OperatorTypeOK
    <3> QED BY <2>1, <3>2 DEF OperatorInv, RoutesOK
  <2> QED BY <2>2, <2>3
<1> QED BY <1>8, <1>11, <1>12, <1>13, <1>14 DEF OperatorInv

\* A delivery is begun to a chat.
LEMMA SendingIsTyped ==
    ASSUME OperatorTypeOK, NEW to \in Messages \cup {Unset}, NEW chat \in Chats,
           Sending(to, chat), UNCHANGED <<binding, route, present, forward, passed, taken,
                                          record, binds>>
    PROVE  /\ OperatorTypeOK'
           /\ \A x \in reply' : x \in reply \/ (x.to = to /\ x.chat = chat)
<1>1. replies \in Nat
  BY DEF OperatorTypeOK
<1>2. /\ replies' = replies + 1
      /\ reply' = reply \cup {[n |-> replies, to |-> to, chat |-> chat]}
  BY DEF Sending
<1>3. replies' \in Nat
  BY <1>1, <1>2
<1>4. reply' \subseteq [n : Nat, to : Messages \cup {Unset}, chat : Chats]
  BY <1>1, <1>2 DEF OperatorTypeOK
<1> QED BY <1>2, <1>3, <1>4 DEF OperatorTypeOK

LEMMA OperatorStepOK == OperatorInv /\ [OperatorNext]_operatorVars => OperatorInv'
<1> SUFFICES ASSUME OperatorInv, [OperatorNext]_operatorVars PROVE OperatorInv'
  OBVIOUS
<1>1. ASSUME NEW b \in Bindings, Bind(b) PROVE OperatorInv'
  <2>1. PICK a \in Agents, r \in Routes \cup {Unset} :
            binding' = [binding EXCEPT ![b] = BindingRow(a, r)]
    BY <1>1 DEF Bind
  <2>2. BindingRow(a, r) \in BindingRows
    BY DEF BindingRow, BindingRows
  <2>3. OperatorTypeOK'
    BY <1>1, <2>1, <2>2 DEF Bind, OperatorInv, OperatorTypeOK
  <2> QED BY <1>1, <2>3, RoutesKept DEF Bind
<1>2. ASSUME NEW m \in Messages, Answered(m) PROVE OperatorInv'
  <2>1. PICK at \in {"accepted", "refused"} : forward' = [forward EXCEPT ![m].at = at]
    BY <1>2 DEF Answered
  <2>2. forward[m] \in [at : {"new", "posted", "accepted", "refused"},
                        by : Bindings \cup {Unset}]
    BY DEF OperatorInv, OperatorTypeOK
  <2>3. forward' = [forward EXCEPT ![m] = [forward[m] EXCEPT !.at = at]]
    BY <2>1
  <2>4. [forward[m] EXCEPT !.at = at] \in [at : {"new", "posted", "accepted", "refused"},
                                           by : Bindings \cup {Unset}]
        /\ [forward[m] EXCEPT !.at = at].at = at
    BY <2>2
  <2>5. OperatorTypeOK'
    BY <1>2, <2>3, <2>4 DEF Answered, OperatorInv, OperatorTypeOK
  <2>6. \A k \in Messages : forward'[k] = Fresh => forward[k] = Fresh
    BY <2>3, <2>4 DEF OperatorInv, OperatorTypeOK, Fresh
  <2> QED BY <1>2, <2>5, <2>6, RoutesKept DEF Answered
<1>3. ASSUME NEW s \in Sources, DropSource(s) PROVE OperatorInv'
  <2>1. OperatorTypeOK'
    BY <1>3 DEF DropSource, OperatorInv, OperatorTypeOK
  <2> QED BY <1>3, <2>1, RoutesKept DEF DropSource
<1>4. ASSUME NEW m \in Messages, Reply(m) PROVE OperatorInv'
  <2> DEFINE named == route[passed[m]]
  <2>1. /\ passed[m] # Unset /\ named # Unset /\ Sending(m, named.chat)
        /\ UNCHANGED <<binding, route, present, forward, passed, taken, record, binds>>
    BY <1>4 DEF Reply
  <2>2. passed[m] \in Routes /\ named \in RouteRows
    BY <2>1 DEF OperatorInv, OperatorTypeOK
  <2>3. named.chat \in Chats
    BY <2>2 DEF RouteRows
  <2>4. ~Shared(m) => named.chat = ChatOf[m]
    <3>1. ~Shared(m) => Named[m] # Unset
      BY DEF Shared
    <3> QED BY <2>1, <3>1 DEF OperatorInv, PassedOK, RoutesOK
  <2> HIDE DEF named
  <2>5. OperatorTypeOK' /\ \A x \in reply' : x \in reply \/ (x.to = m /\ x.chat = named.chat)
    BY <2>1, <2>3, SendingIsTyped DEF OperatorInv
  <2>6. \A x \in (reply \cup taken)' : x \in reply \cup taken \/ ToItsChat(x)
    BY <2>1, <2>4, <2>5 DEF ToItsChat
  <2> QED BY <2>1, <2>5, <2>6, RoutesKept
<1>5. ASSUME NEW s \in Sources, NEW chat \in Chats, Invoke(chat, s) PROVE OperatorInv'
  <2>1. /\ Sending(Unset, chat)
        /\ UNCHANGED <<binding, route, present, forward, passed, taken, record, binds>>
    BY <1>5 DEF Invoke
  <2>2. OperatorTypeOK' /\ \A x \in reply' : x \in reply \/ x.to = Unset
    BY <2>1, SendingIsTyped DEF OperatorInv
  <2>3. \A x \in (reply \cup taken)' : x \in reply \cup taken \/ ToItsChat(x)
    BY <2>1, <2>2, OperatorAssumption DEF ToItsChat
  <2> QED BY <2>1, <2>2, <2>3, RoutesKept
<1>6. ASSUME NEW x \in reply, Sent(x) \/ SendFails(x) PROVE OperatorInv'
  <2> DEFINE sent == [to |-> x.to, chat |-> x.chat]
  <2>1. /\ reply' = reply \ {x} /\ taken' \in {taken, taken \cup {sent}}
        /\ record' \in {record, record \cup {x.n}}
        /\ UNCHANGED <<binding, route, present, forward, passed, binds, replies>>
    BY <1>6 DEF Sent, SendFails, Recorded
  <2>2. x \in [n : Nat, to : Messages \cup {Unset}, chat : Chats]
    BY DEF OperatorInv, OperatorTypeOK
  <2>3. sent \in [to : Messages \cup {Unset}, chat : Chats] /\ sent.to = x.to /\ sent.chat = x.chat
    BY <2>2
  <2>4. ToItsChat(sent)
    BY <2>3 DEF OperatorInv, RepliesOK, ToItsChat
  <2> HIDE DEF sent
  <2>5. OperatorTypeOK'
    BY <2>1, <2>2, <2>3 DEF OperatorInv, OperatorTypeOK
  <2>6. \A y \in (reply \cup taken)' : y \in reply \cup taken \/ ToItsChat(y)
    BY <2>1, <2>4
  <2> QED BY <2>1, <2>5, <2>6, RoutesKept
<1>7. CASE UNCHANGED operatorVars
  <2>1. OperatorTypeOK'
    BY <1>7 DEF operatorVars, OperatorInv, OperatorTypeOK
  <2> QED BY <1>7, <2>1, RoutesKept DEF operatorVars
<1> QED BY <1>1, <1>2, <1>3, <1>4, <1>5, <1>6, <1>7, IngressKeeps DEF OperatorNext

\* Replies to a message that named a route nobody else used reach its chat and no other,
\* whatever is bound anew, refused, removed, retried and delivered meanwhile.
THEOREM OwnRoutesAreKept == OperatorSpec => []RoutesAreSound
<1>1. OperatorInv => RoutesAreSound
  BY DEF OperatorInv, RoutesAreSound, OwnRouteIsKept, RepliesOK, ToItsChat, Replied
<1> QED BY <1>1, OperatorInitOK, OperatorStepOK, PTL DEF OperatorSpec

-----------------------------------------------------------------------------
(* The store of attachments *)

\* The operations of an item are about its attachments.
ForItem(q, i) == \A n \in 1..Len(q) : ItemOf[q[n].att] = i
QueuesOK == \A i \in Items : ForItem(queue[i], i)

\* A file that is checked again is there, and what is recorded then still fits.
Verified(i) == Hash[Running(i).att] \in objects /\ Fits(Running(i).att)
PhasesOK ==
    \A i \in Items :
        /\ phase[i] # "idle" => queue[i] # <<>>
        /\ phase[i] = "verifying" => Verified(i)

AttachmentInv == StorageIsSound /\ QueuesOK /\ PhasesOK

\* The rows of a message that count for its limit.
Available(r, i) == {a \in Attachments : ItemOf[a] = i /\ r[a].status = "available"}

LEMMA NoRowIsRow == NoRow \in Rows /\ NoRow.status \notin Stored
BY DEF NoRow, Rows, Stored

\* The first operation of a queue, and the rest.
LEMMA RunningFacts ==
    ASSUME AttachmentInv, NEW i \in Items, queue[i] # <<>>
    PROVE  /\ Running(i) \in Operations /\ Running(i).att \in Attachments
           /\ ItemOf[Running(i).att] = i
           /\ Tail(queue[i]) \in Seq(Operations) /\ ForItem(Tail(queue[i]), i)
<1>1. queue[i] \in Seq(Operations)
  BY DEF AttachmentInv, StorageIsSound, AttachmentsTypeOK
<1>2. Len(queue[i]) \in Nat /\ 1 \in 1..Len(queue[i])
  BY <1>1, EmptySeq, LenProperties
<1>3. queue[i][1] \in Operations /\ Head(queue[i]) = queue[i][1]
  BY <1>1, <1>2, ElementOfSeq, HeadTailProperties
<1>4. ItemOf[queue[i][1].att] = i
  BY <1>2 DEF AttachmentInv, QueuesOK, ForItem
<1>5. /\ Tail(queue[i]) \in Seq(Operations) /\ Len(Tail(queue[i])) = Len(queue[i]) - 1
      /\ \A n \in 1..Len(Tail(queue[i])) : Tail(queue[i])[n] = queue[i][n + 1]
  BY <1>1, HeadTailProperties
<1>6. ForItem(Tail(queue[i]), i)
  <2> SUFFICES ASSUME NEW n \in 1..Len(Tail(queue[i]))
               PROVE  ItemOf[Tail(queue[i])[n].att] = i
    BY DEF ForItem
  <2>1. n + 1 \in 1..Len(queue[i])
    BY <1>2, <1>5
  <2> QED BY <1>5, <2>1 DEF AttachmentInv, QueuesOK, ForItem
<1>7. Running(i) \in Operations /\ Running(i).att \in Attachments
  BY <1>3 DEF Running, Operations
<1> QED BY <1>3, <1>4, <1>5, <1>6, <1>7 DEF Running

\* What fits goes on to fit when siblings are given up.
LEMMA FitsStays ==
    ASSUME NEW a \in Attachments, Fits(a),
           \A b \in Attachments \ {a} :
               ItemOf[b] = ItemOf[a] /\ row'[b].status = "available" => row[b].status = "available"
    PROVE  Fits(a)'
<1> DEFINE before == StoredSiblings(a)
           after == StoredSiblings(a)'
<1>1. after \subseteq before /\ before \subseteq Attachments
  BY DEF StoredSiblings
<1>2. IsFiniteSet(before) /\ IsFiniteSet(after)
  BY <1>1, FS_Subset, AttachmentAssumption
<1>3. /\ Cardinality(after) <= Cardinality(before)
      /\ Cardinality(before) \in Nat /\ Cardinality(after) \in Nat
  BY <1>1, <1>2, FS_Subset, FS_CardinalityType
<1>4. Cardinality(before) + 1 <= PerMessage
  BY DEF Fits
<1> HIDE DEF before, after
<1>5. Cardinality(after) + 1 <= PerMessage
  BY <1>3, <1>4, AttachmentAssumption
<1> QED BY <1>5 DEF Fits, after

\* Giving up rows keeps the limits of the messages.
LEMMA LimitStays ==
    ASSUME MessageWithinLimit, NEW i \in Items,
           \A a \in Attachments : ItemOf[a] = i /\ row'[a].status = "available"
                                      => row[a].status = "available"
    PROVE  Cardinality(Available(row', i)) <= PerMessage
<1> DEFINE before == Available(row, i)
           after == Available(row', i)
<1>1. after \subseteq before /\ before \subseteq Attachments
  BY DEF Available
<1>2. IsFiniteSet(before) /\ IsFiniteSet(after)
  BY <1>1, FS_Subset, AttachmentAssumption
<1>3. /\ Cardinality(after) <= Cardinality(before)
      /\ Cardinality(before) \in Nat /\ Cardinality(after) \in Nat
  BY <1>1, <1>2, FS_Subset, FS_CardinalityType
<1>4. Cardinality(before) <= PerMessage
  BY DEF MessageWithinLimit, Available
<1> HIDE DEF before, after
<1> QED BY <1>3, <1>4, AttachmentAssumption DEF after

\* So does recording what fits.
LEMMA LimitOfRecorded ==
    ASSUME NEW a \in Attachments, Fits(a),
           \A b \in Attachments \ {a} : row'[b] = row[b]
    PROVE  Cardinality(Available(row', ItemOf[a])) <= PerMessage
<1> DEFINE others == StoredSiblings(a)
           all == Available(row', ItemOf[a])
<1>1. others \subseteq Attachments /\ a \notin others /\ all \subseteq others \cup {a}
  BY DEF Available, StoredSiblings
<1>2. IsFiniteSet(others)
  BY <1>1, FS_Subset, AttachmentAssumption
<1>3. /\ IsFiniteSet(others \cup {a}) /\ Cardinality(others \cup {a}) = Cardinality(others) + 1
  BY <1>1, <1>2, FS_AddElement
<1>4. /\ Cardinality(all) <= Cardinality(others \cup {a})
  BY <1>1, <1>3, FS_Subset
<1>5. Cardinality(others) + 1 <= PerMessage
  BY DEF Fits
<1>6. IsFiniteSet(all)
  BY <1>1, <1>3, FS_Subset
<1>7. Cardinality(all) \in Nat /\ Cardinality(others) \in Nat
  BY <1>2, <1>6, FS_CardinalityType
<1> HIDE DEF others, all
<1> QED BY <1>3, <1>4, <1>5, <1>7, AttachmentAssumption DEF all

\* A step that at most gives up rows, begins no check, and leaves every file that a row or
\* a check still needs.
LEMMA GivingUpKeeps ==
    ASSUME AttachmentInv, AttachmentsTypeOK', QueuesOK',
           \A i \in Items : phase'[i] # "idle" => queue'[i] # <<>>,
           \A i \in Items : phase'[i] = "verifying"
                               => phase[i] = "verifying" /\ Running(i)' = Running(i),
           \A a \in Attachments : row'[a].status \in Stored
                => row[a].status = row'[a].status /\ row[a].object = row'[a].object,
           \A o \in objects :
                \/ \E a \in Attachments : row'[a].status \in Stored /\ row'[a].object = o
                \/ \E i \in Items : phase'[i] = "verifying" /\ Hash[Running(i).att] = o
                => o \in objects'
    PROVE  AttachmentInv'
<1>1. StoredObjectsExist'
  BY DEF AttachmentInv, StorageIsSound, StoredObjectsExist
<1>2. \A a \in Attachments : row'[a].status = "available" => row[a].status = "available"
  BY DEF Stored
<1>3. MessageWithinLimit'
  <2>1. \A i \in Items : Cardinality(Available(row', i)) <= PerMessage
    BY <1>2, LimitStays DEF AttachmentInv, StorageIsSound
  <2> QED BY <2>1 DEF MessageWithinLimit, Available
<1>4. ASSUME NEW i \in Items, phase'[i] = "verifying" PROVE Verified(i)'
  <2>1. phase[i] = "verifying" /\ Running(i)' = Running(i) /\ queue[i] # <<>> /\ Verified(i)
    BY <1>4 DEF AttachmentInv, PhasesOK
  <2>2. Running(i).att \in Attachments
    BY <2>1, RunningFacts
  <2>3. Hash[Running(i).att] \in objects'
    BY <1>4, <2>1 DEF Verified
  <2>4. PICK a \in Attachments : a = Running(i).att
    BY <2>2
  <2>5. Fits(a)
    BY <2>1, <2>4 DEF Verified
  <2>6. Fits(a)'
    BY <1>2, <2>5, FitsStays
  <2>7. (Running(i).att)' = a
    BY <2>1, <2>4
  <2> QED BY <2>3, <2>4, <2>6, <2>7 DEF Verified
<1> QED BY <1>1, <1>3, <1>4 DEF AttachmentInv, StorageIsSound, PhasesOK

\* An operation is over, or an idle one is taken off its queue.
LEMMA QueueMoves ==
    ASSUME AttachmentInv, NEW i \in Items, queue[i] # <<>>,
           queue' = [queue EXCEPT ![i] = Tail(queue[i])],
           phase' = [phase EXCEPT ![i] = "idle"]
    PROVE  /\ queue' \in [Items -> Seq(Operations)]
           /\ phase' \in [Items -> {"idle", "fetching", "verifying"}]
           /\ QueuesOK'
           /\ \A j \in Items : phase'[j] # "idle" => queue'[j] # <<>>
           /\ \A j \in Items : phase'[j] # "idle"
                 => j # i /\ phase'[j] = phase[j] /\ Running(j)' = Running(j)
<1>1. queue \in [Items -> Seq(Operations)] /\ phase \in [Items -> {"idle", "fetching", "verifying"}]
  BY DEF AttachmentInv, StorageIsSound, AttachmentsTypeOK
<1>2. Tail(queue[i]) \in Seq(Operations) /\ ForItem(Tail(queue[i]), i)
  BY RunningFacts
<1>3. \A j \in Items : queue'[j] = IF j = i THEN Tail(queue[i]) ELSE queue[j]
  BY <1>1
<1>4. \A j \in Items : phase'[j] = IF j = i THEN "idle" ELSE phase[j]
  BY <1>1
<1>5. QueuesOK'
  BY <1>2, <1>3 DEF AttachmentInv, QueuesOK, ForItem
<1>6. ASSUME NEW j \in Items, phase'[j] # "idle"
      PROVE  queue'[j] # <<>> /\ j # i /\ phase'[j] = phase[j] /\ Running(j)' = Running(j)
  BY <1>3, <1>4, <1>6 DEF AttachmentInv, PhasesOK, Running
<1> QED BY <1>1, <1>2, <1>5, <1>6

\* A request comes behind what is queued.
LEMMA EnqueueKeeps ==
    ASSUME AttachmentInv, NEW a \in Attachments, NEW op \in {"get", "delete"}, Enqueue(a, op)
    PROVE  AttachmentInv'
<1> DEFINE i == ItemOf[a]
           new == [op |-> op, att |-> a]
<1>1. /\ queue' = [queue EXCEPT ![i] = Append(queue[i], new)]
      /\ UNCHANGED <<items, row, objects, phase>>
  BY DEF Enqueue
<1>2. i \in Items /\ new \in Operations /\ new.att = a
  BY AttachmentAssumption DEF Operations
<1>3. queue \in [Items -> Seq(Operations)]
  BY DEF AttachmentInv, StorageIsSound, AttachmentsTypeOK
<1> HIDE DEF new, i
<1>4. /\ Append(queue[i], new) \in Seq(Operations) /\ Append(queue[i], new) # <<>>
      /\ Len(Append(queue[i], new)) = Len(queue[i]) + 1
      /\ \A n \in 1..Len(queue[i]) : Append(queue[i], new)[n] = queue[i][n]
      /\ Append(queue[i], new)[Len(queue[i]) + 1] = new
      /\ (queue[i] # <<>> => Head(Append(queue[i], new)) = Head(queue[i]))
  BY <1>2, <1>3, AppendProperties, HeadTailProperties, EmptySeq
<1>5. Len(queue[i]) \in Nat
  BY <1>2, <1>3
<1>6. ForItem(Append(queue[i], new), i)
  <2>1. ForItem(queue[i], i) /\ ItemOf[new.att] = i
    BY <1>2 DEF AttachmentInv, QueuesOK, i
  <2> QED BY <1>4, <1>5, <2>1 DEF ForItem
<1>7. QueuesOK' /\ AttachmentsTypeOK'
  BY <1>1, <1>2, <1>3, <1>4, <1>6
     DEF AttachmentInv, StorageIsSound, AttachmentsTypeOK, QueuesOK, ForItem
<1>8. ASSUME NEW j \in Items, phase'[j] # "idle"
      PROVE  queue'[j] # <<>> /\ phase[j] # "idle" /\ Running(j)' = Running(j)
  BY <1>1, <1>2, <1>3, <1>4, <1>8 DEF AttachmentInv, PhasesOK, Running
<1> QED BY <1>1, <1>7, <1>8, GivingUpKeeps

\* A tombstone gives a row up and leaves the others.
LEMMA TombstonedFacts ==
    ASSUME NEW r \in [Attachments -> Rows], NEW atts, NEW code \in {"explicit", "collected"}
    PROVE  /\ Tombstoned(r, atts, code) \in [Attachments -> Rows]
           /\ \A a \in Attachments : Tombstoned(r, atts, code)[a] = r[a]
                                     \/ Tombstoned(r, atts, code)[a].status \notin Stored
<1> DEFINE stone == [status |-> "deleted", object |-> NoObject, due |-> FALSE, code |-> code]
<1>1. stone \in Rows /\ stone.status \notin Stored
  BY DEF Rows, Stored
<1>2. \A a \in Attachments : Tombstoned(r, atts, code)[a] =
          IF a \in atts /\ r[a].status # "deleted" THEN stone ELSE r[a]
  BY DEF Tombstoned
<1>3. Tombstoned(r, atts, code) =
          [a \in Attachments |-> IF a \in atts /\ r[a].status # "deleted" THEN stone ELSE r[a]]
  BY DEF Tombstoned
<1> HIDE DEF stone
<1> QED BY <1>1, <1>2, <1>3

\* A deletion takes the file only when no row and no check needs it.
LEMMA RunDeleteKeeps ==
    ASSUME AttachmentInv, NEW i \in Items, RunDelete(i)
    PROVE  AttachmentInv'
<1> DEFINE a == Running(i).att
<1>1. /\ queue[i] # <<>> /\ phase[i] = "idle"
      /\ queue' = [queue EXCEPT ![i] = Tail(queue[i])] /\ UNCHANGED <<items, phase>>
  BY DEF RunDelete
<1>2. phase \in [Items -> {"idle", "fetching", "verifying"}] /\ row \in [Attachments -> Rows]
      /\ objects \subseteq Objects /\ items \subseteq Items
  BY DEF AttachmentInv, StorageIsSound, AttachmentsTypeOK
<1>3. phase' = [phase EXCEPT ![i] = "idle"]
  BY <1>1, <1>2
<1>4. /\ queue' \in [Items -> Seq(Operations)] /\ QueuesOK'
      /\ \A j \in Items : phase'[j] # "idle" =>
            queue'[j] # <<>> /\ j # i /\ phase'[j] = phase[j] /\ Running(j)' = Running(j)
  BY <1>1, <1>3, QueueMoves
<1> HIDE DEF a
<1>5. \/ UNCHANGED <<row, objects>>
      \/ /\ row' = Tombstoned(row, {a}, "explicit")
         /\ objects' = objects \ {o \in {row[a].object} : Reclaimable(row', o)}
  BY DEF RunDelete, a
<1>6. /\ row' \in [Attachments -> Rows]
      /\ \A b \in Attachments : row'[b] = row[b] \/ row'[b].status \notin Stored
  BY <1>2, <1>5, TombstonedFacts
<1>7. objects' \subseteq objects
      /\ \A o \in objects \ objects' : Reclaimable(row', o)
  BY <1>5
<1>8. AttachmentsTypeOK'
  BY <1>1, <1>2, <1>4, <1>6, <1>7 DEF AttachmentsTypeOK
<1>9. ASSUME NEW o \in objects \ objects',
             \/ \E b \in Attachments : row'[b].status \in Stored /\ row'[b].object = o
             \/ \E j \in Items : phase'[j] = "verifying" /\ Hash[Running(j).att] = o
      PROVE  FALSE
  <2>1. ~Publishing(o) /\ Referring(row', o) = {}
    BY <1>7 DEF Reclaimable
  <2> QED BY <1>1, <1>9, <2>1 DEF Publishing, Referring
<1> QED BY <1>4, <1>6, <1>8, <1>9, GivingUpKeeps

\* A fetch that is refused, fails or begins writes no stored row.
LEMMA FetchKeeps ==
    ASSUME AttachmentInv, NEW i \in Items, RefuseFetch(i) \/ BeginFetch(i) \/ FetchFails(i)
    PROVE  AttachmentInv'
<1>0. /\ phase \in [Items -> {"idle", "fetching", "verifying"}] /\ row \in [Attachments -> Rows]
      /\ queue \in [Items -> Seq(Operations)]
  BY DEF AttachmentInv, StorageIsSound, AttachmentsTypeOK
<1>1. queue[i] # <<>>
  BY DEF RefuseFetch, BeginFetch, FetchFails, AttachmentInv, PhasesOK
<1> DEFINE a == Running(i).att
<1>2. a \in Attachments
  BY <1>1, RunningFacts
<1> HIDE DEF a
<1>3. UNCHANGED <<items, objects>>
  BY DEF RefuseFetch, BeginFetch, FetchFails
<1>4. /\ row' \in [Attachments -> Rows]
      /\ \A b \in Attachments : row'[b] = row[b] \/ row'[b].status \notin Stored
  <2>1. CASE UNCHANGED row
    BY <1>0, <2>1
  <2>2. CASE row' = [row EXCEPT ![a] = [NoRow EXCEPT !.status = "pending"]]
    <3>1. [NoRow EXCEPT !.status = "pending"] \in Rows
          /\ [NoRow EXCEPT !.status = "pending"].status \notin Stored
      BY NoRowIsRow DEF Rows, Stored
    <3> QED BY <1>0, <1>2, <2>2, <3>1
  <2>3. ASSUME NEW status \in {"failed", "rejected"}, row' = [row EXCEPT ![a].status = status]
        PROVE  row' \in [Attachments -> Rows]
               /\ \A b \in Attachments : row'[b] = row[b] \/ row'[b].status \notin Stored
    <3>1. row' = [row EXCEPT ![a] = [row[a] EXCEPT !.status = status]]
      BY <2>3
    <3>2. [row[a] EXCEPT !.status = status] \in Rows
          /\ [row[a] EXCEPT !.status = status].status \notin Stored
      BY <1>0, <1>2 DEF Rows, Stored
    <3> QED BY <1>0, <1>2, <3>1, <3>2
  <2> QED BY <2>1, <2>2, <2>3 DEF RefuseFetch, BeginFetch, FetchFails, a
<1>5. /\ queue' \in [Items -> Seq(Operations)] /\ QueuesOK'
      /\ phase' \in [Items -> {"idle", "fetching", "verifying"}]
      /\ \A j \in Items : phase'[j] # "idle" => queue'[j] # <<>>
      /\ \A j \in Items : phase'[j] = "verifying" =>
            phase[j] = "verifying" /\ Running(j)' = Running(j)
  <2>1. CASE Finished(i)
    BY <1>1, <2>1, QueueMoves DEF Finished
  <2>2. CASE UNCHANGED queue /\ phase' = [phase EXCEPT ![i] = "fetching"]
    BY <1>0, <1>1, <2>2 DEF AttachmentInv, QueuesOK, ForItem, PhasesOK, Running
  <2> QED BY <2>1, <2>2 DEF RefuseFetch, BeginFetch, FetchFails
<1>6. AttachmentsTypeOK'
  BY <1>3, <1>4, <1>5 DEF AttachmentInv, StorageIsSound, AttachmentsTypeOK
<1> QED BY <1>3, <1>4, <1>5, <1>6, GivingUpKeeps

\* What fits is recorded over a file that is there.
LEMMA RecordKeeps ==
    ASSUME AttachmentInv, NEW i \in Items, phase[i] # "idle", Record(i), Finished(i),
           Fits(Running(i).att), Hash[Running(i).att] \in objects',
           objects \subseteq objects', objects' \subseteq Objects, UNCHANGED items
    PROVE  AttachmentInv'
<1>0. /\ phase \in [Items -> {"idle", "fetching", "verifying"}] /\ row \in [Attachments -> Rows]
      /\ queue[i] # <<>>
  BY DEF AttachmentInv, StorageIsSound, AttachmentsTypeOK, PhasesOK
<1>1. PICK a \in Attachments : a = Running(i).att /\ ItemOf[a] = i
  BY <1>0, RunningFacts
<1>2. /\ queue' \in [Items -> Seq(Operations)] /\ QueuesOK'
      /\ phase' \in [Items -> {"idle", "fetching", "verifying"}]
      /\ \A j \in Items : phase'[j] # "idle" =>
            queue'[j] # <<>> /\ j # i /\ phase'[j] = phase[j] /\ Running(j)' = Running(j)
  BY <1>0, QueueMoves DEF Finished
<1>3. CASE UNCHANGED row
  <2>1. AttachmentsTypeOK'
    BY <1>0, <1>2, <1>3 DEF AttachmentInv, StorageIsSound, AttachmentsTypeOK
  <2> QED BY <1>2, <1>3, <2>1, GivingUpKeeps
<1>4. ASSUME NEW status \in Stored,
             row' = [row EXCEPT ![a] = [NoRow EXCEPT !.status = status, !.object = Hash[a]]]
      PROVE  AttachmentInv'
  <2> DEFINE new == [NoRow EXCEPT !.status = status, !.object = Hash[a]]
  <2>1. new \in Rows /\ new.object = Hash[a]
    BY NoRowIsRow DEF Rows, Objects
  <2> HIDE DEF new
  <2>2. /\ row'[a] = new /\ row' \in [Attachments -> Rows]
        /\ \A b \in Attachments \ {a} : row'[b] = row[b]
    BY <1>0, <1>4, <2>1 DEF new
  <2>3. AttachmentsTypeOK'
    BY <1>2, <2>2 DEF AttachmentInv, StorageIsSound, AttachmentsTypeOK
  <2>4. StoredObjectsExist'
    BY <1>1, <2>1, <2>2 DEF AttachmentInv, StorageIsSound, StoredObjectsExist
  <2>5. \A j \in Items : Cardinality(Available(row', j)) <= PerMessage
    <3> SUFFICES ASSUME NEW j \in Items PROVE Cardinality(Available(row', j)) <= PerMessage
      OBVIOUS
    <3>1. CASE j = i
      BY <1>1, <2>2, <3>1, LimitOfRecorded
    <3>2. CASE j # i
      <4>1. \A b \in Attachments : ItemOf[b] = j => row'[b] = row[b]
        BY <1>1, <2>2, <3>2
      <4> QED BY <4>1, LimitStays DEF AttachmentInv, StorageIsSound
    <3> QED BY <3>1, <3>2
  <2>6. ASSUME NEW j \in Items, phase'[j] = "verifying" PROVE Verified(j)'
    <3>1. j # i /\ phase[j] = "verifying" /\ Running(j)' = Running(j) /\ queue[j] # <<>>
          /\ Verified(j)
      BY <1>2, <2>6 DEF AttachmentInv, PhasesOK
    <3>2. PICK b \in Attachments : b = Running(j).att /\ ItemOf[b] = j
      BY <3>1, RunningFacts
    <3>3. Fits(b) /\ Hash[b] \in objects'
      BY <3>1, <3>2 DEF Verified
    <3>4. \A x \in Attachments : ItemOf[x] = ItemOf[b] => row'[x] = row[x]
      BY <1>1, <2>2, <3>1, <3>2
    <3>5. Fits(b)'
      BY <3>3, <3>4, FitsStays
    <3>6. (Running(j).att)' = b
      BY <3>1, <3>2
    <3> QED BY <3>3, <3>5, <3>6 DEF Verified
  <2>7. MessageWithinLimit'
    BY <2>5 DEF MessageWithinLimit, Available
  <2> QED BY <1>2, <2>3, <2>4, <2>6, <2>7 DEF AttachmentInv, StorageIsSound, PhasesOK
<1> QED BY <1>1, <1>3, <1>4 DEF Record

\* A file is put in place or checked again, and its row is written.
LEMMA PublishKeeps ==
    ASSUME AttachmentInv, NEW i \in Items,
           PublishNew(i) \/ VerifyExisting(i) \/ PublishExisting(i)
    PROVE  AttachmentInv'
<1>0. /\ phase \in [Items -> {"idle", "fetching", "verifying"}] /\ row \in [Attachments -> Rows]
      /\ queue \in [Items -> Seq(Operations)] /\ objects \subseteq Objects
      /\ phase[i] # "idle" /\ queue[i] # <<>>
  BY DEF PublishNew, VerifyExisting, PublishExisting, AttachmentInv, PhasesOK, StorageIsSound,
         AttachmentsTypeOK
<1>1. Hash[Running(i).att] \in Objects
  BY <1>0, RunningFacts DEF Objects
<1>2. CASE PublishNew(i)
  BY <1>0, <1>1, <1>2, RecordKeeps DEF PublishNew
<1>3. CASE PublishExisting(i)
  <2>1. Verified(i)
    BY <1>3 DEF PublishExisting, AttachmentInv, PhasesOK
  <2> QED BY <1>0, <1>3, <2>1, RecordKeeps DEF PublishExisting, Verified
<1>4. CASE VerifyExisting(i)
  <2>1. /\ phase' = [phase EXCEPT ![i] = "verifying"]
        /\ UNCHANGED <<items, row, objects, queue>>
        /\ Fits(Running(i).att) /\ Hash[Running(i).att] \in objects
    BY <1>4 DEF VerifyExisting
  <2>2. StorageIsSound' /\ QueuesOK'
    BY <1>0, <2>1 DEF AttachmentInv, StorageIsSound, AttachmentsTypeOK, StoredObjectsExist,
                      MessageWithinLimit, QueuesOK, ForItem
  <2>3. \A j \in Items : Verified(j) => Verified(j)'
    BY <2>1 DEF Verified, Fits, StoredSiblings, Running
  <2>4. Verified(i)
    BY <2>1 DEF Verified
  <2>5. PhasesOK'
    BY <1>0, <2>1, <2>3, <2>4 DEF AttachmentInv, PhasesOK
  <2> QED BY <2>2, <2>5 DEF AttachmentInv
<1> QED BY <1>2, <1>3, <1>4

\* A collection gives up rows, and files that no row and no check needs.
LEMMA CollectFacts ==
    ASSUME NEW r \in [Attachments -> Rows], Collect(r)
    PROVE  /\ row' \in [Attachments -> Rows] /\ objects' \subseteq objects
           /\ \A a \in Attachments : row'[a] = r[a] \/ row'[a].status \notin Stored
           /\ \A o \in objects \ objects' : Reclaimable(row', o)
<1>1. PICK expired :
        LET r1 == Tombstoned(r, expired, "collected")
            excess == Max({0, Cardinality(Managed(r1)) - Capacity})
        IN  \E evicted \in AtMost(Min({Batch, excess}), Managed(r1)) :
            LET r2 == Tombstoned(r1, UNION {Referring(r1, o) : o \in evicted}, "collected")
                left == objects \ {o \in evicted \cup {r[a].object : a \in expired} :
                                      Reclaimable(r2, o)}
            IN  /\ row' = r2
                /\ \E orphans \in AtMost(Batch, Orphans(r2, left)) : objects' = left \ orphans
  BY Zenon DEF Collect
<1>2. PICK evicted :
        LET r1 == Tombstoned(r, expired, "collected")
            r2 == Tombstoned(r1, UNION {Referring(r1, o) : o \in evicted}, "collected")
            left == objects \ {o \in evicted \cup {r[a].object : a \in expired} :
                                  Reclaimable(r2, o)}
        IN  /\ row' = r2
            /\ \E orphans \in AtMost(Batch, Orphans(r2, left)) : objects' = left \ orphans
  BY <1>1, Zenon
<1> DEFINE r1 == Tombstoned(r, expired, "collected")
           more == UNION {Referring(r1, o) : o \in evicted}
           r2 == Tombstoned(r1, more, "collected")
           left == objects \ {o \in evicted \cup {r[a].object : a \in expired} :
                                 Reclaimable(r2, o)}
<1>3. row' = r2 /\ \E orphans \in AtMost(Batch, Orphans(r2, left)) : objects' = left \ orphans
  BY <1>2
<1>4. PICK orphans \in AtMost(Batch, Orphans(r2, left)) : objects' = left \ orphans
  BY <1>3
<1>5. /\ r1 \in [Attachments -> Rows]
      /\ \A a \in Attachments : r1[a] = r[a] \/ r1[a].status \notin Stored
  BY TombstonedFacts
<1> HIDE DEF r1, more
<1>6. /\ r2 \in [Attachments -> Rows]
      /\ \A a \in Attachments : r2[a] = r1[a] \/ r2[a].status \notin Stored
  BY <1>5, TombstonedFacts
<1> HIDE DEF r2
<1>7. orphans \subseteq Orphans(r2, left)
  BY <1>4 DEF AtMost, kSubset
<1>8. \A o \in orphans : Reclaimable(r2, o)
  BY <1>7 DEF Orphans
<1>9. left \subseteq objects /\ \A o \in objects \ left : Reclaimable(r2, o)
  OBVIOUS
<1> HIDE DEF left
<1> QED BY <1>3, <1>4, <1>5, <1>6, <1>8, <1>9

\* A collection by itself, or of the rows of an item that goes.
LEMMA CollectKeeps ==
    ASSUME AttachmentInv, Gc \/ \E i \in Items : DropItem(i)
    PROVE  AttachmentInv'
<1>0. /\ row \in [Attachments -> Rows] /\ items \subseteq Items
  BY DEF AttachmentInv, StorageIsSound, AttachmentsTypeOK
<1>1. UNCHANGED <<queue, phase>> /\ items' \subseteq items
  BY DEF Gc, DropItem
<1>2. PICK r \in [Attachments -> Rows] :
          /\ Collect(r)
          /\ \A a \in Attachments : r[a] = row[a] \/ r[a].status \notin Stored
  <2>1. CASE Gc
    BY <1>0, <2>1 DEF Gc
  <2>2. ASSUME NEW i \in Items, DropItem(i)
        PROVE  \E r \in [Attachments -> Rows] :
                  /\ Collect(r)
                  /\ \A a \in Attachments : r[a] = row[a] \/ r[a].status \notin Stored
    <3> DEFINE r == [a \in Attachments |-> IF ItemOf[a] = i THEN NoRow ELSE row[a]]
    <3>1. /\ r \in [Attachments -> Rows]
          /\ \A a \in Attachments : r[a] = row[a] \/ r[a].status \notin Stored
      BY <1>0, NoRowIsRow
    <3>2. Collect(r)
      BY <2>2 DEF DropItem
    <3> HIDE DEF r
    <3> QED BY <3>1, <3>2
  <2> QED BY <2>1, <2>2
<1>3. /\ row' \in [Attachments -> Rows] /\ objects' \subseteq objects
      /\ \A a \in Attachments : row'[a] = r[a] \/ row'[a].status \notin Stored
      /\ \A o \in objects \ objects' : Reclaimable(row', o)
  BY <1>2, CollectFacts
<1>4. AttachmentsTypeOK' /\ QueuesOK'
  BY <1>0, <1>1, <1>3 DEF AttachmentInv, StorageIsSound, AttachmentsTypeOK, QueuesOK, ForItem
<1>5. \A i \in Items : phase'[i] # "idle" => queue'[i] # <<>> /\ phase[i] = phase'[i]
                                             /\ Running(i)' = Running(i)
  BY <1>1 DEF AttachmentInv, PhasesOK, Running
<1>6. ASSUME NEW o \in objects \ objects',
             \/ \E b \in Attachments : row'[b].status \in Stored /\ row'[b].object = o
             \/ \E j \in Items : phase'[j] = "verifying" /\ Hash[Running(j).att] = o
      PROVE  FALSE
  <2>1. ~Publishing(o) /\ Referring(row', o) = {}
    BY <1>3 DEF Reclaimable
  <2> QED BY <1>1, <1>6, <2>1 DEF Publishing, Referring
<1>7. \A a \in Attachments : row'[a].status \in Stored => row'[a] = row[a]
  BY <1>2, <1>3
<1> QED BY <1>4, <1>5, <1>6, <1>7, GivingUpKeeps

\* Retentions end, and crashes leave files and no operation.
LEMMA FaultsKeep ==
    ASSUME AttachmentInv,
           \/ \E a \in Attachments : Expire(a)
           \/ Crash \/ \E i \in Items : CrashPublishing(i)
    PROVE  AttachmentInv'
<1>0. /\ row \in [Attachments -> Rows] /\ objects \subseteq Objects
      /\ phase \in [Items -> {"idle", "fetching", "verifying"}]
  BY DEF AttachmentInv, StorageIsSound, AttachmentsTypeOK
<1>1. ASSUME NEW a \in Attachments, Expire(a) PROVE AttachmentInv'
  <2>1. /\ row' = [row EXCEPT ![a] = [row[a] EXCEPT !.due = TRUE]]
        /\ UNCHANGED <<items, objects, queue, phase>>
    BY <1>1 DEF Expire
  <2>2. /\ [row[a] EXCEPT !.due = TRUE] \in Rows
        /\ [row[a] EXCEPT !.due = TRUE].status = row[a].status
        /\ [row[a] EXCEPT !.due = TRUE].object = row[a].object
    BY <1>0 DEF Rows
  <2>3. /\ row' \in [Attachments -> Rows]
        /\ \A b \in Attachments : row'[b].status = row[b].status /\ row'[b].object = row[b].object
    BY <1>0, <2>1, <2>2
  <2>4. AttachmentsTypeOK' /\ QueuesOK'
    BY <2>1, <2>3 DEF AttachmentInv, StorageIsSound, AttachmentsTypeOK, QueuesOK, ForItem
  <2>5. \A i \in Items : phase'[i] # "idle" => queue'[i] # <<>> /\ phase[i] = phase'[i]
                                               /\ Running(i)' = Running(i)
    BY <2>1 DEF AttachmentInv, PhasesOK, Running
  <2> QED BY <2>1, <2>3, <2>4, <2>5, GivingUpKeeps
<1>2. CASE Crash \/ \E i \in Items : CrashPublishing(i)
  <2>1. /\ queue' = [i \in Items |-> <<>>] /\ phase' = [i \in Items |-> "idle"]
        /\ UNCHANGED <<items, row>>
    BY <1>2 DEF Crash, CrashPublishing, Lost
  <2>2. objects \subseteq objects' /\ objects' \subseteq Objects
    <3>1. CASE Crash
      BY <1>0, <3>1 DEF Crash
    <3>2. ASSUME NEW i \in Items, CrashPublishing(i)
          PROVE  objects \subseteq objects' /\ objects' \subseteq Objects
      <4>1. queue[i] # <<>>
        BY <3>2 DEF CrashPublishing, AttachmentInv, PhasesOK
      <4>2. Hash[Running(i).att] \in Objects
        BY <4>1, RunningFacts DEF Objects
      <4> QED BY <1>0, <3>2, <4>2 DEF CrashPublishing
    <3> QED BY <1>2, <3>1, <3>2
  <2>3. \A i \in Items : queue'[i] = <<>> /\ phase'[i] = "idle"
    BY <2>1
  <2>4. AttachmentsTypeOK'
    BY <2>1, <2>2 DEF AttachmentInv, StorageIsSound, AttachmentsTypeOK
  <2>5. QueuesOK'
    BY <2>3 DEF QueuesOK, ForItem
  <2> QED BY <2>1, <2>2, <2>3, <2>4, <2>5, GivingUpKeeps
<1> QED BY <1>1, <1>2

LEMMA AttachmentInitOK == AttachmentInit => AttachmentInv
<1> SUFFICES ASSUME AttachmentInit PROVE AttachmentInv
  OBVIOUS
<1>1. AttachmentsTypeOK
  BY NoRowIsRow DEF AttachmentInit, AttachmentsTypeOK
<1>2. StoredObjectsExist /\ \A i \in Items : Available(row, i) = {}
  BY NoRowIsRow DEF AttachmentInit, StoredObjectsExist, Available, Stored
<1>3. MessageWithinLimit
  <2>1. Cardinality({}) = 0 /\ \A i \in Items : Cardinality(Available(row, i)) = 0
    BY <1>2, FS_EmptySet
  <2> QED BY <2>1, AttachmentAssumption DEF MessageWithinLimit, Available
<1>4. QueuesOK /\ PhasesOK
  BY DEF AttachmentInit, QueuesOK, PhasesOK, ForItem
<1> QED BY <1>1, <1>2, <1>3, <1>4 DEF AttachmentInv, StorageIsSound

\* What can be read is there and the limit of every message holds: no collection, deletion,
\* expiry, removal of the message or crash takes the file of a stored row, or one that is
\* being checked to be used again, whatever rows share it.
THEOREM StorageStaysSound == AttachmentSpec => []StorageIsSound
<1>1. AttachmentInv /\ [AttachmentNext]_attachmentVars => AttachmentInv'
  <2> SUFFICES ASSUME AttachmentInv, [AttachmentNext]_attachmentVars PROVE AttachmentInv'
    OBVIOUS
  <2>1. CASE UNCHANGED attachmentVars
    BY <2>1 DEF attachmentVars, AttachmentInv, StorageIsSound, AttachmentsTypeOK,
                StoredObjectsExist, MessageWithinLimit, QueuesOK, ForItem, PhasesOK, Verified,
                Fits, StoredSiblings, Running
  <2>2. ASSUME NEW a \in Attachments, Materialize(a) \/ Delete(a) PROVE AttachmentInv'
    BY <2>2, EnqueueKeeps DEF Materialize, Delete
  <2>3. ASSUME NEW i \in Items, ItemStep(i) PROVE AttachmentInv'
    BY <2>3, RunDeleteKeeps, FetchKeeps, PublishKeeps DEF ItemStep
  <2> QED BY <2>1, <2>2, <2>3, CollectKeeps, FaultsKeep DEF AttachmentNext
<1>2. AttachmentInv => StorageIsSound
  BY DEF AttachmentInv
<1> QED BY <1>1, <1>2, AttachmentInitOK, PTL DEF AttachmentSpec


-----------------------------------------------------------------------------
(* Reading an email body *)

Page == [body : Bodies, from : Nat, to : Nat]
ReaderStates == [entry : Emails \cup {NoBody}, limit : Pages \cup {1}, from : Nat,
                 state : {"idle", "fetch", "local", "more", "done", "refused"},
                 pages : Seq(Page)]
Flights == [stage : {"parsing", "fetching"}, local : Bodies \cup {NoBody},
            cached : Bodies \cup {NoBody}]

\* Pages of one body from its beginning, without a gap.
Coherent(pages) ==
    pages # <<>> => /\ pages[1].from = 0
                    /\ \A n \in 2..Len(pages) :
                          pages[n].body = pages[1].body /\ pages[n].from = pages[n - 1].to

\* Where a reader is in its body: a waiting one is at the beginning, and one that may go on
\* is where its last page ended, which is where a character begins.
PlaceOK(x) ==
    /\ x.state \in {"idle", "fetch", "local"} => x.pages = <<>> /\ x.from = 0
    /\ x.state = "done" => x.pages # <<>> /\ Last(x.pages).to = Size[x.pages[1].body.text]
    /\ x.state = "more" => /\ x.pages # <<>> /\ x.from = Last(x.pages).to
                           /\ x.from \in Boundaries \cup {0}
                           /\ x.from <= Size[x.pages[1].body.text]

ReadersOK == \A r \in Readers : Coherent(reader[r].pages) /\ PlaceOK(reader[r])

BodyInv == BodyTypeOK /\ ReadersOK /\ NoBodyOfGoneEntry

LEMMA BodyTypes ==
    BodyTypeOK <=> /\ entries \subseteq Emails /\ cache \in [Emails -> CacheRows \cup {NoBody}]
                   /\ recent \in Seq(Emails) /\ ToSet(recent) = {e \in Emails : cache[e] # NoBody}
                   /\ flight \in [Emails \X ReadKinds -> Flights \cup {NoBody}]
                   /\ reader \in [Readers -> ReaderStates]
BY DEF BodyTypeOK, Flights, ReaderStates, Page

LEMMA IdleIs == Idle \in ReaderStates /\ Idle.state = "idle" /\ Idle.pages = <<>> /\ Idle.from = 0
<1>1. <<>> \in Seq(Page)
  BY EmptySeq
<1> QED BY <1>1 DEF Idle, ReaderStates

LEMMA BodyInitOK == BodyInit => BodyInv
<1> SUFFICES ASSUME BodyInit PROVE BodyInv
  OBVIOUS
<1>1. Idle \in ReaderStates /\ Idle.state = "idle" /\ Idle.pages = <<>> /\ Idle.from = 0
  BY IdleIs
<1>2. <<>> \in Seq(Emails) /\ ToSet(<<>>) = {}
  BY EmptySeq DEF ToSet
<1>3. ToSet(recent) = {e \in Emails : cache[e] # NoBody}
  BY <1>2 DEF BodyInit
<1>4. BodyTypeOK
  BY <1>1, <1>2, <1>3, BodyTypes DEF BodyInit
<1>5. ReadersOK
  BY <1>1 DEF BodyInit, ReadersOK, Coherent, PlaceOK
<1>6. NoBodyOfGoneEntry
  BY DEF BodyInit, NoBodyOfGoneEntry
<1> QED BY <1>4, <1>5, <1>6 DEF BodyInv

\* A page of a body ends where a character begins, or at its end, and not before it began.
LEMMA PageEndIs ==
    ASSUME NEW body \in Bodies, NEW from \in Nat, NEW limit \in Nat,
           from \in Boundaries \cup {0}, from <= Size[body.text]
    PROVE  /\ PageEnd(body, from, limit) \in Nat
           /\ PageEnd(body, from, limit) \in Boundaries \cup {0, Size[body.text]}
           /\ from <= PageEnd(body, from, limit) /\ PageEnd(body, from, limit) <= Size[body.text]
<1> DEFINE n == Size[body.text]
           Ends == {b \in Boundaries \cup {0, n} : b <= n /\ b >= from /\ b <= from + limit}
<1>1. n \in Nat /\ \A b \in Boundaries \cup {0, n} : b \in Nat
  BY BodyAssumption DEF Bodies
<1>2. Ends \in SUBSET (0..n) /\ from \in Ends
  <2> HIDE DEF n
  <2>1. from + limit >= from /\ from >= from
    OBVIOUS
  <2>2. \A b \in Ends : b \in 0..n
    BY <1>1
  <2>3. from <= n
    BY DEF n
  <2> QED BY <1>1, <2>1, <2>2, <2>3
<1>3. \E m \in Ends : \A x \in Ends : x <= m
  <2> HIDE DEF n, Ends
  <2> QED BY <1>1, <1>2, LeastAndGreatest
<1>4. PageEnd(body, from, limit) = Max(Ends)
  BY DEF PageEnd
<1>5. Max(Ends) \in Ends
  <2> HIDE DEF Ends
  <2> QED BY <1>3 DEF Max
<1> HIDE DEF n
<1>6. PageEnd(body, from, limit) \in Boundaries \cup {0, n}
      /\ PageEnd(body, from, limit) <= n /\ PageEnd(body, from, limit) >= from
  BY <1>4, <1>5
<1>7. PageEnd(body, from, limit) \in Nat
  BY <1>1, <1>6
<1> QED BY <1>6, <1>7 DEF n


\* An answer goes on where the pages before it ended.
LEMMA AnswerIs ==
    ASSUME NEW x \in ReaderStates, Coherent(x.pages), NEW body \in Bodies, NEW from \in Nat,
           from \in Boundaries \cup {0}, from <= Size[body.text],
           x.pages = <<>> => from = 0,
           x.pages # <<>> => body = x.pages[1].body /\ from = Last(x.pages).to
    PROVE  /\ Answer(x, body, from) \in ReaderStates
           /\ Coherent(Answer(x, body, from).pages) /\ PlaceOK(Answer(x, body, from))
<1> DEFINE to == PageEnd(body, from, x.limit)
           page == [body |-> body, from |-> from, to |-> to]
           state == IF to < Size[body.text] THEN "more" ELSE "done"
           ans == [x EXCEPT !.pages = Append(x.pages, page), !.from = to, !.state = state]
<1>1. x.limit \in Nat /\ x.pages \in Seq(Page) /\ Size[body.text] \in Nat
  <2>1. \A p \in Pages \cup {1} : p \in Nat
    BY BodyAssumption
  <2>2. x.limit \in Pages \cup {1} /\ x.pages \in Seq(Page)
    BY DEF ReaderStates
  <2>3. Size[body.text] \in Nat
    BY BodyAssumption DEF Bodies
  <2> QED BY <2>1, <2>2, <2>3
<1>2. /\ to \in Nat /\ to \in Boundaries \cup {0, Size[body.text]}
      /\ from <= to /\ to <= Size[body.text]
  BY <1>1, PageEndIs
<1>3. CASE TooSmall(body, from, x.limit)
  <2>1. Answer(x, body, from) = [x EXCEPT !.state = "refused"]
    BY <1>3 DEF Answer
  <2>2. /\ Answer(x, body, from) \in ReaderStates
        /\ Answer(x, body, from).state = "refused" /\ Answer(x, body, from).pages = x.pages
    BY <2>1 DEF ReaderStates
  <2> QED BY <2>2 DEF PlaceOK
<1>4. CASE ~TooSmall(body, from, x.limit)
  <2>1. Answer(x, body, from) = ans
    BY <1>4 DEF Answer
  <2> HIDE DEF to
  <2>2. page \in Page /\ page.body = body /\ page.from = from /\ page.to = to
    BY <1>2 DEF Page
  <2> HIDE DEF page
  <2>3. /\ Append(x.pages, page) \in Seq(Page) /\ Len(x.pages) \in Nat
        /\ Len(Append(x.pages, page)) = Len(x.pages) + 1
        /\ Append(x.pages, page)[Len(x.pages) + 1] = page
        /\ \A n \in 1..Len(x.pages) : Append(x.pages, page)[n] = x.pages[n]
    BY <1>1, <2>2, AppendProperties, LenProperties
  <2>4. /\ ans \in ReaderStates /\ ans.pages = Append(x.pages, page) /\ ans.from = to
        /\ ans.state = state
    BY <1>2, <2>3 DEF ReaderStates
  <2> HIDE DEF ans
  <2>5. Last(Append(x.pages, page)) = page /\ Append(x.pages, page) # <<>>
    BY <2>3 DEF Last
  <2>6. /\ Append(x.pages, page)[1].body = body /\ Append(x.pages, page)[1].from = 0
        /\ \A n \in 2..(Len(x.pages) + 1) :
              /\ Append(x.pages, page)[n].body = body
              /\ Append(x.pages, page)[n].from = Append(x.pages, page)[n - 1].to
    <3>1. CASE x.pages = <<>>
      <4>1. Len(x.pages) = 0
        BY <3>1
      <4> QED BY <2>2, <2>3, <3>1, <4>1
    <3>2. CASE x.pages # <<>>
      <4>1. Len(x.pages) # 0 /\ 1 \in 1..Len(x.pages)
        BY <1>1, <2>3, <3>2, EmptySeq
      <4>2. Append(x.pages, page)[1] = x.pages[1] /\ x.pages[1].from = 0 /\ x.pages[1].body = body
        BY <2>3, <3>2, <4>1 DEF Coherent
      <4>3. ASSUME NEW n \in 2..(Len(x.pages) + 1)
            PROVE  /\ Append(x.pages, page)[n].body = body
                   /\ Append(x.pages, page)[n].from = Append(x.pages, page)[n - 1].to
        <5>1. n - 1 \in 1..Len(x.pages) /\ Append(x.pages, page)[n - 1] = x.pages[n - 1]
          BY <2>3
        <5>2. CASE n = Len(x.pages) + 1
          <6>1. n - 1 = Len(x.pages)
            BY <2>3, <5>2
          <6> QED BY <2>2, <2>3, <3>2, <5>1, <5>2, <6>1 DEF Last
        <5>3. CASE n # Len(x.pages) + 1
          <6>1. n \in 2..Len(x.pages) /\ n \in 1..Len(x.pages)
            BY <2>3, <5>3
          <6>2. x.pages[n].body = x.pages[1].body /\ x.pages[n].from = x.pages[n - 1].to
            BY <3>2, <6>1 DEF Coherent
          <6> QED BY <2>3, <4>2, <5>1, <6>1, <6>2
        <5> QED BY <5>2, <5>3
      <4> QED BY <4>2, <4>3
    <3> QED BY <3>1, <3>2
  <2>7. Coherent(ans.pages)
    BY <2>3, <2>4, <2>6 DEF Coherent
  <2>8. PlaceOK(ans)
    <3>1. CASE to < Size[body.text]
      <4>1. state = "more" /\ to # Size[body.text]
        BY <1>1, <1>2, <3>1
      <4> HIDE DEF state
      <4> QED BY <1>2, <2>2, <2>4, <2>5, <2>6, <4>1 DEF PlaceOK
    <3>2. CASE ~(to < Size[body.text])
      <4>1. state = "done" /\ to = Size[body.text]
        BY <1>1, <1>2, <3>2
      <4> HIDE DEF state
      <4> QED BY <1>2, <2>2, <2>4, <2>5, <2>6, <4>1 DEF PlaceOK
    <3> QED BY <3>1, <3>2
  <2> QED BY <2>1, <2>4, <2>7, <2>8
<1> QED BY <1>3, <1>4

\* A fetched or parsed body is the first page of every reader that waits for it.
LEMMA LandedIs ==
    ASSUME BodyInv, NEW e \in Emails, NEW kind \in ReadKinds, NEW body \in Bodies \cup {NoBody},
           Landed(e, kind, body)
    PROVE  /\ flight' \in [Emails \X ReadKinds -> Flights \cup {NoBody}]
           /\ reader' \in [Readers -> ReaderStates] /\ ReadersOK'
<1>1. /\ flight \in [Emails \X ReadKinds -> Flights \cup {NoBody}]
      /\ reader \in [Readers -> ReaderStates]
  BY BodyTypes DEF BodyInv
<1>2. flight' \in [Emails \X ReadKinds -> Flights \cup {NoBody}]
  BY <1>1 DEF Landed
<1>3. ASSUME NEW r \in Readers
      PROVE  reader'[r] \in ReaderStates /\ Coherent(reader'[r].pages) /\ PlaceOK(reader'[r])
  <2>1. reader[r] \in ReaderStates /\ Coherent(reader[r].pages) /\ PlaceOK(reader[r])
    BY <1>1 DEF BodyInv, ReadersOK
  <2>2. CASE r \notin Waiting(e, kind)
    <3>1. reader'[r] = reader[r]
      BY <2>2 DEF Landed
    <3> QED BY <2>1, <3>1
  <2>3. CASE r \in Waiting(e, kind)
    <3>1. reader[r].pages = <<>>
      BY <2>1, <2>3 DEF Waiting, PlaceOK, ReadKinds
    <3>2. CASE body = NoBody
      <4>1. reader'[r] = [reader[r] EXCEPT !.state = "refused"]
        BY <2>3, <3>2 DEF Landed
      <4>2. /\ reader'[r] \in ReaderStates /\ reader'[r].pages = reader[r].pages
            /\ reader'[r].state = "refused"
        BY <2>1, <4>1 DEF ReaderStates
      <4> QED BY <2>1, <4>2 DEF PlaceOK
    <3>3. CASE body # NoBody
      <4>1. reader'[r] = Answer(reader[r], body, 0)
        BY <2>3, <3>3 DEF Landed
      <4>2. body \in Bodies /\ Size[body.text] \in Nat
        BY <3>3, BodyAssumption DEF Bodies
      <4>3. 0 <= Size[body.text]
        BY <4>2
      <4> QED BY <2>1, <3>1, <4>1, <4>2, <4>3, AnswerIs
    <3> QED BY <3>2, <3>3
  <2> QED BY <2>2, <2>3
<1>4. reader' \in [Readers -> ReaderStates]
  <2>1. reader' = [r \in Readers |-> reader'[r]]
    BY DEF Landed
  <2> QED BY <1>3, <2>1
<1> QED BY <1>2, <1>3, <1>4 DEF ReadersOK


-----------------------------------------------------------------------------
\* An access puts an entry last, and loses none.
LEMMA TouchedIs ==
    ASSUME NEW seq \in Seq(Emails), NEW e \in Emails
    PROVE  Touched(seq, e) \in Seq(Emails) /\ ToSet(Touched(seq, e)) = ToSet(seq) \cup {e}
<1> DEFINE others == Removed(seq, {e})
<1>1. others \in Seq(Emails) /\ ToSet(others) = ToSet(seq) \ {e}
  BY RemovedIs
<1>2. Touched(seq, e) = Append(others, e)
  BY DEF Touched
<1> HIDE DEF others
<1>3. Append(others, e) \in Seq(Emails) /\ ToSet(Append(others, e)) = ToSet(others) \cup {e}
  BY <1>1, ToSetFacts
<1> QED BY <1>1, <1>2, <1>3

\* The sum over nothing.
LEMMA NothingIsFree ==
    ASSUME NEW rows PROVE Total(rows, <<>>) = 0
<1>1. {e \in ToSet(<<>>) : rows[e] # NoBody} = {}
  BY DEF ToSet
<1>2. MapThenSumSet(LAMBDA e : Size[rows[e].body.text], {}) = 0
  BY DEF MapThenSumSet, MapThenFoldSet
<1> QED BY <1>1, <1>2 DEF Total

\* What eviction keeps is of the sequence it is given.
LEMMA KeptIs ==
    ASSUME NEW rows, NEW seq \in Seq(Emails)
    PROVE  Kept(rows, seq) \in Seq(Emails) /\ ToSet(Kept(rows, seq)) \subseteq ToSet(seq)
<1> DEFINE fitting == {n \in 0..Len(seq) : Total(rows, SubSeq(seq, n + 1, Len(seq))) <= Budget}
           m == Min(fitting)
<1>1. Len(seq) \in Nat
  BY LenProperties
<1>2. Len(seq) \in fitting
  <2>1. SubSeq(seq, Len(seq) + 1, Len(seq)) = <<>>
    BY <1>1
  <2>2. 0 <= Budget
    BY BodyAssumption
  <2>3. Total(rows, SubSeq(seq, Len(seq) + 1, Len(seq))) <= Budget
    BY <2>1, <2>2, NothingIsFree
  <2> QED BY <1>1, <2>3
<1>3. m \in 0..Len(seq)
  <2>1. fitting \in SUBSET (0..Len(seq))
    OBVIOUS
  <2> HIDE DEF fitting
  <2>2. \E x \in fitting : \A y \in fitting : x <= y
    BY <1>1, <1>2, <2>1, LeastAndGreatest
  <2> QED BY <2>1, <2>2 DEF Min
<1>4. Kept(rows, seq) = SubSeq(seq, m + 1, Len(seq))
  BY DEF Kept
<1> HIDE DEF m
<1> DEFINE k == Kept(rows, seq)
<1>5. k \in Seq(Emails) /\ \A i \in 1..Len(k) : \E j \in 1..Len(seq) : k[i] = seq[j]
  BY <1>1, <1>3, <1>4, SubSeqProperties
<1> HIDE DEF k
<1>6. ToSet(k) \subseteq ToSet(seq)
  <2>1. ToSet(k) = {k[i] : i \in 1..Len(k)} /\ ToSet(seq) = {seq[i] : i \in 1..Len(seq)}
    BY <1>5, LenProperties DEF ToSet
  <2> QED BY <1>5, <2>1
<1> QED BY <1>5, <1>6 DEF k


\* A body is stored: what the cache holds is still what is recent, and of entries that exist.
LEMMA PutIs ==
    ASSUME BodyInv, NEW e \in entries, NEW body \in Bodies, Put(e, body)
    PROVE  /\ cache' \in [Emails -> CacheRows \cup {NoBody}] /\ recent' \in Seq(Emails)
           /\ ToSet(recent') = {x \in Emails : cache'[x] # NoBody}
           /\ \A x \in Emails : cache'[x] # NoBody => x \in entries
<1> DEFINE written == [cache EXCEPT ![e] = [body |-> body, stale |-> FALSE]]
           stale == {o \in Emails : written[o] # NoBody /\ written[o].stale}
           fresh == Removed(Touched(recent, e), stale)
           kept == Kept(written, fresh)
<1>1. /\ e \in Emails /\ cache \in [Emails -> CacheRows \cup {NoBody}] /\ recent \in Seq(Emails)
      /\ ToSet(recent) = {x \in Emails : cache[x] # NoBody}
      /\ \A x \in Emails : cache[x] # NoBody => x \in entries
  BY BodyTypes DEF BodyInv, NoBodyOfGoneEntry
<1>2. recent' = kept /\ cache' = Without(written, Emails \ ToSet(kept))
  BY DEF Put
<1>3. /\ written \in [Emails -> CacheRows \cup {NoBody}] /\ written[e] # NoBody
      /\ \A x \in Emails : x # e => written[x] = cache[x]
  <2>1. [body |-> body, stale |-> FALSE] \in CacheRows
    BY DEF CacheRows
  <2> QED BY <1>1, <2>1, BodyAssumption
<1> HIDE DEF written
<1>4. Touched(recent, e) \in Seq(Emails) /\ ToSet(Touched(recent, e)) = ToSet(recent) \cup {e}
  BY <1>1, TouchedIs
<1> HIDE DEF stale
<1>5. fresh \in Seq(Emails) /\ ToSet(fresh) \subseteq ToSet(recent) \cup {e}
  BY <1>4, RemovedIs
<1> HIDE DEF fresh
<1>6. kept \in Seq(Emails) /\ ToSet(kept) \subseteq ToSet(fresh)
  BY <1>5, KeptIs
<1> HIDE DEF kept
<1>7. \A x \in ToSet(kept) : x \in Emails /\ x \in entries /\ written[x] # NoBody
  BY <1>1, <1>3, <1>5, <1>6
<1>8. cache' = [x \in Emails |-> IF x \in ToSet(kept) THEN written[x] ELSE NoBody]
  BY <1>2 DEF Without
<1>9. cache' \in [Emails -> CacheRows \cup {NoBody}]
  BY <1>3, <1>8
<1>10. \A x \in Emails : cache'[x] # NoBody <=> x \in ToSet(kept)
  BY <1>7, <1>8
<1>11. ToSet(kept) = {x \in Emails : cache'[x] # NoBody}
  BY <1>7, <1>10
<1> QED BY <1>2, <1>6, <1>7, <1>9, <1>10, <1>11

\* A shared read is over, whichever way.
LEMMA LandingKeeps ==
    ASSUME BodyInv, NEW e \in Emails, NEW kind \in ReadKinds, UNCHANGED entries,
           \/ \E body \in Bodies : DeliverBody(e, kind, body)
           \/ flight[<<e, kind>>] # NoBody /\ FallBack(e, kind)
    PROVE  BodyInv'
<1>1. ASSUME NEW body \in Bodies \cup {NoBody}, Landed(e, kind, body), UNCHANGED <<cache, recent>>
      PROVE  BodyInv'
  <2>1. /\ flight' \in [Emails \X ReadKinds -> Flights \cup {NoBody}]
        /\ reader' \in [Readers -> ReaderStates] /\ ReadersOK'
    BY <1>1, LandedIs
  <2>2. /\ entries' \subseteq Emails /\ cache' \in [Emails -> CacheRows \cup {NoBody}]
        /\ recent' \in Seq(Emails) /\ ToSet(recent') = {x \in Emails : cache'[x] # NoBody}
    BY <1>1, BodyTypes DEF BodyInv
  <2>3. BodyTypeOK'
    BY <2>1, <2>2 DEF BodyTypeOK, Flights, ReaderStates, Page, CacheRows, Bodies, ReadKinds
  <2>4. NoBodyOfGoneEntry'
    BY <1>1 DEF BodyInv, NoBodyOfGoneEntry
  <2> QED BY <2>1, <2>3, <2>4 DEF BodyInv
<1>2. ASSUME NEW body \in Bodies, DeliverBody(e, kind, body)
      PROVE  BodyInv'
  <2>1. CASE e \in entries
    <3>1. Landed(e, kind, body) /\ Put(e, body)
      BY <1>2, <2>1 DEF DeliverBody, Cacheable
    <3>2. /\ flight' \in [Emails \X ReadKinds -> Flights \cup {NoBody}]
          /\ reader' \in [Readers -> ReaderStates] /\ ReadersOK'
      BY <3>1, LandedIs
    <3>3. /\ cache' \in [Emails -> CacheRows \cup {NoBody}] /\ recent' \in Seq(Emails)
          /\ ToSet(recent') = {x \in Emails : cache'[x] # NoBody}
          /\ \A x \in Emails : cache'[x] # NoBody => x \in entries
      BY <2>1, <3>1, PutIs
    <3>4. entries' \subseteq Emails
      BY BodyTypes DEF BodyInv
    <3>5. BodyTypeOK'
      BY <3>2, <3>3, <3>4 DEF BodyTypeOK, Flights, ReaderStates, Page, CacheRows, Bodies, ReadKinds
    <3>6. NoBodyOfGoneEntry'
      BY <3>3 DEF NoBodyOfGoneEntry
    <3> QED BY <3>2, <3>5, <3>6 DEF BodyInv
  <2>2. CASE e \notin entries
    <3>1. Landed(e, kind, NoBody) /\ UNCHANGED <<cache, recent>>
      BY <1>2, <2>2 DEF DeliverBody, Cacheable, Refuse
    <3> QED BY <1>1, <3>1
  <2> QED BY <2>1, <2>2
<1>3. ASSUME flight[<<e, kind>>] # NoBody, FallBack(e, kind)
      PROVE  BodyInv'
  <2>1. flight[<<e, kind>>].cached \in Bodies \cup {NoBody}
    <3>1. flight \in [Emails \X ReadKinds -> Flights \cup {NoBody}]
      BY BodyTypes DEF BodyInv
    <3>2. flight[<<e, kind>>] \in Flights
      BY <1>3, <3>1
    <3> QED BY <3>2 DEF Flights
  <2> QED BY <1>1, <1>3, <2>1 DEF FallBack, Refuse
<1> QED BY <1>2, <1>3

\* The local part of a flight is a body or nothing.
LEMMA FlightIs ==
    ASSUME BodyInv, NEW e \in Emails, NEW kind \in ReadKinds, flight[<<e, kind>>] # NoBody
    PROVE  flight[<<e, kind>>] \in Flights /\ flight[<<e, kind>>].local \in Bodies \cup {NoBody}
<1>1. flight \in [Emails \X ReadKinds -> Flights \cup {NoBody}]
  BY BodyTypes DEF BodyInv
<1>2. flight[<<e, kind>>] \in Flights
  BY <1>1
<1> QED BY <1>2 DEF Flights

LEMMA ParsedKeeps ==
    ASSUME BodyInv, NEW e \in Emails, NEW kind \in ReadKinds, Parsed(e, kind)
    PROVE  BodyInv'
<1>1. /\ flight[<<e, kind>>] # NoBody /\ UNCHANGED entries
      /\ flight \in [Emails \X ReadKinds -> Flights \cup {NoBody}]
  BY BodyTypes DEF Parsed, BodyInv
<1>2. PICK local \in {Plain(Carried[e]) : x \in {Carried[e]} \ {"none"}} \cup {NoBody} :
          IF local # NoBody /\ Complete(local) THEN DeliverBody(e, kind, local)
          ELSE IF kind = "fetch" /\ e \in Fetchable
               THEN /\ flight' = [flight EXCEPT ![<<e, kind>>].stage = "fetching",
                                                ![<<e, kind>>].local = local]
                    /\ UNCHANGED <<cache, recent, reader>>
          ELSE IF local # NoBody THEN DeliverBody(e, kind, local)
          ELSE FallBack(e, kind)
  BY DEF Parsed
<1>3. local # NoBody => local \in Bodies
  <2>1. Carried[e] \in {"whole", "part", "none"}
    BY BodyAssumption
  <2>2. ASSUME NEW x \in {Carried[e]} \ {"none"}, local = Plain(Carried[e]) PROVE local \in Bodies
    BY <2>1, <2>2 DEF Plain, Bodies
  <2> QED BY <2>2
<1>4. ASSUME /\ flight' = [flight EXCEPT ![<<e, kind>>].stage = "fetching",
                                         ![<<e, kind>>].local = local]
             /\ UNCHANGED <<cache, recent, reader>>
      PROVE  BodyInv'
  <2>1. flight[<<e, kind>>] \in Flights
    BY <1>1, FlightIs
  <2>2. [flight[<<e, kind>>] EXCEPT !.stage = "fetching", !.local = local] \in Flights
    BY <1>3, <2>1 DEF Flights
  <2>3. flight' = [flight EXCEPT ![<<e, kind>>] =
                       [flight[<<e, kind>>] EXCEPT !.stage = "fetching", !.local = local]]
    BY <1>1, <1>4, <2>1 DEF Flights
  <2>4. flight' \in [Emails \X ReadKinds -> Flights \cup {NoBody}]
    <3> HIDE DEF Flights
    <3> QED BY <1>1, <2>2, <2>3
  <2>5. /\ entries' \subseteq Emails /\ cache' \in [Emails -> CacheRows \cup {NoBody}]
        /\ recent' \in Seq(Emails) /\ ToSet(recent') = {x \in Emails : cache'[x] # NoBody}
        /\ reader' \in [Readers -> ReaderStates]
    BY <1>1, <1>4, BodyTypes DEF BodyInv
  <2>6. BodyTypeOK'
    BY <2>4, <2>5 DEF BodyTypeOK, Flights, ReaderStates, Page, CacheRows, Bodies, ReadKinds
  <2> QED BY <1>1, <1>4, <2>6 DEF BodyInv, ReadersOK, NoBodyOfGoneEntry
<1>5. CASE local # NoBody /\ DeliverBody(e, kind, local)
  BY <1>1, <1>3, <1>5, LandingKeeps
<1>6. CASE FallBack(e, kind)
  BY <1>1, <1>6, LandingKeeps
<1> QED BY <1>2, <1>4, <1>5, <1>6


LEMMA FetchesKeep ==
    ASSUME BodyInv, NEW e \in Emails, Fetched(e) \/ FetchBodyFails(e)
    PROVE  BodyInv'
<1>1. "fetch" \in ReadKinds /\ flight[<<e, "fetch">>] # NoBody /\ UNCHANGED entries
  BY DEF ReadKinds, Fetched, FetchBodyFails
<1>2. CASE Fetched(e)
  <2>1. PICK text \in {"whole", "part"} : DeliverBody(e, "fetch", Plain(text))
    BY <1>2 DEF Fetched
  <2>2. Plain(text) \in Bodies
    BY DEF Plain, Bodies
  <2> QED BY <1>1, <2>1, <2>2, LandingKeeps
<1>3. CASE FetchBodyFails(e)
  <2> DEFINE local == flight[<<e, "fetch">>].local
  <2>1. local \in Bodies \cup {NoBody}
    BY <1>1, FlightIs
  <2>2. IF local # NoBody THEN DeliverBody(e, "fetch", [local EXCEPT !.noted = TRUE])
        ELSE FallBack(e, "fetch")
    BY <1>3 DEF FetchBodyFails
  <2> HIDE DEF local
  <2>3. CASE local # NoBody
    <3>1. [local EXCEPT !.noted = TRUE] \in Bodies
      BY <2>1, <2>3 DEF Bodies
    <3> QED BY <1>1, <2>2, <2>3, <3>1, LandingKeeps
  <2>4. CASE local = NoBody
    BY <1>1, <2>2, <2>4, LandingKeeps
  <2> QED BY <2>3, <2>4
<1> QED BY <1>2, <1>3

\* A cached row is a row.
LEMMA CachedIs ==
    ASSUME BodyInv, NEW e \in Emails, cache[e] # NoBody
    PROVE  cache[e] \in CacheRows /\ cache[e].body \in Bodies /\ e \in ToSet(recent)
<1>1. cache \in [Emails -> CacheRows \cup {NoBody}] /\ ToSet(recent) = {x \in Emails : cache[x] # NoBody}
  BY BodyTypes DEF BodyInv
<1>2. cache[e] \in CacheRows
  BY <1>1
<1> QED BY <1>1, <1>2 DEF CacheRows

\* The access of a cached entry, and the answer to one reader.
LEMMA AnsweredKeeps ==
    ASSUME BodyInv, NEW r \in Readers, NEW e \in Emails, UNCHANGED <<entries, cache>>,
           flight' \in [Emails \X ReadKinds -> Flights \cup {NoBody}],
           reader' = [reader EXCEPT ![r] = reader'[r]], reader'[r] \in ReaderStates,
           Coherent(reader'[r].pages), PlaceOK(reader'[r]),
           recent' = recent \/ (cache[e] # NoBody /\ recent' = Touched(recent, e))
    PROVE  BodyInv'
<1>1. /\ entries \subseteq Emails /\ cache \in [Emails -> CacheRows \cup {NoBody}]
      /\ recent \in Seq(Emails) /\ ToSet(recent) = {x \in Emails : cache[x] # NoBody}
      /\ reader \in [Readers -> ReaderStates]
  BY BodyTypes DEF BodyInv
<1>2. recent' \in Seq(Emails) /\ ToSet(recent') = {x \in Emails : cache[x] # NoBody}
  <2>1. CASE recent' = recent
    BY <1>1, <2>1
  <2>2. CASE cache[e] # NoBody /\ recent' = Touched(recent, e)
    <3>1. Touched(recent, e) \in Seq(Emails) /\ ToSet(Touched(recent, e)) = ToSet(recent) \cup {e}
      BY <1>1, TouchedIs
    <3> QED BY <1>1, <2>2, <3>1
  <2> QED BY <2>1, <2>2
<1>3. reader' \in [Readers -> ReaderStates]
  BY <1>1
<1>4. BodyTypeOK'
  BY <1>1, <1>2, <1>3 DEF BodyTypeOK, Flights, ReaderStates, Page, CacheRows, Bodies, ReadKinds
<1>5. ReadersOK'
  <2>1. \A x \in Readers : x # r => reader'[x] = reader[x]
    BY <1>1
  <2> QED BY <2>1 DEF BodyInv, ReadersOK
<1>6. NoBodyOfGoneEntry'
  BY DEF BodyInv, NoBodyOfGoneEntry
<1> QED BY <1>4, <1>5, <1>6 DEF BodyInv

LEMMA ReadBodyKeeps ==
    ASSUME BodyInv, NEW r \in Readers, NEW e \in Emails, NEW kind \in ReadKinds,
           NEW limit \in Pages, ReadBody(r, e, kind, limit)
    PROVE  BodyInv'
<1> DEFINE asked == [Idle EXCEPT !.entry = e, !.limit = limit]
<1>1. /\ flight \in [Emails \X ReadKinds -> Flights \cup {NoBody}]
      /\ reader \in [Readers -> ReaderStates] /\ cache \in [Emails -> CacheRows \cup {NoBody}]
  BY BodyTypes DEF BodyInv
<1>2. asked \in ReaderStates /\ asked.pages = <<>> /\ asked.from = 0
  <2>1. Idle \in ReaderStates /\ Idle.pages = <<>> /\ Idle.from = 0
    BY IdleIs
  <2> QED BY <2>1 DEF ReaderStates
<1>3. UNCHANGED <<entries, cache>>
  BY DEF ReadBody
<1>4. CASE Served(e, kind)
  <2>1. /\ reader' = [reader EXCEPT ![r] = Answer(asked, cache[e].body, 0)]
        /\ recent' = Touched(recent, e) /\ flight' = flight
    BY <1>4 DEF ReadBody
  <2>2. cache[e] # NoBody /\ cache[e].body \in Bodies
    BY <1>4, CachedIs DEF Served
  <2>3. 0 <= Size[cache[e].body.text]
    <3>1. Size[cache[e].body.text] \in Nat
      BY <2>2, BodyAssumption DEF Bodies
    <3> QED BY <3>1
  <2>4. Coherent(asked.pages)
    BY <1>2 DEF Coherent
  <2> HIDE DEF asked
  <2>5. /\ Answer(asked, cache[e].body, 0) \in ReaderStates
        /\ Coherent(Answer(asked, cache[e].body, 0).pages)
        /\ PlaceOK(Answer(asked, cache[e].body, 0))
    BY <1>2, <2>2, <2>3, <2>4, AnswerIs
  <2>6. reader'[r] = Answer(asked, cache[e].body, 0)
    BY <1>1, <2>1
  <2> QED BY <1>1, <1>3, <2>1, <2>2, <2>5, <2>6, AnsweredKeeps
<1>5. CASE ~Served(e, kind)
  <2>1. /\ reader' = [reader EXCEPT ![r] = [asked EXCEPT !.state = kind]]
        /\ recent' = recent
        /\ flight' = [flight EXCEPT ![<<e, kind>>] =
               IF flight[<<e, kind>>] # NoBody THEN flight[<<e, kind>>]
               ELSE [stage |-> "parsing", local |-> NoBody,
                     cached |-> IF cache[e] # NoBody /\ ~cache[e].stale
                                THEN cache[e].body ELSE NoBody]]
    BY <1>5 DEF ReadBody
  <2>2. flight' \in [Emails \X ReadKinds -> Flights \cup {NoBody}]
    <3>1. [stage |-> "parsing", local |-> NoBody,
           cached |-> IF cache[e] # NoBody /\ ~cache[e].stale
                      THEN cache[e].body ELSE NoBody] \in Flights
      BY CachedIs DEF Flights
    <3> HIDE DEF Flights
    <3> QED BY <1>1, <2>1, <3>1
  <2>3. /\ [asked EXCEPT !.state = kind] \in ReaderStates
        /\ [asked EXCEPT !.state = kind].pages = <<>>
        /\ [asked EXCEPT !.state = kind].from = 0
        /\ [asked EXCEPT !.state = kind].state \in {"fetch", "local"}
    BY <1>2 DEF ReaderStates, ReadKinds
  <2>4. reader'[r] = [asked EXCEPT !.state = kind]
    BY <1>1, <2>1
  <2> HIDE DEF asked
  <2>5. Coherent(reader'[r].pages) /\ PlaceOK(reader'[r])
    BY <2>3, <2>4 DEF Coherent, PlaceOK
  <2>6. reader' = [reader EXCEPT ![r] = reader'[r]] /\ reader'[r] \in ReaderStates
    BY <2>1, <2>3, <2>4
  <2> QED BY <1>3, <2>1, <2>2, <2>5, <2>6, AnsweredKeeps
<1> QED BY <1>4, <1>5

LEMMA ReadOnKeeps ==
    ASSUME BodyInv, NEW r \in Readers, NEW limit \in Pages, ReadOn(r, limit)
    PROVE  BodyInv'
<1> DEFINE e == reader[r].entry
           asked == [reader[r] EXCEPT !.limit = limit]
<1>1. /\ flight \in [Emails \X ReadKinds -> Flights \cup {NoBody}]
      /\ reader \in [Readers -> ReaderStates] /\ entries \subseteq Emails
  BY BodyTypes DEF BodyInv
<1>2. /\ reader[r].state = "more" /\ e \in Emails /\ UNCHANGED <<entries, cache, flight>>
      /\ reader[r] \in ReaderStates /\ Coherent(reader[r].pages) /\ PlaceOK(reader[r])
  BY <1>1 DEF ReadOn, BodyInv, ReadersOK
<1>3. /\ asked \in ReaderStates /\ asked.pages = reader[r].pages /\ asked.from = reader[r].from
      /\ asked.from \in Nat
  BY <1>2 DEF ReaderStates
<1>4. CASE CursorHolds(reader[r], cache[e])
  <2>1. /\ reader' = [reader EXCEPT ![r] = Answer(asked, cache[e].body, asked.from)]
        /\ recent' = Touched(recent, e)
    BY <1>4 DEF ReadOn
  <2>2. cache[e] # NoBody /\ cache[e].body = Last(reader[r].pages).body
    BY <1>4 DEF CursorHolds, CursorBody
  <2>3. cache[e].body \in Bodies
    BY <1>2, <2>2, CachedIs
  <2>4. /\ reader[r].pages # <<>> /\ reader[r].from = Last(reader[r].pages).to
        /\ reader[r].from \in Boundaries \cup {0}
        /\ reader[r].from <= Size[reader[r].pages[1].body.text]
    BY <1>2 DEF PlaceOK
  <2>5. Last(reader[r].pages).body = reader[r].pages[1].body
    <3>1. reader[r].pages \in Seq(Page)
      BY <1>2 DEF ReaderStates
    <3>2. Len(reader[r].pages) \in Nat \ {0}
      BY <2>4, <3>1, EmptySeq, LenProperties
    <3>3. CASE Len(reader[r].pages) = 1
      BY <3>3 DEF Last
    <3>4. CASE Len(reader[r].pages) # 1
      <4>1. Len(reader[r].pages) \in 2..Len(reader[r].pages)
        <5> DEFINE n == Len(reader[r].pages)
        <5>1. n \in Nat \ {0} /\ n # 1
          BY <3>2, <3>4
        <5> HIDE DEF n
        <5>2. n \in 2..n
          BY <5>1
        <5> QED BY <5>2 DEF n
      <4> QED BY <1>2, <2>4, <4>1 DEF Last, Coherent
    <3> QED BY <3>3, <3>4
  <2> HIDE DEF asked
  <2>6. /\ Answer(asked, cache[e].body, asked.from) \in ReaderStates
        /\ Coherent(Answer(asked, cache[e].body, asked.from).pages)
        /\ PlaceOK(Answer(asked, cache[e].body, asked.from))
    BY <1>2, <1>3, <2>2, <2>3, <2>4, <2>5, AnswerIs
  <2>7. reader'[r] = Answer(asked, cache[e].body, asked.from)
    BY <1>1, <2>1
  <2> QED BY <1>1, <1>2, <2>1, <2>2, <2>6, <2>7, AnsweredKeeps
<1>5. CASE ~CursorHolds(reader[r], cache[e])
  <2>1. reader' = [reader EXCEPT ![r].state = "refused"] /\ recent' = recent
    BY <1>5 DEF ReadOn
  <2>2. reader'[r] = [reader[r] EXCEPT !.state = "refused"]
    BY <1>1, <2>1
  <2>3. /\ reader'[r] \in ReaderStates /\ reader'[r].pages = reader[r].pages
        /\ reader'[r].state = "refused"
    BY <1>2, <2>2 DEF ReaderStates
  <2>4. PlaceOK(reader'[r])
    BY <2>3 DEF PlaceOK
  <2>5. reader' = [reader EXCEPT ![r] = reader'[r]]
    BY <1>1, <2>1, <2>2
  <2>6. UNCHANGED <<entries, cache>> /\ flight' \in [Emails \X ReadKinds -> Flights \cup {NoBody}]
    BY <1>1, <1>2
  <2>7. recent' = recent /\ Coherent(reader'[r].pages)
    BY <1>2, <2>1, <2>3
  <2> HIDE DEF e
  <2> QED BY <1>2, <2>3, <2>4, <2>5, <2>6, <2>7, AnsweredKeeps
<1> QED BY <1>4, <1>5

LEMMA BodyFaultsKeep ==
    ASSUME BodyInv, ReaderRestart \/ \E e \in Emails : ExpireBody(e) \/ Collected(e)
    PROVE  BodyInv'
<1>1. /\ entries \subseteq Emails /\ cache \in [Emails -> CacheRows \cup {NoBody}]
      /\ recent \in Seq(Emails) /\ ToSet(recent) = {x \in Emails : cache[x] # NoBody}
      /\ flight \in [Emails \X ReadKinds -> Flights \cup {NoBody}]
      /\ reader \in [Readers -> ReaderStates]
  BY BodyTypes DEF BodyInv
<1>2. CASE ReaderRestart
  <2>1. UNCHANGED <<entries, cache, recent>> /\ flight' = [f \in Emails \X ReadKinds |-> NoBody]
    BY <1>2 DEF ReaderRestart
  <2>2. ASSUME NEW r \in Readers
        PROVE  reader'[r] \in ReaderStates /\ Coherent(reader'[r].pages) /\ PlaceOK(reader'[r])
    <3>1. reader[r] \in ReaderStates /\ Coherent(reader[r].pages) /\ PlaceOK(reader[r])
      BY <1>1 DEF BodyInv, ReadersOK
    <3>2. CASE reader[r].state \in {"fetch", "local", "more"}
      <4>1. reader'[r] = [reader[r] EXCEPT !.state = "refused"]
        BY <1>2, <3>2 DEF ReaderRestart
      <4>2. /\ reader'[r] \in ReaderStates /\ reader'[r].pages = reader[r].pages
            /\ reader'[r].state = "refused"
        BY <3>1, <4>1 DEF ReaderStates
      <4> QED BY <3>1, <4>2 DEF PlaceOK
    <3>3. CASE reader[r].state \notin {"fetch", "local", "more"}
      <4>1. reader'[r] = reader[r]
        BY <1>2, <3>3 DEF ReaderRestart
      <4> QED BY <3>1, <4>1
    <3> QED BY <3>2, <3>3
  <2>3. reader' \in [Readers -> ReaderStates]
    <3>1. reader' = [r \in Readers |-> reader'[r]]
      BY <1>2 DEF ReaderRestart
    <3> QED BY <2>2, <3>1
  <2>4. BodyTypeOK'
    BY <1>1, <2>1, <2>3 DEF BodyTypeOK, Flights, ReaderStates, Page, CacheRows, Bodies, ReadKinds
  <2> QED BY <2>1, <2>2, <2>4 DEF BodyInv, ReadersOK, NoBodyOfGoneEntry
<1>3. ASSUME NEW e \in Emails, ExpireBody(e) PROVE BodyInv'
  <2>1. /\ UNCHANGED <<entries, recent, flight, reader>> /\ cache[e] # NoBody
        /\ cache' = [cache EXCEPT ![e].stale = TRUE]
    BY <1>3 DEF ExpireBody
  <2>2. cache[e] \in CacheRows
    BY <2>1, CachedIs
  <2>3. [cache[e] EXCEPT !.stale = TRUE] \in CacheRows
    BY <2>2 DEF CacheRows
  <2>4. cache' = [cache EXCEPT ![e] = [cache[e] EXCEPT !.stale = TRUE]]
    BY <1>1, <2>1, <2>2 DEF CacheRows
  <2>5. /\ cache' \in [Emails -> CacheRows \cup {NoBody}] /\ cache'[e] # NoBody
        /\ \A x \in Emails : x # e => cache'[x] = cache[x]
    BY <1>1, <2>3, <2>4, BodyAssumption
  <2>6. \A x \in Emails : cache'[x] # NoBody <=> cache[x] # NoBody
    BY <2>1, <2>5
  <2>7. BodyTypeOK'
    BY <1>1, <2>1, <2>5, <2>6 DEF BodyTypeOK, Flights, ReaderStates, Page, CacheRows, Bodies, ReadKinds
  <2> QED BY <2>1, <2>6, <2>7 DEF BodyInv, ReadersOK, NoBodyOfGoneEntry
<1>4. ASSUME NEW e \in Emails, Collected(e) PROVE BodyInv'
  <2>1. /\ entries' = entries \ {e} /\ UNCHANGED <<flight, reader>>
        /\ cache' = [x \in Emails |-> IF x \in {e} THEN NoBody ELSE cache[x]]
        /\ recent' = Removed(recent, {e})
    BY <1>4 DEF Collected, Without
  <2>2. recent' \in Seq(Emails) /\ ToSet(recent') = ToSet(recent) \ {e}
    BY <1>1, <2>1, RemovedIs
  <2>3. /\ cache' \in [Emails -> CacheRows \cup {NoBody}]
        /\ \A x \in Emails : cache'[x] # NoBody <=> cache[x] # NoBody /\ x # e
    BY <1>1, <2>1
  <2>4. ToSet(recent') = {x \in Emails : cache'[x] # NoBody}
    BY <1>1, <2>2, <2>3
  <2>5. BodyTypeOK'
    BY <1>1, <2>1, <2>2, <2>3, <2>4
       DEF BodyTypeOK, Flights, ReaderStates, Page, CacheRows, Bodies, ReadKinds
  <2> QED BY <2>1, <2>3, <2>5 DEF BodyInv, ReadersOK, NoBodyOfGoneEntry
<1> QED BY <1>2, <1>3, <1>4

LEMMA BodyStepOK == BodyInv /\ [BodyNext]_bodyVars => BodyInv'
<1> SUFFICES ASSUME BodyInv, [BodyNext]_bodyVars PROVE BodyInv'
  OBVIOUS
<1>1. ASSUME NEW r \in Readers, NEW limit \in Pages, ReadOn(r, limit) PROVE BodyInv'
  BY <1>1, ReadOnKeeps
<1>2. ASSUME NEW r \in Readers, NEW limit \in Pages, NEW e \in Emails, NEW kind \in ReadKinds,
             ReadBody(r, e, kind, limit)
      PROVE  BodyInv'
  BY <1>2, ReadBodyKeeps
<1>3. ASSUME NEW e \in Emails, Fetched(e) \/ FetchBodyFails(e) PROVE BodyInv'
  BY <1>3, FetchesKeep
<1>4. ASSUME NEW e \in Emails, NEW kind \in ReadKinds, Parsed(e, kind) PROVE BodyInv'
  BY <1>4, ParsedKeeps
<1>5. CASE ReaderRestart \/ \E e \in Emails : ExpireBody(e) \/ Collected(e)
  BY <1>5, BodyFaultsKeep
<1>6. CASE UNCHANGED bodyVars
  BY <1>6 DEF bodyVars, BodyInv, BodyTypeOK, ReadersOK, NoBodyOfGoneEntry
<1> QED BY <1>1, <1>2, <1>3, <1>4, <1>5, <1>6 DEF BodyNext

(* The pages of one read are one body from its beginning without a gap or an overlap, and *)
(* no body is kept of an entry that is gone (EmailBodyReader.read with its cursors,       *)
(* cacheSnapshot and the eviction of the cache), for any entries, readers, bodies, page   *)
(* limits and budget.                                                                     *)
THEOREM PagesStayOneBody == BodySpec => []ReadsAreSound
<1>1. BodyInv => ReadsAreSound
  <2> SUFFICES ASSUME BodyInv PROVE PagesAreOneBody
    BY DEF BodyInv, ReadsAreSound
  <2>1. ASSUME NEW r \in Readers, reader[r].pages # <<>>
        PROVE  /\ reader[r].pages[1].from = 0
               /\ \A n \in 2..Len(reader[r].pages) :
                     /\ reader[r].pages[n].body = reader[r].pages[1].body
                     /\ reader[r].pages[n].from = reader[r].pages[n - 1].to
               /\ reader[r].state = "done" =>
                     Last(reader[r].pages).to = Size[reader[r].pages[1].body.text]
    BY <2>1 DEF BodyInv, ReadersOK, Coherent, PlaceOK
  <2> QED BY <2>1 DEF PagesAreOneBody
<1> QED BY <1>1, BodyInitOK, BodyStepOK, PTL DEF BodySpec


-----------------------------------------------------------------------------
(* Watching an inbox *)

\* What was listed for a watcher is on its way to it or was shown, so that leaving it out
\* of what was told since loses nothing.
ListedIsComing ==
    \A w \in Watchers : session[w].state = "listed" =>
        session[w].initial \subseteq ToSet(wire[w]) \cup ToSet(held[w]) \cup ToSet(shown[w])

WatchInv == WatchTypeOK /\ NothingUnseen /\ ListedIsComing

Sessions == [state : {"off", "listed", "started", "stuck"}, after : Numbers \cup {0},
             initial : SUBSET Numbers, pending : Seq(Numbers)]

\* The types, a function at a time.
LEMMA WatchTypes ==
    WatchTypeOK <=> /\ newest \in 0..MaxEntries /\ acked \subseteq Inserted /\ collected \subseteq acked
                    /\ batch \in [Writers -> Seq(Numbers)]
                    /\ session \in [Watchers -> Sessions]
                    /\ wire \in [Watchers -> Seq(Numbers)]
                    /\ held \in [Watchers -> Seq(Numbers)]
                    /\ shown \in [Watchers -> Seq(Numbers)]
<1> DEFINE Lines == [Watchers -> Seq(Numbers)]
<1>1. {wire, held, shown} \subseteq Lines <=> wire \in Lines /\ held \in Lines /\ shown \in Lines
  OBVIOUS
<1> HIDE DEF Lines
<1> QED BY <1>1 DEF WatchTypeOK, Sessions, Lines

LEMMA OffIsSession == Off \in Sessions
<1>1. <<>> \in Seq(Numbers)
  BY EmptySeq
<1> QED BY <1>1 DEF Off, Sessions

LEMMA WatchInitOK == WatchInit => WatchInv
<1> SUFFICES ASSUME WatchInit PROVE WatchInv
  OBVIOUS
<1>1. <<>> \in Seq(Numbers) /\ MaxEntries \in Nat
  BY EmptySeq, WatchAssumption
<1>2. Inserted = {}
  BY DEF WatchInit, Inserted
<1>3. WatchTypeOK
  BY <1>1, <1>2, WatchTypes, OffIsSession DEF WatchInit
<1>4. \A w \in Watchers : session[w].state = "off"
  BY DEF WatchInit, Off
<1> QED BY <1>3, <1>4 DEF WatchInv, NothingUnseen, ListedIsComing, Attached

\* What is told keeps the types, and is on its way to whoever is attached.
LEMMA NotifyTells ==
    ASSUME WatchTypeOK, NEW told \in Seq(Numbers), Notify(told)
    PROVE  /\ session' \in [Watchers -> Sessions] /\ wire' \in [Watchers -> Seq(Numbers)]
           /\ \A w \in Watchers :
                 /\ session'[w].state = session[w].state /\ session'[w].after = session[w].after
                 /\ session'[w].initial = session[w].initial
                 /\ ToSet(wire[w]) \subseteq ToSet(wire'[w])
                 /\ ToSet(session[w].pending) \subseteq ToSet(session'[w].pending)
                 /\ Attached(w) =>
                       ToSet(told) \subseteq ToSet(session'[w].pending) \cup ToSet(wire'[w])
<1>1. session \in [Watchers -> Sessions] /\ wire \in [Watchers -> Seq(Numbers)]
  BY WatchTypes
<1>2. ASSUME NEW w \in Watchers
      PROVE  /\ session'[w] \in Sessions /\ wire'[w] \in Seq(Numbers)
             /\ session'[w].state = session[w].state /\ session'[w].after = session[w].after
             /\ session'[w].initial = session[w].initial
             /\ ToSet(wire[w]) \subseteq ToSet(wire'[w])
             /\ ToSet(session[w].pending) \subseteq ToSet(session'[w].pending)
             /\ Attached(w) =>
                   ToSet(told) \subseteq ToSet(session'[w].pending) \cup ToSet(wire'[w])
  <2>1. session[w] \in Sessions /\ session[w].pending \in Seq(Numbers) /\ wire[w] \in Seq(Numbers)
    BY <1>1 DEF Sessions
  <2>2. CASE session[w].state = "listed"
    <3>1. /\ session'[w] = [session[w] EXCEPT !.pending = session[w].pending \o told]
          /\ wire'[w] = wire[w]
      BY <2>2 DEF Notify
    <3>2. /\ session[w].pending \o told \in Seq(Numbers)
          /\ ToSet(session[w].pending \o told) = ToSet(session[w].pending) \cup ToSet(told)
      BY <2>1, ToSetConcat
    <3>3. /\ session'[w].pending = session[w].pending \o told /\ session'[w] \in Sessions
          /\ session'[w].state = session[w].state /\ session'[w].after = session[w].after
          /\ session'[w].initial = session[w].initial
      BY <2>1, <3>1, <3>2 DEF Sessions
    <3> QED BY <2>1, <3>1, <3>2, <3>3
  <2>3. CASE session[w].state = "started"
    <3>1. session'[w] = session[w] /\ wire'[w] = wire[w] \o told
      BY <2>3 DEF Notify
    <3>2. wire'[w] \in Seq(Numbers) /\ ToSet(wire'[w]) = ToSet(wire[w]) \cup ToSet(told)
      BY <2>1, <3>1, ToSetConcat
    <3> QED BY <2>1, <3>1, <3>2
  <2>4. CASE session[w].state \notin {"listed", "started"}
    <3>1. session'[w] = session[w] /\ wire'[w] = wire[w]
      BY <2>4 DEF Notify
    <3> QED BY <2>1, <2>4, <3>1 DEF Attached
  <2> QED BY <2>2, <2>3, <2>4
<1>3. session' \in [Watchers -> Sessions]
  <2>1. session' = [w \in Watchers |-> session'[w]]
    BY DEF Notify
  <2> QED BY <1>2, <2>1
<1>4. wire' \in [Watchers -> Seq(Numbers)]
  <2>1. wire' = [w \in Watchers |-> wire'[w]]
    BY DEF Notify
  <2> QED BY <1>2, <2>1
<1> QED BY <1>2, <1>3, <1>4


\* Nothing is missed when a watcher stays what it is, and what was coming to it still is.
LEMMA StaysComing ==
    ASSUME WatchInv, NEW w \in Watchers, acked \subseteq acked', newest' \in {newest, newest + 1},
           newest' # newest => newest' \in Coming(w)',
           Attached(w)' => Attached(w) /\ session'[w].after = session[w].after
                           /\ Coming(w) \subseteq Coming(w)'
    PROVE  Attached(w)' => \A e \in Listed(session[w].after)' : e \in Coming(w)'
<1> SUFFICES ASSUME Attached(w)', NEW e \in Listed(session[w].after)' PROVE e \in Coming(w)'
  OBVIOUS
<1>1. Listed(session[w].after) \subseteq Coming(w)
  BY DEF WatchInv, NothingUnseen
<1>2. Coming(w) \subseteq Coming(w)'
  OBVIOUS
<1>3. Listed(session'[w].after) \cup {newest'} = Listed(session[w].after) \cup {newest'}
  OBVIOUS
<1>4. e \in Listed(session[w].after) \cup {newest'}
  <2>1. WatchTypeOK
    BY DEF WatchInv
  <2>2. Listed(session[w].after)' = {x \in Inserted' : x > session'[w].after /\ x \notin acked'}
    BY DEF Listed
  <2>3. newest \in Nat
    BY <2>1, WatchTypes, WatchAssumption
  <2>4. e \in Inserted' /\ e > session[w].after /\ e \notin acked
    BY <2>2
  <2>5. e \in Inserted \/ e = newest'
    BY <2>3, <2>4 DEF Inserted
  <2> QED BY <2>4, <2>5 DEF Listed
<1>5. CASE e \in Listed(session[w].after)
  BY <1>1, <1>2, <1>5
<1>6. CASE e = newest' /\ e \notin Listed(session[w].after)
  <2>1. CASE newest' # newest
    BY <1>6, <2>1
  <2>2. CASE newest' = newest
    <3>1. e \in Inserted /\ e > session[w].after /\ e \notin acked
      <4>1. Listed(session[w].after)' = {x \in Inserted' : x > session'[w].after /\ x \notin acked'}
        BY DEF Listed
      <4> QED BY <2>2, <4>1 DEF Inserted
    <3> QED BY <1>6, <3>1 DEF Listed
  <2> QED BY <2>1, <2>2
<1> QED BY <1>4, <1>5, <1>6

LEMMA StoreEntryKeeps ==
    ASSUME WatchInv, NEW p \in Writers, StoreEntry(p)
    PROVE  WatchInv'
<1>1. WatchTypeOK
  BY DEF WatchInv
<1>2. /\ newest \in Nat /\ newest + 1 \in Numbers /\ newest' = newest + 1 /\ newest' \in 0..MaxEntries
      /\ Inserted \subseteq Inserted' /\ acked \subseteq acked'
  BY <1>1, WatchTypes, WatchAssumption DEF StoreEntry, Numbers, Inserted
<1>3. acked' \subseteq Inserted' /\ collected' \subseteq acked'
  BY <1>1, <1>2, WatchTypes DEF StoreEntry
<1>4. /\ batch' = [batch EXCEPT ![p] = Append(batch[p], newest + 1)]
      /\ batch \in [Writers -> Seq(Numbers)]
  BY <1>1, WatchTypes DEF StoreEntry
<1>5. /\ Append(batch[p], newest + 1) \in Seq(Numbers)
      /\ ToSet(Append(batch[p], newest + 1)) = ToSet(batch[p]) \cup {newest + 1}
  BY <1>2, <1>4, ToSetFacts
<1>6. batch' \in [Writers -> Seq(Numbers)]
  BY <1>4, <1>5
<1>7. /\ newest' \in UNION {ToSet(batch'[q]) : q \in Writers}
      /\ UNION {ToSet(batch[q]) : q \in Writers} \subseteq UNION {ToSet(batch'[q]) : q \in Writers}
  <2>1. \A q \in Writers : ToSet(batch[q]) \subseteq ToSet(batch'[q])
    BY <1>4, <1>5
  <2>2. newest' \in ToSet(batch'[p])
    BY <1>2, <1>4, <1>5
  <2> QED BY <2>1, <2>2
<1>8. WatchTypeOK'
  <2>1. /\ newest' \in 0..MaxEntries /\ acked' \subseteq Inserted' /\ collected' \subseteq acked'
        /\ batch' \in [Writers -> Seq(Numbers)] /\ session' \in [Watchers -> Sessions]
        /\ {wire', held', shown'} \subseteq [Watchers -> Seq(Numbers)]
    BY <1>1, <1>2, <1>3, <1>6, WatchTypes DEF StoreEntry
  <2> QED BY <2>1 DEF WatchTypeOK, Sessions, Numbers
<1>9. UNCHANGED <<session, wire, held, shown>>
  BY DEF StoreEntry
<1>10. \A w \in Watchers : /\ newest' \in Coming(w)' /\ Coming(w) \subseteq Coming(w)'
                           /\ Attached(w)' => Attached(w)
  BY <1>7, <1>9 DEF Coming, Attached
<1>11. NothingUnseen'
  <2>1. ASSUME NEW w \in Watchers
        PROVE  Attached(w)' => \A e \in Listed(session[w].after)' : e \in Coming(w)'
    BY <1>2, <1>9, <1>10, StaysComing
  <2> QED BY <2>1 DEF NothingUnseen
<1>12. ListedIsComing'
  BY <1>9 DEF WatchInv, ListedIsComing
<1> QED BY <1>8, <1>11, <1>12 DEF WatchInv


LEMMA PollEndsKeeps ==
    ASSUME WatchInv, NEW p \in Writers, PollEnds(p)
    PROVE  WatchInv'
<1>1. WatchTypeOK /\ batch \in [Writers -> Seq(Numbers)]
  BY WatchTypes DEF WatchInv
<1>2. batch[p] \in Seq(Numbers) /\ Notify(batch[p])
  BY <1>1 DEF PollEnds, Told
<1>3. /\ session' \in [Watchers -> Sessions] /\ wire' \in [Watchers -> Seq(Numbers)]
      /\ \A w \in Watchers :
            /\ session'[w].state = session[w].state /\ session'[w].after = session[w].after
            /\ session'[w].initial = session[w].initial
            /\ ToSet(wire[w]) \subseteq ToSet(wire'[w])
            /\ ToSet(session[w].pending) \subseteq ToSet(session'[w].pending)
            /\ Attached(w) =>
                  ToSet(batch[p]) \subseteq ToSet(session'[w].pending) \cup ToSet(wire'[w])
  BY <1>1, <1>2, NotifyTells
<1>4. UNCHANGED <<newest, acked, collected, held, shown>>
      /\ batch' = [batch EXCEPT ![p] = <<>>]
  BY DEF PollEnds
<1>5. batch' \in [Writers -> Seq(Numbers)]
  BY <1>1, <1>4, EmptySeq
<1>6. WatchTypeOK'
  <2>1. /\ newest' \in 0..MaxEntries /\ acked' \subseteq Inserted' /\ collected' \subseteq acked'
        /\ {wire', held', shown'} \subseteq [Watchers -> Seq(Numbers)]
    BY <1>1, <1>3, <1>4, WatchTypes DEF Inserted
  <2> QED BY <1>3, <1>5, <2>1 DEF WatchTypeOK, Sessions, Numbers
<1>7. ASSUME NEW w \in Watchers, Attached(w)'
      PROVE  Attached(w) /\ session'[w].after = session[w].after /\ Coming(w) \subseteq Coming(w)'
  <2>1. Attached(w)
    BY <1>3, <1>7 DEF Attached
  <2>2. ToSet(batch[p]) \subseteq ToSet(session'[w].pending) \cup ToSet(wire'[w])
    BY <1>3, <2>1
  <2>3. \A q \in Writers : q # p => ToSet(batch[q]) \subseteq ToSet(batch'[q])
    BY <1>1, <1>4
  <2>4. UNION {ToSet(batch[q]) : q \in Writers}
            \subseteq ToSet(batch[p]) \cup UNION {ToSet(batch'[q]) : q \in Writers}
    BY <2>3
  <2> QED BY <1>3, <1>4, <2>1, <2>2, <2>4 DEF Coming
<1>8. NothingUnseen'
  <2>1. ASSUME NEW w \in Watchers
        PROVE  Attached(w)' => \A e \in Listed(session[w].after)' : e \in Coming(w)'
    BY <1>4, <1>7, StaysComing
  <2> QED BY <2>1 DEF NothingUnseen
<1>9. ListedIsComing'
  <2>1. ListedIsComing
    BY DEF WatchInv
  <2> QED BY <1>3, <1>4, <2>1 DEF ListedIsComing
<1> QED BY <1>6, <1>8, <1>9 DEF WatchInv

LEMMA DirectMessageKeeps ==
    ASSUME WatchInv, DirectMessage
    PROVE  WatchInv'
<1>1. WatchTypeOK /\ batch \in [Writers -> Seq(Numbers)]
  BY WatchTypes DEF WatchInv
<1>2. /\ newest \in Nat /\ newest + 1 \in Numbers /\ newest' = newest + 1 /\ newest' \in 0..MaxEntries
      /\ Inserted \subseteq Inserted'
  BY <1>1, WatchTypes, WatchAssumption DEF DirectMessage, Numbers, Inserted
<1>3. /\ <<newest + 1>> \in Seq(Numbers) /\ ToSet(<<newest + 1>>) = {newest + 1}
      /\ Notify(<<newest + 1>>)
  <2>1. <<newest + 1>> \in Seq(Numbers)
    BY <1>2
  <2>2. ToSet(<<newest + 1>>) = {newest + 1}
    BY <1>2 DEF ToSet
  <2> QED BY <2>1, <2>2 DEF DirectMessage
<1>4. /\ session' \in [Watchers -> Sessions] /\ wire' \in [Watchers -> Seq(Numbers)]
      /\ \A w \in Watchers :
            /\ session'[w].state = session[w].state /\ session'[w].after = session[w].after
            /\ session'[w].initial = session[w].initial
            /\ ToSet(wire[w]) \subseteq ToSet(wire'[w])
            /\ ToSet(session[w].pending) \subseteq ToSet(session'[w].pending)
            /\ Attached(w) =>
                  {newest + 1} \subseteq ToSet(session'[w].pending) \cup ToSet(wire'[w])
  BY <1>1, <1>3, NotifyTells
<1>5. UNCHANGED <<acked, collected, batch, held, shown>>
  BY DEF DirectMessage
<1>6. WatchTypeOK'
  <2>1. /\ newest' \in 0..MaxEntries /\ acked' \subseteq Inserted' /\ collected' \subseteq acked'
        /\ batch' \in [Writers -> Seq(Numbers)]
        /\ {wire', held', shown'} \subseteq [Watchers -> Seq(Numbers)]
    BY <1>1, <1>2, <1>4, <1>5, WatchTypes
  <2> QED BY <1>4, <2>1 DEF WatchTypeOK, Sessions, Numbers
<1>7. ASSUME NEW w \in Watchers, Attached(w)'
      PROVE  /\ Attached(w) /\ session'[w].after = session[w].after
             /\ Coming(w) \subseteq Coming(w)' /\ newest' \in Coming(w)'
  <2>1. Attached(w)
    BY <1>4, <1>7 DEF Attached
  <2>2. newest' \in ToSet(session'[w].pending) \cup ToSet(wire'[w])
    BY <1>2, <1>4, <2>1
  <2>3. Coming(w)' = ToSet(session'[w].pending) \cup ToSet(wire'[w]) \cup ToSet(held[w])
                         \cup ToSet(shown[w]) \cup UNION {ToSet(batch[q]) : q \in Writers}
    BY <1>5 DEF Coming
  <2>4. Coming(w) \subseteq Coming(w)'
    BY <1>4, <2>3 DEF Coming
  <2> QED BY <1>4, <2>1, <2>2, <2>3, <2>4
<1>8. NothingUnseen'
  <2>1. ASSUME NEW w \in Watchers, Attached(w)'
        PROVE  \A e \in Listed(session[w].after)' : e \in Coming(w)'
    BY <1>2, <1>5, <1>7, <2>1, StaysComing
  <2> QED BY <2>1 DEF NothingUnseen
<1>9. ListedIsComing'
  <2>1. ListedIsComing
    BY DEF WatchInv
  <2> QED BY <1>4, <1>5, <2>1 DEF ListedIsComing
<1> QED BY <1>6, <1>8, <1>9 DEF WatchInv

\* A connection opens: what is listed is on its way.
LEMMA OpenKeeps ==
    ASSUME WatchInv, NEW w \in Watchers, NEW after \in Anchors(w), Open(w, after)
    PROVE  WatchInv'
<1>1. /\ WatchTypeOK /\ session \in [Watchers -> Sessions] /\ wire \in [Watchers -> Seq(Numbers)]
      /\ shown \in [Watchers -> Seq(Numbers)] /\ newest \in 0..MaxEntries
  BY WatchTypes DEF WatchInv
<1>2. after \in Numbers \cup {0}
  <2>1. ASSUME shown[w] # <<>> PROVE Last(shown[w]) \in Numbers
    <3>1. shown[w] \in Seq(Numbers) /\ Len(shown[w]) \in 1..Len(shown[w])
      BY <1>1, <2>1, EmptySeq, LenProperties
    <3> QED BY <3>1, ElementOfSeq DEF Last
  <2> QED BY <2>1 DEF Anchors
<1>3. /\ Listed(after) \in SUBSET Nat /\ Listed(after) \in SUBSET Numbers
      /\ IsFiniteSet(Listed(after))
  <2>1. Listed(after) \subseteq 1..newest /\ 1..newest \subseteq Numbers /\ newest \in Nat
    BY <1>1, WatchAssumption DEF Listed, Inserted, Numbers
  <2>2. IsFiniteSet(1..newest)
    BY <2>1, FS_Interval
  <2> QED BY <2>1, <2>2, FS_Subset
<1>4. InOrder(Listed(after)) \in Seq(Numbers) /\ ToSet(InOrder(Listed(after))) = Listed(after)
  <2>1. InOrder(Listed(after)) \in Seq(Listed(after)) /\ ToSet(InOrder(Listed(after))) = Listed(after)
    BY <1>3, InOrderIs
  <2> QED BY <1>3, <2>1
<1>5. /\ UNCHANGED <<newest, acked, collected, batch, held>>
      /\ shown' = [shown EXCEPT ![w] = <<>>]
  BY DEF Open
<1>6. /\ session'[w] \in Sessions /\ session'[w].after = after
      /\ session' = [session EXCEPT ![w] = session'[w]]
      /\ wire' = [wire EXCEPT ![w] = wire'[w]] /\ wire'[w] \in Seq(Numbers)
      /\ session'[w].state \in {"listed", "started"} =>
            session'[w].initial = Listed(after) /\ ToSet(wire'[w]) = Listed(after)
  <2>1. CASE after \in collected
    <3>1. session'[w] = [Off EXCEPT !.state = "stuck", !.after = after] /\ wire'[w] = <<>>
      BY <1>1, <2>1 DEF Open
    <3>2. session' = [session EXCEPT ![w] = session'[w]] /\ wire' = [wire EXCEPT ![w] = wire'[w]]
      BY <2>1, <3>1 DEF Open
    <3> QED BY <1>2, <3>1, <3>2, OffIsSession, EmptySeq DEF Sessions, Off
  <2>2. CASE after \notin collected
    <3>1. /\ session'[w] = [state |-> "listed", after |-> after, initial |-> Listed(after),
                            pending |-> <<>>]
          /\ wire'[w] = InOrder(Listed(after))
      BY <1>1, <2>2 DEF Open
    <3>2. session' = [session EXCEPT ![w] = session'[w]] /\ wire' = [wire EXCEPT ![w] = wire'[w]]
      BY <2>2, <3>1 DEF Open
    <3> QED BY <1>2, <1>3, <1>4, <3>1, <3>2, EmptySeq DEF Sessions
  <2> QED BY <2>1, <2>2
<1>7. WatchTypeOK'
  <2>1. /\ newest' \in 0..MaxEntries /\ acked' \subseteq Inserted' /\ collected' \subseteq acked'
        /\ batch' \in [Writers -> Seq(Numbers)] /\ held' \in [Watchers -> Seq(Numbers)]
    BY <1>1, <1>5, WatchTypes DEF Inserted
  <2>2. session' \in [Watchers -> Sessions]
    BY <1>1, <1>6
  <2>3. wire' \in [Watchers -> Seq(Numbers)]
    BY <1>1, <1>6
  <2>4. shown' \in [Watchers -> Seq(Numbers)]
    BY <1>1, <1>5, EmptySeq
  <2>5. {wire', held', shown'} \subseteq [Watchers -> Seq(Numbers)]
    BY <2>1, <2>3, <2>4
  <2> QED BY <2>1, <2>2, <2>5 DEF WatchTypeOK, Sessions, Numbers
<1>8. \A v \in Watchers : v # w => session'[v] = session[v] /\ wire'[v] = wire[v] /\ shown'[v] = shown[v]
  BY <1>1, <1>5, <1>6
<1>9. NothingUnseen'
  <2>1. ASSUME NEW v \in Watchers, Attached(v)'
        PROVE  \A e \in Listed(session[v].after)' : e \in Coming(v)'
    <3>1. CASE v = w
      <4>1. ToSet(wire'[w]) = Listed(after) /\ session'[w].after = after
        BY <1>6, <2>1, <3>1 DEF Attached
      <4>2. Listed(session[v].after)' = Listed(after)
        BY <1>5, <3>1, <4>1 DEF Listed, Inserted
      <4> QED BY <3>1, <4>1, <4>2 DEF Coming
    <3>2. CASE v # w
      <4>1. session'[v] = session[v] /\ wire'[v] = wire[v] /\ shown'[v] = shown[v]
        BY <1>8, <3>2
      <4>2. Coming(v)' = Coming(v) /\ Attached(v)
        BY <1>5, <2>1, <4>1 DEF Attached, Coming
      <4>3. newest' = newest /\ acked' = acked
        BY <1>5
      <4> QED BY <2>1, <4>1, <4>2, <4>3, StaysComing
    <3> QED BY <3>1, <3>2
  <2> QED BY <2>1 DEF NothingUnseen
<1>10. ListedIsComing'
  <2>1. ListedIsComing
    BY DEF WatchInv
  <2> QED BY <1>5, <1>6, <1>8, <2>1 DEF ListedIsComing
<1> QED BY <1>7, <1>9, <1>10 DEF WatchInv


\* The watcher starts: it is told what came since the listing and is not in it.
LEMMA StartKeeps ==
    ASSUME WatchInv, NEW w \in Watchers, StartWatch(w)
    PROVE  WatchInv'
<1>1. /\ WatchTypeOK /\ session \in [Watchers -> Sessions] /\ wire \in [Watchers -> Seq(Numbers)]
  BY WatchTypes DEF WatchInv
<1>2. session[w] \in Sessions /\ session[w].pending \in Seq(Numbers) /\ wire[w] \in Seq(Numbers)
  BY <1>1 DEF Sessions
<1> DEFINE rest == Removed(session[w].pending, session[w].initial)
<1>3. rest \in Seq(Numbers) /\ ToSet(rest) = ToSet(session[w].pending) \ session[w].initial
  BY <1>2, RemovedIs
<1>4. wire[w] \o rest \in Seq(Numbers) /\ ToSet(wire[w] \o rest) = ToSet(wire[w]) \cup ToSet(rest)
  <2> HIDE DEF rest
  <2> QED BY <1>2, <1>3, ToSetConcat
<1>5. /\ wire' = [wire EXCEPT ![w] = wire[w] \o rest]
      /\ session' = [session EXCEPT ![w].state = "started", ![w].pending = <<>>]
      /\ UNCHANGED <<newest, acked, collected, batch, held, shown>>
      /\ session[w].state = "listed"
  BY DEF StartWatch
<1> HIDE DEF rest
<1>6. /\ wire'[w] = wire[w] \o rest /\ session'[w].state = "started"
      /\ session'[w].after = session[w].after /\ session'[w].pending = <<>>
      /\ session'[w].initial = session[w].initial
  BY <1>1, <1>2, <1>5 DEF Sessions
<1>7. session' \in [Watchers -> Sessions] /\ wire' \in [Watchers -> Seq(Numbers)]
  <2>1. [session[w] EXCEPT !.state = "started", !.pending = <<>>] \in Sessions
    BY <1>2, EmptySeq DEF Sessions
  <2>2. session' = [session EXCEPT ![w] = [session[w] EXCEPT !.state = "started", !.pending = <<>>]]
    BY <1>1, <1>2, <1>5 DEF Sessions
  <2> QED BY <1>1, <1>4, <1>5, <2>1, <2>2
<1>8. WatchTypeOK'
  <2>1. /\ newest' \in 0..MaxEntries /\ acked' \subseteq Inserted' /\ collected' \subseteq acked'
        /\ batch' \in [Writers -> Seq(Numbers)]
        /\ {wire', held', shown'} \subseteq [Watchers -> Seq(Numbers)]
    BY <1>1, <1>5, <1>7, WatchTypes DEF Inserted
  <2> QED BY <1>7, <2>1 DEF WatchTypeOK, Sessions, Numbers
<1>9. \A v \in Watchers : v # w => session'[v] = session[v] /\ wire'[v] = wire[v]
  BY <1>1, <1>5
<1>10. ASSUME NEW v \in Watchers, Attached(v)'
       PROVE  Attached(v) /\ session'[v].after = session[v].after /\ Coming(v) \subseteq Coming(v)'
  <2>1. CASE v = w
    <3>1. session[w].initial \subseteq ToSet(wire[w]) \cup ToSet(held[w]) \cup ToSet(shown[w])
      BY <1>5 DEF WatchInv, ListedIsComing
    <3>2. Coming(w)' = ToSet(<<>>) \cup ToSet(wire'[w]) \cup ToSet(held[w])
                         \cup ToSet(shown[w]) \cup UNION {ToSet(batch[q]) : q \in Writers}
      BY <1>5, <1>6 DEF Coming
    <3>3. Coming(w) \subseteq Coming(w)'
      BY <1>3, <1>4, <1>6, <3>1, <3>2 DEF Coming
    <3>4. Attached(w)
      BY <1>5 DEF Attached
    <3> QED BY <1>6, <2>1, <3>3, <3>4
  <2>2. CASE v # w
    <3>1. session'[v] = session[v] /\ wire'[v] = wire[v]
      BY <1>9, <2>2
    <3> QED BY <1>5, <1>10, <3>1 DEF Attached, Coming
  <2> QED BY <2>1, <2>2
<1>11. NothingUnseen'
  <2>1. ASSUME NEW v \in Watchers
        PROVE  Attached(v)' => \A e \in Listed(session[v].after)' : e \in Coming(v)'
    <3>1. newest' = newest /\ acked' = acked
      BY <1>5
    <3> QED BY <1>10, <3>1, StaysComing
  <2> QED BY <2>1 DEF NothingUnseen
<1>12. ListedIsComing'
  <2>1. ListedIsComing
    BY DEF WatchInv
  <2>2. ASSUME NEW v \in Watchers, session'[v].state = "listed"
        PROVE  session'[v].initial \subseteq ToSet(wire'[v]) \cup ToSet(held'[v]) \cup ToSet(shown'[v])
    <3>1. v # w
      BY <1>6, <2>2
    <3> QED BY <1>5, <1>9, <2>1, <2>2, <3>1 DEF ListedIsComing
  <2> QED BY <2>2 DEF ListedIsComing
<1> QED BY <1>8, <1>11, <1>12 DEF WatchInv

\* A frame moves on: from the wire to the client, or from the client to its caller.
LEMMA FramesKeep ==
    ASSUME WatchInv, NEW w \in Watchers, Receive(w) \/ Show(w)
    PROVE  WatchInv'
<1>1. /\ WatchTypeOK /\ wire \in [Watchers -> Seq(Numbers)] /\ held \in [Watchers -> Seq(Numbers)]
      /\ shown \in [Watchers -> Seq(Numbers)]
  BY WatchTypes DEF WatchInv
<1>2. UNCHANGED <<newest, acked, collected, batch, session>>
  BY DEF Receive, Show
<1>3. /\ wire' \in [Watchers -> Seq(Numbers)] /\ held' \in [Watchers -> Seq(Numbers)]
      /\ shown' \in [Watchers -> Seq(Numbers)]
      /\ \A v \in Watchers : ToSet(wire[v]) \cup ToSet(held[v]) \cup ToSet(shown[v])
                                \subseteq ToSet(wire'[v]) \cup ToSet(held'[v]) \cup ToSet(shown'[v])
  <2>1. CASE Receive(w)
    <3>1. /\ Head(wire[w]) \in Numbers /\ Tail(wire[w]) \in Seq(Numbers)
          /\ ToSet(wire[w]) = {Head(wire[w])} \cup ToSet(Tail(wire[w]))
      BY <1>1, <2>1, ToSetFacts DEF Receive
    <3>2. /\ Append(held[w], Head(wire[w])) \in Seq(Numbers)
          /\ ToSet(Append(held[w], Head(wire[w]))) = ToSet(held[w]) \cup {Head(wire[w])}
      BY <1>1, <3>1, ToSetFacts
    <3>3. /\ held' = [held EXCEPT ![w] = Append(held[w], Head(wire[w]))]
          /\ wire' = [wire EXCEPT ![w] = Tail(wire[w])] /\ shown' = shown
      BY <2>1 DEF Receive
    <3>4. /\ held'[w] = Append(held[w], Head(wire[w])) /\ wire'[w] = Tail(wire[w])
          /\ \A v \in Watchers : v # w => held'[v] = held[v] /\ wire'[v] = wire[v]
      BY <1>1, <3>3
    <3>5. wire' \in [Watchers -> Seq(Numbers)] /\ held' \in [Watchers -> Seq(Numbers)]
      BY <1>1, <3>1, <3>2, <3>3
    <3>6. ASSUME NEW v \in Watchers
          PROVE  ToSet(wire[v]) \cup ToSet(held[v]) \subseteq ToSet(wire'[v]) \cup ToSet(held'[v])
      <4>1. CASE v = w
        BY <3>1, <3>2, <3>4, <4>1
      <4>2. CASE v # w
        BY <3>4, <4>2
      <4> QED BY <4>1, <4>2
    <3> QED BY <1>1, <3>3, <3>5, <3>6
  <2>2. CASE Show(w)
    <3>1. /\ Head(held[w]) \in Numbers /\ Tail(held[w]) \in Seq(Numbers)
          /\ ToSet(held[w]) = {Head(held[w])} \cup ToSet(Tail(held[w]))
      BY <1>1, <2>2, ToSetFacts DEF Show
    <3>2. /\ Append(shown[w], Head(held[w])) \in Seq(Numbers)
          /\ ToSet(Append(shown[w], Head(held[w]))) = ToSet(shown[w]) \cup {Head(held[w])}
      BY <1>1, <3>1, ToSetFacts
    <3>3. /\ shown' = [shown EXCEPT ![w] = Append(shown[w], Head(held[w]))]
          /\ held' = [held EXCEPT ![w] = Tail(held[w])] /\ wire' = wire
      BY <2>2 DEF Show
    <3>4. /\ shown'[w] = Append(shown[w], Head(held[w])) /\ held'[w] = Tail(held[w])
          /\ \A v \in Watchers : v # w => shown'[v] = shown[v] /\ held'[v] = held[v]
      BY <1>1, <3>3
    <3>5. shown' \in [Watchers -> Seq(Numbers)] /\ held' \in [Watchers -> Seq(Numbers)]
      BY <1>1, <3>1, <3>2, <3>3
    <3>6. ASSUME NEW v \in Watchers
          PROVE  ToSet(shown[v]) \cup ToSet(held[v]) \subseteq ToSet(shown'[v]) \cup ToSet(held'[v])
      <4>1. CASE v = w
        BY <3>1, <3>2, <3>4, <4>1
      <4>2. CASE v # w
        BY <3>4, <4>2
      <4> QED BY <4>1, <4>2
    <3> QED BY <1>1, <3>3, <3>5, <3>6
  <2> QED BY <2>1, <2>2
<1>4. WatchTypeOK'
  <2>1. /\ newest' \in 0..MaxEntries /\ acked' \subseteq Inserted' /\ collected' \subseteq acked'
        /\ batch' \in [Writers -> Seq(Numbers)] /\ session' \in [Watchers -> Sessions]
        /\ {wire', held', shown'} \subseteq [Watchers -> Seq(Numbers)]
    BY <1>1, <1>2, <1>3, WatchTypes DEF Inserted
  <2> QED BY <2>1 DEF WatchTypeOK, Sessions, Numbers
<1>5. ASSUME NEW v \in Watchers
      PROVE  Coming(v) \subseteq Coming(v)' /\ (Attached(v)' <=> Attached(v))
  BY <1>2, <1>3 DEF Coming, Attached
<1>6. NothingUnseen'
  <2>1. ASSUME NEW v \in Watchers
        PROVE  Attached(v)' => \A e \in Listed(session[v].after)' : e \in Coming(v)'
    <3>1. newest' = newest /\ acked' = acked /\ session' = session
      BY <1>2
    <3> QED BY <1>5, <3>1, StaysComing
  <2> QED BY <2>1 DEF NothingUnseen
<1>7. ListedIsComing'
  <2>1. ASSUME NEW v \in Watchers, session[v].state = "listed"
        PROVE  session[v].initial \subseteq ToSet(wire'[v]) \cup ToSet(held'[v]) \cup ToSet(shown'[v])
    BY <1>3, <2>1 DEF WatchInv, ListedIsComing
  <2> QED BY <1>2, <2>1 DEF ListedIsComing
<1> QED BY <1>4, <1>6, <1>7 DEF WatchInv

\* Connections end, one or all; entries are acked and collected.
LEMMA EndsKeep ==
    ASSUME WatchInv, DaemonRestart \/ Ack \/ CollectAcked \/ \E w \in Watchers : Cut(w)
    PROVE  WatchInv'
<1>1. /\ WatchTypeOK /\ session \in [Watchers -> Sessions] /\ wire \in [Watchers -> Seq(Numbers)]
      /\ batch \in [Writers -> Seq(Numbers)] /\ newest \in Nat
  BY WatchTypes, WatchAssumption DEF WatchInv
<1>2. /\ newest' = newest /\ held' = held /\ shown' = shown
      /\ acked \subseteq acked' /\ acked' \subseteq Inserted /\ collected' \subseteq acked'
  <2>1. CASE Ack
    <3>1. PICK e \in Inserted : \E named \in {{e}, 1..e} : acked' = acked \cup named
      BY <2>1 DEF Ack
    <3>2. {e} \subseteq Inserted /\ 1..e \subseteq Inserted
      BY <1>1, <3>1 DEF Inserted
    <3>3. acked \subseteq Inserted /\ collected \subseteq acked
      BY <1>1, WatchTypes
    <3> QED BY <2>1, <3>1, <3>2, <3>3 DEF Ack
  <2>2. CASE CollectAcked
    BY <1>1, <2>2, WatchTypes DEF CollectAcked
  <2>3. CASE DaemonRestart
    BY <1>1, <2>3, WatchTypes DEF DaemonRestart
  <2>4. ASSUME NEW w \in Watchers, Cut(w)
        PROVE  /\ newest' = newest /\ held' = held /\ shown' = shown
               /\ acked \subseteq acked' /\ acked' \subseteq Inserted /\ collected' \subseteq acked'
    BY <1>1, <2>4, WatchTypes DEF Cut
  <2> QED BY <2>1, <2>2, <2>3, <2>4
<1>3. /\ session' \in [Watchers -> Sessions] /\ wire' \in [Watchers -> Seq(Numbers)]
      /\ batch' \in [Writers -> Seq(Numbers)]
      /\ \A v \in Watchers : Attached(v)' => /\ session'[v] = session[v] /\ wire'[v] = wire[v]
                                             /\ batch' = batch
  <2>1. CASE Ack \/ CollectAcked
    BY <1>1, <2>1 DEF Ack, CollectAcked
  <2>2. CASE DaemonRestart
    <3>1. \A v \in Watchers : session'[v] = Off
      BY <2>2 DEF DaemonRestart
    <3>2. \A v \in Watchers : ~Attached(v)'
      BY <3>1 DEF Attached, Off
    <3> QED BY <2>2, <3>2, OffIsSession, EmptySeq DEF DaemonRestart
  <2>3. ASSUME NEW w \in Watchers, Cut(w)
        PROVE  /\ session' \in [Watchers -> Sessions] /\ wire' \in [Watchers -> Seq(Numbers)]
               /\ batch' = batch
               /\ \A v \in Watchers : Attached(v)' => session'[v] = session[v] /\ wire'[v] = wire[v]
    <3>1. session' = [session EXCEPT ![w] = Off] /\ wire' = [wire EXCEPT ![w] = <<>>] /\ batch' = batch
      BY <2>3 DEF Cut
    <3>2. ~Attached(w)'
      BY <1>1, <3>1 DEF Attached, Off
    <3> QED BY <1>1, <3>1, <3>2, OffIsSession, EmptySeq
  <2> QED BY <1>1, <2>1, <2>2, <2>3
<1>4. WatchTypeOK'
  <2>1. /\ newest' \in 0..MaxEntries /\ acked' \subseteq Inserted' /\ collected' \subseteq acked'
        /\ {wire', held', shown'} \subseteq [Watchers -> Seq(Numbers)]
    BY <1>1, <1>2, <1>3, WatchTypes DEF Inserted
  <2> QED BY <1>3, <2>1 DEF WatchTypeOK, Sessions, Numbers
<1>5. ASSUME NEW v \in Watchers, Attached(v)'
      PROVE  Coming(v)' = Coming(v) /\ Attached(v) /\ session'[v] = session[v]
  BY <1>2, <1>3, <1>5 DEF Coming, Attached
<1>6. NothingUnseen'
  <2>1. ASSUME NEW v \in Watchers
        PROVE  Attached(v)' => \A e \in Listed(session[v].after)' : e \in Coming(v)'
    BY <1>2, <1>5, StaysComing
  <2> QED BY <2>1 DEF NothingUnseen
<1>7. ListedIsComing'
  <2>1. ASSUME NEW v \in Watchers, session'[v].state = "listed"
        PROVE  session'[v].initial \subseteq ToSet(wire'[v]) \cup ToSet(held'[v]) \cup ToSet(shown'[v])
    <3>1. session'[v] = session[v] /\ wire'[v] = wire[v]
      BY <1>3, <2>1 DEF Attached
    <3> QED BY <1>2, <2>1, <3>1 DEF WatchInv, ListedIsComing
  <2> QED BY <2>1 DEF ListedIsComing
<1> QED BY <1>4, <1>6, <1>7 DEF WatchInv

LEMMA WatchStepOK == WatchInv /\ [WatchNext]_watchVars => WatchInv'
<1> SUFFICES ASSUME WatchInv, [WatchNext]_watchVars PROVE WatchInv'
  OBVIOUS
<1>1. ASSUME NEW p \in Writers, StoreEntry(p) PROVE WatchInv'
  BY <1>1, StoreEntryKeeps
<1>2. ASSUME NEW p \in Writers, PollEnds(p) PROVE WatchInv'
  BY <1>2, PollEndsKeeps
<1>3. CASE DirectMessage
  BY <1>3, DirectMessageKeeps
<1>4. CASE DaemonRestart \/ Ack \/ CollectAcked \/ \E w \in Watchers : Cut(w)
  BY <1>4, EndsKeep
<1>5. ASSUME NEW w \in Watchers, StartWatch(w) PROVE WatchInv'
  BY <1>5, StartKeeps
<1>6. ASSUME NEW w \in Watchers, Receive(w) \/ Show(w) PROVE WatchInv'
  BY <1>6, FramesKeep
<1>7. ASSUME NEW w \in Watchers, NEW after \in Anchors(w), Open(w, after) PROVE WatchInv'
  BY <1>7, OpenKeeps
<1>8. CASE UNCHANGED watchVars
  BY <1>8 DEF watchVars, WatchInv, WatchTypeOK, NothingUnseen, ListedIsComing, Attached, Listed,
              Inserted, Coming
<1> QED BY <1>1, <1>2, <1>3, <1>4, <1>5, <1>6, <1>7, <1>8 DEF WatchNext

(* A watcher of an inbox misses no unacked entry after its anchor: each was shown, is on *)
(* its way, or is held by the writer that stored it and will tell it (watchInbox, its    *)
(* start, and notifyInboxWatchers of a poll, of a failed poll and of a direct message).  *)
THEOREM WatchersMissNothing == WatchSpec => []WatchIsSound
<1>1. WatchInv => WatchIsSound
  BY DEF WatchInv, WatchIsSound
<1> QED BY <1>1, WatchInitOK, WatchStepOK, PTL DEF WatchSpec
=============================================================================
