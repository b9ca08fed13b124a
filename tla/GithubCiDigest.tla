--------------------------- MODULE GithubCiDigest ---------------------------
(***************************************************************************)
(* The notification policy of the GitHub ci_runs stream for one digest     *)
(* group, usually a pull request (src/sources/github_ci.ts).  Items carry  *)
(* the evidence of workflow runs, in any order and however late.  At each  *)
(* look at the open thread the gate merges the unacked items into the      *)
(* state committed with the last snapshot, and decides whether they are    *)
(* published: the first failure, the complete result, or the timeout.      *)
(* What it merged is kept only if it publishes.                            *)
(*                                                                         *)
(* A look is one step: DigestThreads is about what falls between its       *)
(* awaits.  An instant is a number, 0 stands for a missing one.            *)
(***************************************************************************)
EXTENDS Integers, FiniteSets, Sequences, SequencesExt

CONSTANTS
    Worlds,     \* what may happen at the provider: sets of evidence
    Expected,   \* config.expectedWorkflowIds, {} if there are none
    Timeout,    \* config.digestFlushTimeoutSecs
    MaxClock,   \* the end of time
    NoState     \* no row in digest_notification_states

VARIABLES
    world,      \* the evidence the provider has or will have
    clock,
    delivered,  \* of it, what became items
    published,  \* items that are in a snapshot
    acked,      \* items the reader is done with
    state,      \* the notification state committed with the last snapshot
    notice,     \* the phase of the last notice, and whether it claims success
    alerted,    \* the failed attempts any notice listed (history)
    stalled     \* the attempts listed since a notice of a timeout, until one of them is
                \* replaced (history)

ciVars == <<world, clock, delivered, published, acked, state, notice, alerted, stalled>>

Init ==
    /\ world \in Worlds
    /\ clock = 0 /\ delivered = {} /\ published = {} /\ acked = {}
    /\ state = NoState
    /\ notice = [phase |-> "none", success |-> FALSE]
    /\ alerted = {} /\ stalled = {}

-----------------------------------------------------------------------------
(* Merging evidence. *)

Terminal(e) == e.status = "completed" \/ e.conclusion # "none"
Failed(e) == e.conclusion = "failure"
Attempt(e) == <<e.run, e.attempt>>

\* The order of lists of keys, most significant first.
Earlier(a, b) ==
    \E i \in DOMAIN a : a[i] < b[i] /\ \A j \in 1..(i - 1) : a[j] = b[j]

\* How much is known of the outcome.
Outcome(e) == IF e.conclusion # "none" THEN 2 ELSE IF Terminal(e) THEN 1 ELSE 0

\* The order evidence is merged in.  What the code leaves as it came, two updates of an
\* attempt within one second, is ordered by its outcome, which makes no difference.
Before(d, e) ==
    Earlier(<<d.created, d.run, d.attempt, d.updated, Outcome(d)>>,
            <<e.created, e.run, e.attempt, e.updated, Outcome(e)>>)

Sorted(evidence) ==
    [i \in 1..Cardinality(evidence) |->
        CHOOSE e \in evidence : Cardinality({d \in evidence : Before(d, e)}) = i - 1]

\* A later run of the same workflow, by creation and then by number.
NewerRun(d, e) == Earlier(<<e.created, e.run>>, <<d.created, d.run>>)

\* The evidence that says most about the current push: none without a creation time.
Newest(evidence) ==
    LET s == Sorted({e \in evidence : e.created > 0}) IN IF s = <<>> THEN {} ELSE {Last(s)}

NewHead(e, evidence) ==
    [sha |-> e.sha, headCreated |-> e.created, headRun |-> e.run, generation |-> 1,
     started |-> Head(Sorted({d \in evidence : d.sha = e.sha /\ d.created > 0})).created,
     runs |-> {}, first |-> FALSE, final |-> <<>>, incomplete |-> FALSE, notified |-> {}]

\* A push that was created later takes over; what is known of the old one is dropped.
Based(s, evidence) ==
    LET takers == {e \in Newest(evidence) :
                     s = NoState \/ (e.sha # s.sha
                         /\ Earlier(<<s.headCreated, s.headRun>>, <<e.created, e.run>>))}
    IN  IF takers = {} THEN s ELSE NewHead(CHOOSE e \in takers : TRUE, evidence)

Same(runs, e) == {p \in runs : p.workflow = e.workflow}

\* What is selected of a workflow stays against an older run, an older attempt, and what
\* was overtaken within the attempt.
Stale(e, p) ==
    IF e.run # p.run THEN ~NewerRun(e, p)
    ELSE \/ e.attempt < p.attempt
         \/ e.attempt = p.attempt
            /\ \/ Terminal(p) /\ (p.conclusion # "none" \/ e.conclusion = "none")
               \/ ~Terminal(e) /\ e.updated < p.updated

Advanced(s, e) ==
    IF Earlier(<<s.headCreated, s.headRun>>, <<e.created, e.run>>)
    THEN [s EXCEPT !.headCreated = e.created, !.headRun = e.run] ELSE s

Replaced(s, e) == Advanced([s EXCEPT !.runs = (@ \ Same(@, e)) \cup {e}], e)

\* A plausible slip: the latest attempt to arrive is taken for the latest.
SelectedAsTheyCome(s, e) ==
    IF \E p \in Same(s.runs, e) : e.run # p.run /\ Stale(e, p) THEN s ELSE Replaced(s, e)

Selected(s, e) == IF \E p \in Same(s.runs, e) : Stale(e, p) THEN s ELSE Replaced(s, e)

\* Before a snapshot is committed, the first evidence of a workflow is what later
\* evidence is compared with.
Baseline(s, evidence, uncommitted) ==
    IF ~uncommitted THEN s.runs
    ELSE FoldLeft(LAMBDA runs, e : IF Same(runs, e) = {} THEN runs \cup {e} ELSE runs,
                  s.runs, Sorted(evidence))

Merged(s, evidence, uncommitted) ==
    FoldLeft(Selected, [s EXCEPT !.runs = Baseline(s, evidence, uncommitted)],
             Sorted(evidence))

\* The evidence of a rerun, or of a run that replaces another.
Reruns(s, runs, evidence, uncommitted) ==
    {e \in evidence :
        /\ \E r \in runs : Attempt(r) = Attempt(e)
        /\ \E p \in Same(Baseline(s, evidence, uncommitted), e) :
              e.run # p.run \/ e.attempt > p.attempt \/ (uncommitted /\ e.attempt > 1)}

StartOf(e) == IF e.attempt > 1 THEN e.updated ELSE e.created

\* It starts a generation, in which everything may be notified again.
Renewed(s, reruns) ==
    IF reruns = {} THEN s
    ELSE [s EXCEPT !.generation = @ + 1, !.first = FALSE, !.final = <<>>, !.incomplete = FALSE,
             !.started = CHOOSE t \in {StartOf(e) : e \in reruns} :
                             \A e \in reruns : t <= StartOf(e)]

Forgotten(s) == [s EXCEPT !.notified = @ \cap {Attempt(r) : r \in s.runs}]

\* mergeGithubCiEvidence.
Evidence(items) ==
    LET s == Based(state, items)
        of == {e \in items : s # NoState /\ e.sha = s.sha}
        uncommitted == state = NoState
        t == Merged(s, of, uncommitted)
    IN  IF s = NoState THEN NoState
        ELSE Forgotten(Renewed(t, Reruns(s, t.runs, of, uncommitted)))

-----------------------------------------------------------------------------
(* The gate. *)

Unsettled(s) == {r \in s.runs : ~Terminal(r) \/ r.conclusion = "none"}
Complete(s) ==
    /\ Expected # {} /\ Expected \subseteq {r.workflow : r \in s.runs}
    /\ Unsettled(s) = {}
TimedOut(s) == s.started > 0 /\ clock - s.started >= Timeout
Failures(s) == {Attempt(r) : r \in {q \in s.runs : Failed(q)}}
Fingerprint(s) ==
    <<s.sha, s.generation, {<<r.run, r.attempt, r.status, r.conclusion>> : r \in s.runs}>>

\* A plausible slip: an unchanged failure is urgent again in each generation.
FirstFailureOfGeneration(s) == ~s.first /\ Failures(s) # {}

FirstFailure(s) == ~s.first /\ ~(Failures(s) \subseteq s.notified)
FinalResult(s) == Complete(s) /\ s.final # Fingerprint(s)
GivenUp(s) == ~Complete(s) /\ TimedOut(s) /\ ~s.incomplete

Phase(s) ==
    CASE s = NoState -> "none"
      [] s # NoState /\ FirstFailure(s) -> "first"
      [] s # NoState /\ ~FirstFailure(s) /\ FinalResult(s) -> "final"
      [] s # NoState /\ ~FirstFailure(s) /\ ~FinalResult(s) /\ GivenUp(s) -> "incomplete"
      [] OTHER -> "none"

\* The state that is committed with the snapshot.
Notified(s, phase) ==
    [s EXCEPT !.first = @ \/ phase = "first",
              !.final = IF phase = "final" \/ (phase = "first" /\ Complete(s))
                        THEN Fingerprint(s) ELSE @,
              !.incomplete = @ \/ phase = "incomplete",
              !.notified = Failures(s)]

-----------------------------------------------------------------------------
(* The thread. *)

Unacked == delivered \ acked

Listed(s) == {<<s.sha, r.workflow, Attempt(r)>> : r \in s.runs}
Renewing(s) ==
    \E x \in Listed(s), y \in stalled : x[1] # y[1] \/ (x[2] = y[2] /\ x[3] # y[3])

\* decideGithubCiDigestFlush, on an append or when the thread is due; only a thread
\* with items that are not in a snapshot is looked at.
Look(items) ==
    LET s == Evidence(items)
        phase == Phase(s)
    IN  IF phase = "none" THEN UNCHANGED <<published, state, notice, alerted, stalled>>
        ELSE /\ published' = published \cup items
             /\ state' = Notified(s, phase)
             /\ notice' = [phase |-> phase,
                           success |-> phase = "final"
                                       /\ \A r \in s.runs : r.conclusion = "success"]
             /\ alerted' = alerted \cup Failures(s)
             /\ stalled' = IF phase = "incomplete" THEN Listed(s)
                           ELSE IF stalled = {} \/ Renewing(s) THEN {} ELSE stalled \cup Listed(s)

Arrive(e) ==
    /\ e \notin delivered /\ clock >= e.updated
    /\ delivered' = delivered \cup {e}
    /\ Look(Unacked \cup {e})
    /\ UNCHANGED <<world, clock, acked>>

Recheck ==
    /\ Unacked \ published # {}
    /\ Look(Unacked)
    /\ UNCHANGED <<world, clock, delivered, acked>>

\* The reader acks the snapshot it sees.
Ack ==
    /\ published \ acked # {}
    /\ acked' = published
    /\ UNCHANGED <<world, clock, delivered, published, state, notice, alerted, stalled>>

Tick ==
    /\ clock < MaxClock /\ clock' = clock + 1
    /\ UNCHANGED <<world, delivered, published, acked, state, notice, alerted, stalled>>

Next == Recheck \/ Ack \/ Tick \/ \E e \in world : Arrive(e)

Spec == Init /\ [][Next]_ciVars

-----------------------------------------------------------------------------
(* Properties *)

\* How far the evidence of a workflow on a push is, whenever it arrived.
Rank(e) == <<e.created, e.run, e.attempt, Outcome(e), e.updated>>

Latest(evidence) ==
    {e \in evidence : \A d \in evidence : d.workflow = e.workflow => ~Earlier(Rank(e), Rank(d))}

\* A notice is about the push that was created last and lists the latest attempt of
\* each of its workflows, of all that ever arrived: in whatever order it came, and
\* although what was acked in between is no longer among the items that are merged.
\* A success is claimed of every expected workflow.
NoticesAreCurrent ==
    [][state' # state =>
          /\ \A e \in Newest(delivered') : e.sha = state'.sha
          /\ state'.runs = Latest({e \in delivered' : e.sha = state'.sha})
          /\ notice'.success => \A w \in Expected : \E e \in state'.runs :
                                  e.workflow = w /\ e.conclusion = "success"]_ciVars

\* docs/site/reference/github-ci-notification-policy.md: an unchanged failure is not
\* urgent again, and a timeout is not reported again, through acks, replays and reruns,
\* unless a new attempt or a new push is among what it lists.
NothingIsToldTwice ==
    [][state' # state =>
          /\ notice'.phase = "first" => ~(Failures(state') \subseteq alerted)
          /\ notice'.phase = "incomplete" => stalled = {} \/ Renewing(state')]_ciVars

\* Both: no notice is out of date, and none repeats another.
NoticesAreSound == NoticesAreCurrent /\ NothingIsToldTwice
=============================================================================
