-------------------------- MODULE DecisionReports --------------------------
(***************************************************************************)
(* The guidance an operator sees.  Each perception result is assessed,     *)
(* observed and decided on by the camera's analysis pipeline; the decision *)
(* engine issues a report only when there is something new to say, and the *)
(* decision service keeps the last one it was handed.  Engine and service  *)
(* are reset by different events, and a stage that raises after the engine *)
(* has decided takes the report with it.  A tick is a quarter of the       *)
(* longest time the engine stays silent.                                   *)
(***************************************************************************)
EXTENDS CrowdGuidance

CONSTANTS Scenes,      \* the windows a camera sees
          Said,        \* what each says at each confidence it can be seen with
          Interval,    \* report_min_interval_seconds, in ticks
          Filling      \* smoothing_seconds, in ticks

Confidences(w) == {(w.quality * f) \div Filling : f \in 0..Filling}

ConstantsAssumption ==
    /\ \A w \in Scenes :
          /\ w.status \in Statuses /\ w.quality \in 0..100
          /\ \A c \in Confidences(w) : Said[w][c].asked \in LOW..URGENT
    /\ Interval \in Nat \ {0} /\ Filling \in Nat \ {0}

VARIABLES
    filled,      \* ticks of history in the smoothed index; None before a sample
    idle,        \* ticks since the last sample, up to Filling
    latest,      \* the engine's last report, or NoReport
    age,         \* ticks since it was issued, up to Interval
    priority,    \* the priority in force, or None
    candidate,   \* the one that may replace it, or None
    run,         \* windows in a row that said so
    panel,       \* the decision service's last report, or NoReport
    cut,         \* whether the next result is of a session the service has not seen
    assessed,    \* the last window delivered, with its confidence; or NoWindow
    recent,      \* what the last windows since a reset called for
    lost         \* whether a report was issued and not delivered since

engineVars == <<latest, age, priority, candidate, run>>
vars == <<filled, idle, engineVars, panel, cut, assessed, recent, lost>>

NoReport == [status |-> None, priority |-> None, actions |-> <<>>, confidence |-> None]
NoWindow == <<>>
HysteresisWindows == 3
ConfidenceStep == 15

Upto(n, cap) == Min({n, cap})

Init ==
    /\ filled = None /\ idle = 0
    /\ latest = NoReport /\ age = 0 /\ priority = None /\ candidate = None /\ run = 0
    /\ panel = NoReport /\ cut = FALSE
    /\ assessed = NoWindow /\ recent = <<>> /\ lost = FALSE

-----------------------------------------------------------------------------
\* The average has history from its second sample on.
FilledBy(restart) == IF restart \/ filled = None THEN 0 ELSE Upto(filled + idle, Filling)

\* Decision Confidence: detection and tracking, and how full the average is.
Confidence(w, restart) == (w.quality * FilledBy(restart)) \div Filling

\* _stabilise_priority, from the priority p, candidate q and run n held.
Held(observed, p, q, n) ==
    IF p = None \/ observed = p THEN [priority |-> observed, candidate |-> None, run |-> 0]
    ELSE LET m == IF observed = q THEN n + 1 ELSE 1
         IN  IF m >= HysteresisWindows
             THEN [priority |-> observed, candidate |-> None, run |-> 0]
             ELSE [priority |-> p, candidate |-> observed, run |-> m]

Distance(a, b) == IF a < b THEN b - a ELSE a - b

\* Mutant: guidance is reissued only when it changed.
IsReportableOnChange(r, old, since) ==
    \/ old = NoReport
    \/ r.status # old.status \/ r.priority # old.priority \/ r.actions # old.actions
    \/ Distance(r.confidence, old.confidence) >= ConfidenceStep

\* _is_reportable: r after old, issued since ticks ago.
IsReportable(r, old, since) ==
    \/ old = NoReport
    \/ r.status # old.status
    \/ r.priority # old.priority
    \/ r.actions # old.actions
    \/ Distance(r.confidence, old.confidence) >= ConfidenceStep
    \/ since >= Interval

\* Mutant: the engine keeps what it reported last.
EngineResetPriority ==
    /\ UNCHANGED <<latest, age>>
    /\ priority' = None /\ candidate' = None /\ run' = 0
    /\ recent' = <<>>

\* reset: reporting state, history and counters.
EngineReset ==
    /\ latest' = NoReport /\ age' = 0
    /\ priority' = None /\ candidate' = None /\ run' = 0
    /\ recent' = <<>>

Asked(w, c) == Said[w][c].asked

HeldAfter(w, c, restart) ==
    IF restart THEN Held(Asked(w, c), None, None, 0)
               ELSE Held(Asked(w, c), priority, candidate, run)

ReportOf(w, c, restart) ==
    [status |-> w.status, priority |-> HeldAfter(w, c, restart).priority,
     actions |-> Said[w][c].actions, confidence |-> c]

Issues(w, c, restart) ==
    IsReportable(ReportOf(w, c, restart), IF restart THEN NoReport ELSE latest, age)

LastOf(s, n) == SubSeq(s, Max({1, Len(s) - n + 1}), Len(s))

\* evaluate: nothing is recorded of a window that is not reportable.
Evaluate(w, c, restart) ==
    LET h == HeldAfter(w, c, restart)
    IN  /\ priority' = h.priority /\ candidate' = h.candidate /\ run' = h.run
        /\ recent' = LastOf(Append(IF restart THEN <<>> ELSE recent, Asked(w, c)), HysteresisWindows)
        /\ IF Issues(w, c, restart)
           THEN latest' = ReportOf(w, c, restart) /\ age' = 0
           ELSE UNCHANGED <<latest, age>>

-----------------------------------------------------------------------------
Sample(restart) == filled' = FilledBy(restart) /\ idle' = 0

\* One perception result, assessed, handed on and recorded by the service.
Window(w, restart) ==
    LET c == Confidence(w, restart)
    IN  /\ Sample(restart) /\ Evaluate(w, c, restart)
        /\ assessed' = <<w, c>>
        /\ panel' = IF Issues(w, c, restart) THEN ReportOf(w, c, restart)
                    ELSE IF cut THEN NoReport ELSE panel
        /\ cut' = FALSE
        /\ lost' = (lost /\ ~Issues(w, c, restart))

\* A stage before the engine raises: measuring, or, with the sample taken,
\* observing.
FailsBefore(restart, sampled) ==
    /\ IF sampled THEN Sample(restart)
       ELSE IF restart THEN filled' = None /\ idle' = 0 ELSE UNCHANGED <<filled, idle>>
    /\ IF restart THEN EngineReset ELSE UNCHANGED <<engineVars, recent>>
    /\ cut' = (cut \/ restart)
    /\ UNCHANGED <<panel, assessed, lost>>

\* A stage after it raises: the engine has decided, and nobody hears of it.
FailsAfter(w, restart) ==
    LET c == Confidence(w, restart)
    IN  /\ Sample(restart) /\ Evaluate(w, c, restart)
        /\ cut' = (cut \/ restart)
        /\ lost' = (Issues(w, c, restart) \/ lost)
        /\ UNCHANGED <<panel, assessed>>

\* CameraRuntime.stop resets the pipeline; the next result is a new session's.
CameraStops ==
    /\ EngineReset /\ filled' = None /\ idle' = 0
    /\ assessed' = NoWindow /\ cut' = TRUE
    /\ UNCHANGED <<panel, lost>>

\* Redrawn zones: a new pipeline within the session.
RebuildAnalysis ==
    /\ EngineReset /\ filled' = None /\ idle' = 0
    /\ assessed' = NoWindow
    /\ UNCHANGED <<panel, cut, lost>>

Tick ==
    /\ idle' = (IF filled = None THEN 0 ELSE Upto(idle + 1, Filling))
    /\ age' = (IF latest = NoReport THEN 0 ELSE Upto(age + 1, Interval))
    /\ UNCHANGED <<filled, latest, priority, candidate, run, panel, cut, assessed, recent, lost>>

Next ==
    \/ \E w \in Scenes, restart \in BOOLEAN : Window(w, restart) \/ FailsAfter(w, restart)
    \/ \E restart, sampled \in BOOLEAN : FailsBefore(restart, sampled)
    \/ CameraStops \/ RebuildAnalysis
    \/ Tick

Spec == Init /\ [][Next]_vars

-----------------------------------------------------------------------------
Report == [status : Statuses, priority : LOW..URGENT, actions : Seq(RuleIds), confidence : 0..100]

TypeOK ==
    /\ filled \in {None} \cup 0..Filling /\ idle \in 0..Filling
    /\ latest \in Report \cup {NoReport} /\ panel \in Report \cup {NoReport}
    /\ age \in 0..Interval
    /\ priority \in {None} \cup LOW..URGENT /\ candidate \in {None} \cup LOW..URGENT
    /\ run \in 0..HysteresisWindows - 1
    /\ candidate # None <=> run > 0
    /\ cut \in BOOLEAN /\ lost \in BOOLEAN
    /\ assessed = NoWindow \/ assessed \in Scenes \X (0..100)
    /\ Len(recent) <= HysteresisWindows

(* What the operator's panel says is what the last assessment calls for:   *)
(* its status, its actions, the priority in force, and a confidence an     *)
(* operator can reconcile with the live one.  Through restarts, stops, new *)
(* zones and failing stages, only a report lost on its way excepts it.     *)
PanelIsCurrent ==
    assessed # NoWindow /\ ~lost =>
        LET w == assessed[1]
            c == assessed[2]
        IN  /\ panel.status = w.status /\ panel.actions = Said[w][c].actions
            /\ priority \in {None, panel.priority}
            /\ Distance(panel.confidence, c) < ConfidenceStep

(* A report lost on its way is issued again: an assessment that arrives    *)
(* leaves none behind that is older than the longest silence.              *)
LostIsReissued == [][assessed' # assessed /\ lost' => age' < Interval]_vars

(* "Consecutive windows a new operational priority must hold before it is  *)
(* adopted", no fewer and no more: it changes only to what the last        *)
(* windows all called for, and is what they call for when they agree.      *)
PriorityFollows ==
    LET agreed == {p \in LOW..URGENT : recent = [i \in 1..HysteresisWindows |-> p]}
    IN  \A p \in agreed : priority = p

PriorityIsEarned ==
    [][priority # None /\ priority' # priority /\ priority' # None /\ Len(recent') > 1
         => recent' = [i \in 1..HysteresisWindows |-> priority']]_vars

(* The panel agrees with the last assessment, its priority with the last   *)
(* windows.                                                                *)
PanelAgrees == PanelIsCurrent /\ PriorityFollows

(* A priority changes by windows that agree, and a report that was lost    *)
(* does not stay lost.                                                     *)
ReportsAreEarned == LostIsReissued /\ PriorityIsEarned
=============================================================================
