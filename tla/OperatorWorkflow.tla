--------------------------- MODULE OperatorWorkflow ---------------------------
(***************************************************************************)
(* From the crowd's band to the operator's workflow, for one camera:       *)
(* BandHysteresis holds the Operational Status steady, DecisionService     *)
(* receives one assessment per window, logs band transitions and advances  *)
(* OperationalStateService, which operators also advance.                  *)
(*                                                                         *)
(* A window is one action: the handlers are synchronous and ordered.  It   *)
(* may be lost after the assessment, when a later stage raises; it may be  *)
(* the first of a new frame session.                                       *)
(***************************************************************************)
EXTENDS Integers

CONSTANTS
    EscalateWindows, DeEscalateWindows,   \* StabilityConfig
    RecoveryWindows                       \* OperationalStateService

ASSUME WindowsAssumption ==
    /\ EscalateWindows \in Nat \ {0} /\ DeEscalateWindows \in Nat \ {0}
    /\ RecoveryWindows \in Nat \ {0}

\* OperationalStatus, by severity_rank; NoStatus is None.
STABLE == 0
ATTENTION_REQUIRED == 2
Statuses == 0 .. 4
NoStatus == -1

OperatorPhases == {"INVESTIGATING", "RESPONDING"}
Phases == {"MONITORING", "OBSERVING", "RECOVERING"} \cup OperatorPhases

VARIABLES
    crowd,                  \* environment: the smoothed index's band
    held, candidate, run,   \* BandHysteresis
    cut,                    \* a new session DecisionService has not seen yet
    last,                   \* DecisionService._last_status
    phase, stableRun,       \* OperationalStateService; stableRun up to its limit
    wasUnstable,
    logged,                 \* the status in the camera's latest transition entry
    seen, streak,           \* history: the last window's band, windows in a row of it
    calm, by                \* history: stable assessments in a row; the phase's mover

bandVars == <<held, candidate, run>>
phaseVars == <<phase, stableRun, wasUnstable>>
serviceVars == <<last, phaseVars, logged>>
vars == <<crowd, bandVars, cut, serviceVars, seen, streak, calm, by>>

MaxWindows == IF EscalateWindows > DeEscalateWindows THEN EscalateWindows
                                                     ELSE DeEscalateWindows
Upto(n, bound) == IF n > bound THEN bound ELSE n

TypeOK ==
    /\ crowd \in Statuses /\ seen \in Statuses \cup {NoStatus}
    /\ held \in Statuses \cup {NoStatus} /\ candidate \in Statuses \cup {NoStatus}
    /\ last \in Statuses \cup {NoStatus} /\ logged \in Statuses \cup {NoStatus}
    /\ run \in 0 .. MaxWindows - 1 /\ streak \in 0 .. MaxWindows
    /\ stableRun \in 0 .. RecoveryWindows /\ calm \in 0 .. RecoveryWindows
    /\ phase \in Phases /\ by \in {"window", "operator", "cleared"}
    /\ cut \in BOOLEAN /\ wasUnstable \in BOOLEAN

Init ==
    /\ crowd \in Statuses
    /\ held = NoStatus /\ candidate = NoStatus /\ run = 0 /\ cut = FALSE
    /\ last = NoStatus /\ logged = NoStatus
    /\ phase = "MONITORING" /\ stableRun = 0 /\ wasUnstable = FALSE
    /\ seen = NoStatus /\ streak = 0 /\ calm = 0 /\ by = "cleared"

-----------------------------------------------------------------------------
(* BandHysteresis.                                                         *)

Required(from, to) == IF to > from THEN EscalateWindows ELSE DeEscalateWindows

\* Mutant: a window back in the held band does not start the count again.
KeepCandidate == candidate' = candidate /\ run' = run

ClearCandidate == candidate' = NoStatus /\ run' = 0

\* The count the offered band would have in the state's candidate.
CountOf(c) == IF c = candidate THEN run + 1 ELSE 1

Adopts(c) == held = NoStatus \/ (c # held /\ CountOf(c) >= Required(held, c))

\* offer; fresh says the hysteresis was reset before it.
Offer(c, fresh) ==
    \/ (fresh \/ Adopts(c)) /\ held' = c /\ candidate' = NoStatus /\ run' = 0
    \/ /\ ~fresh /\ ~Adopts(c) /\ held' = held
       /\ IF c = held THEN ClearCandidate ELSE candidate' = c /\ run' = CountOf(c)

\* StatusTransition.changed.
Changed(c, fresh) == fresh \/ Adopts(c)

HysteresisReset ==
    /\ held' = NoStatus /\ candidate' = NoStatus /\ run' = 0
    /\ seen' = NoStatus /\ streak' = 0

\* History: the band this window showed, and for how many in a row.
Saw(c, fresh) ==
    /\ seen' = c
    /\ streak' = IF fresh \/ held = NoStatus THEN MaxWindows
                 ELSE IF c = seen THEN Upto(streak + 1, MaxWindows) ELSE 1

-----------------------------------------------------------------------------
(* OperationalStateService and DecisionService.                            *)

\* An operator who is at work stays there while conditions are unstable.
Observes(p) == IF p \in OperatorPhases THEN p ELSE "OBSERVING"

\* Mutant: stable windows are counted and nobody looks at the count.
OverIfNeverUnstable(w, n) == ~w

\* A stable window leaves nothing to recover from.
Over(w, n) == ~w \/ n >= RecoveryWindows

\* observe, from phase p, run n and memory w: previous or just reset ones.
Observe(p, n, w, s) ==
    IF s = STABLE
    THEN LET m == Upto(n + 1, RecoveryWindows)
         IN  /\ stableRun' = m
             /\ phase' = IF Over(w, m) THEN "MONITORING" ELSE "RECOVERING"
             /\ wasUnstable' = (w /\ ~Over(w, m))
    ELSE /\ stableRun' = 0
         /\ phase' = Observes(p)
         /\ wasUnstable' = (w \/ s >= ATTENTION_REQUIRED)

\* _record_status_change: a transition the assessment flags and was not the
\* status already.
Logs(before, s, changed) == changed /\ before # s

\* handle_analysis: a session restart clears everything first (clear).
Handle(s, changed, cleared) ==
    /\ last' = s
    /\ IF cleared
       THEN /\ logged' = IF Logs(NoStatus, s, changed) THEN s ELSE NoStatus
            /\ Observe("MONITORING", 0, FALSE, s)
            /\ by' = "cleared"
       ELSE /\ logged' = IF Logs(last, s, changed) THEN s ELSE logged
            /\ Observe(phase, stableRun, wasUnstable, s)
            /\ by' = "window"
    /\ calm' = IF s # STABLE THEN 0
               ELSE IF cleared THEN 1 ELSE Upto(calm + 1, RecoveryWindows)

-----------------------------------------------------------------------------
\* One perception result, analysed and handled.
Window(restart) ==
    /\ Offer(crowd, restart) /\ Saw(crowd, restart)
    /\ Handle(held', Changed(crowd, restart), restart \/ cut)
    /\ cut' = FALSE
    /\ UNCHANGED crowd

\* The same, when a stage after the assessment raises.
WindowLost(restart) ==
    /\ Offer(crowd, restart) /\ Saw(crowd, restart)
    /\ cut' = (cut \/ restart)
    /\ UNCHANGED <<crowd, serviceVars, calm, by>>

\* CameraRuntime.stop clears the analysis; guidance and workflow stay until
\* the next session's first assessment.
CameraStops ==
    /\ HysteresisReset /\ cut' = TRUE
    /\ UNCHANGED <<crowd, serviceVars, calm, by>>

\* Redrawn zones: the same session under a new pipeline.
RebuildAnalysis ==
    /\ HysteresisReset
    /\ UNCHANGED <<crowd, cut, serviceVars, calm, by>>

Acts == by' = "operator" /\ UNCHANGED <<crowd, bandVars, cut, last, logged, seen, streak, calm>>

Acknowledge ==
    /\ phase = "OBSERVING"
    /\ phase' = "INVESTIGATING" /\ wasUnstable' = TRUE
    /\ UNCHANGED stableRun /\ Acts

\* In any other phase the action is recorded and nothing moves.
LogAction ==
    /\ phase \in {"OBSERVING", "INVESTIGATING"}
    /\ phase' = "RESPONDING" /\ wasUnstable' = TRUE
    /\ UNCHANGED stableRun /\ Acts

\* Mutant: a situation can be closed at any time.
MayCloseAnytime == phase # "MONITORING"

MayClose == phase # "MONITORING" /\ last = STABLE

Close ==
    /\ MayClose
    /\ phase' = "MONITORING" /\ stableRun' = 0 /\ wasUnstable' = FALSE
    /\ Acts

CrowdChanges(c) == crowd' = c /\ UNCHANGED <<bandVars, cut, serviceVars, seen, streak, calm, by>>

Operator == Acknowledge \/ LogAction \/ Close

Next ==
    \/ \E restart \in BOOLEAN : Window(restart) \/ WindowLost(restart)
    \/ CameraStops \/ RebuildAnalysis
    \/ Operator
    \/ \E c \in Statuses : CrowdChanges(c)

Spec == Init /\ [][Next]_vars

\* Windows keep being assessed while a camera is watched.
FairSpec == Spec /\ WF_vars(Window(FALSE))

-----------------------------------------------------------------------------
(* Where the operator stands never contradicts what the crowd was last     *)
(* assessed to be: an unstable crowd is being watched or worked on, a      *)
(* stable one is at rest or recovering, and nothing is open before the     *)
(* first assessment.                                                       *)
PhaseFollowsStatus ==
    /\ last = NoStatus => phase = "MONITORING"
    /\ last = STABLE => phase \in {"MONITORING", "RECOVERING"}
    /\ last \in Statuses \ {STABLE} => phase \in {"OBSERVING"} \cup OperatorPhases

(* "A candidate band must be observed for a required number of consecutive *)
(* windows before it is adopted": counted from the windows themselves,     *)
(* lost ones included, every change of the held status is that old.  The   *)
(* first window after a reset counts for as many as it takes.              *)
StatusIsEarned ==
    [][held' # held /\ held' # NoStatus
         => seen' = held' /\ streak' >= Required(held, held')]_vars

(* "The AI does not take an operator's investigation away from them": an   *)
(* operator's phase ends with stable conditions or with the session.       *)
OperatorKeepsPhase ==
    [][(phase \in OperatorPhases /\ phase' \notin OperatorPhases)
         => last' = STABLE \/ by' = "cleared"]_vars

(* "A momentary dip back into Stable does not end the recovery phase       *)
(* early": only RecoveryWindows stable assessments in a row, an operator   *)
(* or a new session end it.                                                *)
RecoveryIsFull ==
    [][phase = "RECOVERING" /\ phase' = "MONITORING"
         => by' # "window" \/ calm' >= RecoveryWindows]_vars

(* A crowd that stays stable ends every situation, without an operator.    *)
SettlesWhenStable == <>[](crowd = STABLE) => <>[](phase = "MONITORING")

(* A crowd that leaves Stable for good is watched or worked on for good.   *)
WatchesWhenUnstable ==
    (\E c \in Statuses \ {STABLE} : <>[](crowd = c))
        => <>[](phase \in {"OBSERVING"} \cup OperatorPhases)

(* The phase an operator works in and the status it follows from agree.    *)
PhaseIsSound == TypeOK /\ PhaseFollowsStatus

(* Status, phase and recovery change only by what has earned it: enough    *)
(* windows in a row, an operator, or a new session.                        *)
ChangesAreEarned == StatusIsEarned /\ OperatorKeepsPhase /\ RecoveryIsFull

(* Left alone, the workflow comes to where the crowd is, and stays there.  *)
WorkflowCatchesUp == SettlesWhenStable /\ WatchesWhenUnstable
=============================================================================
