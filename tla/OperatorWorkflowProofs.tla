------------------------ MODULE OperatorWorkflowProofs ------------------------
(***************************************************************************)
(* Theorems about OperatorWorkflow, for every number of windows; about     *)
(* DecisionReports, for every scene and whatever is said of it; and about  *)
(* StaffingPlan, for every queue and whatever its rates are.               *)
(***************************************************************************)
EXTENDS MCOperatorWorkflow, Sequences, TLAPS, FiniteSetTheorems

StatusesOK ==
    /\ crowd \in Statuses /\ seen \in Statuses \cup {NoStatus}
    /\ held \in Statuses \cup {NoStatus} /\ candidate \in Statuses \cup {NoStatus}
    /\ last \in Statuses \cup {NoStatus} /\ logged \in Statuses \cup {NoStatus}
PhasesOK == phase \in Phases /\ by \in {"window", "operator", "cleared"}
FlagsOK == cut \in BOOLEAN /\ wasUnstable \in BOOLEAN
RunsOK == stableRun \in 0 .. RecoveryWindows /\ calm \in 0 .. RecoveryWindows
StreakOK == streak \in 0 .. MaxWindows

(* The hysteresis' own count agrees with the windows: a candidate is the   *)
(* band last seen, and was seen at least run times in a row; less than     *)
(* the windows it takes.                                                   *)
CandidateIsSeen ==
    /\ run \in 0 .. MaxWindows - 1
    /\ candidate = NoStatus => run = 0
    /\ candidate # NoStatus => candidate = seen /\ run <= streak

BandInv == StatusesOK /\ StreakOK /\ CandidateIsSeen

-----------------------------------------------------------------------------
(* A required number of windows is one of the two configured.              *)
LEMMA RequiredBounds ==
    ASSUME NEW a \in Int, NEW b \in Int
    PROVE  Required(a, b) \in 1 .. MaxWindows
BY WindowsAssumption DEF Required, MaxWindows

LEMMA MaxWindowsNat == MaxWindows \in Nat \ {0}
BY WindowsAssumption DEF MaxWindows

(* A window that is not adopted leaves a count below what is required.     *)
LEMMA OfferKeepsCandidate ==
    ASSUME BandInv, NEW fresh \in BOOLEAN, Offer(crowd, fresh), Saw(crowd, fresh)
    PROVE  /\ held' \in Statuses /\ held' # NoStatus
           /\ candidate' \in Statuses \cup {NoStatus}
           /\ seen' = crowd /\ streak' \in 1 .. MaxWindows
           /\ run' \in 0 .. MaxWindows - 1
           /\ candidate' = NoStatus => run' = 0
           /\ candidate' # NoStatus => candidate' = seen' /\ run' <= streak'
           /\ held' # held => held' = crowd /\ streak' >= Required(held, held')
<1> USE DEF BandInv, StatusesOK, StreakOK, CandidateIsSeen
<1>0. MaxWindows \in Nat \ {0} /\ -1 \notin Statuses /\ Statuses \subseteq Int
  BY MaxWindowsNat DEF Statuses
<1>1. crowd \in Statuses /\ crowd # NoStatus
  BY <1>0 DEF NoStatus
<1>2. Required(held, crowd) \in 1 .. MaxWindows
  <2>1. held \in Int
    BY <1>0 DEF NoStatus
  <2> QED BY <1>0, <1>1, <2>1, RequiredBounds
<1>3. seen' = crowd /\ streak' \in 1 .. MaxWindows
  BY <1>0 DEF Saw, Upto
<1>4. CASE fresh \/ held = NoStatus
  <2>1. held' = crowd /\ candidate' = NoStatus /\ run' = 0
    BY <1>4 DEF Offer, Adopts
  <2>2. streak' = MaxWindows
    BY <1>4 DEF Saw
  <2>3. MaxWindows >= Required(held, crowd)
    BY <1>0, <1>2
  <2> QED BY <1>0, <1>1, <1>3, <2>1, <2>2, <2>3
<1>5. CASE ~fresh /\ held # NoStatus
  <2>1. CountOf(crowd) \in 1 .. MaxWindows /\ streak' >= CountOf(crowd)
    BY <1>0, <1>1, <1>5 DEF Saw, Upto, CountOf
  <2>2. CASE Adopts(crowd)
    <3>1. held' = crowd /\ candidate' = NoStatus /\ run' = 0
      BY <1>5, <2>2 DEF Offer
    <3>2. CountOf(crowd) >= Required(held, crowd)
      BY <2>2, <1>5 DEF Adopts
    <3> QED BY <1>0, <1>1, <1>2, <1>3, <1>5, <2>1, <3>1, <3>2
  <2>3. CASE ~Adopts(crowd) /\ crowd = held
    BY <1>0, <1>1, <1>3, <1>5, <2>3 DEF Offer, ClearCandidate
  <2>4. CASE ~Adopts(crowd) /\ crowd # held
    <3>1. held' = held /\ candidate' = crowd /\ run' = CountOf(crowd)
      BY <1>5, <2>4 DEF Offer
    <3>2. CountOf(crowd) < Required(held, crowd)
      BY <1>2, <1>5, <2>1, <2>4 DEF Adopts
    <3> QED BY <1>0, <1>1, <1>2, <1>3, <1>5, <2>1, <3>1, <3>2
  <2> QED BY <2>2, <2>3, <2>4
<1> QED BY <1>4, <1>5

-----------------------------------------------------------------------------
(* The actions that leave the hysteresis and the windows alone.            *)
Elsewhere == Operator \/ \E c \in Statuses : CrowdChanges(c)

LEMMA ElsewhereKeepsBand ==
    ASSUME BandInv, Elsewhere
    PROVE  UNCHANGED <<held, candidate, run, seen, streak, last, logged>> /\ crowd' \in Statuses
BY DEF Elsewhere, Operator, Acknowledge, LogAction, Close, Acts, CrowdChanges,
       bandVars, serviceVars, BandInv, StatusesOK

(* Handling a window leaves an assessed status behind.                     *)
LEMMA HandleStatus ==
    ASSUME logged \in Statuses \cup {NoStatus}, NEW s \in Statuses,
           NEW changed, NEW cleared, Handle(s, changed, cleared)
    PROVE  last' = s /\ logged' \in Statuses \cup {NoStatus}
BY DEF Handle

(* The hysteresis never disagrees with the windows it has seen, whatever   *)
(* is lost, reset or redrawn in between.                                   *)
THEOREM BandInvariant == Spec => []BandInv
<1>1. Init => BandInv
  <2>1. MaxWindows \in Nat \ {0}
    BY MaxWindowsNat
  <2> QED BY <2>1 DEF Init, BandInv, StatusesOK, StreakOK, CandidateIsSeen
<1>2. BandInv /\ [Next]_vars => BandInv'
  <2> SUFFICES ASSUME BandInv, [Next]_vars PROVE BandInv'
    OBVIOUS
  <2> USE DEF BandInv, StatusesOK, StreakOK, CandidateIsSeen
  <2>0. MaxWindows \in Nat \ {0}
    BY MaxWindowsNat
  <2>1. ASSUME NEW restart \in BOOLEAN, Window(restart) PROVE BandInv'
    <3>1. Offer(crowd, restart) /\ Saw(crowd, restart) /\ crowd' = crowd
      BY <2>1 DEF Window
    <3>2. /\ held' \in Statuses /\ candidate' \in Statuses \cup {NoStatus}
          /\ seen' = crowd /\ streak' \in 1 .. MaxWindows
          /\ run' \in 0 .. MaxWindows - 1
          /\ candidate' = NoStatus => run' = 0
          /\ candidate' # NoStatus => candidate' = seen' /\ run' <= streak'
      BY <3>1, OfferKeepsCandidate
    <3>3. Handle(held', Changed(crowd, restart), restart \/ cut)
      BY <2>1 DEF Window
    <3>4. last' \in Statuses /\ logged' \in Statuses \cup {NoStatus}
      BY <3>2, <3>3, HandleStatus
    <3> QED BY <3>1, <3>2, <3>4, <2>0
  <2>2. ASSUME NEW restart \in BOOLEAN, WindowLost(restart) PROVE BandInv'
    <3>1. /\ Offer(crowd, restart) /\ Saw(crowd, restart) /\ crowd' = crowd
          /\ last' = last /\ logged' = logged
      BY <2>2 DEF WindowLost, serviceVars
    <3>2. /\ held' \in Statuses /\ candidate' \in Statuses \cup {NoStatus}
          /\ seen' = crowd /\ streak' \in 1 .. MaxWindows
          /\ run' \in 0 .. MaxWindows - 1
          /\ candidate' = NoStatus => run' = 0
          /\ candidate' # NoStatus => candidate' = seen' /\ run' <= streak'
      BY <3>1, OfferKeepsCandidate
    <3> QED BY <3>1, <3>2, <2>0
  <2>3. CASE CameraStops \/ RebuildAnalysis
    BY <2>3, <2>0 DEF CameraStops, RebuildAnalysis, HysteresisReset, serviceVars
  <2>4. CASE Elsewhere
    BY <2>4, ElsewhereKeepsBand
  <2>5. CASE UNCHANGED vars
    BY <2>5 DEF vars, bandVars, serviceVars
  <2> QED BY <2>1, <2>2, <2>3, <2>4, <2>5 DEF Next, Elsewhere
<1> QED BY <1>1, <1>2, PTL DEF Spec

(* StatusIsEarned: a status is adopted only after the windows its          *)
(* direction takes, counted from the windows and not by the hysteresis.    *)
THEOREM StatusEarned == Spec => StatusIsEarned
<1> DEFINE Earned == held' # held /\ held' # NoStatus
                       => seen' = held' /\ streak' >= Required(held, held')
<1>1. BandInv /\ [Next]_vars => [Earned]_vars
  <2> SUFFICES ASSUME BandInv, [Next]_vars PROVE [Earned]_vars
    OBVIOUS
  <2>1. ASSUME NEW restart \in BOOLEAN, Window(restart) \/ WindowLost(restart) PROVE Earned
    <3>1. Offer(crowd, restart) /\ Saw(crowd, restart)
      BY <2>1 DEF Window, WindowLost
    <3>2. seen' = crowd /\ (held' # held => held' = crowd /\ streak' >= Required(held, held'))
      BY <3>1, OfferKeepsCandidate
    <3> QED BY <3>2
  <2>2. CASE CameraStops \/ RebuildAnalysis
    BY <2>2 DEF CameraStops, RebuildAnalysis, HysteresisReset
  <2>3. CASE Elsewhere
    BY <2>3, ElsewhereKeepsBand
  <2>4. CASE UNCHANGED vars
    BY <2>4
  <2> QED BY <2>1, <2>2, <2>3, <2>4 DEF Next, Elsewhere
<1> QED BY <1>1, BandInvariant, PTL DEF Spec, StatusIsEarned, Earned

-----------------------------------------------------------------------------
(* The workflow.  Only STABLE conditions leave a phase at rest.            *)
FlowInv == PhasesOK /\ PhaseFollowsStatus

(* What observing an assessment does to the phase, from any phase.         *)
LEMMA ObservePhase ==
    ASSUME NEW p \in Phases, NEW n, NEW w, NEW s, Observe(p, n, w, s)
    PROVE  /\ phase' \in Phases
           /\ s = STABLE => phase' \in {"MONITORING", "RECOVERING"}
           /\ s # STABLE => phase' \in {"OBSERVING"} \cup OperatorPhases
           /\ s # STABLE /\ p \in OperatorPhases => phase' = p
BY DEF Observe, Observes, Phases, OperatorPhases

(* Handling an assessment leaves a phase that fits it.                     *)
LEMMA HandlePhase ==
    ASSUME PhasesOK, NEW s \in Statuses, NEW changed, NEW cleared \in BOOLEAN,
           Handle(s, changed, cleared)
    PROVE  /\ last' = s /\ phase' \in Phases
           /\ cleared => by' = "cleared"
           /\ ~cleared => by' = "window"
           /\ s = STABLE => phase' \in {"MONITORING", "RECOVERING"}
           /\ s # STABLE => phase' \in {"OBSERVING"} \cup OperatorPhases
           /\ ~cleared /\ s # STABLE /\ phase \in OperatorPhases => phase' = phase
<1>1. CASE cleared
  <2>1. Observe("MONITORING", 0, FALSE, s) /\ by' = "cleared" /\ last' = s
    BY <1>1 DEF Handle
  <2>2. /\ phase' \in Phases
        /\ s = STABLE => phase' \in {"MONITORING", "RECOVERING"}
        /\ s # STABLE => phase' = "OBSERVING"
    BY <2>1 DEF Observe, Observes, Phases, OperatorPhases
  <2> QED BY <1>1, <2>1, <2>2
<1>2. CASE ~cleared
  <2>1. Observe(phase, stableRun, wasUnstable, s) /\ by' = "window" /\ last' = s
    BY <1>2 DEF Handle
  <2>2. phase \in Phases
    BY DEF PhasesOK
  <2>3. /\ phase' \in Phases
        /\ s = STABLE => phase' \in {"MONITORING", "RECOVERING"}
        /\ s # STABLE => phase' \in {"OBSERVING"} \cup OperatorPhases
        /\ s # STABLE /\ phase \in OperatorPhases => phase' = phase
    BY <2>1, <2>2, ObservePhase
  <2> QED BY <1>2, <2>1, <2>3
<1> QED BY <1>1, <1>2

LEMMA FlagsInvariant == Spec => []FlagsOK
<1>1. Init => FlagsOK
  BY DEF Init, FlagsOK
<1>2. FlagsOK /\ [Next]_vars => FlagsOK'
  <2> SUFFICES ASSUME FlagsOK, [Next]_vars PROVE FlagsOK'
    OBVIOUS
  <2> USE DEF FlagsOK
  <2>1. ASSUME NEW restart \in BOOLEAN, Window(restart) PROVE FlagsOK'
    BY <2>1, Zenon DEF Window, Handle, Observe, Over
  <2>2. ASSUME NEW restart \in BOOLEAN, WindowLost(restart) PROVE FlagsOK'
    BY <2>2 DEF WindowLost, serviceVars, phaseVars
  <2>3. CASE CameraStops \/ RebuildAnalysis
    BY <2>3 DEF CameraStops, RebuildAnalysis, serviceVars, phaseVars
  <2>4. CASE Operator
    BY <2>4 DEF Operator, Acknowledge, LogAction, Close, Acts
  <2>5. ASSUME NEW c \in Statuses, CrowdChanges(c) PROVE FlagsOK'
    BY <2>5 DEF CrowdChanges, serviceVars, phaseVars
  <2>6. CASE UNCHANGED vars
    BY <2>6 DEF vars, serviceVars, phaseVars
  <2> QED BY <2>1, <2>2, <2>3, <2>4, <2>5, <2>6 DEF Next
<1> QED BY <1>1, <1>2, PTL DEF Spec

THEOREM FlowInvariant == Spec => []FlowInv
<1>1. Init => FlowInv
  BY DEF Init, FlowInv, PhasesOK, PhaseFollowsStatus, Phases, Statuses, NoStatus, STABLE
<1>2. BandInv /\ FlagsOK /\ FlowInv /\ [Next]_vars => FlowInv'
  <2> SUFFICES ASSUME BandInv, FlagsOK, FlowInv, [Next]_vars PROVE FlowInv'
    OBVIOUS
  <2> USE DEF FlowInv
  <2>0. NoStatus \notin Statuses /\ STABLE \in Statuses
    BY DEF Statuses, NoStatus, STABLE
  <2>1. ASSUME NEW restart \in BOOLEAN, Window(restart) PROVE FlowInv'
    <3>1. /\ held' \in Statuses
          /\ Handle(held', Changed(crowd, restart), restart \/ cut)
      BY <2>1, OfferKeepsCandidate DEF Window
    <3>2. /\ last' = held' /\ phase' \in Phases /\ by' \in {"window", "cleared"}
          /\ held' = STABLE => phase' \in {"MONITORING", "RECOVERING"}
          /\ held' # STABLE => phase' \in {"OBSERVING"} \cup OperatorPhases
      BY <3>1, HandlePhase DEF FlagsOK
    <3>3. PhaseFollowsStatus'
      BY <3>1, <3>2, <2>0 DEF PhaseFollowsStatus
    <3>4. PhasesOK'
      BY <3>2 DEF PhasesOK
    <3> QED BY <3>3, <3>4
  <2>2. CASE UNCHANGED <<last, phase, by>>
    BY <2>2 DEF PhasesOK, PhaseFollowsStatus
  <2>3. CASE Acknowledge \/ LogAction
    <3>1. /\ phase \in {"OBSERVING", "INVESTIGATING"} /\ phase' \in OperatorPhases
          /\ last' = last /\ by' = "operator"
      BY <2>3 DEF Acknowledge, LogAction, Acts, OperatorPhases
    <3>2. last \in Statuses \ {STABLE}
      BY <3>1 DEF PhaseFollowsStatus, BandInv, StatusesOK
    <3> QED BY <3>1, <3>2, <2>0 DEF PhasesOK, PhaseFollowsStatus, Phases
  <2>4. CASE Close
    BY <2>4, <2>0 DEF Close, MayClose, Acts, PhasesOK, PhaseFollowsStatus, Phases
  <2> QED
    BY <2>1, <2>2, <2>3, <2>4 DEF Next, WindowLost, CameraStops, RebuildAnalysis,
       Operator, CrowdChanges, serviceVars, phaseVars, vars
<1> QED BY <1>1, <1>2, BandInvariant, FlagsInvariant, PTL DEF Spec

(* PhaseFollowsStatus: the workflow never contradicts the last assessment, *)
(* however operators, sessions and windows interleave.                     *)
THEOREM PhaseFollows == Spec => []PhaseFollowsStatus
BY FlowInvariant, PTL DEF FlowInv

(* OperatorKeepsPhase: nothing but stable conditions or a new session      *)
(* takes an operator's phase.                                              *)
THEOREM OperatorKeeps == Spec => OperatorKeepsPhase
<1> DEFINE Kept == phase \in OperatorPhases /\ phase' \notin OperatorPhases
                     => last' = STABLE \/ by' = "cleared"
<1>1. BandInv /\ FlagsOK /\ FlowInv /\ [Next]_vars => [Kept]_vars
  <2> SUFFICES ASSUME BandInv, FlagsOK, FlowInv, [Next]_vars PROVE [Kept]_vars
    OBVIOUS
  <2>1. ASSUME NEW restart \in BOOLEAN, Window(restart) PROVE Kept
    <3>1. /\ held' \in Statuses
          /\ Handle(held', Changed(crowd, restart), restart \/ cut)
      BY <2>1, OfferKeepsCandidate DEF Window
    <3>2. /\ last' = held' /\ (restart \/ cut => by' = "cleared")
          /\ ~(restart \/ cut) /\ held' # STABLE /\ phase \in OperatorPhases
               => phase' = phase
      BY <3>1, HandlePhase DEF FlagsOK, FlowInv
    <3> QED BY <3>2
  <2>2. CASE phase' = phase
    BY <2>2
  <2>3. CASE Acknowledge \/ LogAction
    BY <2>3 DEF Acknowledge, LogAction, OperatorPhases
  <2>4. CASE Close
    BY <2>4 DEF Close, MayClose, Acts
  <2> QED
    BY <2>1, <2>2, <2>3, <2>4 DEF Next, WindowLost, CameraStops, RebuildAnalysis,
       Operator, CrowdChanges, serviceVars, phaseVars, vars
<1> QED BY <1>1, BandInvariant, FlagsInvariant, FlowInvariant, PTL DEF Spec, OperatorKeepsPhase, Kept

-----------------------------------------------------------------------------
(* Stable windows counted by the service never exceed those assessed, and  *)
(* a recovery remembers what it recovers from.                             *)
CountInv == RunsOK /\ stableRun <= calm
MemoryInv == phase = "RECOVERING" => wasUnstable

LEMMA HandleCounts ==
    ASSUME CountInv, NEW s \in Statuses, NEW changed, NEW cleared \in BOOLEAN,
           Handle(s, changed, cleared)
    PROVE  CountInv'
<1> USE WindowsAssumption DEF CountInv, RunsOK, Upto, STABLE
<1>1. CASE cleared
  <2>1. /\ Observe("MONITORING", 0, FALSE, s)
        /\ calm' = IF s # STABLE THEN 0 ELSE 1
    BY <1>1 DEF Handle
  <2>2. stableRun' = IF s = STABLE THEN Upto(0 + 1, RecoveryWindows) ELSE 0
    BY <2>1 DEF Observe
  <2> QED BY <2>1, <2>2
<1>2. CASE ~cleared
  <2>1. /\ Observe(phase, stableRun, wasUnstable, s)
        /\ calm' = IF s # STABLE THEN 0 ELSE Upto(calm + 1, RecoveryWindows)
    BY <1>2 DEF Handle
  <2>2. stableRun' = IF s = STABLE THEN Upto(stableRun + 1, RecoveryWindows) ELSE 0
    BY <2>1 DEF Observe
  <2> QED BY <2>1, <2>2
<1> QED BY <1>1, <1>2

LEMMA CountInvariant == Spec => []CountInv
<1>1. Init => CountInv
  BY WindowsAssumption DEF Init, CountInv, RunsOK
<1>2. BandInv /\ FlagsOK /\ CountInv /\ [Next]_vars => CountInv'
  <2> SUFFICES ASSUME BandInv, FlagsOK, CountInv, [Next]_vars PROVE CountInv'
    OBVIOUS
  <2>1. ASSUME NEW restart \in BOOLEAN, Window(restart) PROVE CountInv'
    <3>1. held' \in Statuses /\ Handle(held', Changed(crowd, restart), restart \/ cut)
      BY <2>1, OfferKeepsCandidate DEF Window
    <3>2. (restart \/ cut) \in BOOLEAN
      BY DEF FlagsOK
    <3> QED BY <3>1, <3>2, HandleCounts
  <2>2. CASE UNCHANGED <<stableRun, calm>>
    BY <2>2 DEF CountInv, RunsOK
  <2>3. CASE Close
    BY <2>3, WindowsAssumption DEF Close, Acts, CountInv, RunsOK
  <2> QED
    BY <2>1, <2>2, <2>3 DEF Next, WindowLost, CameraStops, RebuildAnalysis, Operator,
       Acknowledge, LogAction, Acts, CrowdChanges, serviceVars, phaseVars, vars
<1> QED BY <1>1, <1>2, BandInvariant, FlagsInvariant, PTL DEF Spec

LEMMA ObserveRemembers ==
    ASSUME NEW p \in Phases, NEW n, NEW w \in BOOLEAN, NEW s, Observe(p, n, w, s)
    PROVE  phase' = "RECOVERING" => wasUnstable'
<1>1. CASE s = STABLE
  <2> DEFINE m == Upto(n + 1, RecoveryWindows)
  <2>1. /\ phase' = IF Over(w, m) THEN "MONITORING" ELSE "RECOVERING"
        /\ wasUnstable' = (w /\ ~Over(w, m))
    BY <1>1, Zenon DEF Observe
  <2>2. ~Over(w, m) => w
    BY Zenon DEF Over
  <2> HIDE DEF m
  <2>3. CASE Over(w, m)
    BY <2>1, <2>3
  <2>4. CASE ~Over(w, m)
    BY <2>1, <2>2, <2>4, Zenon
  <2> QED BY <2>3, <2>4
<1>2. CASE s # STABLE
  BY <1>2, ObservePhase DEF OperatorPhases
<1> QED BY <1>1, <1>2

LEMMA MemoryInvariant == Spec => []MemoryInv
<1>1. Init => MemoryInv
  BY DEF Init, MemoryInv
<1>2. BandInv /\ FlagsOK /\ FlowInv /\ MemoryInv /\ [Next]_vars => MemoryInv'
  <2> SUFFICES ASSUME BandInv, FlagsOK, FlowInv, MemoryInv, [Next]_vars PROVE MemoryInv'
    OBVIOUS
  <2> USE DEF MemoryInv
  <2>1. ASSUME NEW restart \in BOOLEAN, Window(restart) PROVE MemoryInv'
    <3>1. held' \in Statuses /\ Handle(held', Changed(crowd, restart), restart \/ cut)
      BY <2>1, OfferKeepsCandidate DEF Window
    <3>2. \/ Observe("MONITORING", 0, FALSE, held')
          \/ Observe(phase, stableRun, wasUnstable, held')
      BY <3>1 DEF Handle
    <3>3. "MONITORING" \in Phases /\ phase \in Phases /\ wasUnstable \in BOOLEAN
      BY DEF FlowInv, PhasesOK, FlagsOK, Phases
    <3> QED BY <3>2, <3>3, ObserveRemembers
  <2>2. CASE UNCHANGED <<phase, wasUnstable>>
    BY <2>2
  <2>3. CASE Operator
    BY <2>3 DEF Operator, Acknowledge, LogAction, Close
  <2> QED
    BY <2>1, <2>2, <2>3 DEF Next, WindowLost, CameraStops, RebuildAnalysis,
       CrowdChanges, serviceVars, phaseVars, vars
<1> QED BY <1>1, <1>2, BandInvariant, FlagsInvariant, FlowInvariant, PTL DEF Spec

(* Observing a stable window in a recovery ends it only after the count.   *)
LEMMA RecoveryEnds ==
    ASSUME CountInv, phase = "RECOVERING", wasUnstable, NEW s \in Statuses,
           Observe(phase, stableRun, wasUnstable, s), phase' = "MONITORING"
    PROVE  s = STABLE /\ Upto(stableRun + 1, RecoveryWindows) >= RecoveryWindows
<1>1. s = STABLE
  BY DEF Observe, Observes, OperatorPhases
<1>2. Over(wasUnstable, Upto(stableRun + 1, RecoveryWindows))
  BY <1>1 DEF Observe
<1> QED BY <1>1, <1>2 DEF Over

(* RecoveryIsFull: a recovery runs its length, however it was entered.     *)
THEOREM RecoveryFull == Spec => RecoveryIsFull
<1> DEFINE Full == phase = "RECOVERING" /\ phase' = "MONITORING"
                     => by' # "window" \/ calm' >= RecoveryWindows
<1>1. BandInv /\ FlagsOK /\ CountInv /\ MemoryInv /\ [Next]_vars => [Full]_vars
  <2> SUFFICES ASSUME BandInv, FlagsOK, CountInv, MemoryInv, [Next]_vars,
                      phase = "RECOVERING", phase' = "MONITORING"
               PROVE  by' # "window" \/ calm' >= RecoveryWindows
    OBVIOUS
  <2>1. ASSUME NEW restart \in BOOLEAN, Window(restart), ~(restart \/ cut)
        PROVE  calm' >= RecoveryWindows
    <3>1. held' \in Statuses /\ Handle(held', Changed(crowd, restart), restart \/ cut)
      BY <2>1, OfferKeepsCandidate DEF Window
    <3>2. /\ Observe(phase, stableRun, wasUnstable, held')
          /\ calm' = IF held' # STABLE THEN 0 ELSE Upto(calm + 1, RecoveryWindows)
      BY <2>1, <3>1 DEF Handle
    <3>3. /\ held' = STABLE
          /\ Upto(stableRun + 1, RecoveryWindows) >= RecoveryWindows
      BY <3>1, <3>2, RecoveryEnds DEF MemoryInv
    <3> QED BY <3>2, <3>3, WindowsAssumption DEF CountInv, RunsOK, Upto
  <2>2. ASSUME NEW restart \in BOOLEAN, Window(restart), restart \/ cut
        PROVE  by' # "window"
    BY <2>2 DEF Window, Handle
  <2>3. CASE Operator
    BY <2>3 DEF Operator, Acknowledge, LogAction, Close, Acts
  <2>4. CASE phase' = phase
    BY <2>4
  <2> QED
    BY <2>1, <2>2, <2>3, <2>4 DEF Next, WindowLost, CameraStops, RebuildAnalysis,
       CrowdChanges, serviceVars, phaseVars, vars
<1> QED BY <1>1, BandInvariant, FlagsInvariant, CountInvariant, MemoryInvariant, PTL
        DEF Spec, RecoveryIsFull, Full

(* TypeOK, from the parts above.                                           *)
THEOREM TypeCorrect == Spec => []TypeOK
<1>1. BandInv /\ FlagsOK /\ FlowInv /\ CountInv => TypeOK
  <2> SUFFICES ASSUME BandInv, FlagsOK, FlowInv, CountInv PROVE TypeOK
    OBVIOUS
  <2>1. StatusesOK /\ PhasesOK /\ FlagsOK /\ RunsOK /\ StreakOK /\ run \in 0 .. MaxWindows - 1
    BY DEF BandInv, CandidateIsSeen, FlowInv, CountInv
  <2> QED BY <2>1, Zenon DEF TypeOK, StatusesOK, PhasesOK, FlagsOK, RunsOK, StreakOK
<1> QED BY <1>1, BandInvariant, FlagsInvariant, FlowInvariant, CountInvariant, PTL

-----------------------------------------------------------------------------
(* PhaseIsSound: the operator's phase and the status agree.                *)
THEOREM PhaseSound == Spec => []PhaseIsSound
BY TypeCorrect, PhaseFollows, PTL DEF PhaseIsSound

(* ChangesAreEarned: status, phase and recovery change only as they may.   *)
THEOREM ChangesEarned == Spec => ChangesAreEarned
BY StatusEarned, OperatorKeeps, RecoveryFull, PTL DEF ChangesAreEarned

-----------------------------------------------------------------------------
(***************************************************************************)
(* DecisionReports: the panel, for every scene, every guidance it may call *)
(* for, every interval and every filling time.                             *)
(***************************************************************************)
None == Reports!None
NoReport == Reports!NoReport
Priorities == Reports!LOW .. Reports!URGENT

(* The confidence a window can be seen with, and the clocks, in range.     *)
ClocksOK ==
    /\ filled \in {None} \cup 0 .. Filling /\ idle \in 0 .. Filling
    /\ age \in 0 .. Interval
    /\ missed \in BOOLEAN /\ lost \in BOOLEAN

(* Engine and service agree on the report in force: the priority is the    *)
(* last report's, and the panel shows that report unless it was lost; a    *)
(* session the service has not seen leaves nothing the engine would repeat. *)
ReportKept ==
    /\ priority \in {None} \cup Priorities /\ priority = latest.priority
    /\ latest # NoReport => latest.confidence \in Int
    /\ ~lost /\ latest # NoReport => panel = latest
    /\ ~lost /\ missed => latest = NoReport

(* What the last windows called for is what the engine counts of them: the *)
(* candidate is what the last agreed windows called for and the one before *)
(* did not, and without a candidate the last called for what is in force.  *)
Counts(s, p, q, n) ==
    /\ s \in Seq(Priorities) /\ Len(s) \in 0 .. 3
    /\ p \in {None} \cup Priorities /\ (s = <<>> <=> p = None)
    /\ q \in {None} \cup Priorities /\ n \in 0 .. 2
    /\ q = None => n = 0 /\ (s # <<>> => s[Len(s)] = p)
    /\ q # None =>
          /\ n > 0 /\ Len(s) > n /\ q # p
          /\ s[Len(s)] = q
          /\ n = 1 => s[Len(s) - 1] # q
          /\ n = 2 => s[Len(s) - 1] = q /\ s[Len(s) - 2] # q

CountsAgree == Counts(recent, priority, asked, agreed)

PanelCurrent == Reports!PanelIsCurrent

(* A window that was assessed was seen with a confidence it can have.      *)
AssessedOK ==
    \/ assessed = <<>>
    \/ \E w \in Scenes : \E c \in Reports!Confidences(w) : assessed = <<w, c>>

ReportInv == ClocksOK /\ ReportKept /\ CountsAgree /\ PanelCurrent /\ AssessedOK

-----------------------------------------------------------------------------
LEMMA ReportNumbers ==
    /\ None = -1 /\ None \notin Priorities /\ None \in Int /\ Priorities = 0 .. 3
    /\ Interval \in Nat \ {0} /\ Filling \in Nat \ {0}
    /\ NoReport.priority = None
BY ReportsAssumption DEF Reports!ConstantsAssumption, None, NoReport, Priorities, Reports!None,
   Reports!NoReport, Reports!LOW, Reports!URGENT

(* Counting up to a bound.                                                 *)
LEMMA CountsUpTo ==
    ASSUME NEW n \in Nat, NEW cap \in Nat
    PROVE  Reports!Upto(n, cap) \in 0 .. cap
<1> DEFINE m == IF n < cap THEN n ELSE cap
<1>1. m \in {n, cap} /\ \A y \in {n, cap} : m <= y
  OBVIOUS
<1>2. Reports!Upto(n, cap) \in {n, cap} /\ \A y \in {n, cap} : Reports!Upto(n, cap) <= y
  <2>1. \E x \in {n, cap} : \A y \in {n, cap} : x <= y
    BY <1>1
  <2> QED BY <2>1 DEF Reports!Upto, Reports!Min
<1> QED BY <1>2

LEMMA GreaterOfOne ==
    ASSUME NEW n \in Int
    PROVE  Reports!Max({1, n}) = IF n >= 1 THEN n ELSE 1
<1>1. \E m \in {1, n} : \A y \in {1, n} : m >= y
  <2>1. CASE n >= 1
    BY <2>1
  <2>2. CASE n < 1
    BY <2>2
  <2> QED BY <2>1, <2>2
<1>2. PICK m : m = Reports!Max({1, n})
  OBVIOUS
<1>3. m \in {1, n} /\ \A y \in {1, n} : m >= y
  BY <1>1, <1>2 DEF Reports!Max
<1> QED BY <1>2, <1>3

LEMMA SubSequence ==
    ASSUME NEW V, NEW a \in Seq(V), NEW k \in 1 .. Len(a)
    PROVE  /\ SubSeq(a, k, Len(a)) \in Seq(V)
           /\ Len(SubSeq(a, k, Len(a))) = Len(a) - k + 1
           /\ \A i \in 1 .. Len(a) - k + 1 : SubSeq(a, k, Len(a))[i] = a[k + i - 1]
OBVIOUS

\* t is s with x at its end, or the last three of it.
Extends(t, s, x) ==
    /\ Len(t) \in 1 .. 3
    /\ Len(t) = IF Len(s) = 3 THEN 3 ELSE Len(s) + 1
    /\ t[Len(t)] = x
    /\ Len(s) >= 1 => t[Len(t) - 1] = s[Len(s)]
    /\ Len(s) >= 2 => t[Len(t) - 2] = s[Len(s) - 1]

(* The tail that keeps three windows keeps the last three.                 *)
LEMMA TailKept ==
    ASSUME NEW V, NEW s \in Seq(V), Len(s) \in 0 .. 3, NEW x \in V,
           NEW t, t = Reports!LastOf(Append(s, x), 3)
    PROVE  t \in Seq(V) /\ Extends(t, s, x)
<1> USE DEF Extends
<1>0. /\ Append(s, x) \in Seq(V) /\ Len(Append(s, x)) = Len(s) + 1
      /\ Append(s, x)[Len(s) + 1] = x
      /\ \A i \in 1 .. Len(s) : Append(s, x)[i] = s[i]
  OBVIOUS
<1>1. PICK a \in Seq(V) : /\ a = Append(s, x) /\ Len(a) = Len(s) + 1 /\ a[Len(s) + 1] = x
                         /\ \A i \in 1 .. Len(s) : a[i] = s[i]
  BY <1>0
<1>2. PICK n \in Int : n = Len(a) - 3 + 1
  BY <1>1
<1>3. PICK k \in Int : k = Reports!Max({1, n}) /\ k = IF n >= 1 THEN n ELSE 1
  BY <1>2, GreaterOfOne
<1>4. t = SubSeq(a, k, Len(a))
  BY <1>1, <1>2, <1>3 DEF Reports!LastOf
<1>5. k \in 1 .. Len(a)
  BY <1>1, <1>2, <1>3, Len(s) \in 0 .. 3
<1>6. t \in Seq(V) /\ Len(t) = Len(a) - k + 1 /\ \A i \in 1 .. Len(a) - k + 1 : t[i] = a[k + i - 1]
  BY <1>4, <1>5, SubSequence, Zenon
<1>7. CASE Len(s) = 3
  <2>1. n = 2 /\ Len(a) = 4 /\ 2 \in 1 .. Len(a)
    BY <1>1, <1>2, <1>7
  <2>2. k = 2 /\ k \in 1 .. Len(a)
    BY <1>3, <2>1
  <2>4. t[1] = a[2] /\ t[2] = a[3] /\ t[3] = a[4] /\ Len(t) = 3
    BY <1>6, <2>1, <2>2
  <2> QED BY <1>1, <1>7, <1>6, <2>4
<1>8. CASE Len(s) # 3
  <2>1. n <= 1 /\ Len(a) \in 1 .. 3 /\ 1 \in 1 .. Len(a)
    BY <1>1, <1>2, <1>8
  <2>2. k = 1 /\ k \in 1 .. Len(a)
    BY <1>3, <2>1
  <2>3. t \in Seq(V) /\ Len(t) = Len(a) /\ \A i \in 1 .. Len(a) : t[i] = a[i]
    BY <1>6, <2>1, <2>2
  <2>4. CASE Len(s) = 0
    BY <1>1, <2>3, <2>4
  <2>5. CASE Len(s) = 1
    BY <1>1, <2>3, <2>5
  <2>6. CASE Len(s) = 2
    BY <1>1, <2>3, <2>6
  <2> QED BY <1>8, <2>4, <2>5, <2>6, Len(s) \in 0 .. 3
<1> QED BY <1>7, <1>8

(* A window is seen with one of its confidences, an integer, and asks for  *)
(* a priority.                                                             *)
LEMMA SeenWith ==
    ASSUME ClocksOK, NEW w \in Scenes, NEW restart \in BOOLEAN
    PROVE  /\ Reports!FilledBy(restart) \in 0 .. Filling
           /\ Reports!Confidence(w, restart) \in Reports!Confidences(w)
           /\ Reports!Confidence(w, restart) \in Int
           /\ Reports!Asked(w, Reports!Confidence(w, restart)) \in Priorities
<1>0. Filling \in Nat \ {0} /\ w.quality \in 0 .. 100
  BY ReportsAssumption DEF Reports!ConstantsAssumption
<1>1. Reports!FilledBy(restart) \in 0 .. Filling
  <2>1. CASE restart \/ filled = None
    BY <1>0, <2>1 DEF Reports!FilledBy, None
  <2>2. CASE ~restart /\ filled # None
    <3>1. filled + idle \in Nat
      BY <2>2, <1>0 DEF ClocksOK
    <3> QED BY <1>0, <2>2, <3>1, CountsUpTo DEF Reports!FilledBy, None
  <2> QED BY <2>1, <2>2
<1>2. Reports!Confidence(w, restart) \in Reports!Confidences(w)
  BY <1>1 DEF Reports!Confidence, Reports!Confidences
<1>3. Reports!Confidence(w, restart) \in Int
  <2>1. \A n \in Int : n \div Filling \in Int
    BY <1>0
  <2>2. w.quality * Reports!FilledBy(restart) \in Int
    BY <1>0, <1>1
  <2> QED BY <2>1, <2>2 DEF Reports!Confidence
<1>4. Reports!Asked(w, Reports!Confidence(w, restart)) \in Priorities
  BY <1>2, ReportsAssumption DEF Reports!ConstantsAssumption, Reports!Asked, Priorities
<1> QED BY <1>1, <1>2, <1>3, <1>4

LEMMA DistanceSame ==
    ASSUME NEW a \in Int, NEW b \in Int
    PROVE  Reports!Distance(a, b) = Reports!Distance(b, a) /\ Reports!Distance(a, a) = 0
BY DEF Reports!Distance

(* _stabilise_priority counts what the tail of windows shows, and changes  *)
(* the priority only to what three of them in a row called for.            *)
LEMMA CountsKept ==
    ASSUME NEW s, NEW p, NEW q, NEW n, Counts(s, p, q, n), NEW x \in Priorities,
           NEW h, h = Reports!Held(x, p, q, n),
           NEW t, t = Reports!LastOf(Append(s, x), 3)
    PROVE  /\ Counts(t, h.priority, h.candidate, h.run) /\ h.priority \in Priorities
           /\ p # None /\ h.priority # p => t = [i \in 1 .. 3 |-> h.priority]
<1>0. None \notin Priorities /\ s \in Seq(Priorities) /\ Len(s) \in 0 .. 3 /\ n \in 0 .. 2
  BY ReportNumbers DEF Counts
<1>1. /\ t \in Seq(Priorities) /\ Len(t) \in 1 .. 3 /\ t # <<>>
      /\ Len(t) = IF Len(s) = 3 THEN 3 ELSE Len(s) + 1
      /\ t[Len(t)] = x
      /\ Len(s) >= 1 => t[Len(t) - 1] = s[Len(s)]
      /\ Len(s) >= 2 => t[Len(t) - 2] = s[Len(s) - 1]
  <2>0. t \in Seq(Priorities) /\ Extends(t, s, x)
    BY <1>0, TailKept
  <2>1. /\ t \in Seq(Priorities) /\ Len(t) \in 1 .. 3
        /\ Len(t) = IF Len(s) = 3 THEN 3 ELSE Len(s) + 1
        /\ t[Len(t)] = x
        /\ Len(s) >= 1 => t[Len(t) - 1] = s[Len(s)]
        /\ Len(s) >= 2 => t[Len(t) - 2] = s[Len(s) - 1]
    BY <2>0 DEF Extends
  <2>2. t # <<>>
    BY <2>1
  <2> QED BY <2>1, <2>2
<1>2. (Len(s) = 3 => Len(t) = 3) /\ (Len(s) # 3 => Len(t) = Len(s) + 1)
  BY <1>1
<1>3. CASE p = None \/ x = p
  <2>1. h.priority = x /\ h.candidate = None /\ h.run = 0
    BY <1>3 DEF Reports!Held, None
  <2> QED BY <1>0, <1>1, <1>3, <2>1 DEF Counts
<1>4. CASE p # None /\ x # p
  <2>1. s # <<>> /\ Len(s) >= 1
    BY <1>0, <1>4 DEF Counts
  <2>2. CASE x # q
    <3>1. h.priority = p /\ h.candidate = x /\ h.run = 1
      BY <1>4, <2>2 DEF Reports!Held, Reports!HysteresisWindows, None
    <3>2. s[Len(s)] # x
      BY <1>4, <2>1, <2>2 DEF Counts
    <3>3. Len(t) > 1 /\ t[Len(t) - 1] # x
      <4>1. t[Len(t) - 1] = s[Len(s)]
        BY <1>1, <2>1
      <4>2. Len(t) > 1
        <5>1. Len(s) \in 1 .. 3
          BY <1>0, <2>1
        <5> QED BY <1>2, <5>1
      <4> QED BY <3>2, <4>1, <4>2
    <3> QED BY <1>0, <1>1, <1>4, <3>1, <3>3 DEF Counts
  <2>3. CASE x = q
    <3>1. /\ q # None /\ n > 0 /\ Len(s) > n /\ s[Len(s)] = q
          /\ n = 1 => s[Len(s) - 1] # q
          /\ n = 2 => s[Len(s) - 1] = q
      BY <1>0, <2>3 DEF Counts
    <3>2. CASE n = 1
      <4>1. h.priority = p /\ h.candidate = x /\ h.run = 2
        BY <1>4, <2>3, <3>2 DEF Reports!Held, Reports!HysteresisWindows, None
      <4>2. Len(t) > 2 /\ t[Len(t) - 1] = x /\ t[Len(t) - 2] # x
        <5>1. Len(s) >= 2
          BY <1>0, <3>1, <3>2
        <5>2. s[Len(s) - 1] # x
          BY <2>3, <3>1, <3>2
        <5>3. t[Len(t) - 1] = s[Len(s)] /\ t[Len(t) - 2] = s[Len(s) - 1]
          BY <1>0, <1>1, <5>1
        <5>4. Len(t) > 2
          <6>1. Len(s) \in 0 .. 3
            BY <1>0
          <6> QED BY <1>2, <5>1, <6>1
        <5> QED BY <2>3, <3>1, <5>2, <5>3, <5>4
      <4> QED BY <1>0, <1>1, <1>4, <4>1, <4>2 DEF Counts
    <3>3. CASE n = 2
      <4>1. h.priority = x /\ h.candidate = None /\ h.run = 0
        BY <1>4, <2>3, <3>3 DEF Reports!Held, Reports!HysteresisWindows, None
      <4>2. Len(t) = 3 /\ t[3] = x /\ t[2] = x /\ t[1] = x
        BY <1>0, <1>1, <2>3, <3>1, <3>3
      <4>3. t = [i \in 1 .. 3 |-> x]
        <5>1. DOMAIN t = 1 .. 3 /\ \A i \in 1 .. 3 : t[i] = x
          BY <1>1, <4>2
        <5> QED BY <1>1, <5>1
      <4> QED BY <1>0, <1>1, <1>4, <4>1, <4>3 DEF Counts
    <3> QED BY <1>0, <3>1, <3>2, <3>3
  <2> QED BY <2>2, <2>3
<1> QED BY <1>3, <1>4

LEMMA NothingCounted == Counts(<<>>, None, None, 0)
BY ReportNumbers DEF Counts

-----------------------------------------------------------------------------
(* evaluate: counts kept, the report in force is of this window or says    *)
(* the same as one that would be, and only a long silence repeats it.      *)
Evaluated(w, c) ==
    /\ CountsAgree'
    /\ priority' \in Priorities /\ priority' = latest'.priority
    /\ latest'.status = w.status /\ latest'.actions = Said[w][c].actions
    /\ latest'.confidence \in Int /\ Reports!Distance(latest'.confidence, c) < 15
    /\ latest' # NoReport /\ age' \in 0 .. Interval

(* What the report says when nothing new is issued.                        *)
Silent ==
    /\ latest' = latest /\ latest # NoReport /\ priority' = priority
    /\ age' = age /\ age < Interval

LEMMA EvaluateKeeps ==
    ASSUME ReportInv, NEW w \in Scenes, NEW restart \in BOOLEAN,
           NEW c, c = Reports!Confidence(w, restart), Reports!Evaluate(w, c, restart)
    PROVE  /\ Evaluated(w, c)
           /\ Reports!Issues(w, c, restart) => latest' = Reports!ReportOf(w, c, restart)
           /\ ~Reports!Issues(w, c, restart) => ~restart /\ Silent
           /\ priority # None /\ priority' # priority /\ Len(recent') > 1
                => recent' = [i \in 1 .. 3 |-> priority']
<1>0. /\ None = -1 /\ None \notin Priorities /\ None \in Int /\ Interval \in Nat \ {0}
      /\ NoReport.priority = None
  BY ReportNumbers
<1>1. /\ c \in Int /\ Reports!Asked(w, c) \in Priorities
  BY SeenWith DEF ReportInv
<1>2. PICK h : h = Reports!HeldAfter(w, c, restart)
  OBVIOUS
<1>3. PICK s, p, q, n :
        /\ s = IF restart THEN <<>> ELSE recent
        /\ p = IF restart THEN None ELSE priority
        /\ q = IF restart THEN None ELSE asked
        /\ n = IF restart THEN 0 ELSE agreed
  OBVIOUS
<1>4. Counts(s, p, q, n)
  BY <1>3, NothingCounted DEF ReportInv, CountsAgree
<1>5. h = Reports!Held(Reports!Asked(w, c), p, q, n)
  BY <1>2, <1>3 DEF Reports!HeldAfter, None
<1>6. /\ priority' = h.priority /\ asked' = h.candidate /\ agreed' = h.run
      /\ recent' = Reports!LastOf(Append(s, Reports!Asked(w, c)), 3)
  BY <1>2, <1>3 DEF Reports!Evaluate, Reports!HysteresisWindows
<1>7. /\ Counts(recent', h.priority, h.candidate, h.run) /\ h.priority \in Priorities
      /\ p # None /\ h.priority # p => recent' = [i \in 1 .. 3 |-> h.priority]
  BY <1>1, <1>4, <1>5, <1>6, CountsKept
<1>8. CountsAgree' /\ priority' \in Priorities
  BY <1>6, <1>7 DEF CountsAgree
<1>9. priority # None /\ priority' # priority /\ Len(recent') > 1
        => recent' = [i \in 1 .. 3 |-> priority']
  <2>1. CASE ~restart
    BY <1>3, <1>6, <1>7, <2>1
  <2>2. CASE restart
    <3>1. s \in Seq(Priorities) /\ Len(s) = 0 /\ Len(s) \in 0 .. 3
      BY <1>3, <2>2
    <3>2. Extends(recent', s, Reports!Asked(w, c))
      BY <1>1, <1>6, <3>1, TailKept
    <3>3. Len(recent') = 1
      BY <3>1, <3>2 DEF Extends
    <3> QED BY <3>3
  <2> QED BY <2>1, <2>2
<1>10. PICK r : r = Reports!ReportOf(w, c, restart)
  OBVIOUS
<1>11. /\ r.status = w.status /\ r.priority = priority' /\ r.actions = Said[w][c].actions
       /\ r.confidence = c
  BY <1>2, <1>6, <1>10 DEF Reports!ReportOf
<1>12. CASE Reports!Issues(w, c, restart)
  <2>1. latest' = r /\ age' = 0
    BY <1>10, <1>12 DEF Reports!Evaluate
  <2>2. Reports!Distance(c, c) = 0
    BY <1>1, DistanceSame
  <2>3. latest' # NoReport
    BY <1>0, <1>8, <1>11, <2>1
  <2> QED BY <1>0, <1>1, <1>8, <1>9, <1>10, <1>11, <1>12, <2>1, <2>2, <2>3 DEF Evaluated
<1>13. CASE ~Reports!Issues(w, c, restart)
  <2>1. latest' = latest /\ age' = age
    BY <1>13 DEF Reports!Evaluate
  <2>2. ~Reports!IsReportable(r, IF restart THEN NoReport ELSE latest, age)
    BY <1>10, <1>13 DEF Reports!Issues, NoReport
  <2>3. ~restart
    BY <2>2 DEF Reports!IsReportable, NoReport
  <2>4. /\ latest # NoReport /\ r.status = latest.status /\ r.priority = latest.priority
        /\ r.actions = latest.actions
        /\ ~(Reports!Distance(r.confidence, latest.confidence) >= 15)
        /\ ~(age >= Interval)
    BY <2>2, <2>3 DEF Reports!IsReportable, NoReport, Reports!ConfidenceStep
  <2>5. latest.confidence \in Int /\ priority = latest.priority /\ age \in 0 .. Interval
    BY <2>4 DEF ReportInv, ReportKept, ClocksOK
  <2>6. Reports!Distance(latest.confidence, c) < 15
    <3>1. Reports!Distance(c, latest.confidence) \in Int
      BY <1>1, <2>5 DEF Reports!Distance
    <3>2. ~(Reports!Distance(c, latest.confidence) >= 15)
      BY <1>11, <2>4
    <3>3. Reports!Distance(c, latest.confidence) < 15
      BY <3>1, <3>2
    <3> QED BY <1>1, <2>5, <3>3, DistanceSame
  <2>7. Evaluated(w, c)
    BY <1>8, <1>11, <2>1, <2>4, <2>5, <2>6 DEF Evaluated
  <2>8. age < Interval
    BY <1>0, <2>4, <2>5
  <2> QED BY <1>9, <1>11, <1>13, <2>1, <2>3, <2>4, <2>5, <2>7, <2>8 DEF Silent
<1> QED BY <1>12, <1>13

(* An action that leaves the panel, the last assessment and the priority   *)
(* as they are leaves them in agreement.                                   *)
LEMMA PanelUndisturbed ==
    ASSUME PanelCurrent, assessed' = assessed, ~lost' => ~lost,
           panel' = panel, ~lost' => priority' \in {None, priority}
    PROVE  PanelCurrent'
BY DEF PanelCurrent, Reports!PanelIsCurrent, None

(* A sample leaves the average's history in range.                         *)
LEMMA SampleKeeps ==
    ASSUME ClocksOK, NEW restart \in BOOLEAN, Reports!Sample(restart)
    PROVE  filled' \in {None} \cup 0 .. Filling /\ idle' \in 0 .. Filling
<1>1. Filling \in Nat \ {0}
  BY ReportNumbers
<1>2. Reports!FilledBy(restart) \in 0 .. Filling
  <2>1. CASE restart \/ filled = None
    BY <1>1, <2>1 DEF Reports!FilledBy, None
  <2>2. CASE ~restart /\ filled # None
    <3>1. filled + idle \in Nat
      BY <2>2, <1>1 DEF ClocksOK
    <3> QED BY <1>1, <2>2, <3>1, CountsUpTo DEF Reports!FilledBy, None
  <2> QED BY <2>1, <2>2
<1> QED BY <1>1, <1>2 DEF Reports!Sample

(* A reset engine says nothing, and has counted nothing.                   *)
LEMMA ResetKeeps ==
    ASSUME Reports!EngineReset
    PROVE  /\ latest' = NoReport /\ priority' = None /\ age' = 0
           /\ CountsAgree' /\ priority' = latest'.priority
BY ReportNumbers, NothingCounted DEF Reports!EngineReset, CountsAgree, None, NoReport

LEMMA ReportsStart == ASSUME Reports!Init PROVE ReportInv
<1>1. CountsAgree
  BY NothingCounted DEF Reports!Init, CountsAgree, None
<1>2. ClocksOK
  <2>1. 0 \in 0 .. Interval /\ 0 \in 0 .. Filling
    BY ReportNumbers
  <2> QED BY <2>1 DEF Reports!Init, ClocksOK, None
<1>3. ReportKept
  BY ReportNumbers DEF Reports!Init, ReportKept, None, NoReport
<1>4. AssessedOK /\ PanelCurrent
  BY DEF Reports!Init, AssessedOK, PanelCurrent, Reports!PanelIsCurrent, Reports!NoWindow
<1> QED BY <1>1, <1>2, <1>3, <1>4 DEF ReportInv

LEMMA ReportWindowKeeps ==
    ASSUME ReportInv, NEW w \in Scenes, NEW restart \in BOOLEAN, Reports!Window(w, restart)
    PROVE  ReportInv'
<1>1. PICK c : c = Reports!Confidence(w, restart)
  OBVIOUS
<1>2. /\ Reports!Sample(restart) /\ Reports!Evaluate(w, c, restart) /\ assessed' = <<w, c>>
      /\ panel' = IF Reports!Issues(w, c, restart) THEN Reports!ReportOf(w, c, restart)
                  ELSE IF missed THEN NoReport ELSE panel
      /\ missed' = FALSE
      /\ lost' = (lost /\ ~Reports!Issues(w, c, restart))
  BY <1>1 DEF Reports!Window, NoReport
<1>3. /\ Evaluated(w, c)
      /\ Reports!Issues(w, c, restart) => latest' = Reports!ReportOf(w, c, restart)
      /\ ~Reports!Issues(w, c, restart) => ~restart /\ Silent
  BY <1>1, <1>2, EvaluateKeeps
<1>4. c \in Int /\ c \in Reports!Confidences(w)
  BY <1>1, SeenWith DEF ReportInv
<1>5. ~lost' => panel' = latest'
  <2>1. CASE Reports!Issues(w, c, restart)
    BY <1>2, <1>3, <2>1
  <2>2. CASE ~Reports!Issues(w, c, restart)
    BY <1>2, <1>3, <2>2 DEF ReportInv, ReportKept, Silent
  <2> QED BY <2>1, <2>2
<1>6. ClocksOK'
  <2>1. lost' \in BOOLEAN
    BY <1>2
  <2>2. age' \in 0 .. Interval
    BY <1>3 DEF Evaluated
  <2>3. filled' \in {None} \cup 0 .. Filling /\ idle' \in 0 .. Filling
    BY <1>2, SampleKeeps DEF ReportInv
  <2> QED BY <1>2, <2>1, <2>2, <2>3, Zenon DEF ClocksOK
<1>7. ReportKept'
  BY <1>2, <1>3, <1>5 DEF ReportKept, Evaluated
<1>8. PanelCurrent'
  <2> SUFFICES ASSUME ~lost'
               PROVE  /\ panel'.status = w.status /\ panel'.actions = Said[w][c].actions
                      /\ priority' \in {None, panel'.priority}
                      /\ Reports!Distance(panel'.confidence, c) < 15
    BY <1>2 DEF PanelCurrent, Reports!PanelIsCurrent, Reports!ConfidenceStep, None
  <2> QED BY <1>3, <1>5 DEF Evaluated
<1>9. AssessedOK'
  BY <1>2, <1>4 DEF AssessedOK
<1>10. CountsAgree'
  BY <1>3 DEF Evaluated
<1> QED BY <1>6, <1>7, <1>8, <1>9, <1>10 DEF ReportInv

LEMMA FailsBeforeKeeps ==
    ASSUME ReportInv, NEW restart \in BOOLEAN, NEW sampled \in BOOLEAN,
           Reports!FailsBefore(restart, sampled)
    PROVE  ReportInv'
<1>1. /\ panel' = panel /\ assessed' = assessed /\ lost' = lost
      /\ missed' = (missed \/ restart)
  BY DEF Reports!FailsBefore
<1>2. filled' \in {None} \cup 0 .. Filling /\ idle' \in 0 .. Filling
  <2>1. CASE sampled
    BY <2>1, SampleKeeps DEF Reports!FailsBefore, ReportInv
  <2>2. CASE ~sampled
    BY <2>2, ReportNumbers DEF Reports!FailsBefore, ReportInv, ClocksOK, None
  <2> QED BY <2>1, <2>2
<1>3. CASE restart
  <2>1. Reports!EngineReset
    BY <1>3 DEF Reports!FailsBefore
  <2>2. latest' = NoReport /\ priority' = None /\ age' = 0 /\ CountsAgree' /\ priority' = latest'.priority
    BY <2>1, ResetKeeps
  <2>3. ClocksOK'
    <3>1. age' \in 0 .. Interval
      BY <2>2, ReportNumbers
    <3>2. missed' \in BOOLEAN /\ lost' \in BOOLEAN
      BY <1>1 DEF ReportInv, ClocksOK
    <3> QED BY <1>2, <3>1, <3>2, Zenon DEF ClocksOK
  <2>4. ReportKept'
    BY <2>2 DEF ReportKept
  <2>5. PanelCurrent'
    BY <1>1, <2>2, PanelUndisturbed DEF ReportInv
  <2>6. AssessedOK'
    BY <1>1 DEF ReportInv, AssessedOK
  <2> QED BY <2>2, <2>3, <2>4, <2>5, <2>6 DEF ReportInv
<1>4. CASE ~restart
  <2>1. /\ latest' = latest /\ priority' = priority /\ age' = age /\ asked' = asked
        /\ agreed' = agreed /\ recent' = recent /\ missed' = missed
    <3>1. UNCHANGED <<Reports!engineVars, recent>>
      BY <1>4 DEF Reports!FailsBefore
    <3>2. missed' = missed
      BY <1>1, <1>4 DEF ReportInv, ClocksOK
    <3> QED BY <3>1, <3>2 DEF Reports!engineVars
  <2>2. ClocksOK'
    BY <1>1, <1>2, <2>1 DEF ReportInv, ClocksOK
  <2>3. ReportKept' /\ CountsAgree' /\ AssessedOK'
    BY <1>1, <2>1 DEF ReportInv, ReportKept, CountsAgree, AssessedOK
  <2>4. PanelCurrent'
    BY <1>1, <2>1, PanelUndisturbed DEF ReportInv
  <2> QED BY <2>2, <2>3, <2>4 DEF ReportInv
<1> QED BY <1>3, <1>4

LEMMA FailsAfterKeeps ==
    ASSUME ReportInv, NEW w \in Scenes, NEW restart \in BOOLEAN, Reports!FailsAfter(w, restart)
    PROVE  ReportInv'
<1>1. PICK c : c = Reports!Confidence(w, restart)
  OBVIOUS
<1>2. /\ Reports!Sample(restart) /\ Reports!Evaluate(w, c, restart)
      /\ panel' = panel /\ assessed' = assessed
      /\ missed' = (missed \/ restart)
      /\ lost' = (Reports!Issues(w, c, restart) \/ lost)
  BY <1>1 DEF Reports!FailsAfter
<1>3. /\ Evaluated(w, c)
      /\ ~Reports!Issues(w, c, restart) => ~restart /\ Silent
  BY <1>1, <1>2, EvaluateKeeps
<1>4. ClocksOK'
  <2>1. lost' \in BOOLEAN /\ missed' \in BOOLEAN
    BY <1>2 DEF ReportInv, ClocksOK
  <2>2. age' \in 0 .. Interval
    BY <1>3 DEF Evaluated
  <2>3. filled' \in {None} \cup 0 .. Filling /\ idle' \in 0 .. Filling
    BY <1>2, SampleKeeps DEF ReportInv
  <2> QED BY <2>1, <2>2, <2>3, Zenon DEF ClocksOK
<1>5. ~lost' => ~lost /\ ~restart /\ Silent /\ (missed' => missed)
  BY <1>2, <1>3
<1>6. ReportKept'
  <2>1. priority' \in {None} \cup Priorities /\ priority' = latest'.priority
        /\ latest'.confidence \in Int
    BY <1>3 DEF Evaluated
  <2>2. ~lost' => panel' = latest' /\ ~missed'
    BY <1>2, <1>5 DEF Silent, ReportInv, ReportKept
  <2> QED BY <2>1, <2>2 DEF ReportKept
<1>7. PanelCurrent'
  <2>1. ~lost' => ~lost /\ priority' = priority
    BY <1>5 DEF Silent
  <2> QED BY <1>2, <2>1, PanelUndisturbed DEF ReportInv
<1>8. AssessedOK' /\ CountsAgree'
  BY <1>2, <1>3 DEF ReportInv, AssessedOK, Evaluated
<1> QED BY <1>4, <1>6, <1>7, <1>8 DEF ReportInv

LEMMA ReportStopKeeps ==
    ASSUME ReportInv, Reports!CameraStops \/ Reports!RebuildAnalysis
    PROVE  ReportInv' /\ assessed' = <<>> /\ age' = 0 /\ priority' = None
<1>1. /\ Reports!EngineReset /\ filled' = None /\ idle' = 0 /\ assessed' = <<>>
      /\ panel' = panel /\ lost' = lost /\ missed' \in {TRUE, missed}
  BY DEF Reports!CameraStops, Reports!RebuildAnalysis, Reports!NoWindow, None
<1>2. latest' = NoReport /\ priority' = None /\ age' = 0 /\ CountsAgree' /\ priority' = latest'.priority
  BY <1>1, ResetKeeps
<1>3. ClocksOK'
  <2>1. 0 \in 0 .. Interval /\ 0 \in 0 .. Filling
    BY ReportNumbers
  <2>2. missed' \in BOOLEAN /\ lost' \in BOOLEAN
    BY <1>1 DEF ReportInv, ClocksOK
  <2> QED BY <1>1, <1>2, <2>1, <2>2, Zenon DEF ClocksOK
<1>4. ReportKept' /\ AssessedOK'
  BY <1>1, <1>2 DEF ReportKept, AssessedOK
<1>5. PanelCurrent'
  BY <1>1 DEF PanelCurrent, Reports!PanelIsCurrent, Reports!NoWindow
<1> QED BY <1>1, <1>2, <1>3, <1>4, <1>5 DEF ReportInv

LEMMA ReportTickKeeps == ASSUME ReportInv, Reports!Tick PROVE ReportInv'
<1>1. /\ filled' = filled /\ latest' = latest /\ priority' = priority /\ asked' = asked
      /\ agreed' = agreed /\ panel' = panel /\ missed' = missed /\ assessed' = assessed
      /\ recent' = recent /\ lost' = lost
      /\ idle' = (IF filled = None THEN 0 ELSE Reports!Upto(idle + 1, Filling))
      /\ age' = (IF latest = NoReport THEN 0 ELSE Reports!Upto(age + 1, Interval))
  BY DEF Reports!Tick, None, NoReport
<1>2. ClocksOK'
  <2>1. idle + 1 \in Nat /\ age + 1 \in Nat /\ Filling \in Nat /\ Interval \in Nat
    BY ReportNumbers DEF ReportInv, ClocksOK
  <2>2. Reports!Upto(idle + 1, Filling) \in 0 .. Filling
    BY <2>1, CountsUpTo
  <2>3. Reports!Upto(age + 1, Interval) \in 0 .. Interval
    BY <2>1, CountsUpTo
  <2>4. 0 \in 0 .. Interval /\ 0 \in 0 .. Filling
    BY <2>1
  <2>5. idle' \in 0 .. Filling /\ age' \in 0 .. Interval
    BY <1>1, <2>2, <2>3, <2>4
  <2> QED BY <1>1, <2>5 DEF ReportInv, ClocksOK
<1>3. ReportKept' /\ CountsAgree' /\ AssessedOK'
  BY <1>1 DEF ReportInv, ReportKept, CountsAgree, AssessedOK
<1>4. PanelCurrent'
  BY <1>1, PanelUndisturbed DEF ReportInv
<1> QED BY <1>2, <1>3, <1>4 DEF ReportInv

LEMMA ReportsPreserved == ASSUME ReportInv, [Reports!Next]_(Reports!vars) PROVE ReportInv'
<1>1. CASE Reports!Next
  BY <1>1, ReportWindowKeeps, FailsAfterKeeps, FailsBeforeKeeps, ReportStopKeeps, ReportTickKeeps
     DEF Reports!Next
<1>2. CASE UNCHANGED Reports!vars
  <2>1. /\ filled' = filled /\ idle' = idle /\ latest' = latest /\ age' = age
        /\ priority' = priority /\ asked' = asked /\ agreed' = agreed /\ panel' = panel
        /\ missed' = missed /\ assessed' = assessed /\ recent' = recent /\ lost' = lost
    BY <1>2 DEF Reports!vars, Reports!engineVars
  <2>2. ClocksOK' /\ ReportKept' /\ CountsAgree' /\ AssessedOK'
    BY <2>1 DEF ReportInv, ClocksOK, ReportKept, CountsAgree, AssessedOK
  <2>3. PanelCurrent'
    BY <2>1, PanelUndisturbed DEF ReportInv
  <2> QED BY <2>2, <2>3 DEF ReportInv
<1> QED BY <1>1, <1>2

(* Engine and service keep agreeing through restarts, stops, new zones and *)
(* failing stages: the inductive invariant under PanelAgrees.              *)
THEOREM ReportsInvariant == Reports!Spec => []ReportInv
<1>1. Reports!Init => ReportInv
  BY ReportsStart
<1>2. ReportInv /\ [Reports!Next]_(Reports!vars) => ReportInv'
  BY ReportsPreserved
<1> QED BY <1>1, <1>2, PTL DEF Reports!Spec

(* PanelAgrees: the operator's panel says what the last assessment calls   *)
(* for, and three windows that agree have set the priority.                *)
THEOREM PanelTrue == Reports!Spec => []PanelAgrees
<1>1. ReportInv => PanelAgrees
  <2> SUFFICES ASSUME ReportInv PROVE Reports!PriorityFollows
    BY DEF ReportInv, PanelCurrent, PanelAgrees, Reports!PanelAgrees
  <2> SUFFICES ASSUME NEW p \in Priorities, recent = [i \in 1 .. 3 |-> p]
               PROVE  priority = p
    BY DEF Reports!PriorityFollows, Reports!HysteresisWindows, Priorities
  <2>1. Counts(recent, priority, asked, agreed)
    BY DEF ReportInv, CountsAgree
  <2>2. recent \in Seq(Priorities) /\ Len(recent) = 3 /\ recent # <<>>
    <3>1. DOMAIN recent = 1 .. 3
      OBVIOUS
    <3>2. recent \in Seq(Priorities)
      BY <2>1 DEF Counts
    <3> QED BY <3>1, <3>2
  <2>3. recent[3] = p /\ recent[2] = p /\ recent[1] = p
    OBVIOUS
  <2>4. CASE asked = None
    BY <2>1, <2>2, <2>3, <2>4 DEF Counts
  <2>5. CASE asked # None
    <3>1. /\ asked = p /\ agreed \in {1, 2}
          /\ agreed = 1 => recent[2] # asked
          /\ agreed = 2 => recent[1] # asked
      BY <2>1, <2>2, <2>3, <2>5 DEF Counts
    <3> QED BY <2>3, <3>1
  <2> QED BY <2>4, <2>5
<1> QED BY <1>1, ReportsInvariant, PTL

-----------------------------------------------------------------------------
(* A window handed on leaves no lost report behind that is older than the  *)
(* longest silence.                                                        *)
Reissued == assessed' # assessed /\ lost' => age' < Interval

(* The priority changes to what the last windows all called for.           *)
Earned ==
    priority # None /\ priority' # priority /\ priority' # None /\ Len(recent') > 1
        => recent' = [i \in 1 .. 3 |-> priority']

LEMMA ReportStep ==
    ASSUME ReportInv, [Reports!Next]_(Reports!vars) PROVE Reissued /\ Earned
<1>0. Interval \in Nat \ {0}
  BY ReportNumbers
<1>1. ASSUME NEW w \in Scenes, NEW restart \in BOOLEAN, Reports!Window(w, restart)
      PROVE  Reissued /\ Earned
  <2>1. PICK c : c = Reports!Confidence(w, restart)
    OBVIOUS
  <2>2. /\ Reports!Evaluate(w, c, restart)
        /\ lost' = (lost /\ ~Reports!Issues(w, c, restart))
    BY <1>1, <2>1 DEF Reports!Window
  <2>3. /\ ~Reports!Issues(w, c, restart) => ~restart /\ Silent
        /\ priority # None /\ priority' # priority /\ Len(recent') > 1
             => recent' = [i \in 1 .. 3 |-> priority']
    BY <2>1, <2>2, EvaluateKeeps
  <2> QED BY <2>2, <2>3 DEF Reissued, Earned, Silent
<1>2. ASSUME NEW w \in Scenes, NEW restart \in BOOLEAN, Reports!FailsAfter(w, restart)
      PROVE  Reissued /\ Earned
  <2>1. PICK c : c = Reports!Confidence(w, restart)
    OBVIOUS
  <2>2. Reports!Evaluate(w, c, restart) /\ assessed' = assessed
    BY <1>2, <2>1 DEF Reports!FailsAfter
  <2>3. priority # None /\ priority' # priority /\ Len(recent') > 1
             => recent' = [i \in 1 .. 3 |-> priority']
    BY <2>1, <2>2, EvaluateKeeps
  <2> QED BY <2>2, <2>3 DEF Reissued, Earned
<1>3. ASSUME NEW restart \in BOOLEAN, NEW sampled \in BOOLEAN,
             Reports!FailsBefore(restart, sampled)
      PROVE  Reissued /\ Earned
  <2>1. assessed' = assessed
    BY <1>3 DEF Reports!FailsBefore
  <2>2. priority' \in {None, priority}
    BY <1>3 DEF Reports!FailsBefore, Reports!EngineReset, Reports!engineVars, None
  <2> QED BY <2>1, <2>2 DEF Reissued, Earned
<1>4. CASE Reports!CameraStops \/ Reports!RebuildAnalysis
  BY <1>0, <1>4, ReportStopKeeps DEF Reissued, Earned
<1>5. CASE Reports!Tick
  BY <1>5 DEF Reports!Tick, Reissued, Earned
<1>6. CASE UNCHANGED Reports!vars
  BY <1>6 DEF Reports!vars, Reports!engineVars, Reissued, Earned
<1> QED BY <1>1, <1>2, <1>3, <1>4, <1>5, <1>6 DEF Reports!Next

(* ReportsAreEarned: a priority changes by windows that agree, and a       *)
(* report that was lost does not stay lost.                                *)
THEOREM ReportsEarned == Reports!Spec => ReportsAreEarned
<1>1. ReportInv /\ [Reports!Next]_(Reports!vars) => [Reissued]_(Reports!vars)
  BY ReportStep
<1>2. ReportInv /\ [Reports!Next]_(Reports!vars) => [Earned]_(Reports!vars)
  BY ReportStep
<1>3. Reports!Spec => [][Reissued]_(Reports!vars)
  BY <1>1, ReportsInvariant, PTL DEF Reports!Spec
<1>4. Reports!Spec => [][Earned]_(Reports!vars)
  BY <1>2, ReportsInvariant, PTL DEF Reports!Spec
<1> QED BY <1>3, <1>4, PTL DEF ReportsAreEarned, Reports!ReportsAreEarned, Reports!LostIsReissued,
           Reports!PriorityIsEarned, Reissued, Earned, None, Reports!HysteresisWindows

(***************************************************************************)
(* StaffingPlan.  What is above nothing; a set of naturals has a least.    *)
(***************************************************************************)
Pos(n) == IF n >= 0 THEN n ELSE 0

LEMMA LeastIs ==
    ASSUME NEW S \in SUBSET Nat, S # {}
    PROVE  \E x \in S : \A y \in S : x <= y
<1>1. PICK n \in S : TRUE
  OBVIOUS
<1> DEFINE D == 0 .. n
           R == StrictSubsetOrdering(D)
           T == {0 .. m : m \in S \cap D}
<1>2. IsFiniteSet(D)
  BY <1>1, FS_Interval
<1>3. IsWellFoundedOn(R, SUBSET D)
  BY <1>2, FS_StrictSubsetOrderingWellFounded, FS_FiniteSubsetsOfFinite
<1>4. T \subseteq SUBSET D /\ T # {}
  BY <1>1
<1> HIDE DEF R
<1>5. PICK X \in T : \A Y \in T : ~(<<Y, X>> \in R)
  BY <1>3, <1>4, WFMin
<1>6. PICK x \in S \cap D : X = 0 .. x
  BY <1>5
<1>7. ASSUME NEW y \in S, y < x PROVE FALSE
  <2>1. y \in S \cap D /\ 0 .. y \in T
    BY <1>1, <1>6, <1>7
  <2>2. 0 .. y \subseteq 0 .. x /\ 0 .. y # 0 .. x /\ 0 .. x \subseteq D
    BY <1>1, <1>6, <1>7
  <2>3. <<0 .. y, X>> \in R
    BY <1>4, <1>6, <2>1, <2>2 DEF R, StrictSubsetOrdering
  <2> QED BY <1>5, <2>1, <2>3
<1>8. \A y \in S : x <= y
  BY <1>6, <1>7
<1> QED BY <1>6, <1>8

LEMMA PosIs == ASSUME NEW n \in Int PROVE Plans!Max({0, n}) = Pos(n)
<1>1. \E m \in {0, n} : \A y \in {0, n} : m >= y
  <2>1. CASE n >= 0
    BY <2>1
  <2>2. CASE n < 0
    BY <2>2
  <2> QED BY <2>1, <2>2
<1>2. PICK m : m = Plans!Max({0, n})
  OBVIOUS
<1>3. m \in {0, n} /\ \A y \in {0, n} : m >= y
  BY <1>1, <1>2 DEF Plans!Max
<1> QED BY <1>2, <1>3 DEF Pos

LEMMA LesserOf ==
    ASSUME NEW a \in Int, NEW b \in Int
    PROVE  Plans!Min({a, b}) = IF a <= b THEN a ELSE b
<1>1. \E m \in {a, b} : \A y \in {a, b} : m <= y
  <2>1. CASE a <= b
    BY <2>1
  <2>2. CASE b < a
    BY <2>2
  <2> QED BY <2>1, <2>2
<1>2. PICK m : m = Plans!Min({a, b})
  OBVIOUS
<1>3. m \in {a, b} /\ \A y \in {a, b} : m <= y
  BY <1>1, <1>2 DEF Plans!Min
<1> QED BY <1>2, <1>3

LEMMA LeastOf ==
    ASSUME NEW S \in SUBSET Nat, S # {}
    PROVE  Plans!Min(S) \in S /\ \A y \in S : Plans!Min(S) <= y
<1>1. \E x \in S : \A y \in S : x <= y
  BY LeastIs
<1> QED BY <1>1 DEF Plans!Min

-----------------------------------------------------------------------------
(* Products.                                                               *)
LEMMA Distributes ==
    ASSUME NEW n \in Int, NEW j \in Int, NEW k \in Int
    PROVE  /\ n * (j + k) = n * j + n * k /\ n * (j - k) = n * j - n * k
           /\ n * (k + 1) = n * k + n
OBVIOUS

LEMMA Signs ==
    ASSUME NEW n \in Int, NEW k \in Nat
    PROVE  (n >= 0 => n * k >= 0) /\ (n <= 0 => n * k <= 0)
OBVIOUS

LEMMA Larger ==
    ASSUME NEW a \in Int, NEW b \in Int, a <= b, NEW k \in Nat
    PROVE  a * k <= b * k /\ k * a <= k * b
<1>1. (b - a) * k >= 0
  BY Signs
<1>2. (b - a) * k = b * k - a * k /\ k * a = a * k /\ k * b = b * k
  OBVIOUS
<1> QED BY <1>1, <1>2

LEMMA Cancels ==
    ASSUME NEW a \in Int, NEW b \in Int, NEW k \in Nat \ {0}, a * k <= b * k
    PROVE  a <= b
<1> SUFFICES ASSUME a > b PROVE FALSE
  OBVIOUS
<1>1. (b + 1) * k <= a * k
  BY Larger
<1>2. (b + 1) * k = b * k + k
  OBVIOUS
<1> QED BY <1>1, <1>2

(* What a queue of q that grows by n a minute has become after k.          *)
Level(q, n, k) == Pos(q + n * k)

LEMMA LevelStep ==
    ASSUME NEW q \in Nat, NEW n \in Int, NEW k \in Nat
    PROVE  Level(q, n, k) \in Nat /\ Pos(Level(q, n, k) + n) = Level(q, n, k + 1)
<1> DEFINE p == n * k
<1>1. p \in Int /\ n * (k + 1) = p + n /\ (n >= 0 => p >= 0)
  BY Distributes, Signs
<1> HIDE DEF p
<1>2. Level(q, n, k) = Pos(q + p) /\ Level(q, n, k + 1) = Pos(q + p + n)
  BY <1>1 DEF Level, p
<1> QED BY <1>1, <1>2 DEF Pos

(* A minute that differs by at most e from its rates.                      *)
LEMMA LevelDrifts ==
    ASSUME NEW q \in Nat, NEW n \in Int, NEW k \in Nat, NEW x \in Nat, NEW d \in Nat,
           NEW e \in Nat, NEW a \in Int, NEW b \in Int, n = a - b, NEW came \in Int,
           x - Level(q, n, k) \in -d .. d, came - a \in -e .. e
    PROVE  Pos(x + came - b) - Level(q, n, k + 1) \in -(d + e) .. d + e
<1> DEFINE y == Level(q, n, k)
<1>1. y \in Nat /\ Level(q, n, k + 1) = Pos(y + n)
  BY LevelStep
<1>2. x - y \in -d .. d
  OBVIOUS
<1> HIDE DEF y
<1>3. Pos(x + came - b) - Pos(y + n) \in -(d + e) .. d + e
  BY <1>1, <1>2 DEF Pos
<1> QED BY <1>1, <1>3

(* What a counter closed with a margin can stand of growth.                *)
LEMMA MarginLasts ==
    ASSUME NEW q \in Nat, NEW n \in Int, NEW k \in Nat, NEW h \in Nat, NEW w \in Nat,
           NEW t \in Nat, NEW c \in Nat \ {0}, c <= t,
           k < ((t - c) * h) \div c, Level(q, n, h) <= c * w
    PROVE  Level(Level(q, n, k), n, h) <= t * w
<1> DEFINE r == t - c
<1>1. r \in Nat /\ t = r + c /\ t * w = r * w + c * w /\ r * w >= 0 /\ c * w >= 0
  OBVIOUS
<1>2. q + n * h <= c * w
  BY DEF Level, Pos
<1>3. n * h <= c * w
  BY <1>2
<1>4. CASE n <= 0
  <2>1. n * k <= 0
    BY <1>4, Signs
  <2> QED BY <1>1, <1>2, <1>3, <2>1 DEF Level, Pos
<1>5. CASE n > 0
  <2>1. k * c <= r * h
    <3> DEFINE x == r * h
    <3>1. x \in Nat
      BY <1>1
    <3>2. k < x \div c
      OBVIOUS
    <3> HIDE DEF x
    <3>3. (x \div c) * c <= x /\ x \div c \in Int
      BY <3>1
    <3>4. k * c <= (x \div c) * c
      BY <3>2, <3>3, Larger
    <3> QED BY <3>1, <3>3, <3>4 DEF x
  <2>2. n * (k * c) <= n * (r * h)
    BY <1>1, <1>5, <2>1, Larger
  <2>3. r * (n * h) <= r * (c * w)
    BY <1>1, <1>3, Larger
  <2>4. (n * k) * c = n * (k * c) /\ n * (r * h) = r * (n * h) /\ r * (c * w) = (r * w) * c
    BY <1>1
  <2>5. n * k <= r * w
    BY <1>1, <2>2, <2>3, <2>4, Cancels
  <2> QED BY <1>1, <1>2, <1>3, <2>5 DEF Level, Pos
<1> QED BY <1>4, <1>5

-----------------------------------------------------------------------------
(* The plan.                                                               *)
LEMMA PlanNumbers ==
    /\ Total \in Nat /\ MaxQueue \in Nat /\ MaxJitter \in Nat /\ MaxMinutes \in Nat
    /\ PerCounter \in Nat \ {0} /\ Horizon \in Nat \ {0}
    /\ Target \in Nat /\ CloseTarget \in 1 .. Target
    /\ Arrivals \subseteq Nat /\ Abandonments \subseteq Nat
    /\ Ahead \in Seq(Nat \ {0}) /\ Never \notin Int
    /\ \A i, j \in DOMAIN Ahead : i < j => Ahead[i] < Ahead[j]
BY PlansAssumption DEF Plans!ConstantsAssumption

Net(c) == arrivals - c * PerCounter - abandonment
Rates == arrivals \in Nat /\ abandonment \in Nat /\ open \in 0 .. Total

LEMMA NetIs ==
    ASSUME Rates, NEW c \in Nat
    PROVE  /\ c * PerCounter \in Nat /\ Net(c) \in Int
           /\ \A d \in Nat : c <= d => c * PerCounter <= d * PerCounter /\ Net(d) <= Net(c)
<1>1. c * PerCounter \in Nat
  BY PlanNumbers
<1>2. ASSUME NEW d \in Nat, c <= d
      PROVE  c * PerCounter <= d * PerCounter /\ d * PerCounter \in Nat
  BY <1>2, PlanNumbers, Larger
<1> QED BY <1>1, <1>2 DEF Net, Rates

LEMMA ProjectedIs ==
    ASSUME Rates, NEW p \in Nat, NEW c \in Nat
    PROVE  /\ Plans!Projected(p, c) = Level(p, Net(c), Horizon) /\ Plans!Projected(p, c) \in Nat
           /\ \A d \in Nat : c <= d => Plans!Projected(p, d) <= Plans!Projected(p, c)
<1>1. ASSUME NEW d \in Nat
      PROVE  /\ Plans!Projected(p, d) = Level(p, Net(d), Horizon)
             /\ Net(d) * Horizon \in Int
  <2>1. Net(d) \in Int /\ Net(d) * Horizon \in Int
    BY NetIs, PlanNumbers
  <2>2. Plans!Projected(p, d) = Plans!Max({0, p + Net(d) * Horizon})
    BY DEF Plans!Projected, Net
  <2> QED BY <2>1, <2>2, PosIs DEF Level
<1>2. ASSUME NEW d \in Nat, c <= d PROVE Net(d) * Horizon <= Net(c) * Horizon
  BY <1>2, NetIs, Larger, PlanNumbers
<1> QED BY <1>1, <1>2 DEF Level, Pos

\* What helps goes on helping with more counters.
LEMMA MoreHelp ==
    ASSUME Rates, NEW p \in Nat, NEW limit \in Nat, NEW c \in Nat, NEW d \in Nat, c <= d,
           Plans!ClearsWithin(limit, p, c)
    PROVE  Plans!ClearsWithin(limit, p, d)
<1>1. Plans!Projected(p, d) <= Plans!Projected(p, c)
      /\ Plans!Projected(p, d) \in Nat /\ Plans!Projected(p, c) \in Nat
  BY ProjectedIs
<1>2. limit * (c * PerCounter) <= limit * (d * PerCounter)
  BY NetIs, Larger
<1>3. /\ limit * (c * PerCounter) = limit * c * PerCounter
      /\ limit * (d * PerCounter) = limit * d * PerCounter
      /\ limit * c * PerCounter \in Nat /\ limit * d * PerCounter \in Nat
  BY PlanNumbers
<1> QED BY <1>1, <1>2, <1>3 DEF Plans!ClearsWithin, Plans!HasWait

Least(p) == Plans!Min(Plans!Sufficient(p))

LEMMA LeastHelps ==
    ASSUME NEW p \in Nat, Plans!Feasible(p)
    PROVE  /\ Least(p) \in 0 .. Total /\ Plans!ClearsWithin(Target, p, Least(p))
           /\ \A c \in 0 .. Total : Plans!ClearsWithin(Target, p, c) => Least(p) <= c
<1>1. Plans!Sufficient(p) \in SUBSET Nat /\ Plans!Sufficient(p) # {}
  BY DEF Plans!Feasible, Plans!Sufficient
<1>2. Least(p) \in Plans!Sufficient(p) /\ \A c \in Plans!Sufficient(p) : Least(p) <= c
  BY <1>1, LeastOf DEF Least
<1> QED BY <1>2 DEF Plans!Sufficient

\* The plan, case by case.
LEMMA PlanIs ==
    ASSUME Rates, NEW p \in Nat
    PROVE  /\ ~Plans!Feasible(p) => /\ Plans!Plan(p).counters = Total
                                    /\ Plans!Plan(p).action \in {"open", "observe"}
           /\ Plans!Feasible(p) =>
                \/ /\ Least(p) > open
                   /\ Plans!Plan(p).counters = Least(p) /\ Plans!Plan(p).action = "open"
                \/ /\ Least(p) < open /\ Plans!ClearsWithin(CloseTarget, p, Least(p))
                   /\ Plans!Plan(p).counters = Least(p) /\ Plans!Plan(p).action = "close"
                \/ /\ Least(p) <= open
                   /\ Plans!Plan(p).counters = open /\ Plans!Plan(p).action = "observe"
<1>1. CASE ~Plans!Feasible(p)
  <2>1. Plans!Sufficient(p) = {}
    BY <1>1 DEF Plans!Feasible
  <2> QED BY <1>1, <2>1 DEF Plans!Plan, Plans!Best
<1>2. CASE Plans!Feasible(p)
  <2>1. Least(p) \in Int /\ open \in Int /\ Plans!Sufficient(p) # {}
    BY <1>2, LeastHelps DEF Rates, Plans!Feasible
  <2>2. CASE Least(p) > open
    BY <1>2, <2>1, <2>2 DEF Plans!Plan, Least
  <2>3. CASE Least(p) < open /\ Plans!MayClose(p, Least(p))
    BY <1>2, <2>1, <2>3 DEF Plans!Plan, Least, Plans!MayClose
  <2>4. CASE Least(p) <= open /\ ~(Least(p) < open /\ Plans!MayClose(p, Least(p)))
    <3>1. Plans!Plan(p) = [counters |-> open, action |-> "observe"]
      BY <2>1, <2>4 DEF Plans!Plan, Least
    <3> QED BY <1>2, <2>4, <3>1
  <2> QED BY <2>1, <2>2, <2>3, <2>4
<1> QED BY <1>1, <1>2

(* A change is the least that meets the target, and when nothing does the  *)
(* most that can be done is asked for.                                     *)
LEMMA PlanHelps ==
    ASSUME Rates, queue \in Nat PROVE Plans!PlanIsTheLeastThatHelps
<1>1. open \in 0 .. Total /\ Total \in Nat
  BY PlanNumbers DEF Rates
<1>2. ASSUME ~Plans!Feasible(queue), NEW c \in 0 .. Total
      PROVE  Plans!Projected(queue, Plans!Plan(queue).counters) <= Plans!Projected(queue, c)
  <2>1. Plans!Plan(queue).counters = Total
    BY <1>2, PlanIs
  <2> QED BY <1>1, <2>1, ProjectedIs
<1>3. ASSUME Plans!Feasible(queue)
      PROVE  /\ Plans!ClearsWithin(Target, queue, Plans!Plan(queue).counters)
             /\ Plans!Plan(queue).action # "observe" =>
                  \A c \in 0 .. Plans!Plan(queue).counters - 1 :
                      ~Plans!ClearsWithin(Target, queue, c)
  <2>1. /\ Least(queue) \in 0 .. Total /\ Plans!ClearsWithin(Target, queue, Least(queue))
        /\ \A c \in 0 .. Total : Plans!ClearsWithin(Target, queue, c) => Least(queue) <= c
    BY <1>3, LeastHelps
  <2>2. CASE Plans!Plan(queue).counters = Least(queue)
    <3>1. \A c \in 0 .. Least(queue) - 1 : c \in 0 .. Total /\ ~(Least(queue) <= c)
      BY <1>1, <2>1
    <3> QED BY <2>1, <2>2, <3>1
  <2>3. CASE /\ Least(queue) <= open
             /\ Plans!Plan(queue).counters = open /\ Plans!Plan(queue).action = "observe"
    <3>1. Plans!ClearsWithin(Target, queue, open)
      BY <1>1, <2>1, <2>3, MoreHelp, PlanNumbers
    <3> QED BY <2>3, <3>1
  <2> QED BY <1>3, <2>2, <2>3, PlanIs
<1> QED BY <1>2, <1>3 DEF Plans!PlanIsTheLeastThatHelps

-----------------------------------------------------------------------------
(* The time to pressure.                                                   *)
Limit == Plans!Threshold
Later(q, j) == Level(q, Net(open), j)

LEMMA LimitIs == ASSUME Rates PROVE Limit \in Nat
<1>1. open \in Nat /\ Target \in Nat /\ PerCounter \in Nat
  BY PlanNumbers DEF Rates
<1>2. Target * open \in Nat
  BY <1>1
<1> QED BY <1>1, <1>2 DEF Limit, Plans!Threshold

LEMMA ForecastIs ==
    ASSUME Rates, queue \in Nat, NEW h \in Nat
    PROVE  Plans!FlowForecast(h) = Later(queue, h) /\ Later(queue, h) \in Nat
<1>1. Net(open) \in Int
  BY NetIs, PlanNumbers DEF Rates
<1>2. queue + Net(open) * h \in Int
  BY <1>1
<1>3. Plans!FlowForecast(h) = Plans!Max({0, queue + Net(open) * h})
  BY DEF Plans!FlowForecast, Net
<1> QED BY <1>2, <1>3, PosIs DEF Later, Level, Pos

\* The interpolation between two horizons is above the limit.
Above(q, n, limit, from, to, m) ==
    (Level(q, n, to) - Level(q, n, from)) * (m - from)
        > (limit - Level(q, n, from)) * (to - from)

\* Between two horizons a queue that passes its target grows steadily.
LEMMA GrowsBetween ==
    ASSUME NEW q \in Nat, NEW n \in Int, NEW from \in Nat, NEW to \in Nat, from < to,
           NEW limit \in Nat, Level(q, n, from) <= limit, Level(q, n, to) > limit
    PROVE  /\ n > 0 /\ \A m \in Nat : Level(q, n, m) = q + n * m
           /\ \A m \in Nat :
                 from < m => (Above(q, n, limit, from, to, m) <=> Level(q, n, m) > limit)
<1>1. n > 0
  <2> SUFFICES ASSUME n <= 0 PROVE FALSE
    OBVIOUS
  <2>1. from * n >= to * n
    <3>1. 0 - n \in Nat /\ (0 - n) * from <= (0 - n) * to
      BY Larger
    <3> QED BY <3>1
  <2>2. n * from >= n * to /\ n * from \in Int /\ n * to \in Int
    BY <2>1
  <2> QED BY <2>2 DEF Level, Pos
<1>2. \A m \in Nat : n * m >= 0 /\ n * m \in Nat /\ Level(q, n, m) = q + n * m
  BY <1>1, Signs DEF Level, Pos
<1>3. ASSUME NEW m \in Nat, from < m
      PROVE  Above(q, n, limit, from, to, m) <=> Level(q, n, m) > limit
  <2> DEFINE d == to - from
             e == m - from
             g == limit - Level(q, n, from)
  <2>1. d \in Nat \ {0} /\ e \in Nat /\ g \in Int
    BY <1>2, <1>3
  <2>2. Level(q, n, to) - Level(q, n, from) = n * d
    BY <1>2, Distributes
  <2>3. Level(q, n, m) - Level(q, n, from) = n * e
    BY <1>2, Distributes
  <2>4. Level(q, n, m) > limit <=> n * e > g
    BY <1>2, <2>3
  <2>5. (n * d) * e = (n * e) * d
    BY <2>1
  <2> HIDE DEF d, e, g
  <2>6. (n * e) * d > g * d <=> n * e > g
    <3>1. n * e \in Int
      BY <2>1
    <3>2. ASSUME NEW x \in Int, x <= g PROVE x * d <= g * d
      BY <2>1, <3>2, Larger
    <3>3. ASSUME NEW x \in Int, x * d <= g * d PROVE x <= g
      BY <2>1, <3>3, Cancels
    <3>4. (n * e) * d \in Int /\ g * d \in Int
      BY <2>1, <3>1
    <3>5. CASE n * e > g
      <4>1. ~((n * e) * d <= g * d)
        BY <2>1, <3>1, <3>3, <3>5
      <4> QED BY <3>4, <3>5, <4>1
    <3>6. CASE n * e <= g
      <4>1. (n * e) * d <= g * d
        BY <3>1, <3>2, <3>6
      <4>2. ~((n * e) * d > g * d) /\ ~(n * e > g)
        BY <2>1, <3>1, <3>4, <3>6, <4>1
      <4> QED BY <4>2
    <3> QED BY <2>1, <3>1, <3>5, <3>6
  <2>7. (n * d) * e > g * d <=> Level(q, n, m) > limit
    BY <2>4, <2>5, <2>6
  <2> QED BY <2>2, <2>7 DEF d, e, g, Above
<1> QED BY <1>1, <1>2, <1>3

LEMMA CrossingIs ==
    ASSUME Rates, queue \in Nat, NEW from \in Nat, NEW to \in Nat, from < to,
           Later(queue, from) <= Limit, Later(queue, to) > Limit
    PROVE  LET r == Plans!Crossing(from, Plans!FlowForecast(from), to)
           IN  /\ r \in Nat /\ Later(queue, r) > Limit
               /\ \A j \in 0 .. r - 1 : Later(queue, j) <= Limit
<1> DEFINE v == Plans!FlowForecast(from)
           f == Plans!FlowForecast(to)
           Beyond(m) == (f - v) * (m - from) > (Limit - v) * (to - from)
           n == Net(open)
<1>1. v = Later(queue, from) /\ f = Later(queue, to) /\ n \in Int /\ Limit \in Nat
  BY ForecastIs, LimitIs, NetIs, PlanNumbers DEF Rates
<1>2. /\ n > 0
      /\ \A m \in Nat : Later(queue, m) = queue + n * m
      /\ \A m \in Nat : from < m => (Beyond(m) <=> Later(queue, m) > Limit)
  <2>1. Level(queue, n, from) <= Limit /\ Level(queue, n, to) > Limit
    BY DEF Later
  <2> HIDE DEF n
  <2>2. /\ n > 0
        /\ \A m \in Nat : Level(queue, n, m) = queue + n * m
        /\ \A m \in Nat : from < m =>
              (Above(queue, n, Limit, from, to, m) <=> Level(queue, n, m) > Limit)
    BY <1>1, <2>1, GrowsBetween
  <2>3. \A m \in Nat : Above(queue, n, Limit, from, to, m) <=> Beyond(m)
    BY <1>1 DEF Above, Later, n
  <2> HIDE DEF Beyond
  <2> QED BY <2>2, <2>3 DEF Later, n
<1> DEFINE S == {m \in from + 1 .. to : Beyond(m)}
<1> HIDE DEF Beyond
<1>3. S \in SUBSET Nat /\ to \in S
  BY <1>2
<1>4. PICK x \in S : \A y \in S : x <= y
  BY <1>3, LeastIs
<1>5. \E m \in from + 1 .. to : Beyond(m) /\ \A k \in from + 1 .. m - 1 : ~Beyond(k)
  <2>1. x \in from + 1 .. to /\ Beyond(x)
    BY <1>4
  <2>2. \A k \in from + 1 .. x - 1 : k \in from + 1 .. to /\ ~(x <= k)
    BY <2>1
  <2>3. \A k \in from + 1 .. x - 1 : ~Beyond(k)
    BY <1>4, <2>2
  <2> QED BY <2>1, <2>3
<1> DEFINE r == Plans!Crossing(from, v, to)
<1>6. r = CHOOSE m \in from + 1 .. to : Beyond(m) /\ \A k \in from + 1 .. m - 1 : ~Beyond(k)
  BY DEF Plans!Crossing, Beyond, Limit
<1> HIDE DEF r
<1>7. r \in from + 1 .. to /\ Beyond(r) /\ \A k \in from + 1 .. r - 1 : ~Beyond(k)
  BY <1>5, <1>6
<1>8. r \in Nat /\ from < r /\ Later(queue, r) > Limit
  BY <1>2, <1>7
<1>9. ASSUME NEW j \in 0 .. r - 1 PROVE Later(queue, j) <= Limit
  <2>1. CASE j > from
    <3>1. ~(Later(queue, j) > Limit)
      BY <1>2, <1>7, <1>8, <2>1
    <3>2. Later(queue, j) \in Nat
      BY ForecastIs, <1>8
    <3> QED BY <1>1, <3>1, <3>2
  <2>2. CASE j <= from
    <3>1. n * j <= n * from /\ n * j \in Int /\ n * from \in Int
      BY <1>1, <1>2, <1>8, <2>2, Larger
    <3>2. Later(queue, j) = queue + n * j /\ Later(queue, from) = queue + n * from
      BY <1>2, <1>8
    <3> QED BY <1>1, <3>1, <3>2
  <2> QED BY <1>8, <2>1, <2>2
<1> QED BY <1>8, <1>9 DEF r, v

\* Pressure is when the queue is first past its target.
LEMMA PressureIs ==
    ASSUME Rates, queue \in Nat, open > 0, Plans!Pressure # Never
    PROVE  /\ Plans!Pressure \in Nat /\ Later(queue, Plans!Pressure) > Limit
           /\ \A j \in 0 .. Plans!Pressure - 1 : Later(queue, j) <= Limit
<1> DEFINE past == {i \in DOMAIN Ahead : Plans!FlowForecast(Ahead[i]) > Limit}
           i == Plans!Min(past)
           from == IF i = 1 THEN 0 ELSE Ahead[i - 1]
           to == Ahead[i]
<1>0. /\ open \in Nat /\ open # 0 /\ Limit \in Nat
      /\ DOMAIN Ahead = 1 .. Len(Ahead) /\ Len(Ahead) \in Nat
      /\ \A j \in DOMAIN Ahead : Ahead[j] \in Nat \ {0}
  BY LimitIs, PlanNumbers DEF Rates
<1>1. CASE queue > Limit
  <2>1. Plans!Pressure = 0
    BY <1>0, <1>1 DEF Plans!Pressure, Limit
  <2>2. Net(open) \in Int
    BY NetIs, <1>0
  <2>3. Later(queue, 0) = queue
    BY <2>2 DEF Later, Level, Pos
  <2> QED BY <1>1, <2>1, <2>3
<1>2. CASE ~(queue > Limit)
  <2>1. past # {} /\ Plans!Pressure = Plans!Crossing(from, Plans!FlowForecast(from), to)
    BY <1>0, <1>2 DEF Plans!Pressure, Limit
  <2>2. past \in SUBSET Nat
    BY <1>0
  <2>3. i \in past /\ \A j \in past : i <= j
    BY <2>1, <2>2, LeastOf
  <2> HIDE DEF i
  <2>4. i \in DOMAIN Ahead /\ to \in Nat \ {0} /\ Later(queue, to) > Limit
    BY <1>0, <2>3, ForecastIs
  <2>5. from \in Nat /\ from < to /\ Later(queue, from) <= Limit
    <3>1. CASE i = 1
      <4>1. Net(open) \in Int
        BY NetIs, <1>0
      <4>2. Later(queue, 0) = queue
        BY <4>1 DEF Later, Level, Pos
      <4> QED BY <1>0, <1>2, <2>4, <3>1, <4>2
    <3>2. CASE i # 1
      <4>1. i - 1 \in DOMAIN Ahead /\ i - 1 < i /\ ~(i <= i - 1)
        BY <1>0, <2>4, <3>2
      <4>2. Ahead[i - 1] \in Nat /\ Ahead[i - 1] < Ahead[i] /\ i - 1 \notin past
        BY <1>0, <2>3, <2>4, <4>1, PlanNumbers
      <4>3. ~(Plans!FlowForecast(Ahead[i - 1]) > Limit)
        BY <4>1, <4>2
      <4>4. /\ Plans!FlowForecast(Ahead[i - 1]) = Later(queue, Ahead[i - 1])
            /\ Later(queue, Ahead[i - 1]) \in Nat
        BY <4>2, ForecastIs
      <4> QED BY <1>0, <3>2, <4>2, <4>3, <4>4
    <3> QED BY <3>1, <3>2
  <2> HIDE DEF from, to
  <2> QED BY <2>1, <2>4, <2>5, CrossingIs
<1> QED BY <1>1, <1>2

(***************************************************************************)
(* What is known of a plan carried out, of q people in the queue then; and *)
(* of a time foretold, of q people at minute m.                            *)
(***************************************************************************)
Drift == IF jitter THEN MaxJitter ELSE 0

Promised(q) ==
    /\ followed.at \in 0 .. minute /\ followed.counters = open
    /\ followed.action \in {"open", "close"}
    /\ followed.projected = Level(q, Net(open), Horizon)
    /\ LET k == minute - followed.at
       IN  queue - Level(q, Net(open), k) \in -(Drift * k) .. Drift * k
    /\ followed.action = "close" => Plans!ClearsWithin(CloseTarget, q, open)

Foretold(q, m) ==
    /\ foretold - m \in Nat /\ queue = Later(q, minute - m)
    /\ Later(q, foretold - m) > Limit
    /\ \A j \in 0 .. foretold - m - 1 : Later(q, j) <= Limit

PlansInv ==
    /\ Rates /\ queue \in Nat /\ jitter \in BOOLEAN /\ minute \in 0 .. MaxMinutes
    /\ followed = Plans!NotFollowed \/ \E q \in Nat : Promised(q)
    /\ foretold = Never \/ foretold \in Nat
    /\ foretold # Never /\ ~jitter /\ open > 0 =>
          \E q \in Nat, m \in 0 .. minute : Foretold(q, m)

LEMMA DriftIs ==
    ASSUME jitter \in BOOLEAN
    PROVE  /\ Drift \in Nat /\ (~jitter => Drift = 0)
           /\ \A k \in Nat : Drift * k \in Nat /\ Drift * (k + 1) = Drift * k + Drift
           /\ ~jitter => \A k \in Nat : Drift * k = 0
<1>1. Drift \in Nat /\ (~jitter => Drift = 0)
  BY PlanNumbers DEF Drift
<1> QED BY <1>1

LEMMA PlansStart == Plans!Init => PlansInv
<1> SUFFICES ASSUME Plans!Init PROVE PlansInv
  OBVIOUS
<1> QED BY PlanNumbers DEF Plans!Init, PlansInv, Rates

LEMMA PlansFollowed ==
    ASSUME PlansInv, Plans!Follow PROVE PlansInv'
<1> DEFINE plan == Plans!Plan(queue)
<1>1. /\ plan.action # "observe" /\ open' = plan.counters /\ foretold' = Never
      /\ followed' = [at |-> minute, counters |-> plan.counters, action |-> plan.action,
                      projected |-> Plans!Projected(queue, plan.counters)]
      /\ UNCHANGED <<queue, arrivals, abandonment, jitter, minute>>
  BY DEF Plans!Follow
<1>2. /\ plan.counters \in 0 .. Total /\ plan.action \in {"open", "close"}
      /\ plan.action = "close" => Plans!ClearsWithin(CloseTarget, queue, plan.counters)
  <2>1. CASE Plans!Feasible(queue)
    BY <1>1, <2>1, PlanIs, LeastHelps DEF PlansInv
  <2>2. CASE ~Plans!Feasible(queue)
    BY <1>1, <2>2, PlanIs, PlanNumbers DEF PlansInv
  <2> QED BY <2>1, <2>2
<1> HIDE DEF plan
<1>3. Rates'
  BY <1>1, <1>2 DEF PlansInv, Rates
<1>4. Net(open)' = Net(plan.counters) /\ Net(plan.counters) \in Int
  <2>1. Rates /\ plan.counters \in Nat
    BY <1>2, PlanNumbers DEF PlansInv
  <2>2. Net(open)' = Net(plan.counters)
    BY <1>1 DEF Net
  <2> QED BY <2>1, <2>2, NetIs
<1>5. followed'.projected = Level(queue, Net(open)', Horizon)
  <2>1. Rates /\ queue \in Nat /\ plan.counters \in Nat
    BY <1>2, PlanNumbers DEF PlansInv
  <2>2. Plans!Projected(queue, plan.counters) = Level(queue, Net(plan.counters), Horizon)
    BY <2>1, ProjectedIs
  <2>3. followed'.projected = Plans!Projected(queue, plan.counters)
    BY <1>1
  <2> QED BY <1>4, <2>2, <2>3
<1>6. Level(queue, Net(open)', 0) = queue
  BY <1>4 DEF Level, Pos, PlansInv
<1>7. Plans!ClearsWithin(CloseTarget, queue, plan.counters)
         => Plans!ClearsWithin(CloseTarget, queue, open)'
  BY <1>1 DEF Plans!ClearsWithin, Plans!HasWait, Plans!Projected
<1>8. Drift' \in Nat /\ Drift' * 0 = 0
  BY <1>1, DriftIs DEF PlansInv, Drift
<1>9. Promised(queue)'
  <2>1. /\ followed'.at = minute' /\ followed'.at \in 0 .. minute' /\ followed'.counters = open'
        /\ followed'.action = plan.action
    BY <1>1 DEF PlansInv
  <2>2. minute' - followed'.at = 0 /\ queue' = queue
    BY <1>1, <2>1 DEF PlansInv
  <2>3. queue' - Level(queue', Net(open)', 0) \in -(Drift' * 0) .. Drift' * 0
    BY <1>6, <1>8, <2>2 DEF PlansInv
  <2> QED BY <1>2, <1>5, <1>7, <2>1, <2>2, <2>3 DEF Promised
<1>10. queue' \in Nat /\ jitter' \in BOOLEAN /\ minute' \in 0 .. MaxMinutes
  BY <1>1 DEF PlansInv
<1> QED BY <1>1, <1>3, <1>9, <1>10 DEF PlansInv

LEMMA PlansForetold ==
    ASSUME PlansInv, Plans!Foretell PROVE PlansInv'
<1>1. /\ foretold = Never /\ Plans!Pressure # Never /\ foretold' = minute + Plans!Pressure
      /\ UNCHANGED <<queue, open, arrivals, abandonment, jitter, minute, followed>>
  BY DEF Plans!Foretell
<1>2. Rates /\ queue \in Nat /\ minute \in Nat
  BY DEF PlansInv, Rates
<1>3. /\ Rates' /\ Net(open)' = Net(open) /\ Limit' = Limit /\ Net(open) \in Int
      /\ \A q : Promised(q) => Promised(q)'
  <2>1. Rates' /\ Net(open)' = Net(open) /\ Limit' = Limit /\ Drift' = Drift
    BY <1>1 DEF PlansInv, Rates, Net, Limit, Plans!Threshold, Drift
  <2>2. \A q : Plans!ClearsWithin(CloseTarget, q, open)
                  => Plans!ClearsWithin(CloseTarget, q, open)'
    BY <1>1 DEF Plans!ClearsWithin, Plans!HasWait, Plans!Projected
  <2>3. Net(open) \in Int
    BY <1>2, NetIs, PlanNumbers DEF Rates
  <2> QED BY <1>1, <2>1, <2>2, <2>3 DEF Promised
<1>4. CASE open = 0
  <2>1. Plans!Pressure = 0
    BY <1>1, <1>4 DEF Plans!Pressure
  <2> QED BY <1>1, <1>2, <1>3, <1>4, <2>1 DEF PlansInv
<1>5. CASE open # 0
  <2>1. open > 0
    BY <1>2, <1>5, PlanNumbers DEF Rates
  <2>2. /\ Plans!Pressure \in Nat /\ Later(queue, Plans!Pressure) > Limit
        /\ \A j \in 0 .. Plans!Pressure - 1 : Later(queue, j) <= Limit
    BY <1>1, <1>2, <2>1, PressureIs
  <2>3. foretold' \in Nat /\ foretold' - minute = Plans!Pressure
    BY <1>1, <1>2, <2>2
  <2>4. Level(queue, Net(open), 0) = queue /\ minute' - minute = 0 /\ minute \in 0 .. minute
    BY <1>1, <1>2, <1>3 DEF Level, Pos
  <2>5. Foretold(queue, minute)'
    <3>1. \A j : Later(queue, j)' = Later(queue, j)
      BY <1>1, <1>3 DEF Later
    <3> QED BY <1>1, <1>3, <2>2, <2>3, <2>4, <3>1 DEF Foretold, Later
  <2> QED BY <1>1, <1>2, <1>3, <2>3, <2>4, <2>5 DEF PlansInv
<1> QED BY <1>4, <1>5

\* Nobody can be served who is not in the queue.
LEMMA BalanceIs ==
    ASSUME queue \in Nat, NEW came \in Nat, NEW served \in Nat
    PROVE  Plans!Balance(came, served) = Pos(queue + came - served)
<1> DEFINE l == IF queue + came <= served THEN queue + came ELSE served
<1>1. Plans!Min({queue + came, served}) = l
  BY LesserOf
<1>2. queue + came - l \in Int
  OBVIOUS
<1>3. Plans!Balance(came, served) = Plans!Max({0, queue + came - l})
  BY <1>1 DEF Plans!Balance
<1> HIDE DEF l
<1>4. Plans!Balance(came, served) = Pos(queue + came - l)
  BY <1>2, <1>3, PosIs
<1> QED BY <1>4 DEF l, Pos

LEMMA PlansMinute ==
    ASSUME PlansInv, Plans!Minute PROVE PlansInv'
<1>1. /\ minute < MaxMinutes /\ minute' = minute + 1
      /\ UNCHANGED <<open, arrivals, abandonment, jitter, followed, foretold>>
  BY DEF Plans!Minute
<1>2. /\ Rates /\ queue \in Nat /\ jitter \in BOOLEAN /\ minute \in 0 .. MaxMinutes
      /\ arrivals \in Nat /\ abandonment \in Nat /\ open \in Nat
  BY PlanNumbers DEF PlansInv, Rates
<1>3. Drift \in Nat
  BY <1>2, DriftIs
<1> DEFINE served == open * PerCounter + abandonment
           n == Net(open)
<1>4. served \in Nat /\ n \in Int /\ n = arrivals - served
  BY <1>2, NetIs DEF Net
<1>5. \E came \in Nat : came - arrivals \in -Drift .. Drift /\ queue' = Pos(queue + came - served)
  <2>1. PICK noise \in IF jitter THEN -MaxJitter .. MaxJitter ELSE {0} :
            queue' = Plans!Balance(Plans!Max({0, arrivals + noise}), served)
    BY DEF Plans!Minute
  <2>2. noise \in -Drift .. Drift /\ noise \in Int
    BY <1>3, PlanNumbers DEF Drift
  <2>3. Plans!Max({0, arrivals + noise}) = Pos(arrivals + noise)
    BY <1>2, <2>2, PosIs
  <2>4. Pos(arrivals + noise) \in Nat /\ Pos(arrivals + noise) - arrivals \in -Drift .. Drift
    BY <1>2, <1>3, <2>2 DEF Pos
  <2> HIDE DEF served
  <2>5. queue' = Pos(queue + Pos(arrivals + noise) - served)
    BY <1>2, <1>4, <2>1, <2>3, <2>4, BalanceIs
  <2> QED BY <2>4, <2>5
<1>6. PICK came \in Nat :
          came - arrivals \in -Drift .. Drift /\ queue' = Pos(queue + came - served)
  BY <1>5
<1>7. /\ Rates' /\ Net(open)' = n /\ Limit' = Limit /\ Drift' = Drift
      /\ minute' \in 0 .. MaxMinutes
  BY <1>1, <1>2, PlanNumbers DEF Rates, Net, Limit, Plans!Threshold, Drift
<1> HIDE DEF served, n
<1>8. queue' \in Nat
  BY <1>2, <1>4, <1>6 DEF Pos
<1>9. ASSUME NEW q \in Nat, Promised(q) PROVE Promised(q)'
  <2> DEFINE k == minute - followed.at
             d == Drift * k
  <2>1. k \in Nat /\ minute' - followed'.at = k + 1 /\ followed'.at \in 0 .. minute'
    BY <1>1, <1>2, <1>9 DEF Promised
  <2>2. d \in Nat /\ Drift * (k + 1) = d + Drift
    BY <1>2, <2>1, DriftIs
  <2>3. queue - Level(q, n, k) \in -d .. d
    BY <1>9 DEF Promised, n
  <2> HIDE DEF k, d
  <2>4. queue' - Level(q, n, k + 1) \in -(d + Drift) .. d + Drift
    <3>1. served \in Int /\ arrivals \in Int /\ came \in Int /\ n \in Int
      BY <1>2, <1>4
    <3>2. Pos(queue + came - served) - Level(q, n, k + 1) \in -(d + Drift) .. d + Drift
      BY <1>2, <1>3, <1>4, <1>6, <2>1, <2>2, <2>3, <3>1, LevelDrifts
    <3> QED BY <1>6, <3>2
  <2>5. queue' - Level(q, Net(open)', minute' - followed'.at)
            \in -(Drift' * (minute' - followed'.at)) .. Drift' * (minute' - followed'.at)
    BY <1>7, <2>1, <2>2, <2>4
  <2>6. Plans!ClearsWithin(CloseTarget, q, open)' = Plans!ClearsWithin(CloseTarget, q, open)
    BY <1>1 DEF Plans!ClearsWithin, Plans!HasWait, Plans!Projected
  <2>7. followed' = followed /\ open' = open
    BY <1>1
  <2>8. followed'.projected = Level(q, Net(open)', Horizon)
    BY <1>7, <1>9, <2>7 DEF Promised, n
  <2> QED BY <1>9, <2>1, <2>5, <2>6, <2>7, <2>8 DEF Promised
<1>10. ASSUME ~jitter, NEW q \in Nat, NEW m \in 0 .. minute, Foretold(q, m)
       PROVE  Foretold(q, m)'
  <2>1. Drift = 0 /\ came = arrivals
    <3>1. Drift = 0
      BY <1>10, DriftIs, <1>2
    <3> QED BY <1>2, <1>6, <3>1
  <2>2. queue' = Pos(queue + n) /\ queue = Level(q, n, minute - m) /\ minute - m \in Nat
    BY <1>2, <1>4, <1>6, <1>10, <2>1 DEF Foretold, Later, n
  <2>3. queue' = Level(q, n, minute - m + 1) /\ minute - m + 1 = minute' - m
    <3>1. Pos(Level(q, n, minute - m) + n) = Level(q, n, (minute - m) + 1)
      BY <1>4, <2>2, LevelStep
    <3> QED BY <1>1, <1>2, <2>2, <3>1
  <2>4. \A j : Later(q, j)' = Later(q, j)
    BY <1>7 DEF Later, n
  <2>5. queue' = Level(q, Net(open)', minute' - m)
    BY <1>7, <2>3
  <2>6. foretold' = foretold
    BY <1>1
  <2> QED BY <1>7, <1>10, <2>4, <2>5, <2>6 DEF Foretold, Later
<1>11. followed' = Plans!NotFollowed \/ \E q \in Nat : Promised(q)'
  BY <1>1, <1>9 DEF PlansInv
<1>12. ASSUME foretold' # Never, ~jitter', open' > 0
       PROVE  \E q \in Nat, m \in 0 .. minute' : Foretold(q, m)'
  <2>1. PICK q \in Nat, m \in 0 .. minute : Foretold(q, m)
    BY <1>1, <1>12 DEF PlansInv
  <2>2. Foretold(q, m)' /\ m \in 0 .. minute'
    BY <1>1, <1>2, <1>10, <1>12, <2>1
  <2> QED BY <2>2
<1> QED BY <1>1, <1>2, <1>7, <1>8, <1>11, <1>12 DEF PlansInv

LEMMA PlansKeep == PlansInv /\ [Plans!Next]_(Plans!staffingVars) => PlansInv'
<1> SUFFICES ASSUME PlansInv, [Plans!Next]_(Plans!staffingVars) PROVE PlansInv'
  OBVIOUS
<1>1. CASE UNCHANGED Plans!staffingVars
  <2>1. UNCHANGED <<queue, open, arrivals, abandonment, jitter, minute, followed, foretold>>
    BY <1>1 DEF Plans!staffingVars
  <2> QED BY <2>1 DEF PlansInv, Rates, Promised, Foretold, Later, Net, Drift, Limit,
       Plans!Threshold, Plans!ClearsWithin, Plans!HasWait, Plans!Projected
<1> QED BY <1>1, PlansFollowed, PlansForetold, PlansMinute DEF Plans!Next

-----------------------------------------------------------------------------
(* What the invariant says.                                                *)
LEMMA PromisesKept == PlansInv => Plans!PromiseIsKept
<1> SUFFICES ASSUME PlansInv, followed.at # Never, minute = followed.at + Horizon
             PROVE  LET spread == IF jitter THEN MaxJitter * Horizon ELSE 0
                    IN  queue - followed.projected \in -spread .. spread
  BY DEF Plans!PromiseIsKept
<1>1. PICK q \in Nat : Promised(q)
  BY DEF PlansInv, Plans!NotFollowed
<1>2. minute - followed.at = Horizon
  BY <1>1, PlanNumbers DEF Promised
<1>3. queue - followed.projected \in -(Drift * Horizon) .. Drift * Horizon
  BY <1>1, <1>2 DEF Promised
<1>4. Drift * Horizon = IF jitter THEN MaxJitter * Horizon ELSE 0
  BY PlanNumbers DEF Drift, PlansInv
<1> QED BY <1>3, <1>4

LEMMA ClosesLast == PlansInv => Plans!CloseIsNotReversed
<1> SUFFICES ASSUME PlansInv, ~jitter, followed.action = "close",
                    minute < followed.at + Plans!Steady
             PROVE  Plans!Plan(queue).action # "open"
  BY DEF Plans!CloseIsNotReversed
<1>1. PICK q \in Nat : Promised(q)
  BY DEF PlansInv, Plans!NotFollowed
<1> DEFINE k == minute - followed.at
           n == Net(open)
           w == open * PerCounter
<1>2. /\ Rates /\ queue \in Nat /\ open \in Nat /\ w \in Nat /\ n \in Int
      /\ followed.at \in Nat /\ minute \in Nat /\ k \in Nat
  <2>1. Rates /\ queue \in Nat /\ open \in Nat /\ minute \in Nat /\ followed.at \in 0 .. minute
    BY <1>1, PlanNumbers DEF PlansInv, Rates, Promised
  <2> QED BY <2>1, NetIs
<1>3. Plans!Steady \in Int /\ k < Plans!Steady
  <2>1. Plans!Steady \in Int
    BY PlanNumbers DEF Plans!Steady
  <2> QED BY <1>2, <2>1
<1>4. queue = Level(q, n, k)
  <2>1. queue - Level(q, n, k) \in -(Drift * k) .. Drift * k /\ Drift * k = 0
    BY <1>1, <1>2, DriftIs DEF Promised, PlansInv
  <2>2. Level(q, n, k) \in Nat
    BY <1>2, LevelStep
  <2> HIDE DEF k, n
  <2> QED BY <1>2, <2>1, <2>2
<1>5. open > 0 /\ Level(q, n, Horizon) <= CloseTarget * w
  <2>1. open > 0 /\ Plans!Projected(q, open) <= CloseTarget * open * PerCounter
    BY <1>1 DEF Promised, Plans!ClearsWithin, Plans!HasWait
  <2>2. CloseTarget * open * PerCounter = CloseTarget * w
    BY <1>2, PlanNumbers
  <2> QED BY <1>2, <2>1, <2>2, ProjectedIs
<1>6. k < ((Target - CloseTarget) * Horizon) \div CloseTarget
  BY <1>3 DEF Plans!Steady
<1>7. Level(queue, n, Horizon) <= Target * w
  <2> HIDE DEF k, n, w
  <2>1. /\ CloseTarget \in Nat \ {0} /\ CloseTarget <= Target /\ Target \in Nat
        /\ Horizon \in Nat
    BY PlanNumbers
  <2> QED BY <1>2, <1>4, <1>5, <1>6, <2>1, MarginLasts
<1>8. Plans!ClearsWithin(Target, queue, open)
  <2>1. Plans!Projected(queue, open) = Level(queue, n, Horizon)
    BY <1>2, ProjectedIs
  <2>2. Target * open * PerCounter = Target * w
    BY <1>2, PlanNumbers
  <2> QED BY <1>5, <1>7, <2>1, <2>2 DEF Plans!ClearsWithin, Plans!HasWait
<1>9. open \in 0 .. Total /\ Plans!Feasible(queue)
  BY <1>2, <1>8 DEF Rates, Plans!Feasible, Plans!Sufficient
<1>10. Least(queue) <= open /\ Least(queue) \in Int
  BY <1>2, <1>8, <1>9, LeastHelps
<1> QED BY <1>2, <1>9, <1>10, PlanIs

LEMMA PressureForetold == PlansInv => Plans!PressureComesWhenForetold
<1> SUFFICES ASSUME PlansInv, ~jitter, foretold # Never, open > 0, ~(minute > foretold)
             PROVE  (minute >= foretold) = (queue > Limit)
  BY DEF Plans!PressureComesWhenForetold, Limit
<1>1. PICK q \in Nat, m \in 0 .. minute : Foretold(q, m)
  BY DEF PlansInv
<1>2. minute \in Nat /\ foretold \in Nat /\ queue \in Nat /\ Limit \in Nat
  BY LimitIs DEF PlansInv
<1>3. CASE minute = foretold
  BY <1>1, <1>2, <1>3 DEF Foretold
<1>4. CASE minute # foretold
  <2>1. minute < foretold /\ minute - m \in 0 .. foretold - m - 1
    BY <1>1, <1>2, <1>4
  <2>2. queue <= Limit
    BY <1>1, <2>1 DEF Foretold
  <2> QED BY <1>2, <2>1, <2>2
<1> QED BY <1>3, <1>4

(* Plans hold, whatever the queue, its rates and what the counters do in a *)
(* minute: a plan is the least that helps (ResourceAllocator._choose), the *)
(* queue is a horizon later what _evaluate projected as far as the rates   *)
(* were kept, a counter closed with a margin is not asked for again before *)
(* the margin is used up, and the queue passes its target when             *)
(* time_to_pressure said, and not before.                                  *)
THEOREM PlansAreKept == Plans!Spec => []PlansHold
<1>1. PlansInv => Plans!PlansHold
  <2> SUFFICES ASSUME PlansInv PROVE Plans!PlansHold
    OBVIOUS
  <2>1. Plans!TypeOK
    <3>1. followed.counters \in 0 .. Total
      BY PlanNumbers DEF PlansInv, Plans!NotFollowed, Promised, Rates
    <3> QED BY <3>1 DEF PlansInv, Rates, Plans!TypeOK
  <2>2. Plans!PlanIsTheLeastThatHelps
    BY PlanHelps DEF PlansInv
  <2> QED BY <2>1, <2>2, PromisesKept, ClosesLast, PressureForetold DEF Plans!PlansHold
<1>2. Plans!Spec => []PlansInv
  BY PlansStart, PlansKeep, PTL DEF Plans!Spec
<1> QED BY <1>1, <1>2, PTL DEF PlansHold

(* So do they throughout, whatever the subject of a behaviour.             *)
THEOREM PlansKeptThroughout == MCSpec => []PlansHold
<1>1. MCInit => Plans!Init
  BY DEF MCInit
<1>2. [MCNext]_<<subject, vars, reportVars, planVars>> => [Plans!Next]_(Plans!staffingVars)
  BY DEF MCNext, planVars, Plans!staffingVars
<1>3. MCSpec => Plans!Spec
  BY <1>1, <1>2, PTL DEF MCSpec, Plans!Spec
<1> QED BY <1>3, PlansAreKept, PTL
=============================================================================
