-------------------------- MODULE MCOperatorWorkflow --------------------------
(***************************************************************************)
(* What an operator works by, for TLC: OperatorWorkflow, with every status *)
(* and small window counts; DecisionReports, with three kinds of window    *)
(* and the guidance CrowdGuidance has for them; and StaffingPlan, with     *)
(* three counters.  In each behaviour one of them, the subject, moves.     *)
(***************************************************************************)
EXTENDS OperatorWorkflow

CONSTANTS
    Scenes, Said, Interval, Filling,
    Total, Arrivals, Abandonments, PerCounter, MaxQueue, Horizon, Target, CloseTarget, Ahead,
    MaxJitter, MaxMinutes, Never

VARIABLES
    subject,
    filled, idle, latest, age, priority, asked, agreed, panel, missed, assessed, recent, lost,
    queue, open, arrivals, abandonment, jitter, minute, followed, foretold

Guide == INSTANCE CrowdGuidance
Reports == INSTANCE DecisionReports WITH candidate <- asked, run <- agreed, cut <- missed
Plans == INSTANCE StaffingPlan WITH active <- open

reportVars == <<filled, idle, latest, age, priority, asked, agreed, panel, missed, assessed,
                recent, lost>>

planVars == <<queue, open, arrivals, abandonment, jitter, minute, followed, foretold>>

ASSUME ReportsAssumption == Reports!ConstantsAssumption
ASSUME PlansAssumption == Plans!ConstantsAssumption

MCInit ==
    /\ subject \in {"workflow", "reports", "plans"}
    /\ Init /\ Reports!Init /\ Plans!Init
    /\ subject # "workflow" => crowd = STABLE
    /\ subject # "plans" =>
            /\ queue = 0 /\ open = 0 /\ ~jitter
            /\ arrivals = (CHOOSE r \in Arrivals : TRUE)
            /\ abandonment = (CHOOSE r \in Abandonments : TRUE)

MCNext ==
    /\ UNCHANGED subject
    /\ \/ subject = "workflow" /\ Next /\ UNCHANGED <<reportVars, planVars>>
       \/ subject = "reports" /\ Reports!Next /\ UNCHANGED <<vars, planVars>>
       \/ /\ subject = "plans" /\ (Plans!Next \/ UNCHANGED planVars)
          /\ UNCHANGED <<vars, reportVars>>

MCSpec ==
    /\ MCInit /\ [][MCNext]_<<subject, vars, reportVars, planVars>>
    /\ WF_vars(subject = "workflow" /\ Window(FALSE))

-----------------------------------------------------------------------------
\* status, peak, speed, exits, opposing, rate, quality
Unknown == Guide!None
Scene(s, p, v, e, o, r, q) == [status |-> s, peak |-> p, speed |-> v, exits |-> e,
                               opposing |-> o, rate |-> r, quality |-> q]
MCScenes == {
    Scene(STABLE, 12, 100, <<>>, Unknown, 0, 100),                  \* a quiet view
    Scene(STABLE, 34, 50, <<45, 20>>, 10, 38, 100),                 \* a full exit, filling fast
    Scene(Guide!CRITICAL, 60, 0, <<Unknown, 100>>, 50, 60, 40)}     \* badly seen

\* A definition of its own, so that TLC evaluates it once.
Sayings == [w \in MCScenes |-> [c \in 0..100 |-> Guide!Says(w, c)]]
MCSaid == Sayings

MCViews == {Scene(s, p, v, e, o, r, 100) :
    s \in Statuses, p \in {10, 31, 60}, v \in {Unknown, 20},
    e \in {<<>>, <<45>>, <<10, 80>>}, o \in {Unknown, 50}, r \in {Unknown, -40, 20}}

\* On both sides of the confidences below which a bare crossing is unsaid.
MCCertainties == {20, 28, 29, 35, 36}

\* Minutes ahead.
MCAhead == <<2, 4, 6>>

\* Each survey is a constant: it says nothing of the state it is checked in
\* but that a window has been assessed.
NominalSurvey == \A w \in MCViews, c \in MCCertainties : Guide!NominalWhenSure(w, c)
AdvisesSurvey == \A w \in MCViews, c \in MCCertainties : Guide!AdvisesWhenSure(w, c)
ConsistentSurvey == \A w \in MCViews, c \in MCCertainties : Guide!NotContradictory(w, c)

PanelAgrees == Reports!PanelAgrees
ReportsAreEarned == Reports!ReportsAreEarned
PlansHold == Plans!PlansHold

(* The guidance for every view is neither empty, nor reassuring, nor       *)
(* contradictory where the confidence is enough to say more; and what the  *)
(* reports are made of is of its type.                                     *)
GuidanceStands ==
    /\ Reports!TypeOK
    /\ assessed # Reports!NoWindow => NominalSurvey /\ AdvisesSurvey /\ ConsistentSurvey
=============================================================================
