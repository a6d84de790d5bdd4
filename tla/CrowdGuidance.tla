--------------------------- MODULE CrowdGuidance ---------------------------
(***************************************************************************)
(* What one analysis window of a camera says, and what it advises: the     *)
(* five instability indicators and their weights (stability/), the         *)
(* observations made of them (evidence/) and the rules that propose,       *)
(* supersede, validate and rank actions (intelligence/).  A window is      *)
(*   [status, peak, speed, exits, opposing, rate, quality]                 *)
(* with the held status 0..4, the peak density in tenths of a person per   *)
(* cell, the median speed in percent of its baseline, per configured exit  *)
(* the occupancy in percent of its capacity, the opposing movement in      *)
(* percent, the rate of change in thousandths of a person per cell and     *)
(* second, and the quality of detection and tracking in percent; None is   *)
(* a measurement that could not be taken.  Pressures and confidences are   *)
(* in percent.                                                             *)
(***************************************************************************)
EXTENDS Integers, FiniteSetsExt, SequencesExt

None == -1
STABLE == 0
OBSERVE == 1
ATTENTION_REQUIRED == 2
HIGH_ALERT == 3
CRITICAL == 4
Statuses == STABLE..CRITICAL

\* Listed in the order of the specification, which breaks ties.
Place == [density |-> 1, motion |-> 2, egress |-> 3, flow |-> 4, rate |-> 5]
Weight == [density |-> 35, motion |-> 20, egress |-> 20, flow |-> 15, rate |-> 10]

Clamped(n) == IF n < 0 THEN 0 ELSE IF n > 100 THEN 100 ELSE n

-----------------------------------------------------------------------------
(* Indicators *)

\* The curve for an uncalibrated camera.
Knots == <<<<10, 0>>, <<30, 50>>, <<45, 80>>, <<60, 100>>>>

PressureFor(x) ==
    IF x <= Knots[1][1] THEN 0
    ELSE IF x >= Knots[Len(Knots)][1] THEN 100
    ELSE LET k == CHOOSE i \in 1..Len(Knots) - 1 : Knots[i][1] <= x /\ x < Knots[i + 1][1]
             a == Knots[k]
             b == Knots[k + 1]
         IN  a[2] + ((b[2] - a[2]) * (x - a[1])) \div (b[1] - a[1])

KnownExits(w) == {e \in DOMAIN w.exits : w.exits[e] # None}

Measured(w) ==
    {"density"} \cup (IF w.speed # None THEN {"motion"} ELSE {})
                \cup (IF KnownExits(w) # {} THEN {"egress"} ELSE {})
                \cup (IF w.opposing # None THEN {"flow"} ELSE {})
                \cup (IF w.rate # None THEN {"rate"} ELSE {})

\* Opposing movement counts for less in an empty view.
FlowPressure(w) == (Clamped(2 * w.opposing) * (40 + (60 * PressureFor(w.peak)) \div 100)) \div 100

Pressure(w) ==
    [i \in Measured(w) |->
        CASE i = "density" -> PressureFor(w.peak)
          [] i = "motion" -> Clamped(100 - w.speed)
          [] i = "egress" -> Clamped(Max({w.exits[e] : e \in KnownExits(w)}))
          [] i = "flow" -> FlowPressure(w)
          [] i = "rate" -> Clamped(2 * w.rate)]

\* A reading is the window with its pressures taken.
Reading(w) == [status |-> w.status, peak |-> w.peak, rate |-> w.rate, exits |-> w.exits,
               pressure |-> Pressure(w)]

\* An indicator's points, up to the weight all measured ones share.
Contribution(r, i) == IF i \in DOMAIN r.pressure THEN Weight[i] * r.pressure[i] ELSE 0

\* Measured indicators that account for instability, and the one that
\* accounts for most of it.
Drivers(r) == {i \in DOMAIN r.pressure : Contribution(r, i) > 0}

TopDriver(r) ==
    CHOOSE i \in Drivers(r) : \A j \in Drivers(r) :
        \/ Contribution(r, i) > Contribution(r, j)
        \/ Contribution(r, i) = Contribution(r, j) /\ Place[i] <= Place[j]

-----------------------------------------------------------------------------
(* Evidence *)

EgressReported == 40
Critical == 75
MinEvidenceConfidence == 25
\* The share of a confidence that is left at the threshold itself.
Floor == 70

\* c percent, reduced by how narrowly p cleared t; in hundredths of a percent.
Scaled(c, p, t) == IF t >= 100 THEN c * 100
                   ELSE c * (Floor + ((100 - Floor) * Clamped(((p - t) * 100) \div (100 - t))) \div 100)

WorstExit(r) == CHOOSE e \in KnownExits(r) : \A f \in KnownExits(r) :
                    r.exits[e] > r.exits[f] \/ (r.exits[e] = r.exits[f] /\ e <= f)

Item(type, p, t) == [type |-> type, pressure |-> p, threshold |-> t, zone |-> None]

Above(r, i, t) == i \in DOMAIN r.pressure /\ r.pressure[i] >= t

\* Each observer: the item it reports of a window, if any.
observe_congestion(r) ==
    IF Above(r, "density", 50) THEN {Item("CONGESTION_FORMING", r.pressure["density"], 50)} ELSE {}

\* A rate is relative to the density it changes, and noise in an empty view.
observe_occupancy_trend(r) ==
    IF r.rate = None \/ r.peak < 15 THEN {}
    ELSE IF r.rate >= r.peak THEN {Item("OCCUPANCY_INCREASING", r.pressure["rate"], 0)}
    ELSE IF -r.rate >= r.peak THEN {Item("CROWD_DISPERSING", 0, 0)} ELSE {}

observe_movement_slowing(r) ==
    IF Above(r, "motion", 25) THEN {Item("MOVEMENT_SLOWING", r.pressure["motion"], 25)} ELSE {}

observe_stationary_cluster(r) ==
    IF Above(r, "motion", 70) /\ Above(r, "density", 50)
    THEN {Item("STATIONARY_CLUSTER", Max({r.pressure["motion"], r.pressure["density"]}), 70)} ELSE {}

observe_flow_conflict(r) ==
    IF Above(r, "flow", 30) THEN {Item("FLOW_CONFLICT", r.pressure["flow"], 30)} ELSE {}

observe_egress_congestion(r) ==
    IF Above(r, "egress", EgressReported)
    THEN {[Item("EGRESS_CONGESTION", r.pressure["egress"], EgressReported) EXCEPT !.zone = WorstExit(r)]}
    ELSE {}

conditions_nominal == Item("CONDITIONS_NOMINAL", 0, 0)

Observed(r) == observe_congestion(r) \cup observe_occupancy_trend(r) \cup observe_movement_slowing(r)
               \cup observe_stationary_cluster(r) \cup observe_flow_conflict(r)
               \cup observe_egress_congestion(r)

DropSuperseded(items) ==
    IF \E i \in items : i.type = "STATIONARY_CLUSTER"
    THEN {i \in items : i.type # "MOVEMENT_SLOWING"} ELSE items

Confident(items, c) ==
    {i \in items : Scaled(c, i.pressure, i.threshold) >= 100 * MinEvidenceConfidence}

\* observe: at confidence c.  At most five observations can be left, so
\* max_items never cuts one.
Evidence(w, c) ==
    LET left == Confident(DropSuperseded(Observed(Reading(w))), c)
    IN  IF left = {} THEN {conditions_nominal} ELSE left

Types(items) == {i.type : i \in items}

-----------------------------------------------------------------------------
(* Rules *)

LOW == 0
URGENT == 3
PriorityByStatus == [s \in Statuses |-> IF s <= OBSERVE THEN LOW ELSE s - 1]

OperationalPriority(r, items) ==
    LET base == PriorityByStatus[r.status]
    IN  IF \E i \in items : i.pressure >= Critical THEN Min({base + 1, URGENT}) ELSE base

\* The escalation rank of what each rule recommends.
Escalation == [emergency |-> 10, escalate |-> 9, broadcast |-> 8, redirect |-> 7, open_exit_zone |-> 6,
               open_exit_general |-> 6, deploy |-> 4, monitor |-> 1, observe |-> 0]
RuleIds == DOMAIN Escalation

DensityTrigger == 50
Trigger == 40
HasExit(r) == r.exits # <<>>

\* How far p is past its trigger, and how serious the status is, in percent.
Strength(p, t) == Clamped(((p - t) * 100) \div (100 - t))
StrengthFromStatus(r) == 25 * r.status

UrgencyFor(r) == PriorityByStatus[r.status]

\* What a rule proposes: the measurements it cites, the place it names, how
\* firmly it was satisfied, and the rules it makes redundant.
Proposal(rule, cites, urgency, strength, supersedes) ==
    [rule |-> rule, cites |-> cites, zone |-> None, urgency |-> urgency,
     strength |-> strength, supersedes |-> supersedes]

rule_emergency_response(r) ==
    IF r.status >= CRITICAL /\ Drivers(r) # {}
    THEN {Proposal("emergency", Drivers(r), URGENT, 100, {"monitor", "observe"})} ELSE {}

rule_escalate_to_control_room(r) ==
    IF r.status >= HIGH_ALERT /\ Drivers(r) # {}
    THEN {Proposal("escalate", Drivers(r), UrgencyFor(r), StrengthFromStatus(r), {"monitor", "observe"})}
    ELSE {}

\* The only rule that names a place: the first exit that is configured.
rule_open_exit_zone(r) ==
    IF Above(r, "egress", Trigger) /\ HasExit(r)
    THEN {[Proposal("open_exit_zone", {"egress"}, UrgencyFor(r), Strength(r.pressure["egress"], Trigger),
                    {"open_exit_general", "observe"}) EXCEPT !.zone = 1]}
    ELSE {}

rule_open_exit_general(r) ==
    IF r.status >= HIGH_ALERT /\ ~HasExit(r) /\ Above(r, "density", DensityTrigger)
    THEN {Proposal("open_exit_general", {"density"}, UrgencyFor(r),
                   Strength(r.pressure["density"], DensityTrigger), {"observe"})}
    ELSE {}

rule_deploy_personnel(r) ==
    IF Above(r, "density", DensityTrigger) /\ r.status # STABLE
    THEN {Proposal("deploy", {"density"} \cup {i \in {"motion"} : Above(r, i, Trigger)}, UrgencyFor(r),
                   Strength(r.pressure["density"], DensityTrigger), {"observe"})}
    ELSE {}

rule_redirect_crowd(r) ==
    IF Above(r, "flow", Trigger)
    THEN {Proposal("redirect", {"flow"}, UrgencyFor(r), Strength(r.pressure["flow"], Trigger), {"observe"})}
    ELSE {}

rule_broadcast_guidance(r) ==
    IF Above(r, "motion", Trigger) /\ Above(r, "density", DensityTrigger)
    THEN {Proposal("broadcast", {"motion", "density"}, UrgencyFor(r),
                   Strength(r.pressure["motion"], Trigger), {"observe"})}
    ELSE {}

\* Fires on a rate before anything is crossed, or on any status that is not calm.
rule_increase_monitoring(r) ==
    LET rising == Above(r, "rate", Trigger)
        watchful == r.status >= OBSERVE /\ Drivers(r) # {}
    IN  IF rising \/ watchful
        THEN {Proposal("monitor",
                       {i \in {"rate"} : rising} \cup (IF watchful THEN {TopDriver(r)} ELSE {}), UrgencyFor(r),
                       IF rising THEN Strength(r.pressure["rate"], Trigger) ELSE StrengthFromStatus(r),
                       {"observe"})}
        ELSE {}

\* Unconditional, as the density always is a measurement.
rule_observe(r) ==
    {Proposal("observe", IF Drivers(r) # {} THEN Drivers(r) ELSE {"density"}, LOW, 100, {})}

Proposed(r) ==
    rule_emergency_response(r) \cup rule_escalate_to_control_room(r) \cup rule_open_exit_zone(r)
    \cup rule_open_exit_general(r) \cup rule_deploy_personnel(r) \cup rule_redirect_crowd(r)
    \cup rule_broadcast_guidance(r) \cup rule_increase_monitoring(r) \cup rule_observe(r)

-----------------------------------------------------------------------------
(* From proposals to guidance *)

MinActionConfidence == 20
MaxActions == 4

\* Superseded by any proposal, one that is superseded or rejected included.
ResolveConflicts(proposals) ==
    {p \in proposals : p.rule \notin UNION {q.supersedes : q \in proposals}}

\* In hundredths of a percent.
ConfidenceFor(c, p) == c * (Floor + ((100 - Floor) * p.strength) \div 100)

Valid(r, c, p) ==
    /\ p.cites # {} /\ p.cites \subseteq DOMAIN r.pressure
    /\ p.zone \in {None} \cup DOMAIN r.exits
    /\ ConfidenceFor(c, p) >= 100 * MinActionConfidence

\* Mutant: an action addresses the least of what it cites.
AddressedLeast(r, p) == Min({Contribution(r, i) : i \in p.cites})

Addressed(r, p) == Max({Contribution(r, i) : i \in p.cites})

\* No two proposals tie: the two that escalate alike never fire together.
RanksBefore(r, p, q) ==
    \/ p.urgency > q.urgency
    \/ p.urgency = q.urgency /\ Addressed(r, p) > Addressed(r, q)
    \/ /\ p.urgency = q.urgency /\ Addressed(r, p) = Addressed(r, q)
       /\ Escalation[p.rule] > Escalation[q.rule]

Ranked(r, valid) ==
    [k \in 1..Cardinality(valid) |->
        CHOOSE p \in valid : Cardinality({q \in valid : RanksBefore(r, q, p)}) = k - 1]

\* The recommended actions of a window at confidence c, by rule.
Guidance(w, c) ==
    LET r == Reading(w)
        valid == {p \in ResolveConflicts(Proposed(r)) : Valid(r, c, p)}
    IN  [k \in 1..Min({MaxActions, Cardinality(valid)}) |-> Ranked(r, valid)[k].rule]

\* What a window says at confidence c, and what it asks for.
Says(w, c) == [actions |-> Guidance(w, c), asked |-> OperationalPriority(w, Evidence(w, c))]

-----------------------------------------------------------------------------
(* What is said of any view, at any confidence.                            *)

(* "No abnormal behaviour ... none has crossed its reporting threshold" is *)
(* said of an abnormal window only while the confidence is so low that a   *)
(* reading on its threshold is not reported.                               *)
NominalWhenSure(w, c) ==
    Types(Evidence(w, c)) = {"CONDITIONS_NOMINAL"}
        => Observed(Reading(w)) = {} \/ c * Floor < 100 * MinEvidenceConfidence

(* An operator is told something, if only to keep watching: an action that *)
(* supersedes the baseline and is then rejected leaves an empty panel only *)
(* while the confidence is that low.                                       *)
AdvisesWhenSure(w, c) == c * Floor >= 100 * MinActionConfidence => Guidance(w, c) # <<>>

(* In a critical condition emergency response leads the list, whatever the *)
(* limit cuts from it; "continue normal monitoring" never stands beside an *)
(* action; and no more room is left for a weaker form of one on the list.  *)
NotContradictory(w, c) ==
    LET g == Guidance(w, c)
    IN  /\ g # <<>> /\ w.status = CRITICAL /\ Drivers(Reading(w)) # {} => g[1] = "emergency"
        /\ "observe" \in Range(g) => g = <<"observe">>
        /\ {"open_exit_zone", "open_exit_general"} \cap Range(g) # {"open_exit_zone", "open_exit_general"}
=============================================================================
