--------------------------- MODULE SiteCongestion ---------------------------
(***************************************************************************)
(* Where a site is congested: the score of each camera, the hotspot they   *)
(* make, and the alerts of its queues.                                     *)
(*                                                                         *)
(* Figures are whole parts of a scale, FullScale of them what the code     *)
(* calls 1.0: pressures and scores are then compared without rounding.     *)
(***************************************************************************)
EXTENDS Integers, Sequences, SequencesExt, FiniteSets, FiniteSetsExt

CONSTANTS
    Sites,           \* the cameras
    Zones,           \* camera -> its queue zones, in order
    Levels,          \* bound: readings of density and of instability
    Queues,          \* bound: readings of a queue: waiting, counters, open,
                     \* arrivals, served (by one counter), observed
    Growths,         \* bound: z-scores, and whether the growth is abnormal
    Unmeasured,
    FullScale,
    ZSaturation,     \* growth_z_saturation
    MinScore, AlertScore,                            \* hotspot_*_score
    DensityWeight, InstabilityWeight, GrowthWeight, CapacityWeight

ConstantsAssumption ==
    /\ FullScale \in Nat \ {0} /\ ZSaturation \in Nat \ {0}
    /\ MinScore \in 0 .. AlertScore /\ AlertScore \in 0 .. FullScale
    /\ {DensityWeight, InstabilityWeight, GrowthWeight, CapacityWeight} \subseteq Nat
    /\ DensityWeight + InstabilityWeight + GrowthWeight + CapacityWeight > 0

VARIABLE analysis    \* camera -> what it contributes, or Unmeasured

ZonesOf(c) == ToSet(Zones[c])
Clamped(v) == IF v < 0 THEN 0 ELSE IF v > FullScale THEN FullScale ELSE v

Analyses(c) ==
    [density : Levels \cup {Unmeasured}, instability : Levels,
     queue : [ZonesOf(c) -> Queues], growth : [ZonesOf(c) -> Growths \cup {Unmeasured}]]

Contributing(site) == {c \in Sites : site[c] # Unmeasured}

-----------------------------------------------------------------------------
(* score_camera and find_hotspot.                                          *)

Factor(k, v, w, z) == [key |-> k, value |-> v, weight |-> w, zone |-> z]

DensityFactors(a) ==
    IF a.density = Unmeasured THEN {} ELSE {Factor("density", a.density, DensityWeight, "-")}

InstabilityFactors(a) == {Factor("instability", a.instability, InstabilityWeight, "-")}

Earlier(c, z, y) ==
    \E i, j \in DOMAIN Zones[c] : i < j /\ Zones[c][i] = z /\ Zones[c][j] = y

\* The zone where f is highest, the first of them.
Worst(c, zones, f(_)) ==
    CHOOSE z \in zones : \A y \in zones \ {z} :
        f(z) > f(y) \/ (f(z) = f(y) /\ Earlier(c, z, y))

GrowthFactors(c, a) ==
    LET judged == {z \in ZonesOf(c) : a.growth[z] # Unmeasured}
        Z(z) == a.growth[z].z
        worst == Worst(c, judged, Z)
    IN  IF judged = {} THEN {}
        ELSE {Factor("growth", Clamped((FullScale * Z(worst)) \div ZSaturation),
                     GrowthWeight, worst)}

Service(q) == q.open * q.served
Rated(q) == q.observed /\ Service(q) > 0

\* Arrivals over what the open counters serve.
Pressure(q) == (FullScale * q.arrivals) \div Service(q)

CapacityFactors(c, a) ==
    LET measured == {z \in ZonesOf(c) : Rated(a.queue[z])}
        P(z) == Pressure(a.queue[z])
        worst == Worst(c, measured, P)
    IN  IF measured = {} THEN {}
        ELSE {Factor("capacity", Clamped(P(worst) - FullScale \div 2), CapacityWeight, worst)}

Factors(c, a) ==
    DensityFactors(a) \cup InstabilityFactors(a)
        \cup GrowthFactors(c, a) \cup CapacityFactors(c, a)

\* The mean of what is measured, as a sum and its weight.
Score(c, a) ==
    [sum |-> MapThenSumSet(LAMBDA f : f.weight * f.value, Factors(c, a)),
     of |-> MapThenSumSet(LAMBDA f : f.weight, Factors(c, a))]

Reaches(s, level) == s.sum >= level * s.of
AtLeast(s, t) == s.sum * t.of >= t.sum * s.of

Hottest(site) ==
    {c \in Contributing(site) :
        /\ Reaches(Score(c, site[c]), MinScore)
        /\ \A d \in Contributing(site) : AtLeast(Score(c, site[c]), Score(d, site[d]))}

\* The queue that is named: of a strong factor, by what it adds.
Strong(c, a) == {f \in Factors(c, a) : f.zone # "-" /\ 2 * f.value >= FullScale}
NamedZones(c, a) ==
    {f.zone : f \in {g \in Strong(c, a) :
        \A h \in Strong(c, a) : g.weight * g.value >= h.weight * h.value}}

-----------------------------------------------------------------------------
(* _capacity_alerts and _growth_alerts.                                    *)

Outpaced(q) == q.open > 0 /\ q.observed /\ q.arrivals > Service(q)

NeedsCapacity(q) ==
    q.waiting > 0 /\ q.counters > 0 /\ (q.open = 0 \/ Outpaced(q))

GrowsAbnormally(g) == g # Unmeasured /\ g.abnormal

\* What is alerted: of each camera and zone, and the hottest camera.
CapacityAlerts(site) ==
    UNION {{<<c, z>> : z \in {y \in ZonesOf(c) : NeedsCapacity(site[c].queue[y])}} :
            c \in Contributing(site)}
GrowthAlerts(site) ==
    UNION {{<<c, z>> : z \in {y \in ZonesOf(c) : GrowsAbnormally(site[c].growth[y])}} :
            c \in Contributing(site)}
HotspotAlert(site) == {c \in Hottest(site) : Reaches(Score(c, site[c]), AlertScore)}

-----------------------------------------------------------------------------
(* The site: one figure of one camera changes, or a camera comes or goes.  *)

CongestionInit == analysis = [c \in Sites |-> Unmeasured]

Becomes(c, a) == a # analysis[c] /\ analysis' = [analysis EXCEPT ![c] = a]

\* An analysis that has only begun: rates and baselines are not measured yet.
Joins(c) ==
    /\ analysis[c] = Unmeasured
    /\ \E q \in [ZonesOf(c) -> {r \in Queues : ~r.observed}] :
            Becomes(c, [density |-> Unmeasured, instability |-> 0, queue |-> q,
                        growth |-> [z \in ZonesOf(c) |-> Unmeasured]])
Leaves(c) == analysis[c] # Unmeasured /\ Becomes(c, Unmeasured)

Analysed(c) ==
    /\ analysis[c] # Unmeasured
    /\ \/ \E d \in Levels \cup {Unmeasured} : Becomes(c, [analysis[c] EXCEPT !.density = d])
       \/ \E i \in Levels : Becomes(c, [analysis[c] EXCEPT !.instability = i])
       \/ \E z \in ZonesOf(c), q \in Queues : Becomes(c, [analysis[c] EXCEPT !.queue[z] = q])
       \/ \E z \in ZonesOf(c), g \in Growths \cup {Unmeasured} :
                Becomes(c, [analysis[c] EXCEPT !.growth[z] = g])

CongestionNext == \E c \in Sites : Joins(c) \/ Leaves(c) \/ Analysed(c)

-----------------------------------------------------------------------------
\* No queue of a is better off than in b, and the same figures are measured.
WorseQueue(p, q) ==
    /\ p.observed = q.observed /\ p.counters = q.counters /\ p.served = q.served
    /\ q.waiting >= p.waiting /\ q.arrivals >= p.arrivals
    /\ q.open <= p.open /\ (q.open = 0 => p.open = 0)

WorseFigure(u, v) ==
    (u = Unmeasured) = (v = Unmeasured) /\ (u # Unmeasured => v >= u)

WorseGrowth(g, h) ==
    /\ (g = Unmeasured) = (h = Unmeasured)
    /\ g # Unmeasured => h.z >= g.z /\ (g.abnormal => h.abnormal)

Worse(c, a, b) ==
    /\ WorseFigure(a.density, b.density) /\ b.instability >= a.instability
    /\ \A z \in ZonesOf(c) : /\ WorseQueue(a.queue[z], b.queue[z])
                             /\ WorseGrowth(a.growth[z], b.growth[z])

\* A camera for which nothing improved scores no less than before, and no alert
\* of its queues goes, though each factor follows another of its queues.  Not so
\* when the last counter closes: what it served no longer counts as measured.
WorseIsNeverLess ==
    \A c \in Contributing(analysis) \cap Contributing(analysis') :
        Worse(c, analysis[c], analysis'[c]) =>
            /\ AtLeast(Score(c, analysis'[c]), Score(c, analysis[c]))
            /\ \A z \in ZonesOf(c) :
                /\ <<c, z>> \in CapacityAlerts(analysis) =>
                       <<c, z>> \in CapacityAlerts(analysis')
                /\ <<c, z>> \in GrowthAlerts(analysis) =>
                       <<c, z>> \in GrowthAlerts(analysis')

\* Closing every counter of a queue silences nobody who waits in it.
UnservedAreAlerted ==
    \A c \in Contributing(analysis) : \A z \in ZonesOf(c) :
        LET q == analysis[c].queue[z]
        IN  q.waiting > 0 /\ q.counters > 0 /\ Service(q) = 0 =>
                <<c, z>> \in CapacityAlerts(analysis)

\* An operator sent to a hotspot whose queue is outpaced is sent to a queue that
\* is measured there, and not to the camera at large.
OutpacedIsNamed ==
    \A c \in Hottest(analysis) :
        (\E z \in ZonesOf(c) : Outpaced(analysis[c].queue[z])) =>
            /\ NamedZones(c, analysis[c]) # {}
            /\ \A z \in NamedZones(c, analysis[c]) :
                \/ Rated(analysis[c].queue[z]) \/ analysis[c].growth[z] # Unmeasured

\* A score lies between the factors it is the mean of, however many there are.
ScoreIsAMean ==
    \A c \in Contributing(analysis) :
        LET values == {f.value : f \in Factors(c, analysis[c])}
        IN  /\ Reaches(Score(c, analysis[c]), Min(values))
            /\ Score(c, analysis[c]).sum <= Max(values) * Score(c, analysis[c]).of

\* The score, the hotspot and the alerts agree with the figures they are made of.
SceneIsExplained ==
    /\ \A c \in Contributing(analysis) : analysis[c] \in Analyses(c)
    /\ UnservedAreAlerted /\ OutpacedIsNamed /\ ScoreIsAMean
=============================================================================
