------------------------------ MODULE SiteReport ------------------------------
(***************************************************************************)
(* SiteIntelligence and the service that drives it: which cameras count    *)
(* for the site, what their counts and queues add up to, of what the site  *)
(* forecasts are made, and which alerts reach the timeline.                *)
(*                                                                         *)
(* An analysis is when it was made, whom it saw and who of them waits (no  *)
(* queue is None).  One counter serves each area's queue.                  *)
(***************************************************************************)
EXTENDS Integers, Sequences, SequencesExt, FiniteSets, FiniteSetsExt

CONSTANTS
    Sequence,        \* the cameras, in the order of the topology
    Areas,           \* coverage areas
    People,
    MaxAge,          \* max_observation_age_seconds
    RaiseAfter,      \* raise_after_seconds
    ResolveAfter,    \* resolve_after_seconds
    None,            \* no analysis, no queue, no basis
    MaxStep,         \* bound: time between two updates
    MaxTime          \* bound: time

\* The topology names a camera once.
ConstantsAssumption ==
    /\ Sequence \in Seq(ToSet(Sequence)) /\ IsInjective(Sequence)
    /\ IsFiniteSet(People)
    /\ {MaxAge, RaiseAfter, ResolveAfter, MaxStep, MaxTime} \subseteq Nat
    /\ None \notin [at : 0 .. MaxTime, sees : SUBSET People, waits : {None} \cup SUBSET People]

Cameras == ToSet(Sequence)

VARIABLES
    enabled, area, drawn,     \* the operator's: of each camera
    status, analysis,         \* of each camera
    now,
    demandBasis, demandHistory,    \* _demand_basis, the samples of its forecaster
    queueBasis, queueHistory,      \* _queue_basis, the samples of its forecaster
    tracked,                  \* _alerts
    timeline,                 \* the site's entries, of each alert
    since,                    \* history: since which update an alert is, or is not, raised
    updated,                  \* history: the time of the last update
    once                      \* history: cameras that contributed since an operator's edit

siteVars == <<enabled, area, drawn, status, analysis, now, demandBasis, demandHistory,
              queueBasis, queueHistory, tracked, timeline, since, updated, once>>

(***************************************************************************)
(* resolve_cameras.                                                        *)
(***************************************************************************)
Fresh(c) == now - analysis[c].at <= MaxAge
Contributing ==
    {c \in Cameras : enabled[c] /\ status[c] = "live" /\ analysis[c] # None /\ Fresh(c)}

Missing == {c \in Cameras : enabled[c]} \ Contributing

(***************************************************************************)
(* combine_headcount and pool_queues.                                      *)
(***************************************************************************)
Group(members, a) == {c \in members : area[c] = a}
AreasOf(members) == {area[c] : c \in members}

\* The sum of Count(x), x in S, as what there is to count of them all.
Total(S, Count(_)) == Cardinality(UNION {{x} \X (1 .. Count(x)) : x \in S})

Seen(c) == Cardinality(analysis[c].sees)

LargestOf(members, Count(_)) == Max({Count(c) : c \in members})

Headcount == Total(AreasOf(Contributing), LAMBDA a : LargestOf(Group(Contributing, a), Seen))
UpperBound == Total(Contributing, Seen)

\* Contributors with a queue measured, and those whose queues drop out.
Measuring == {c \in Contributing : analysis[c].waits # None}
MissingQueues ==
    {c \in Missing : drawn[c] \/ (analysis[c] # None /\ analysis[c].waits # None)}

Waiting(c) == Cardinality(analysis[c].waits)

\* Mutant: every view of a queue is pooled.
EveryView == Measuring
Representatives ==
    {c \in Measuring :
        \A d \in Group(Measuring, area[c]) \ {c} :
            \/ Waiting(c) > Waiting(d)
            \/ Waiting(c) = Waiting(d) /\ \E i, j \in DOMAIN Sequence :
                                           i < j /\ Sequence[i] = c /\ Sequence[j] = d}

PooledLength == Total(Representatives, Waiting)
PooledUpper == Total(Measuring, Waiting)
PooledCounters == Cardinality(Representatives)

(***************************************************************************)
(* The site forecasts: the samples of a forecaster and what they are of.   *)
(***************************************************************************)
Sample(members) == [cameras |-> members, areas |-> [c \in members |-> area[c]]]

HistoryFor(basis, history, members) == IF basis = members THEN history ELSE {}

\* _forecast_demand and _forecast_queues; withheld, they change nothing.
Forecast(basis, history, members, available) ==
    IF ~available THEN [basis |-> basis, history |-> history]
    ELSE [basis |-> members,
          history |-> HistoryFor(basis, history, members) \cup {Sample(members)}]

DemandAvailable == Contributing # {} /\ Missing = {}
QueueAvailable == Measuring # {} /\ MissingQueues = {}

(***************************************************************************)
(* raise_alerts, of the conditions a camera's absence makes.               *)
(***************************************************************************)
Stale(c) == c \in Missing /\ status[c] = "live" /\ analysis[c] # None
Lost == {c \in Missing : status[c] \in {"offline", "recovering"} \/ Stale(c)}

\* What a loss costs: people nobody else counts, the demand forecast, queues.
Degraded ==
    \E c \in Lost : \/ area[c] \notin AreasOf(Contributing)
                    \/ ~DemandAvailable
                    \/ c \in MissingQueues

AlertIds == Cameras \cup {"degraded-coverage"}
Alerts == Lost \cup (IF Degraded THEN {"degraded-coverage"} ELSE {})

(***************************************************************************)
(* _record_transitions: the tracked alerts and the timeline they make.     *)
(***************************************************************************)
Track(a) ==
    LET t == IF a \in DOMAIN tracked THEN tracked[a] ELSE [first |-> now, recorded |-> FALSE]
    IN  [first |-> t.first, last |-> now, recorded |-> t.recorded \/ now - t.first >= RaiseAfter]

\* Mutant: a flicker is remembered until its resolution would be due.
ForgottenLate(a) == now - tracked[a].last >= ResolveAfter
Forgotten(a) == ~tracked[a].recorded \/ now - tracked[a].last >= ResolveAfter

Tracked ==
    [a \in Alerts \cup {b \in DOMAIN tracked \ Alerts : ~Forgotten(b)} |->
        IF a \in Alerts THEN Track(a) ELSE tracked[a]]

Recorded(t, a) == a \in DOMAIN t /\ t[a].recorded

Entries(a) ==
    IF a \in Alerts /\ Track(a).recorded /\ ~Recorded(tracked, a)
    THEN <<[raised |-> TRUE, at |-> now]>>
    ELSE IF a \in DOMAIN tracked \ Alerts /\ tracked[a].recorded /\ Forgotten(a)
    THEN <<[raised |-> FALSE, at |-> now]>> ELSE <<>>

(***************************************************************************)
(* Actions.                                                                *)
(***************************************************************************)
Init ==
    /\ enabled = [c \in Cameras |-> TRUE]
    /\ area \in [Cameras -> Areas] /\ drawn = [c \in Cameras |-> FALSE]
    /\ status = [c \in Cameras |-> "connecting"] /\ analysis = [c \in Cameras |-> None]
    /\ now = 0
    /\ demandBasis = None /\ demandHistory = {}
    /\ queueBasis = None /\ queueHistory = {}
    /\ tracked = [a \in {} |-> 0]
    /\ timeline = [a \in AlertIds |-> <<>>]
    /\ since = [a \in AlertIds |-> [raised |-> FALSE, at |-> 0]]
    /\ updated = 0 /\ once = {}

operatorVars == <<enabled, area, drawn>>
cameraVars == <<status, analysis>>
reportVars == <<demandBasis, demandHistory, queueBasis, queueHistory, tracked, timeline,
                since, updated>>

\* The time between two updates goes by.
Wait(d) ==
    /\ now + d <= MaxTime /\ now' = now + d
    /\ UNCHANGED <<operatorVars, cameraVars, reportVars, once>>

Update ==
    LET demand == Forecast(demandBasis, demandHistory, Contributing, DemandAvailable)
        queue == Forecast(queueBasis, queueHistory, Measuring, QueueAvailable)
    IN  /\ demandBasis' = demand.basis /\ demandHistory' = demand.history
        /\ queueBasis' = queue.basis /\ queueHistory' = queue.history
        /\ tracked' = Tracked
        /\ timeline' = [a \in AlertIds |-> timeline[a] \o Entries(a)]
        /\ since' = [a \in AlertIds |->
                        IF since[a].raised = (a \in Alerts) THEN since[a]
                        ELSE [raised |-> a \in Alerts, at |-> now]]
        /\ updated' = now /\ once' = once \cup Contributing
        /\ UNCHANGED <<operatorVars, cameraVars, now>>

\* derive_status: what a camera's worker may turn to by itself, and an operator's retry.
Turns ==
    {<<"connecting", "live">>, <<"connecting", "recovering">>, <<"connecting", "offline">>,
     <<"live", "recovering">>, <<"live", "offline">>, <<"recovering", "live">>,
     <<"recovering", "offline">>, <<"offline", "live">>}

StatusTurns(c, s) ==
    /\ <<status[c], s>> \in Turns /\ status' = [status EXCEPT ![c] = s]
    /\ UNCHANGED <<operatorVars, analysis, now, reportVars, once>>

Retry(c) ==
    /\ status[c] = "offline" /\ status' = [status EXCEPT ![c] = "connecting"]
    /\ once' = once \ {c}
    /\ UNCHANGED <<operatorVars, analysis, now, reportVars>>

Analysed(c, sees, waits) ==
    /\ status[c] = "live"
    /\ analysis' = [analysis EXCEPT ![c] = [at |-> now, sees |-> sees, waits |-> waits]]
    /\ UNCHANGED <<operatorVars, status, now, reportVars, once>>

\* Switching a camera off discards what it showed; switched on it connects.
Enable(c, on) ==
    /\ enabled[c] # on /\ enabled' = [enabled EXCEPT ![c] = on]
    /\ status' = [status EXCEPT ![c] = IF on THEN "connecting" ELSE "disabled"]
    /\ analysis' = [analysis EXCEPT ![c] = None]
    /\ once' = once \ {c}
    /\ UNCHANGED <<area, drawn, now, reportVars>>

SetArea(c, a) ==
    /\ area[c] # a /\ area' = [area EXCEPT ![c] = a]
    /\ UNCHANGED <<enabled, drawn, cameraVars, now, reportVars, once>>

\* Saving a camera's zones rebinds its analysis.
Draw(c) ==
    /\ drawn' = [drawn EXCEPT ![c] = ~@]
    /\ analysis' = [analysis EXCEPT ![c] = None]
    /\ once' = once \ {c}
    /\ UNCHANGED <<enabled, area, status, now, reportVars>>

\* Who waits in a queue is among those the camera sees.
Next ==
    \/ \E d \in 1 .. MaxStep : Wait(d)
    \/ Update
    \/ \E c \in Cameras :
        \/ \E s \in {"live", "recovering", "offline"} : StatusTurns(c, s)
        \/ \E sees \in SUBSET People : \E waits \in {None} \cup SUBSET sees :
                Analysed(c, sees, waits)
        \/ Retry(c) \/ Draw(c)
        \/ \E on \in BOOLEAN : Enable(c, on)
        \/ \E a \in Areas : SetArea(c, a)

Spec == Init /\ [][Next]_siteVars

(***************************************************************************)
(* Properties.                                                             *)
(***************************************************************************)
TypeOK ==
    /\ \A c \in Cameras : /\ area[c] \in Areas
                          /\ analysis[c] # None => analysis[c].at <= now
    /\ DOMAIN tracked \subseteq AlertIds
    /\ \A a \in DOMAIN tracked : tracked[a].first <= tracked[a].last /\ tracked[a].last <= now

\* While nobody was seen in two areas the headcount is between what is certain and
\* what is possible, and no queue or counter is pooled twice.
SeenIn(members, a) == UNION {analysis[c].sees : c \in Group(members, a)}
NobodyIsCountedTwice ==
    (\A a, b \in AreasOf(Contributing) :
        a # b => SeenIn(Contributing, a) \cap SeenIn(Contributing, b) = {}) =>
        LET seen == Cardinality(UNION {analysis[c].sees : c \in Contributing})
            waiting == Cardinality(UNION {analysis[c].waits : c \in Measuring})
        IN  /\ Headcount <= seen /\ seen <= UpperBound
            /\ PooledLength <= waiting /\ waiting <= PooledUpper
            /\ PooledCounters = Cardinality(AreasOf(Measuring))

\* A camera that contributed and that no operator touched since contributes, or its
\* loss is among the alerts: its people never leave the figures in silence.
NothingIsLostInSilence == \A c \in once : enabled[c] => c \in Contributing \cup Alerts

\* A site forecast is fitted to samples of one set of cameras only.
ForecastIsOfOneSet ==
    /\ \A s, t \in demandHistory : s.cameras = t.cameras
    /\ \A s, t \in queueHistory : s.cameras = t.cameras

\* An alert is raised and resolved in turn, and never resolved sooner than the delay
\* after it was raised.
TimelineAlternates ==
    \A a \in AlertIds : \A i \in DOMAIN timeline[a] :
        /\ timeline[a][i].raised = (i % 2 = 1)
        /\ i % 2 = 0 => timeline[a][i].at - timeline[a][i - 1].at >= ResolveAfter

\* A condition is on the timeline once it was there at every update of the delay,
\* and off it once it was at none of the longer one.
OnTimeline(a) == timeline[a] # <<>> /\ Last(timeline[a]).raised
LastingChangesAreRecorded ==
    \A a \in AlertIds :
        /\ since[a].raised /\ updated - since[a].at >= RaiseAfter => OnTimeline(a)
        /\ ~since[a].raised /\ updated - since[a].at >= ResolveAfter => ~OnTimeline(a)

\* A flicker is never recorded, as an alert or as its resolution.
FlickersAreNot ==
    [][\A a \in AlertIds : timeline'[a] # timeline[a] =>
            /\ since'[a].raised = Last(timeline'[a]).raised
            /\ since'[a].raised => now - since'[a].at >= RaiseAfter
            /\ ~since'[a].raised => now - tracked[a].last >= ResolveAfter]_siteVars

(* The site's figures count everybody the cameras see once, and lose       *)
(* nobody in silence.                                                      *)
FiguresAreWhole ==
    /\ TypeOK /\ NobodyIsCountedTwice /\ NothingIsLostInSilence /\ ForecastIsOfOneSet

(* The timeline records the alerts that lasted, and only those.            *)
TimelineIsEarned ==
    [](TimelineAlternates /\ LastingChangesAreRecorded) /\ FlickersAreNot
=============================================================================
