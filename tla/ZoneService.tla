----------------------------- MODULE ZoneService -----------------------------
(***************************************************************************)
(* The zones an operator draws on a camera and the counters of its queues: *)
(* the stored set, the set the running analysis was built from, and what   *)
(* the two APIs say of them.  /cameras/{id}/zones applies what it saves;   *)
(* /zones, older, saves it for the next build and says a restart is due.   *)
(*                                                                         *)
(* A set of zones is a function from their names to their types.           *)
(***************************************************************************)
EXTENDS Naturals

CONSTANTS
    Names,           \* zone ids
    Writes,          \* bound: counter settings an operator may write
    Defaults,        \* the settings of a queue zone nobody configured
    Keep,            \* the rate of a write that keeps the present one
    MeasuredRate,    \* what departures show one counter to serve
    MaxZoneEdits     \* bound: edits and restarts

\* What the API accepts: no more counters open than there are.
Settings(w) ==
    /\ w \in [total : Nat, active : Nat, rate : Nat]
    /\ w.active <= w.total

ConstantsAssumption ==
    /\ Settings(Defaults) /\ Defaults.rate # Keep
    /\ \A w \in Writes : Settings(w)
    /\ MaxZoneEdits \in Nat

VARIABLES
    mode,            \* "full", "noqueue" (QUEUE_ENABLED off), "off" (no analysis)
    file,            \* the zone file: readable or damaged
    zones,           \* the ZoneStore's set
    built,           \* the set the analysis pipeline was built from
    counters,        \* of some queue zones, their CounterSettings
    changed,         \* _zones_changed_since_build
    report,          \* the latest analysis: zones, and a rate per queue; or none
    running,         \* the camera's worker delivers frames
    edits,
    said             \* history: of some zones, what was last said of their counters

zoneVars == <<mode, file, zones, built, counters, changed, report, running,
              edits, said>>

Sets == UNION {[N -> {"queue", "area"}] : N \in SUBSET Names}
NoZones == << >>
NoReport == [zones |-> NoZones, rates |-> << >>, made |-> FALSE]
QueuesOf(set) == {z \in DOMAIN set : set[z] = "queue"}

\* queue_zone_ids of the analyzer, of none where there is none.
Queues == IF mode = "full" THEN QueuesOf(built) ELSE {}

\* build_analysis_pipeline: every queue zone starts with the defaults.
CountersBuilt(set) ==
    [z \in IF mode = "full" THEN QueuesOf(set) ELSE {} |-> Defaults]

ZonesInit ==
    /\ mode \in {"full", "noqueue", "off"} /\ file = "readable"
    /\ zones \in Sets /\ built = zones
    /\ counters = CountersBuilt(zones)
    /\ changed = FALSE /\ report = NoReport /\ running = TRUE /\ edits = 0
    /\ said = << >>

-----------------------------------------------------------------------------
(* Zones.                                                                  *)

Stored(set) == file' = "readable" /\ zones' = set

\* QueueService.save_zones: stored, and not yet in effect.
SaveForLater(set) ==
    /\ Stored(set) /\ changed' = TRUE
    /\ UNCHANGED <<mode, built, counters, report, running, said>>

\* rebuild_analysis: counters are carried across for the queues that remain.
CarriedAcross(set) ==
    [z \in DOMAIN CountersBuilt(set) |->
        IF z \in Queues THEN counters[z] ELSE CountersBuilt(set)[z]]

SaveAndApply(set) ==
    /\ Stored(set)
    /\ IF mode = "off" THEN UNCHANGED <<built, counters, changed, report, said>>
       ELSE /\ built' = set /\ counters' = CarriedAcross(set)
            /\ changed' = FALSE /\ report' = NoReport
            /\ said' = [z \in DOMAIN said \cap QueuesOf(set) |-> said[z]]
    /\ UNCHANGED <<mode, running>>

EditZones ==
    /\ edits < MaxZoneEdits /\ edits' = edits + 1
    /\ \E set \in Sets : SaveForLater(set) \/ SaveAndApply(set)

-----------------------------------------------------------------------------
(* Counters.                                                               *)

Written(z, w) ==
    [w EXCEPT !.rate = IF @ = Keep THEN counters[z].rate ELSE @]

\* An unknown zone is not found; nothing changes.
SetCounters(z, w) ==
    /\ edits < MaxZoneEdits /\ edits' = edits + 1
    /\ z \in Queues
    /\ counters' = [counters EXCEPT ![z] = Written(z, w)]
    /\ said' = [y \in DOMAIN said \cup {z} |-> IF y = z THEN Written(z, w) ELSE said[y]]
    /\ UNCHANGED <<mode, file, zones, built, changed, report, running>>

\* counters(): a rate is the report's, where the report has the zone.
CountersRead ==
    [z \in Queues |->
        [counters[z] EXCEPT !.rate =
            IF z \in DOMAIN report.rates THEN report.rates[z] ELSE @]]

-----------------------------------------------------------------------------
(* The camera.                                                             *)

\* A frame is analysed: a rate is measured, or the configured one assumed.
Analyse ==
    /\ running /\ mode # "off"
    /\ \E rates \in [Queues -> {MeasuredRate, Keep}] :
           report' = [zones |-> built, made |-> TRUE,
                      rates |-> [z \in Queues |->
                          IF rates[z] = Keep THEN counters[z].rate ELSE rates[z]]]
    /\ UNCHANGED <<mode, file, zones, built, counters, changed, running, edits, said>>

\* Stopping a camera discards what it was showing; its counters stay.
Stops ==
    /\ running /\ running' = FALSE /\ report' = NoReport
    /\ UNCHANGED <<mode, file, zones, built, counters, changed, edits, said>>

Starts ==
    /\ ~running /\ running' = TRUE
    /\ UNCHANGED <<mode, file, zones, built, counters, changed, report, edits, said>>

\* The file is damaged while the backend is away: it starts without zones.
Restart ==
    /\ edits < MaxZoneEdits /\ edits' = edits + 1
    /\ file' \in {file, "damaged"}
    /\ zones' = IF file' = "damaged" THEN NoZones ELSE zones
    /\ built' = zones' /\ counters' = CountersBuilt(zones')
    /\ changed' = FALSE /\ report' = NoReport /\ running' = TRUE /\ said' = << >>
    /\ UNCHANGED mode

ZonesNext ==
    \/ EditZones \/ \E z \in Names, w \in Writes : SetCounters(z, w)
    \/ Analyse \/ Stops \/ Starts \/ Restart

ZonesSpec == ZonesInit /\ [][ZonesNext]_zoneVars

-----------------------------------------------------------------------------
ZonesTypeOK ==
    /\ zones \in Sets /\ built \in Sets
    /\ DOMAIN counters = Queues
    /\ \A z \in Queues : counters[z].rate # Keep /\ counters[z].active <= counters[z].total

\* While the analysis measures other zones than those stored, the service says
\* that it does: a zone just drawn is never silently inert.
StaleIsSaid == mode # "off" /\ zones # built => changed

\* What an operator said of a queue's counters stands until the analysis is built
\* without that queue, through every edit of the zones and every stop.
AllocationStands == \A z \in DOMAIN said \cap Queues : counters[z] = said[z]

\* No report, rate or counter is ever of a zone the analysis does not measure.
ReportIsOfItsZones ==
    /\ report.made => report.zones = built /\ DOMAIN report.rates = Queues
    /\ DOMAIN CountersRead = Queues
    /\ \A z \in Queues : CountersRead[z].rate = counters[z].rate \/ report.made

ZonesAreApplied ==
    ZonesTypeOK /\ StaleIsSaid /\ AllocationStands /\ ReportIsOfItsZones
=============================================================================
