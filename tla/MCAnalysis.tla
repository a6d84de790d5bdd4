------------------------------ MODULE MCAnalysis ------------------------------
(***************************************************************************)
(* What is made of the frames: one subject moves in each behaviour.        *)
(*   walk      one track through two zones of a camera                     *)
(*   line      two tracks in a camera's queue, with the operator's counters*)
(*   cadence   a forecaster's readings at every spacing, with rewinds      *)
(*   growth    a forecaster's readings at its cadence, with one gap        *)
(*   congestion  the score two cameras add up to                           *)
(*   queries   charts of every resolution over a stored history            *)
(***************************************************************************)
EXTENDS CameraAnalysis, TLC

CONSTANTS LineTime, EditTime, Unmeasured

VARIABLES
    subject, counterSeen,
    buffer, growth, length, readings, readAt, odd, reports,
    analysis, stored

Forecaster == INSTANCE QueueForecast WITH
    Interval <- 2, MaxSamples <- 4, Scale <- 6, Window <- 6, MinWindow <- 2,
    Learning <- 8, MinLearned <- 2, ZSquared <- 6, NoSpread <- 4, MinRate <- 6,
    StableBand <- 3, MinTrend <- 3, Horizons <- {1, 3}, MaxReadings <- 7, people <- length

ASSUME ForecastsAssumption == Forecaster!ForecastAssumption /\ Forecaster!BaselineAssumption

forecastVars == <<buffer, growth, length, readings, readAt, odd, reports>>
figureVars == <<analysis, stored>>
allVars == <<subject, counterSeen, cameraVars, forecastVars, figureVars>>

LineOf(w, o, a, s) ==
    [waiting |-> w, counters |-> 2, open |-> o, arrivals |-> a, served |-> 2, observed |-> s]

\* Queues whose rates are not measured yet, and measured ones on both sides of
\* what their open counters serve.
Lines ==
    {LineOf(0, 1, 0, FALSE), LineOf(1, 0, 3, FALSE), LineOf(0, 1, 3, TRUE)}
    \cup {LineOf(1, o, 3, TRUE) : o \in 0 .. 2} \cup {LineOf(1, 1, 2, TRUE)}

Congestion == INSTANCE SiteCongestion WITH
    Sites <- {"hall", "gate"},
    Zones <- [c \in {"hall", "gate"} |-> IF c = "hall" THEN <<"a", "b">> ELSE << >>],
    Levels <- {0, 20}, Queues <- Lines,
    Growths <- {[z |-> 0, abnormal |-> FALSE], [z |-> 4, abnormal |-> TRUE]},
    Unmeasured <- Unmeasured, FullScale <- 20, ZSaturation <- 5, MinScore <- 7, AlertScore <- 12,
    DensityWeight <- 3, InstabilityWeight <- 3, GrowthWeight <- 2, CapacityWeight <- 2

ASSUME CongestionAssumption == Congestion!ConstantsAssumption

Figure(n, d, m, l, h, w) ==
    [samples |-> n, degraded |-> d, mean |-> m, min |-> l, max |-> h, worst |-> w]
History == INSTANCE HistoryQuery WITH
    Bucket <- 2, MaxPoints <- 2, MaxRange <- 6, Horizon <- 6,
    Figures <- {Figure(1, 1, -1, 0, 0, 2), Figure(3, 1, 4, 2, 5, 1), Figure(2, 0, 7, 7, 7, 3)}

-----------------------------------------------------------------------------
MCInit ==
    /\ subject \in {"walk", "line", "cadence", "growth", "congestion", "queries"}
    /\ Init /\ drawn = (subject = "line") /\ (subject \notin {"walk", "line"} => live)
    /\ counterSeen \in IF subject = "line" THEN BOOLEAN ELSE {FALSE}
    /\ Forecaster!Init /\ readAt = 0 /\ odd = 0 /\ reports = 0
    /\ Congestion!CongestionInit /\ History!QueryInit

Walking == UNION {[seen -> SUBSET Zones] : seen \in SUBSET {1}}
Queueing == [Tracks -> SUBSET {Queue}]
PlacesOf(settled) ==
    IF subject = "line" /\ counterSeen /\ \E t \in Tracks : settled[t] # {} THEN Places ELSE {InLine}

Seen ==
    \E settled \in IF subject = "walk" THEN Walking ELSE Queueing : \E place \in PlacesOf(settled) :
        /\ IF subject = "walk" THEN now + sessions <= MaxTime ELSE now + edits < LineTime
        /\ Frame(settled, place, counterSeen)
        /\ IF subject = "walk" THEN now' + 2 * sessions <= MaxTime + 2 ELSE now' + edits <= LineTime

CameraNext ==
    /\ subject \in {"walk", "line"}
    /\ \/ Seen
       \/ now \in 1 .. EditTime /\ Reopen
       \/ /\ subject = "line" /\ now \in 1 .. EditTime
          /\ (\E n \in 0 .. TotalCounters : SetCounters(n)) \/ \E kept \in BOOLEAN : Redraw(kept)
    /\ UNCHANGED <<forecastVars, figureVars>>

Reading(d, n, isOdd) ==
    /\ isOdd => odd < 2
    /\ readAt + d \in 0 .. 20 /\ readAt' = readAt + d
    /\ Forecaster!Report(readAt', n)
    /\ odd' = IF isOdd THEN odd + 1 ELSE odd
    /\ reports' = reports + 1

ForecastNext ==
    /\ \/ /\ subject = "cadence" /\ reports < 5
          /\ \E d \in {-3, 1, 2, 7}, n \in {0, 3} : Reading(d, n, d \in {-3, 7})
       \/ /\ subject = "growth" /\ reports < 6
          /\ \E d \in {2, 8}, n \in {0, 3, 6} : Reading(d, n, d # 2)
       \/ Forecaster!Reset /\ reports = 3 /\ UNCHANGED <<readAt, odd, reports>>
    /\ UNCHANGED <<cameraVars, figureVars>>

FiguresNext ==
    /\ \/ subject = "congestion" /\ Congestion!CongestionNext /\ UNCHANGED stored
       \/ subject = "queries" /\ History!QueryNext /\ UNCHANGED analysis
    /\ UNCHANGED <<cameraVars, forecastVars>>

MCNext ==
    /\ UNCHANGED <<subject, counterSeen>>
    /\ CameraNext \/ ForecastNext \/ FiguresNext

MCSpec == MCInit /\ [][MCNext]_allVars

(***************************************************************************)
(* The properties, by the names the runs know them by.                     *)
(***************************************************************************)
(* Of a queue only what happened in it is counted, and its forecast rests  *)
(* on that.                                                                *)
QueueIsMeasured == QueueIsCounted /\ Forecaster!ForecastIsSound

(* The site's congestion and the charts of its history agree with the      *)
(* figures they are made of.                                               *)
FiguresAreExplained ==
    /\ [](subject = "congestion" => Congestion!SceneIsExplained)
    /\ [][subject = "congestion" => Congestion!WorseIsNeverLess]_analysis
    /\ [](stored # << >> => History!QueriesAgree)
=============================================================================
