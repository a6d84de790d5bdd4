---------------------------- MODULE QueueForecast -----------------------------
(***************************************************************************)
(* QueueForecaster for one queue: the readings of its length resampled by  *)
(* ObservationBuffer, the baseline GrowthDetector learns from them, and    *)
(* the consensus of the trend and flow-balance methods.                    *)
(*                                                                         *)
(* Lengths and rates are integers scaled by Scale; squares stand for the   *)
(* standard deviations they are compared as.                               *)
(***************************************************************************)
EXTENDS Integers, Sequences, SequencesExt, FiniteSets, FiniteSetsExt

CONSTANTS
    Interval,       \* sample_interval_seconds
    MaxSamples,     \* max_samples
    Scale,          \* what one person counts
    Window,         \* growth_window_minutes
    MinWindow,      \* growth_min_window_minutes
    Learning,       \* 1 / growth_alpha
    MinLearned,     \* growth_min_samples
    ZSquared,       \* growth_z_threshold, squared
    NoSpread,       \* the floor under the baseline's variance
    MinRate,        \* growth_min_rate_per_min
    StableBand,     \* stable_band_per_min
    MinTrend,       \* min_samples_for_trend
    Horizons,       \* horizons_minutes, counted in samples
    Never,          \* nothing yet
    MaxReadings     \* bound: readings since the buffer last started

\* There is a horizon, and each lies ahead.
ForecastAssumption ==
    /\ Horizons # {} /\ Horizons \subseteq Nat \ {0}
    /\ {Interval, MaxSamples, Scale} \subseteq Nat \ {0}
    /\ MinWindow \in Nat /\ Window \in Nat /\ MinWindow <= Window
    /\ MinTrend \in Nat

\* A new rate moves the baseline by 1 / Learning of what it differs, at most
\* by all of it.
BaselineAssumption ==
    /\ Learning \in Nat \ {0}
    /\ {MinLearned, ZSquared, NoSpread, MinRate, StableBand} \subseteq Nat

VARIABLES
    buffer,         \* the ObservationBuffer
    growth,         \* the GrowthDetector
    people,         \* person_count of the last report
    readings        \* history: the readings since the buffer last started

forecastVars == <<buffer, growth, people, readings>>

(***************************************************************************)
(* ObservationBuffer.                                                      *)
(***************************************************************************)
NewBuffer == [start |-> Never, total |-> 0, count |-> 0, samples |-> <<>>, gapped |-> FALSE]

Started(b, at, value) == [b EXCEPT !.start = at, !.total = value, !.count = 1]
Accumulated(b, value) == [b EXCEPT !.total = @ + value, !.count = @ + 1]

Bounded(samples) ==
    IF Len(samples) > MaxSamples THEN Tail(samples) ELSE samples

\* Mutant: the reading that seals a bucket is averaged into it as well.
SealedLate(b, value) ==
    [b EXCEPT !.samples = Bounded(Append(@,
        [at |-> b.start + Interval, value |-> ((b.total + value) * Scale) \div (b.count + 1),
         readings |-> b.count + 1]))]

Sealed(b, value) ==
    [b EXCEPT !.samples = Bounded(Append(@,
        [at |-> b.start + Interval, value |-> (b.total * Scale) \div b.count,
         readings |-> b.count]))]

\* Whether a reading seals the open bucket, and whether it ends a gap.
Seals(b, at) == b.start # Never /\ at - b.start >= Interval
Gapped(b, at) == b.gapped \/ at - b.start > 3 * Interval

Observe(b, at, value) ==
    IF b.start = Never \/ at < b.start THEN Started(NewBuffer, at, value)
    ELSE IF Seals(b, at)
    THEN Started([Sealed(b, value) EXCEPT !.gapped = Gapped(b, at)], at, value)
    ELSE Accumulated(b, value)

SpanOf(b) == IF Len(b.samples) < 2 THEN 0 ELSE Last(b.samples).at - b.samples[1].at

\* change_over: the sample the change is measured from.
ChangeSince(b, window) ==
    LET last == Last(b.samples).at
        reached == {i \in DOMAIN b.samples : b.samples[i].at >= last - window}
        first == Min(reached)
    IN  IF first = Len(b.samples) \/ 2 * (last - b.samples[first].at) < window
        THEN Never ELSE first

\* _windowed_rate: the change per interval, and what it was measured over.
RateWindow(b) == Min({Window, SpanOf(b)})
HasRate(b) ==
    /\ Len(b.samples) >= 2 /\ SpanOf(b) >= MinWindow
    /\ ChangeSince(b, RateWindow(b)) # Never
RateOf(b) ==
    ((Last(b.samples).value - b.samples[ChangeSince(b, RateWindow(b))].value) * Interval)
        \div RateWindow(b)

(***************************************************************************)
(* GrowthDetector.                                                         *)
(***************************************************************************)
NewBaseline == [mean |-> Never, variance |-> 0, samples |-> 0]

Learned(g, rate) ==
    IF g.samples = 0 THEN [mean |-> rate, variance |-> 0, samples |-> 1]
    ELSE LET delta == rate - g.mean
         IN  [mean |-> g.mean + delta \div Learning,
              variance |-> ((Learning - 1) * (g.variance + (delta * delta) \div Learning))
                               \div Learning,
              samples |-> Min({g.samples + 1, MinLearned})]

Unusual(g, rate) ==
    /\ rate >= g.mean
    /\ (rate - g.mean) * (rate - g.mean) >= ZSquared * Max({g.variance, NoSpread})

Classify(g, rate) ==
    IF g.samples < MinLearned THEN "insufficient"
    ELSE IF Unusual(g, rate) /\ rate >= MinRate THEN "abnormal"
    ELSE IF rate > StableBand THEN "growing"
    ELSE IF rate < -StableBand THEN "shrinking" ELSE "stable"

\* _update_baseline, after a sample was sealed.
Updated(g, b) ==
    IF HasRate(b) /\ Classify(g, RateOf(b)) # "abnormal" THEN Learned(g, RateOf(b)) ELSE g

\* _assess_growth.
Pattern == Classify(growth, IF HasRate(buffer) THEN RateOf(buffer) ELSE 0)

(***************************************************************************)
(* The forecast methods and their consensus.                               *)
(***************************************************************************)
AtLeastZero(n) == Max({0, n})

HoltStart(series) == [level |-> series[1], trend |-> series[2] - series[1]]

HoltStep(h, value) ==
    LET level == (3 * value + 7 * (h.level + h.trend)) \div 10
    IN  [level |-> level, trend |-> ((level - h.level) + 9 * h.trend) \div 10]

Holt(b) ==
    LET series == [i \in DOMAIN b.samples |-> b.samples[i].value]
    IN  FoldLeft(HoltStep, HoltStart(series), Tail(series))

TrendAvailable == Len(buffer.samples) >= MinTrend
TrendAt(h) == AtLeastZero(Holt(buffer).level + h * Holt(buffer).trend)

\* The net flow per sample interval: arrivals less service and abandonment.
FlowAt(net, h) == AtLeastZero(people * Scale + net * h)

Weighted(trend, flow, tc, fc) == (trend * tc + flow * fc) \div (tc + fc)

\* tc and fc are the methods' confidences; flow is available with fc > 0.
Consensus(net, tc, fc, h) ==
    IF TrendAvailable /\ tc > 0 /\ fc > 0
    THEN Weighted(TrendAt(h), FlowAt(net, h), tc, fc)
    ELSE IF TrendAvailable /\ fc = 0 THEN TrendAt(h)
    ELSE IF fc > 0 THEN FlowAt(net, h)
    ELSE Never

(***************************************************************************)
(* The forecaster.                                                         *)
(***************************************************************************)
Init ==
    /\ buffer = NewBuffer /\ growth = NewBaseline /\ people = 0 /\ readings = <<>>

Report(at, n) ==
    LET b == Observe(buffer, at, n)
        rewound == buffer.start # Never /\ at < buffer.start
        reading == [at |-> at, value |-> n]
    IN  /\ Len(readings) < MaxReadings
        /\ buffer' = b
        /\ growth' = IF Seals(buffer, at) THEN Updated(growth, b) ELSE growth
        /\ people' = n
        /\ readings' = IF rewound THEN <<reading>> ELSE Append(readings, reading)

\* reset, with the pipeline it is part of.
Reset ==
    /\ readings # <<>>
    /\ buffer' = NewBuffer /\ growth' = NewBaseline /\ people' = 0 /\ readings' = <<>>

(***************************************************************************)
(* Properties.                                                             *)
(***************************************************************************)
TypeOK ==
    /\ buffer.count \in 0 .. MaxReadings /\ Len(buffer.samples) <= MaxSamples
    /\ (buffer.start = Never) = (buffer.count = 0)
    /\ growth.samples \in 0 .. MinLearned /\ growth.variance \in Nat
    /\ people \in Nat

\* Every reading is averaged into exactly the sample of its interval, the one
\* that sealed it and those of before a rewind into none.
SamplesAreMeans ==
    LET In(from, to) == {i \in DOMAIN readings : readings[i].at \in from .. to - 1}
        Total(I) == FoldSet(LAMBDA i, sum : sum + readings[i].value, 0, I)
    IN  /\ \A k \in DOMAIN buffer.samples :
            LET s == buffer.samples[k]
                I == In(s.at - Interval, s.at)
            IN  s.readings = Cardinality(I) /\ s.value = (Total(I) * Scale) \div s.readings
        /\ Len(buffer.samples) < MaxSamples =>
            Len(readings) =
                FoldSeq(LAMBDA s, sum : sum + s.readings, 0, buffer.samples) + buffer.count

\* Samples are at least an interval apart, and a gap among them stays marked for
\* as long as there are samples of before it.
GapsAreMarked ==
    \A k \in 1 .. Len(buffer.samples) - 1 :
        LET step == buffer.samples[k + 1].at - buffer.samples[k].at
        IN  step >= Interval /\ (step > 3 * Interval => buffer.gapped)

\* A rate is never measured over less than half of the window it is given for.
RateIsOfItsWindow ==
    HasRate(buffer) =>
        LET since == buffer.samples[ChangeSince(buffer, RateWindow(buffer))].at
        IN  2 * (Last(buffer.samples).at - since) \in RateWindow(buffer) .. 2 * RateWindow(buffer)

\* An alarm does not talk itself down: while a queue grows at least as fast, growth
\* that was abnormal stays abnormal.
SurgeStaysAbnormal ==
    [][Pattern = "abnormal" /\ buffer'.start # Never /\ HasRate(buffer') /\ HasRate(buffer)
            /\ Len(readings') > Len(readings) /\ RateOf(buffer') >= RateOf(buffer)
        => Pattern' = "abnormal"]_forecastVars

\* A queue that grew along a straight line is forecast to go on along it.
EvenlySpaced ==
    \A k \in 1 .. Len(buffer.samples) - 1 :
        buffer.samples[k + 1].at - buffer.samples[k].at = Interval
StraightLine(perInterval) ==
    \A k \in 1 .. Len(buffer.samples) - 1 :
        (buffer.samples[k + 1].value - buffer.samples[k].value) * Interval =
            perInterval * (buffer.samples[k + 1].at - buffer.samples[k].at)
LineIsContinued ==
    TrendAvailable /\ EvenlySpaced =>
        LET slope == buffer.samples[2].value - buffer.samples[1].value
        IN  StraightLine(slope) =>
                \A h \in Horizons : TrendAt(h) = AtLeastZero(Last(buffer.samples).value + h * slope)

\* The headline lies between what the two methods expect.
ConsensusBetweenMethods ==
    TrendAvailable =>
        \A net \in {-Scale, 2 * Scale}, tc \in 1 .. 2, fc \in 1 .. 2, h \in Horizons :
            LET both == {TrendAt(h), FlowAt(net, h)}
            IN  Consensus(net, tc, fc, h) \in Min(both) .. Max(both)

(* Forecasts rest on every reading once, on rates of their windows, and    *)
(* lie where their methods do; and an alarm does not talk itself down.     *)
ForecastIsSound ==
    /\ [](/\ TypeOK /\ SamplesAreMeans /\ GapsAreMarked /\ RateIsOfItsWindow
          /\ LineIsContinued /\ ConsensusBetweenMethods)
    /\ SurgeStaysAbnormal
=============================================================================
