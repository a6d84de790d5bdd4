---------------------------- MODULE HistoryQuery ----------------------------
(***************************************************************************)
(* HistoryQuery: the stored buckets of one camera, read back as the points *)
(* of a chart or as a summary, over any range and at any resolution.       *)
(*                                                                         *)
(* Instants are seconds.  A row has one measure, which is absent when no   *)
(* window of it measured any; its mean lies between its extremes.          *)
(***************************************************************************)
EXTENDS Integers, FiniteSets, FiniteSetsExt, TLC

CONSTANTS
    Bucket,          \* history_bucket_seconds
    MaxPoints,       \* MAX_POINTS
    MaxRange,        \* MAX_RANGE, in seconds
    Figures,         \* bound: figures a row may hold
    Horizon          \* bound: the last instant

VARIABLE stored      \* of some bucket starts, the figures of the row

Absent == -1
Starts == {t \in 0 .. Horizon : t % Bucket = 0}
CeilingOf(a, b) == (a + b - 1) \div b
Larger(a, b) == IF a > b THEN a ELSE b

-----------------------------------------------------------------------------
(* Ranges.                                                                 *)

\* resolve_range refuses the others.
Ranges == {r \in (0 .. Horizon) \X (0 .. Horizon + Bucket) :
              r[1] < r[2] /\ r[2] - r[1] <= MaxRange}

resolve_resolution(start, end, requested) ==
    Larger(Larger(Bucket, CeilingOf(requested, Bucket) * Bucket),
           Larger(Bucket, CeilingOf(end - start, MaxPoints * Bucket) * Bucket))

-----------------------------------------------------------------------------
(* Reading.                                                                *)

RowsOf(start, end) == {t \in DOMAIN stored : start <= t /\ t < end}

\* _Combined: sums are weighted by a row's samples, where it measured at all.
Measured(times) == {t \in times : stored[t].mean # Absent}
Samples(times) == MapThenSumSet(LAMBDA t : stored[t].samples, times)
\* Mutant: rows that measured nothing weigh as if they had measured nought.
WeightOfAll(times) == Samples(times)
Weight(times) == Samples(Measured(times))

Sum(times) ==
    MapThenSumSet(LAMBDA t : stored[t].mean * stored[t].samples, Measured(times))

Combined(times) ==
    [samples |-> Samples(times),
     degraded |-> MapThenSumSet(LAMBDA t : stored[t].degraded, times),
     sum |-> Sum(times), weight |-> Weight(times),
     lowest |-> IF Measured(times) = {} THEN Absent
                ELSE Min({stored[t].min : t \in Measured(times)}),
     highest |-> IF Measured(times) = {} THEN Absent
                 ELSE Max({stored[t].max : t \in Measured(times)}),
     worst |-> IF times = {} THEN Absent ELSE Max({stored[t].worst : t \in times})]

\* series: one point for each group of rows, at the start of the group.
Group(t, resolution) == (t \div resolution) * resolution
Series(start, end, resolution) ==
    LET times == RowsOf(start, end)
    IN  [p \in {Group(t, resolution) : t \in times} |->
            Combined({t \in times : Group(t, resolution) = p})]

SummaryItem(times) == [of |-> Combined(times), observed |-> Cardinality(times) * Bucket]
Summary(start, end) == SummaryItem(RowsOf(start, end))

-----------------------------------------------------------------------------
(* The table.                                                              *)

QueryInit == stored = << >>

Stored(t, row) ==
    /\ t \notin DOMAIN stored /\ stored' = t :> row @@ stored

Pruned(t) ==
    /\ t \in DOMAIN stored
    /\ stored' = [u \in {v \in DOMAIN stored : v > t} |-> stored[u]]

QueryNext == \E t \in Starts : Pruned(t) \/ \E row \in Figures : Stored(t, row)

-----------------------------------------------------------------------------
\* A mean lies between the extremes of what it is the mean of, although rows
\* that measured nothing are combined with rows that did.
MeanIsWithin(c) ==
    IF c.weight = 0 THEN c.lowest = Absent /\ c.sum = 0
    ELSE c.lowest * c.weight <= c.sum /\ c.sum <= c.highest * c.weight

\* A chart at any resolution tells what the summary tells: each sample is in one
\* point, no point is better or worse than its rows, and none is without any.
TellsTheSame(start, end, resolution) ==
    LET series == Series(start, end, resolution)
        all == Summary(start, end).of
        Add(f(_)) == MapThenSumSet(f, DOMAIN series)
    IN  RowsOf(start, end) # {} =>
        /\ Add(LAMBDA p : series[p].samples) = all.samples
        /\ Add(LAMBDA p : series[p].degraded) = all.degraded
        /\ Add(LAMBDA p : series[p].sum) = all.sum
        /\ Add(LAMBDA p : series[p].weight) = all.weight
        /\ Max({series[p].worst : p \in DOMAIN series}) = all.worst
        /\ all.weight > 0 =>
              /\ \E p \in DOMAIN series : series[p].lowest = all.lowest
              /\ \E p \in DOMAIN series : series[p].highest = all.highest
        /\ \A p \in DOMAIN series : series[p].samples > 0 /\ MeanIsWithin(series[p])
        /\ MeanIsWithin(all)

\* A chart has at most MAX_POINTS points, and one more when its range begins
\* inside the first of them.
PointsFit(start, end, resolution) ==
    /\ resolution % Bucket = 0
    /\ Cardinality(DOMAIN Series(start, end, resolution))
           <= MaxPoints + (IF start % resolution = 0 THEN 0 ELSE 1)

\* What was observed fits into the range, up to a bucket begun in it.
ObservedFits(start, end) == Summary(start, end).observed < end - start + Bucket

QueriesAgree ==
    \A r \in Ranges :
        /\ ObservedFits(r[1], r[2])
        /\ \A resolution \in {resolve_resolution(r[1], r[2], q) : q \in 0 .. Horizon} :
              TellsTheSame(r[1], r[2], resolution) /\ PointsFit(r[1], r[2], resolution)
=============================================================================
