----------------------------- MODULE StaffingPlan -----------------------------
(***************************************************************************)
(* ResourceAllocator in a closed loop: a queue that evolves as the         *)
(* simulation balances it, the plan computed from it at every window, an   *)
(* operator who may follow the plan, and the time to pressure read off the *)
(* flow forecast.  One step is one minute; rates are people per minute.    *)
(***************************************************************************)
EXTENDS Integers, FiniteSets, FiniteSetsExt, Sequences

CONSTANTS
    Total,          \* total_counters
    Arrivals,       \* arrival_rate_per_min, the values it may have
    Abandonments,   \* abandonment_rate_per_min, the values it may have
    PerCounter,     \* service_rate_per_counter_per_min, at least min_service_rate
    MaxQueue,       \* bound: people in the queue at first
    Horizon,        \* decision_horizon_minutes
    Target,         \* target_wait_minutes
    CloseTarget,    \* target_wait_minutes * close_margin
    Ahead,          \* horizons_minutes, a sequence
    MaxJitter,      \* bound: people more or less in a minute
    MaxMinutes,     \* bound: time
    Never

ConstantsAssumption ==
    /\ Total \in Nat /\ MaxQueue \in Nat /\ MaxJitter \in Nat /\ MaxMinutes \in Nat
    /\ PerCounter \in Nat \ {0} /\ Horizon \in Nat \ {0}
    /\ Target \in Nat /\ CloseTarget \in 1 .. Target
    /\ Arrivals \subseteq Nat /\ Abandonments \subseteq Nat
    /\ Ahead \in Seq(Nat \ {0})
    /\ \A i, j \in DOMAIN Ahead : i < j => Ahead[i] < Ahead[j]
    /\ Never \notin Int

VARIABLES
    queue, active,
    arrivals, abandonment,    \* held for the run, as a plan assumes
    jitter,                   \* whether a minute may differ from its rates
    minute,
    followed,                 \* history: the last plan carried out
    foretold                  \* history: when the target was said to be passed

staffingVars == <<queue, active, arrivals, abandonment, jitter, minute, followed, foretold>>

(***************************************************************************)
(* _evaluate and _choose.                                                  *)
(***************************************************************************)
Projected(people, counters) ==
    Max({0, people + (arrivals - counters * PerCounter - abandonment) * Horizon})

\* Below the floor nobody is served, and no wait clears the target.
HasWait(counters) == counters > 0
ClearsWithin(limit, people, counters) ==
    HasWait(counters) /\ Projected(people, counters) <= limit * counters * PerCounter

Sufficient(people) == {c \in 0 .. Total : ClearsWithin(Target, people, c)}

\* Mutant: a counter is closed as soon as the target would still be met.
MayCloseAtTarget(people, counters) == ClearsWithin(Target, people, counters)
MayClose(people, counters) == ClearsWithin(CloseTarget, people, counters)

Best(people) == Total

\* The plan for the queue as it is: how many counters, and what for.
Plan(people) ==
    LET minimal == Min(Sufficient(people))
        Of(counters, action) == [counters |-> counters, action |-> action]
    IN  IF Sufficient(people) = {}
        THEN Of(Best(people), IF Best(people) > active THEN "open" ELSE "observe")
        ELSE IF minimal > active THEN Of(minimal, "open")
        ELSE IF minimal < active /\ MayClose(people, minimal) THEN Of(minimal, "close")
        ELSE Of(active, "observe")

Feasible(people) == Sufficient(people) # {}

(***************************************************************************)
(* time_to_pressure, read off the flow-balance forecast.                   *)
(***************************************************************************)
FlowForecast(h) == Max({0, queue + (arrivals - active * PerCounter - abandonment) * h})
Threshold == Target * active * PerCounter

\* The first full minute after the interpolated crossing of the threshold.
Crossing(from, value, to) ==
    CHOOSE m \in from + 1 .. to :
        LET Beyond(n) == (FlowForecast(to) - value) * (n - from)
                             > (Threshold - value) * (to - from)
        IN  Beyond(m) /\ \A n \in from + 1 .. m - 1 : ~Beyond(n)

Pressure ==
    LET past == {i \in DOMAIN Ahead : FlowForecast(Ahead[i]) > Threshold}
        i == Min(past)
        from == IF i = 1 THEN 0 ELSE Ahead[i - 1]
    IN  IF active = 0 THEN (IF queue > 0 THEN 0 ELSE Never)
        ELSE IF queue > Threshold THEN 0
        ELSE IF past = {} THEN Never
        ELSE Crossing(from, FlowForecast(from), Ahead[i])

(***************************************************************************)
(* The loop.                                                               *)
(***************************************************************************)
NotFollowed == [at |-> Never, counters |-> 0, projected |-> 0, action |-> "observe"]

Init ==
    /\ queue \in 0 .. MaxQueue /\ active \in 0 .. Total
    /\ arrivals \in Arrivals /\ abandonment \in Abandonments
    /\ jitter \in BOOLEAN /\ minute = 0
    /\ followed = NotFollowed
    /\ foretold = Never

\* The operator carries out what the plan of this window proposes.
Follow ==
    LET plan == Plan(queue)
    IN  /\ followed.at = Never \/ followed.action = "open"
        /\ plan.action # "observe"
        /\ active' = plan.counters
        /\ followed' = [at |-> minute, counters |-> plan.counters, action |-> plan.action,
                        projected |-> Projected(queue, plan.counters)]
        /\ foretold' = Never
        /\ UNCHANGED <<queue, arrivals, abandonment, jitter, minute>>

\* Somebody reads when the queue will pass its target.
Foretell ==
    /\ foretold = Never /\ Pressure # Never
    /\ foretold' = minute + Pressure
    /\ UNCHANGED <<queue, active, arrivals, abandonment, jitter, minute, followed>>

\* One minute of the balance: nobody can be served who is not in the queue.
Balance(came, served) ==
    Max({0, queue + came - Min({queue + came, served})})

Minute ==
    /\ minute < MaxMinutes
    /\ \E noise \in IF jitter THEN -MaxJitter .. MaxJitter ELSE {0} :
        queue' = Balance(Max({0, arrivals + noise}), active * PerCounter + abandonment)
    /\ minute' = minute + 1
    /\ UNCHANGED <<active, arrivals, abandonment, jitter, followed, foretold>>

Next == Follow \/ Foretell \/ Minute

Spec == Init /\ [][Next]_staffingVars

(***************************************************************************)
(* Properties.                                                             *)
(***************************************************************************)
TypeOK ==
    /\ queue \in Nat /\ active \in 0 .. Total /\ minute \in 0 .. MaxMinutes
    /\ followed.counters \in 0 .. Total

\* What a plan promised of the queue is what it holds a horizon later, as far as
\* arrivals and service kept to their rates.
PromiseIsKept ==
    followed.at # Never /\ active = followed.counters /\ minute = followed.at + Horizon =>
        LET missed == IF jitter THEN MaxJitter * Horizon ELSE 0
        IN  queue - followed.projected \in -missed .. missed

\* No counter flaps: after a close was carried out the plan does not ask for the
\* counter back before the margin it was closed with is used up.
Steady == ((Target - CloseTarget) * Horizon) \div CloseTarget
CloseIsNotReversed ==
    ~jitter /\ followed.action = "close" /\ minute < followed.at + Steady =>
        Plan(queue).action # "open"

\* A change is the least that meets the target, no change means that what is open
\* meets it, and when nothing does the most that can be done is asked for.
PlanIsTheLeastThatHelps ==
    LET plan == Plan(queue)
        Meets(c) == ClearsWithin(Target, queue, c)
    IN  IF Feasible(queue)
        THEN /\ Meets(plan.counters)
             /\ plan.action # "observe" => \A c \in 0 .. plan.counters - 1 : ~Meets(c)
        ELSE \A c \in 0 .. Total : Projected(queue, plan.counters) <= Projected(queue, c)

\* The queue passes its target at the minute it was said to, and not before.
PressureComesWhenForetold ==
    ~jitter /\ foretold # Never /\ active > 0 =>
        (minute >= foretold) = (queue > Threshold) \/ minute > foretold

(* A plan is the least that helps, comes true as far as its rates do, and  *)
(* is not taken back.                                                      *)
PlansHold ==
    /\ TypeOK /\ PromiseIsKept /\ CloseIsNotReversed /\ PlanIsTheLeastThatHelps
    /\ PressureComesWhenForetold
=============================================================================
