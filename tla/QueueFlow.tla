------------------------------ MODULE QueueFlow ------------------------------
(***************************************************************************)
(* ZoneFlowTracker: who joined one queue, was served or gave up, counted   *)
(* over a rolling window of frame time.                                    *)
(*                                                                         *)
(* A frame is the place each trusted track stands at, of those inside the  *)
(* zone, and the places near enough to the service end of that frame.      *)
(***************************************************************************)
EXTENDS Integers, Sequences, SequencesExt, FiniteSets

CONSTANTS
    TrackCount,    \* tracks are numbered in the order they were first seen
    Window,        \* flow_window_seconds
    Grace,         \* lost_grace_seconds
    Never          \* no time

QueueTracks == 1 .. TrackCount
Nobody == [t \in {} |-> Never]

\* joined and gone are history: every arrival and departure since the last reset.
NewTracker ==
    [occupants |-> Nobody, events |-> <<>>, lastTs |-> Never,
     joined |-> {}, gone |-> {}]

Restarted(q, now) ==
    [q EXCEPT !.occupants = Nobody, !.events = <<>>, !.joined = {}, !.gone = {}]

Left(q, inside, now) ==
    {t \in DOMAIN q.occupants :
        t \notin DOMAIN inside /\ now - q.occupants[t].seen >= Grace}

Kind(occupant, serving) ==
    IF occupant.place \in serving THEN "served" ELSE "abandoned"

Of(t, at, kind) == [track |-> t, at |-> at, kind |-> kind]

InTurn(T, Event(_)) ==
    FlattenSeq([t \in QueueTracks |-> IF t \in T THEN <<Event(t)>> ELSE <<>>])

FrontDropped(events, now) ==
    LET kept == {i \in DOMAIN events : now - events[i].at <= Window}
    IN  IF kept = {} THEN <<>>
        ELSE SubSeq(events, CHOOSE i \in kept : \A j \in kept : i <= j, Len(events))

Remaining(present, left) == [t \in DOMAIN present \ left |-> present[t]]

Counted(q, now, inside, serving) ==
    LET came == DOMAIN inside \ DOMAIN q.occupants
        arrivals == InTurn(came, LAMBDA t : Of(t, now, "arrival"))
        present ==
            [t \in DOMAIN q.occupants \cup DOMAIN inside |->
                IF t \notin DOMAIN inside THEN q.occupants[t]
                ELSE [in |-> IF t \in came THEN now ELSE q.occupants[t].in,
                      seen |-> now, place |-> inside[t]]]
        left == Left([q EXCEPT !.occupants = present], inside, now)
        departures == InTurn(left, LAMBDA t :
                          Of(t, present[t].seen, Kind(present[t], serving)))
    IN  [occupants |-> Remaining(present, left),
         events |-> FrontDropped(q.events \o arrivals \o departures, now),
         lastTs |-> now,
         joined |-> q.joined \cup ToSet(arrivals),
         gone |-> q.gone \cup ToSet(departures)]

QueueSees(q, now, inside, serving) ==
    LET rewound == q.lastTs # Never /\ now < q.lastTs
    IN  Counted(IF rewound THEN Restarted(q, now) ELSE q, now, inside, serving)

(***************************************************************************)
(* Properties of a tracker's state.                                        *)
(***************************************************************************)
\* Everybody who joined was served, gave up or still waits.
EverybodyAccountedIn(q) ==
    /\ Cardinality(q.joined) = Cardinality(q.gone) + Cardinality(DOMAIN q.occupants)
    /\ \A t \in DOMAIN q.occupants : Of(t, q.occupants[t].in, "arrival") \in q.joined

\* The window holds every event of its time, and none that is more overdue than
\* a departure can be late.
QueueCountsIn(q, spacing) ==
    q.lastTs # Never =>
        /\ \A e \in q.joined \cup q.gone : q.lastTs - e.at <= Window => e \in ToSet(q.events)
        /\ \A i \in DOMAIN q.events : q.lastTs - q.events[i].at <= Window + Grace + spacing
=============================================================================
