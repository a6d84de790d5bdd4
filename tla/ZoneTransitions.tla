--------------------------- MODULE ZoneTransitions ---------------------------
(***************************************************************************)
(* ZoneTransitionTracker: who entered, left and moved between the zones of *)
(* one camera, counted over a rolling window of frame time.                *)
(*                                                                         *)
(* A frame is the zones each trusted (settled) track stands in.  Occupancy *)
(* and headings are read off the frame alone and left out.                 *)
(***************************************************************************)
EXTENDS Integers, Sequences, SequencesExt, FiniteSets

CONSTANTS
    TrackCount,    \* tracks are numbered in the order they were first seen
    Zones,
    Window,        \* window_seconds
    Grace,         \* lost_grace_seconds
    MaxGap,        \* transition_max_gap_seconds
    Overlap,       \* boundary_overlap_seconds
    Slack,         \* _FRAME_SLACK_SECONDS
    Never          \* no time

\* What the tracker is refused without.
TrackerAssumption ==
    /\ Window \in Nat \ {0}
    /\ {Grace, MaxGap, Overlap, Slack} \subseteq Nat

Tracks == 1 .. TrackCount

None == [z \in {} |-> Never]
NoTrack(t, now) == [id |-> t, seen |-> now, presences |-> None, exits |-> <<>>, entries |-> <<>>]

\* The state of a tracker.  entered, departed and moved are history: every
\* counted entry, confirmed departure and transition since the last reset.
Forgotten ==
    [known |-> None, firstTs |-> Never, lastTs |-> Never,
     entries |-> [z \in Zones |-> <<>>], exits |-> [z \in Zones |-> <<>>],
     transitions |-> <<>>, entered |-> {}, departed |-> {}, moved |-> {}]

(***************************************************************************)
(* Pairing one track's departures and entries.                             *)
(***************************************************************************)
Pairs(left, came) ==
    /\ left.zone # came.zone
    /\ came.at > left.in
    /\ came.at - left.at \in -Overlap .. MaxGap

\* The most recent of the departures; the earlier recorded of two.
Latest(left, I) ==
    CHOOSE i \in I : \A j \in I : left[j].at < left[i].at \/ (left[j].at = left[i].at /\ i <= j)

\* The earliest of the entries; the earlier recorded of two.
Earliest(came, I) ==
    CHOOSE i \in I : \A j \in I : came[j].at > came[i].at \/ (came[j].at = came[i].at /\ i <= j)

\* A track's new state, and the transition it made, if any.
Unpaired(track) == [track |-> track, moves |-> <<>>]
Paired(track, left, came) == [track |-> track, moves |-> <<[left |-> left, came |-> came]>>]

PairEntry(track, came) ==
    LET fits == {i \in DOMAIN track.exits : Pairs(track.exits[i], came)}
        i == Latest(track.exits, fits)
    IN  IF fits = {} THEN Unpaired([track EXCEPT !.entries = Append(@, came)])
        ELSE Paired([track EXCEPT !.exits = RemoveAt(@, i)], track.exits[i], came)

PairExit(track, left) ==
    LET fits == {i \in DOMAIN track.entries : Pairs(left, track.entries[i])}
        i == Earliest(track.entries, fits)
    IN  IF fits = {} THEN Unpaired([track EXCEPT !.exits = Append(@, left)])
        ELSE Paired([track EXCEPT !.entries = RemoveAt(@, i)], left, track.entries[i])

\* One zone a settled track stands in.  A baseline frame counts nobody.
Inside(step, zone, now, baseline) ==
    LET track == step.track
        here == [track EXCEPT !.presences =
                    [z \in DOMAIN @ \cup {zone} |->
                        IF z # zone THEN @[z]
                        ELSE [in |-> IF z \in DOMAIN @ THEN @[z].in ELSE now, seen |-> now]]]
        pair == PairEntry(here, [track |-> track.id, zone |-> zone, at |-> now])
    IN  IF zone \in DOMAIN track.presences \/ baseline
        THEN [step EXCEPT !.track = here]
        ELSE [track |-> pair.track, moves |-> step.moves \o pair.moves]

Departure(track, zone) ==
    LET p == track.presences[zone]
    IN  [track |-> track.id, zone |-> zone, in |-> p.in, at |-> p.seen]

\* One zone it is no longer in: _end_absent_presences.
Absent(step, zone) ==
    LET track == step.track
        gone == [track EXCEPT !.presences = [z \in DOMAIN @ \ {zone} |-> @[z]]]
        pair == PairExit(gone, Departure(track, zone))
    IN  [track |-> pair.track, moves |-> step.moves \o pair.moves]

Ended(track, zones, now) ==
    {z \in DOMAIN track.presences \ zones : now - track.presences[z].seen >= Grace}

(***************************************************************************)
(* Pruning.                                                                *)
(***************************************************************************)
\* A deque without the aged events at its front, given the time of each.
FrontPruned(queue, times, now) ==
    LET kept == {i \in DOMAIN queue : now - times[i] <= Window}
    IN  IF kept = {} THEN <<>>
        ELSE SubSeq(queue, CHOOSE i \in kept : \A j \in kept : i <= j, Len(queue))

MoveAt(move) == IF move.came.at > move.left.at THEN move.came.at ELSE move.left.at

\* Mutant: an entry is forgotten before its departure is confirmed.
RememberedTooShort(track, now) ==
    [track EXCEPT
        !.exits = SelectSeq(@, LAMBDA left : now - left.at <= MaxGap),
        !.entries = SelectSeq(@, LAMBDA came : now - came.at <= Overlap)]

Remembered(track, now) ==
    [track EXCEPT
        !.exits = SelectSeq(@, LAMBDA left : now - left.at <= MaxGap),
        !.entries = SelectSeq(@, LAMBDA came : now - came.at <= Overlap + Grace + Slack)]

Idle(track) == track.presences = None /\ track.exits = <<>> /\ track.entries = <<>>

Dropped(track, now) == Idle(track) /\ now - track.seen > Grace

(***************************************************************************)
(* observe.  settled maps the trusted tracks of the frame to their zones;  *)
(* order is the order in which a set of zones happens to be walked.        *)
(***************************************************************************)
\* What a frame makes of one track: its new state, its transitions before and
\* after the absences are ended, and the zones it came to and left.
After(s, t, settled, order, now) ==
    LET baseline == s.firstTs = Never
        zones == IF t \in DOMAIN settled THEN settled[t] ELSE {}
        track == IF t \notin DOMAIN s.known THEN NoTrack(t, now)
                 ELSE IF t \in DOMAIN settled THEN [s.known[t] EXCEPT !.seen = now]
                 ELSE s.known[t]
        came == FoldLeft(LAMBDA step, z : Inside(step, z, now, baseline), Unpaired(track),
                         SelectSeq(order, LAMBDA z : z \in zones))
        ended == Ended(came.track, zones, now)
        left == FoldLeft(Absent, Unpaired(came.track),
                         SelectSeq(order, LAMBDA z : z \in ended))
    IN  [track |-> Remembered(left.track, now),
         onEntry |-> came.moves, onExit |-> left.moves,
         came |-> IF baseline THEN {}
                  ELSE {[track |-> t, zone |-> z, at |-> now] : z \in zones \ DOMAIN track.presences},
         left |-> {Departure(came.track, z) : z \in ended}]

\* The times of the events in a zone, one track after the other.
TimesIn(zone, events) ==
    FlattenSeq([t \in Tracks |->
        LET here == {e \in events : e.track = t /\ e.zone = zone}
        IN  IF here = {} THEN <<>> ELSE <<(CHOOSE e \in here : TRUE).at>>])

Observed(s, now, settled, order) ==
    LET present == DOMAIN s.known \cup DOMAIN settled
        tracked == {After(s, t, settled, order, now) : t \in present}
        after == [t \in present |-> CHOOSE a \in tracked : a.track.id = t]
        came == UNION {a.came : a \in tracked}
        left == UNION {a.left : a \in tracked}
        moves(Of(_)) == FlattenSeq([t \in Tracks |-> IF t \in present THEN Of(after[t]) ELSE <<>>])
        onEntry == moves(LAMBDA a : a.onEntry)
        onExit == moves(LAMBDA a : a.onExit)
        entries == [z \in Zones |-> s.entries[z] \o TimesIn(z, came)]
        exits == [z \in Zones |-> s.exits[z] \o TimesIn(z, left)]
        made == s.transitions \o onEntry \o onExit
    IN  [known |-> [t \in {u \in present : ~Dropped(after[u].track, now)} |-> after[t].track],
         firstTs |-> IF s.firstTs = Never THEN now ELSE s.firstTs,
         lastTs |-> now,
         entries |-> [z \in Zones |-> FrontPruned(entries[z], entries[z], now)],
         exits |-> [z \in Zones |-> FrontPruned(exits[z], exits[z], now)],
         transitions |-> FrontPruned(made, [i \in DOMAIN made |-> MoveAt(made[i])], now),
         entered |-> s.entered \cup came,
         departed |-> s.departed \cup left,
         moved |-> s.moved \cup ToSet(onEntry \o onExit)]

Observe(s, now, settled, order) ==
    LET rewound == s.lastTs # Never /\ now < s.lastTs
    IN  Observed(IF rewound THEN Forgotten ELSE s, now, settled, order)

(***************************************************************************)
(* Properties of a tracker's state.                                        *)
(***************************************************************************)
\* Nobody is counted twice: a departure and an entry make one move at most.
MovesOnceIn(s) ==
    \A m, n \in s.moved : m.left = n.left \/ m.came = n.came => m = n

\* A move that was seen is counted: no confirmed departure and no counted entry
\* of one track that fit each other both remain unpaired.
NoMoveMissedIn(s) ==
    \A left \in s.departed, came \in s.entered :
        left.track = came.track /\ Pairs(left, came) =>
            \E m \in s.moved : m.left = left \/ m.came = came

\* A count holds what the window holds, and of what happened nothing that left it
\* longer ago than an event can be late: the grace and the time between two frames.
WindowIn(counted, happened, now, late) ==
    /\ ToSet(counted) \subseteq happened
    /\ \A at \in happened : now - at <= Window => at \in ToSet(counted)
    /\ \A i \in DOMAIN counted : now - counted[i] <= Window + late

ZoneCountsIn(s, spacing) ==
    s.lastTs # Never => \A z \in Zones :
        /\ WindowIn(s.entries[z], {e.at : e \in {c \in s.entered : c.zone = z}}, s.lastTs, 0)
        /\ WindowIn(s.exits[z], {e.at : e \in {d \in s.departed : d.zone = z}},
                    s.lastTs, spacing)
        /\ WindowIn([i \in DOMAIN s.transitions |-> MoveAt(s.transitions[i])],
                    {MoveAt(m) : m \in s.moved}, s.lastTs, Overlap + Grace + spacing)

\* Who came and has not left is there, and nobody else.
PresentIn(s) ==
    \A z \in Zones : \A t \in Tracks :
        LET open == t \in DOMAIN s.known /\ z \in DOMAIN s.known[t].presences
            came == {e \in s.entered : e.track = t /\ e.zone = z}
            left == {e \in s.departed : e.track = t /\ e.zone = z}
        IN  Cardinality(left) + (IF open THEN 1 ELSE 0) - Cardinality(came) \in {0, 1}
=============================================================================
