--------------------------- MODULE CameraAnalysis ----------------------------
(***************************************************************************)
(* What one camera's AnalysisPipeline counts from frame to frame: the      *)
(* movements between its zones (ZoneTransitions) and the flow of its one   *)
(* queue zone (QueueFlow), with the counters an operator declares open.    *)
(* The rates, capacity and wait calculated from those counts are left out. *)
(*                                                                         *)
(* The source delivers frames of one session after the other: a live       *)
(* camera's time goes on across a reconnection, a recording's starts again.*)
(* Each session numbers its frames from 0.                                 *)
(***************************************************************************)
EXTENDS ZoneTransitions

CONSTANTS
    Queue,           \* the QUEUE zone, one of Zones
    AtCounter,           \* the places near the service end
    InLine,            \* the other places
    DefaultActive,   \* default_active_counters
    TotalCounters,   \* total_counters
    MaxTime,         \* bound: frame time
    MaxSpacing,      \* bound: time between two frames of a session
    MaxSessions,     \* bound: source sessions
    MaxEdits         \* bound: operator edits

Flow == INSTANCE QueueFlow

QueueAssumption == Queue \in Zones /\ AtCounter # InLine

\* No more counters are open than there are.
CountersAssumption ==
    TotalCounters \in Nat /\ DefaultActive \in 0 .. TotalCounters

ASSUME CameraAnalysisAssumption ==
    TrackerAssumption /\ QueueAssumption /\ CountersAssumption

VARIABLES
    live,          \* the source is a live camera
    now, seq,      \* timestamp and number of the last frame delivered
    starting,      \* no frame of this session was delivered yet
    lastSeq,       \* _last_seq
    zoneCounts,    \* the ZoneTransitionTracker
    queueCounts,   \* the ZoneFlowTracker of the queue
    drawn,         \* the queue zone is configured
    active,        \* active_counters of the queue's CounterSettings
    sceneSince,    \* history: time of this session's first frame
    sessions, edits

cameraVars == <<live, now, seq, starting, lastSeq, zoneCounts, queueCounts, drawn,
                active, sceneSince, sessions, edits>>

Places == {AtCounter, InLine}

TypeOK ==
    /\ DOMAIN zoneCounts.known \subseteq Tracks
    /\ \A t \in DOMAIN zoneCounts.known :
        /\ DOMAIN zoneCounts.known[t].presences \subseteq Zones
        /\ \A z \in DOMAIN zoneCounts.known[t].presences :
            LET p == zoneCounts.known[t].presences[z]
            IN  p.in <= p.seen /\ p.seen <= zoneCounts.lastTs
    /\ DOMAIN queueCounts.occupants \subseteq Tracks
    /\ \A i \in DOMAIN queueCounts.events :
        queueCounts.events[i].kind \in {"arrival", "served", "abandoned"}
    /\ active \in 0 .. TotalCounters
    /\ lastSeq \in Nat \cup {Never}

Init ==
    /\ live \in BOOLEAN /\ now = 0 /\ seq = 0 /\ starting = TRUE /\ lastSeq = Never
    /\ zoneCounts = Forgotten /\ queueCounts = Flow!NewTracker /\ drawn \in BOOLEAN
    /\ active = DefaultActive /\ sceneSince = 0 /\ sessions = 1 /\ edits = 0

(***************************************************************************)
(* One frame through the pipeline.                                         *)
(***************************************************************************)
\* _note_continuity, with the number of the frame.
Restarts(number) == lastSeq # Never /\ number <= lastSeq

\* What reset() leaves of the two trackers: it does not reach the queue's.
ZonesKept(number) == IF Restarts(number) THEN Forgotten ELSE zoneCounts

Orders == {o \in [1 .. Cardinality(Zones) -> Zones] :
              \A i, j \in DOMAIN o : o[i] = o[j] => i = j}

\* settled: the zones of each trusted track; place: where in the queue it stands;
\* counterSeen: a COUNTER zone and the queue's axis tell where it is served.
Process(at, number, settled, place, counterSeen) ==
    LET inQueue == {t \in DOMAIN settled : Queue \in settled[t]}
    IN  /\ lastSeq' = number
        /\ zoneCounts' \in {Observe(ZonesKept(number), at, settled, o) : o \in Orders}
        /\ queueCounts' =
            IF ~drawn THEN queueCounts
            ELSE Flow!QueueSees(queueCounts, at, [t \in inQueue |-> place],
                                IF counterSeen THEN {AtCounter} ELSE Places)

Frame(settled, place, counterSeen) ==
    \E at \in 0 .. MaxTime :
        /\ IF starting THEN (IF live THEN at \in now .. now + MaxSpacing ELSE at = 0)
                       ELSE at \in now + 1 .. now + MaxSpacing
        /\ LET number == IF starting THEN 0 ELSE seq + 1
           IN  /\ Process(at, number, settled, place, counterSeen)
               /\ seq' = number
        /\ now' = at /\ starting' = FALSE
        /\ sceneSince' = IF starting THEN at ELSE sceneSince
        /\ UNCHANGED <<live, drawn, active, sessions, edits>>

\* The source is opened again: the next frame is its first.
Reopen ==
    /\ ~starting /\ sessions < MaxSessions
    /\ starting' = TRUE /\ sessions' = sessions + 1
    /\ UNCHANGED <<live, now, seq, lastSeq, zoneCounts, queueCounts, drawn, active,
                   sceneSince, edits>>

(***************************************************************************)
(* The operator's side.                                                    *)
(***************************************************************************)
SetCounters(n) ==
    /\ drawn /\ edits < MaxEdits /\ n # active
    /\ active' = n /\ edits' = edits + 1
    /\ UNCHANGED <<live, now, seq, starting, lastSeq, zoneCounts, queueCounts, drawn,
                   sceneSince, sessions>>

CarriedOver(kept) == IF drawn /\ kept THEN active ELSE DefaultActive

\* rebuild_analysis, after the zones were saved with or without the queue.
Redraw(kept) ==
    /\ edits < MaxEdits /\ edits' = edits + 1
    /\ drawn' = kept /\ active' = CarriedOver(kept)
    /\ zoneCounts' = Forgotten /\ queueCounts' = Flow!NewTracker
    /\ lastSeq' = Never
    /\ UNCHANGED <<live, now, seq, starting, sceneSince, sessions>>

Next ==
    \/ \E seen \in SUBSET Tracks : \E settled \in [seen -> SUBSET Zones] :
        \E place \in Places, counterSeen \in BOOLEAN : Frame(settled, place, counterSeen)
    \/ Reopen
    \/ \E n \in 0 .. TotalCounters : SetCounters(n)
    \/ \E kept \in BOOLEAN : Redraw(kept)

Spec == Init /\ [][Next]_cameraVars

(***************************************************************************)
(* Properties.                                                             *)
(***************************************************************************)
\* No departure and no entry is used in two transitions: one person walking on
\* is one move, whatever order the zones are left, entered and confirmed in.
MovesOnce == MovesOnceIn(zoneCounts)

\* A departure that was confirmed late and an entry that waited for it are still
\* paired: pruning never forgets one that the other could need.
NoMoveMissed == NoMoveMissedIn(zoneCounts)

\* Entries, exits and transitions are those of the rolling window, although
\* departures are recorded later than they happened and only the front of each
\* deque is pruned.
ZoneCountsAreOfTheWindow == ZoneCountsIn(zoneCounts, MaxSpacing)

\* Entries and departures add up to who is in each zone: a dropout, a rewind or
\* a forgotten track loses nobody and counts nobody twice.
ZonesAddUp == PresentIn(zoneCounts)

\* Everybody who joined the queue was served, gave up or still waits in it.
QueueAddsUp == drawn => Flow!EverybodyAccountedIn(queueCounts)

\* The queue's rates are taken from the events of the rolling window.
QueueCountsAreOfTheWindow == Flow!QueueCountsIn(queueCounts, MaxSpacing)

\* After a source was opened again no zone count mixes the two scenes.
ZonesAreOfThisScene ==
    lastSeq # Never /\ ~starting =>
        \A e \in zoneCounts.entered \cup zoneCounts.departed : e.at >= sceneSince

\* Redrawing the queue's outline says nothing about how many counters are open.
CountersSurviveRedraw ==
    [][drawn /\ drawn' /\ edits' # edits /\ zoneCounts' = Forgotten /\ zoneCounts # Forgotten
        => active' = active]_cameraVars

\* Claimed by AnalysisPipeline.reset: every counter and history is discarded when
\* the frame sequence restarts, the queue's included.
QueueIsOfThisScene ==
    lastSeq # Never /\ ~starting =>
        \A i \in DOMAIN queueCounts.events : queueCounts.events[i].at >= sceneSince

(* Entries, exits and moves are counted once, for their time and their     *)
(* scene.                                                                  *)
ZonesAreCounted ==
    /\ TypeOK /\ MovesOnce /\ NoMoveMissed /\ ZoneCountsAreOfTheWindow
    /\ ZonesAddUp /\ ZonesAreOfThisScene

(* The queue's people add up, its events are those of the window, and its  *)
(* counters outlast its outline.                                           *)
QueueIsCounted == [](QueueAddsUp /\ QueueCountsAreOfTheWindow) /\ CountersSurviveRedraw
=============================================================================
