------------------------------ MODULE LiveStream ------------------------------
(***************************************************************************)
(* LiveStreamService: one frame captured on the pipeline's thread, served  *)
(* by the event loop to whoever watches.                                   *)
(*                                                                         *)
(* A picture is known by the source session it shows; the sequence number  *)
(* is kept as what readers ask of it: whether it moved since a snapshot    *)
(* was requested.                                                          *)
(***************************************************************************)
EXTENDS Naturals

CONSTANTS
    NoFrame,       \* no picture, and no frame number
    MaxSessions,   \* bound: source sessions
    MaxSeq         \* bound: last frame number of a session

Sessions == 1 .. MaxSessions
Seqs == 0 .. MaxSeq

VARIABLES
    watching,            \* a stream viewer is connected
    snapshot,            \* a snapshot request: "none" or "waiting"
    moved,               \* _sequence differs from the request's start_sequence
    picture,             \* session shown by _latest
    sinceAsked,          \* history: _latest is newer than the request, or was
                         \* being announced when it came
    trailSeq, trails     \* _trail_seq; the sessions _trails was drawn from

streamVars == <<watching, snapshot, moved, picture, sinceAsked, trailSeq, trails>>

StreamTypeOK ==
    /\ watching \in BOOLEAN /\ snapshot \in {"none", "waiting"}
    /\ moved \in BOOLEAN /\ sinceAsked \in BOOLEAN
    /\ picture \in Sessions \cup {NoFrame}
    /\ trailSeq \in Seqs \cup {NoFrame} /\ trails \subseteq Sessions

StreamInit ==
    /\ watching = FALSE /\ snapshot = "none" /\ moved = FALSE /\ sinceAsked = FALSE
    /\ picture = NoFrame /\ trailSeq = NoFrame /\ trails = {}

Viewed == watching \/ snapshot = "waiting"

\* _advance_trails: a frame number that does not go up clears every trail.
AdvanceTrails(session, seq) ==
    /\ trailSeq' = seq
    /\ trails' = IF trailSeq # NoFrame /\ seq <= trailSeq THEN {session}
                                                          ELSE trails \cup {session}

\* handle_frame up to its assignment of _latest.
TakePicture(session, seq) ==
    /\ AdvanceTrails(session, seq)
    /\ picture' = session /\ sinceAsked' = (snapshot = "waiting")
    /\ UNCHANGED <<watching, snapshot, moved>>

\* The rest of handle_frame: _sequence moves.
AnnouncePicture ==
    /\ moved' = (snapshot = "waiting")
    /\ UNCHANGED <<watching, snapshot, picture, sinceAsked, trailSeq, trails>>

Clear ==
    /\ picture' = NoFrame /\ trailSeq' = NoFrame /\ trails' = {}
    /\ UNCHANGED <<watching, snapshot, moved, sinceAsked>>

\* stream(): a viewer connects or leaves.
Watch ==
    /\ watching' = ~watching
    /\ UNCHANGED <<snapshot, moved, picture, sinceAsked, trailSeq, trails>>

\* snapshot(): announcing says that a frame is between the two assignments.
Ask(announcing) ==
    /\ snapshot = "none" /\ snapshot' = "waiting"
    /\ moved' = FALSE /\ sinceAsked' = announcing
    /\ UNCHANGED <<watching, picture, trailSeq, trails>>

Answered ==
    /\ snapshot = "waiting" /\ snapshot' = "none"
    /\ moved' = FALSE /\ sinceAsked' = FALSE
    /\ UNCHANGED <<watching, picture, trailSeq, trails>>

\* The sequence moved: what _latest holds is rendered, if it holds anything.
Serve == moved /\ Answered
\* timeout_seconds pass first.
TimesOut == ~moved /\ Answered

Viewers(announcing) == Watch \/ Ask(announcing) \/ Serve \/ TimesOut

(* "Waits for a frame captured after the request, never serving whatever   *)
(* was left behind": whatever thread captures and whatever is cleared in   *)
(* between.                                                                *)
SnapshotIsFresh == moved /\ picture # NoFrame => sinceAsked
=============================================================================
