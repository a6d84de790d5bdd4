------------------------------ MODULE CameraBoard ------------------------------
(***************************************************************************)
(* One camera on one Command Center's board: its card and its latest       *)
(* analysis, from the camera's services through the throttled publisher    *)
(* and the connection to the client's reducers, and over REST while the    *)
(* socket is down.                                                         *)
(*                                                                         *)
(* As in CommandCenterLink a step is what runs between two awaits, and     *)
(* every queue is first in, first out.  Frames keep coming while the       *)
(* camera is there.  A window whose analysis raises is left out.           *)
(***************************************************************************)
EXTENDS Naturals, Sequences

CONSTANTS
    Analyses,         \* records of an OperationalStatus, band, and a figure
    Interval,         \* assessment_min_interval_seconds, in ticks
    MaxBacklog        \* bound on messages on their way

None == [band |-> "none", figure |-> "none"]
ConstantsAssumption ==
    /\ \A x \in Analyses : x.band # None.band
    /\ Interval \in Nat /\ MaxBacklog \in Nat

VARIABLES
    present, latest,            \* CameraManager has it; CrowdIntelligenceService._latest
    dispatched, sending, outbox,
    rest,                       \* of the rate floor since _last_camera_analysis_at
    connected, building,        \* the connection; a snapshot in the making
    polling, poll,              \* useFallbackPolling: active, and the poll in flight
    board, whole                \* the client's LiveData; the last snapshot was whole

boardVars == <<present, latest, dispatched, sending, outbox, rest, connected, building,
               polling, poll, board, whole>>

Idle == [step |-> "idle", camera |-> FALSE, analysis |-> None]

Init ==
    /\ present \in BOOLEAN /\ latest = None
    /\ dispatched = <<>> /\ sending = <<>> /\ outbox = <<>>
    /\ rest = 0
    /\ connected = FALSE /\ building = FALSE
    /\ polling = FALSE /\ poll = Idle
    /\ board = [camera |-> FALSE, analysis |-> None] /\ whole = FALSE

-----------------------------------------------------------------------------
(* The camera.                                                             *)

Backlog == Len(dispatched) + Len(sending) + Len(outbox)

\* StatusTracker: the first window after a reset changes the status too.
Changed(x) == latest.band # x.band

Window(x) ==
    /\ present /\ Backlog < MaxBacklog /\ latest' = x
    /\ dispatched' = Append(dispatched, [type |-> "analysis", analysis |-> x, changed |-> Changed(x)])
    /\ UNCHANGED <<present, sending, outbox, rest, connected, building, polling, poll, board, whole>>

\* An operator adds, edits or removes the camera, and it is announced when it
\* is done.  Removing or disabling it, or drawing its zones, clears what was
\* analysed; another edit does not.
Edit(there) ==
    /\ Backlog < MaxBacklog
    /\ present \/ there
    /\ present' = there
    /\ latest' = None \/ (there /\ UNCHANGED latest)
    /\ dispatched' = Append(dispatched, [type |-> "cameras"])
    /\ UNCHANGED <<sending, outbox, rest, connected, building, polling, poll, board, whole>>

-----------------------------------------------------------------------------
(* RealtimePublisher.                                                      *)

CamerasMessage == [type |-> "cameras", camera |-> present]

\* Mutant: a band transition waits for the rate floor.
PassesRested(m) == rest = 0

Passes(m) == m.changed \/ rest = 0

\* Mutant: a window that is held back starts the floor again.
FloorFromEveryWindow(m) == Interval

FloorAfter(m) == IF Passes(m) THEN Interval ELSE rest

\* A dispatched task runs; what it sends of the cameras it reads now.
Broadcast ==
    /\ dispatched # <<>> /\ dispatched' = Tail(dispatched)
    /\ LET m == Head(dispatched)
       IN  IF ~connected THEN UNCHANGED <<sending, rest>>
           ELSE IF m.type = "cameras"
           THEN sending' = Append(sending, CamerasMessage) /\ UNCHANGED rest
           ELSE /\ sending' = IF Passes(m)
                              THEN Append(sending, [type |-> "analysis", analysis |-> m.analysis])
                              ELSE sending
                /\ rest' = FloorAfter(m)
    /\ UNCHANGED <<present, latest, outbox, connected, building, polling, poll, board, whole>>

TimePasses ==
    /\ rest > 0 /\ rest' = rest - 1
    /\ UNCHANGED <<present, latest, dispatched, sending, outbox, connected, building, polling,
                   poll, board, whole>>

\* One round of _broadcast_camera_status.
StatusPush ==
    /\ connected /\ Backlog < MaxBacklog /\ sending' = Append(sending, CamerasMessage)
    /\ UNCHANGED <<present, latest, dispatched, outbox, rest, connected, building, polling,
                   poll, board, whole>>

-----------------------------------------------------------------------------
(* ConnectionManager, the snapshot and the socket.                         *)

SendStarts ==
    /\ sending # <<>> /\ sending' = Tail(sending) /\ outbox' = Append(outbox, Head(sending))
    /\ UNCHANGED <<present, latest, dispatched, rest, connected, building, polling, poll, board,
                   whole>>

Connect ==
    /\ ~connected /\ connected' = TRUE /\ building' = TRUE
    /\ UNCHANGED <<present, latest, dispatched, sending, outbox, rest, polling, poll, board, whole>>

Resync ==
    /\ connected /\ ~polling /\ ~building /\ Backlog < MaxBacklog /\ building' = TRUE
    /\ UNCHANGED <<present, latest, dispatched, sending, outbox, rest, connected, polling, poll,
                   board, whole>>

\* The camera section is read in one step, and may fail.
SnapshotBuilt(all) ==
    /\ building /\ building' = FALSE
    /\ outbox' = Append(outbox, [type |-> "snapshot", camera |-> all /\ present,
                                 analysis |-> IF all THEN latest ELSE None, all |-> all])
    /\ UNCHANGED <<present, latest, dispatched, sending, rest, connected, polling, poll, board,
                   whole>>

\* The link is reconnecting, and polling begins.
Disconnect ==
    /\ connected /\ connected' = FALSE /\ building' = FALSE
    /\ sending' = <<>> /\ outbox' = <<>> /\ polling' = TRUE
    /\ UNCHANGED <<present, latest, dispatched, rest, poll, board, whole>>

\* The client's socket is open: the poll in flight is aborted.
Opens ==
    /\ connected /\ polling /\ polling' = FALSE /\ poll' = Idle
    /\ UNCHANGED <<present, latest, dispatched, sending, outbox, rest, connected, building,
                   board, whole>>

-----------------------------------------------------------------------------
(* The reducers.                                                           *)

WithCameras(b, there) == [camera |-> there, analysis |-> IF there THEN b.analysis ELSE None]

Applied(m) ==
    IF m.type = "cameras" THEN WithCameras(board, m.camera)
    ELSE IF m.type = "analysis" THEN [board EXCEPT !.analysis = m.analysis]
    ELSE [camera |-> m.camera, analysis |-> m.analysis]

Deliver ==
    /\ outbox # <<>> /\ ~polling /\ outbox' = Tail(outbox)
    /\ board' = Applied(Head(outbox))
    /\ whole' = IF Head(outbox).type = "snapshot" THEN Head(outbox).all ELSE whole
    /\ UNCHANGED <<present, latest, dispatched, sending, rest, connected, building, polling, poll>>

\* A poll asks for the cameras, then for their analyses, then lands.
PollLists ==
    /\ polling /\ poll.step = "idle"
    /\ poll' = [Idle EXCEPT !.step = "listed", !.camera = present]
    /\ UNCHANGED <<present, latest, dispatched, sending, outbox, rest, connected, building,
                   polling, board, whole>>

PollFetches(answered) ==
    /\ poll.step = "listed"
    /\ poll' = [poll EXCEPT !.step = "fetched",
                            !.analysis = IF poll.camera /\ answered THEN latest ELSE None]
    /\ UNCHANGED <<present, latest, dispatched, sending, outbox, rest, connected, building,
                   polling, board, whole>>

Fallback(b, p) ==
    [WithCameras(b, p.camera) EXCEPT !.analysis = IF p.analysis = None THEN @ ELSE p.analysis]

PollLands ==
    /\ poll.step = "fetched" /\ board' = Fallback(board, poll) /\ poll' = Idle
    /\ UNCHANGED <<present, latest, dispatched, sending, outbox, rest, connected, building,
                   polling, whole>>

Polls == PollLists \/ PollLands \/ \E answered \in BOOLEAN : PollFetches(answered)

Next ==
    \/ \E x \in Analyses : Window(x)
    \/ \E there \in BOOLEAN : Edit(there)
    \/ Broadcast \/ TimePasses \/ StatusPush \/ SendStarts
    \/ Connect \/ Resync \/ Disconnect \/ Opens \/ Deliver
    \/ \E b \in BOOLEAN : SnapshotBuilt(b)
    \/ Polls

\* Tasks that can run do, what is written arrives, time passes, frames keep
\* coming, and requests are answered now and then.
Fairness ==
    /\ WF_boardVars(Broadcast) /\ WF_boardVars(SendStarts) /\ WF_boardVars(Deliver)
    /\ WF_boardVars(\E b \in BOOLEAN : SnapshotBuilt(b))
    /\ WF_boardVars(TimePasses) /\ SF_boardVars(\E x \in Analyses : Window(x))
    /\ WF_boardVars(Polls) /\ SF_boardVars(PollFetches(TRUE))

Spec == Init /\ [][Next]_boardVars /\ Fairness

-----------------------------------------------------------------------------
(* Properties.                                                             *)

Shown == Analyses \cup {None}
TypeOK ==
    /\ latest \in Shown /\ rest \in 0 .. Interval
    /\ poll \in [step : {"idle", "listed", "fetched"}, camera : BOOLEAN, analysis : Shown]
    /\ board \in [camera : BOOLEAN, analysis : Shown]
    /\ building => connected
    /\ poll.step # "idle" => polling

\* Nothing is on its way to a client whose socket is open.
Quiet == connected /\ ~building /\ ~polling /\ Backlog = 0

\* "A status change is always sent immediately": with nothing on its way the
\* board shows the status the camera is in, whatever the rate floor held back
\* and however snapshots and a poll overlapped with the updates.
BandIsShown ==
    Quiet /\ latest # None =>
        \/ board.analysis.band = latest.band
        \/ board.analysis = None /\ ~whole

\* "A removed camera takes its analysis with it": with nothing on its way the
\* board has a card for the camera just if it is there, and no analysis
\* without it, even if updates of it were on their way when it was removed.
CardIsTrue == Quiet => /\ board.camera => present
                       /\ present /\ whole => board.camera
                       /\ ~present => board.analysis = None

\* The rate floor delays figures and starves none of them, and polling stands
\* in for the socket: figures that stay come to be shown, while frames keep
\* coming, over the connection if it lasts and by polling if it stays down.
\* Only a snapshot whose camera section failed leaves a blank.
Told ==
    \/ board.analysis = latest \/ latest = None
    \/ connected /\ board.analysis = None /\ ~whole
    \/ ~connected /\ ~polling
BoardCatchesUp ==
    []<>Told \/ []<><<latest' # latest \/ connected' # connected>>_boardVars

(* With nothing on its way the board is right about the camera and its     *)
(* status.                                                                 *)
BoardIsTrue == TypeOK /\ BandIsShown /\ CardIsTrue
=============================================================================
