---------------------------- MODULE AlertFirmware ----------------------------
(***************************************************************************)
(* The sketch on the alert board: the mode it displays, the serial line in *)
(* each direction, and the timeout after which it stops claiming a level.  *)
(* Time is counted in seconds; the actions here are the board's reactions, *)
(* which take no time, and BoardElapses is its share of a second passing.  *)
(***************************************************************************)
EXTENDS Integers, Sequences

CONSTANTS
    Levels,        \* NORMAL, WARNING, CRITICAL: claims about the crowd
    NO_DATA,       \* the level command that claims nothing
    Tests,         \* TEST commands
    LinkTimeout,   \* LINK_TIMEOUT_MS
    BootTime       \* an Uno's boot after power-up or a reset, in seconds

LevelCommands == Levels \cup {NO_DATA}
Commands == LevelCommands \cup Tests

WAITING == "WAITING"
LINK_LOST == "LINK_LOST"
READY == "READY"

ASSUME FirmwareAssumption ==
    /\ LinkTimeout \in Nat \ {0} /\ BootTime \in Nat \ {0}
    /\ NO_DATA \notin Levels /\ LevelCommands \cap Tests = {}
    /\ {WAITING, LINK_LOST, READY} \cap Commands = {}

VARIABLES
    mode,              \* g_mode
    linkEstablished,   \* g_linkEstablished
    quiet,             \* seconds since g_lastLevelCommandAt, up to the timeout
    boot,              \* seconds of boot left; the board answers only at 0
    toBoard, toHost,   \* bytes on the wire, as whole lines
    connected          \* the host holds the port open

boardVars == <<mode, linkEstablished, quiet, boot, toBoard, toHost>>

Modes == Commands \cup {WAITING, LINK_LOST}
Lines == Commands \cup {READY, LINK_LOST}   \* a command stands for "OK <command>"

BoardTypeOK ==
    /\ mode \in Modes
    /\ linkEstablished \in BOOLEAN
    /\ quiet \in 0 .. LinkTimeout + 1
    /\ boot \in 0 .. BootTime
    /\ toBoard \in Seq(Commands) /\ toHost \in Seq(Lines)
    /\ connected \in BOOLEAN

BoardInit ==
    /\ mode = WAITING /\ linkEstablished = FALSE /\ quiet = 0
    /\ boot = 0 /\ toBoard = <<>> /\ toHost = <<>> /\ connected = FALSE

-----------------------------------------------------------------------------
\* reply: a line printed while nobody holds the port is lost.
Reply(line) == toHost' = IF connected THEN Append(toHost, line) ELSE <<>>

\* handleCommand for a level: acceptLevel restarts the link timeout.
AcceptLevel(c) ==
    /\ mode' = c
    /\ linkEstablished' = TRUE /\ quiet' = 0

\* handleCommand for TEST: the timeout keeps counting from the last level.
AcceptTest(c) ==
    /\ mode' = c
    /\ UNCHANGED <<linkEstablished, quiet>>

\* loop -> readSerial: every waiting line is handled and answered.
BoardReads ==
    /\ boot = 0 /\ toBoard # <<>>
    /\ LET c == Head(toBoard)
       IN  /\ IF c \in Tests THEN AcceptTest(c) ELSE AcceptLevel(c)
           /\ Reply(c)
    /\ toBoard' = Tail(toBoard)
    /\ UNCHANGED boot

\* Mutant: only the mode that claims nothing is timed.
TimesNoDataOnly == linkEstablished /\ mode = NO_DATA /\ quiet > LinkTimeout

\* loop: the level on display has outlived the link.
LinkTimedOut == linkEstablished /\ mode \in LevelCommands /\ quiet > LinkTimeout

BoardTimesOut ==
    /\ boot = 0 /\ toBoard = <<>> /\ LinkTimedOut
    /\ mode' = LINK_LOST
    /\ Reply(LINK_LOST)
    /\ UNCHANGED <<linkEstablished, quiet, boot, toBoard>>

\* Power-up, or the reset that opening the port causes: state is initialised
\* again and what was on its way to the board is lost.
BoardRestarted ==
    /\ mode' = WAITING /\ linkEstablished' = FALSE /\ quiet' = 0
    /\ boot' = BootTime /\ toBoard' = <<>>

\* Nothing is waiting for the board to react, so time may pass for it.
BoardIdle == boot > 0 \/ (toBoard = <<>> /\ ~LinkTimedOut)

\* A second passes; setup() ends with the READY banner.
BoardElapses ==
    /\ quiet' = IF quiet > LinkTimeout THEN quiet ELSE quiet + 1
    /\ boot' = IF boot > 0 THEN boot - 1 ELSE 0
    /\ IF boot = 1 THEN Reply(READY) ELSE UNCHANGED toHost
    /\ UNCHANGED <<mode, linkEstablished, toBoard>>
=============================================================================
