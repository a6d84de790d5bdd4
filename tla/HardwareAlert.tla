---------------------------- MODULE HardwareAlert ----------------------------
(***************************************************************************)
(* HardwareAlertService driving the alert board of AlertFirmware.          *)
(*                                                                         *)
(* A pass (step) is cut at its awaits: opening the port, waiting for the   *)
(* banner, draining, writing, waiting for the reply.  Serial calls run in  *)
(* threads, so a cancelled pass can leave one running.  Every duration is  *)
(* in seconds and Tick lets one pass only when neither the board nor the   *)
(* host has something due, so that timeouts fire on time and not before.   *)
(***************************************************************************)
EXTENDS AlertFirmware

CONSTANTS
    None,
    Keepalive, Reconnect, ReadyTimeout, AckTimeout, TickSeconds,
    TestMax,             \* MAX_TEST_SECONDS
    OpenMax, WriteMax,   \* longest a port takes to open, a line to be written
    MaxLines,            \* bound: lines the host has not read yet
    Scenarios            \* which sets of AllFaults may happen together

AllFaults == {"link", "reset", "crash", "stop", "test"}

ASSUME ServiceAssumption ==
    /\ None \notin Commands \cup {"open"} /\ "open" \notin Commands
    /\ {Keepalive, Reconnect, ReadyTimeout, AckTimeout, TickSeconds, TestMax,
        OpenMax, WriteMax, MaxLines} \subseteq Nat \ {0}
    /\ Scenarios \subseteq SUBSET AllFaults
ASSUME BannerAssumption == BootTime < ReadyTimeout
\* "Must stay well inside the firmware's 10 s link timeout": what well means,
\* the write that stop() makes after a pass it cancelled writing included.
ASSUME KeepaliveAssumption ==
    Keepalive + TickSeconds + AckTimeout + WriteMax + WriteMax <= LinkTimeout
\* A lost banner is repaired by the keepalive, not later than by reconnecting.
ASSUME ReconnectAssumption == Keepalive + AckTimeout <= Reconnect + OpenMax

VARIABLES
    faults,              \* environment: the scenario, chosen once
    level,               \* environment: what derive_level says now
    linkUp,              \* environment: serial calls succeed
    hpc, hAge,           \* where the pass is, and for how long
    passAge,             \* seconds since the pass read its clock (now)
    sending,
    commanded, cmdAge,   \* _commanded, seconds since _commanded_mono
    reconnectIn,         \* seconds to _next_connect_at
    test, testLeft,      \* _test_command, seconds to _test_expires_mono
    orphan, orphanAge,   \* serial call left running by a cancelled pass
    held,                \* history: seconds since each level was current
    settled, calm        \* history: seconds since the wish changed, since a fault

envVars == <<level, linkUp, faults>>
passVars == <<hpc, hAge, passAge>>
cmdVars == <<sending, commanded, cmdAge>>
testVars == <<test, testLeft>>
orphanVars == <<orphan, orphanAge>>
history == <<held, settled, calm>>
vars == <<boardVars, envVars, passVars, connected, cmdVars, reconnectIn, testVars,
          orphanVars, history>>

Off == hpc = "off"
Passing == hpc \in {"open", "ready", "drain", "write", "ack"}
MaxPass == OpenMax + ReadyTimeout + WriteMax + AckTimeout
Due == Keepalive + MaxPass        \* _commanded_mono is None: any pass resends
PromptWithin == TickSeconds + AckTimeout + WriteMax + WriteMax
\* The first command of a connection may be of a test that ended meanwhile.
InStepWithin == Reconnect + TickSeconds + OpenMax + ReadyTimeout + PromptWithin
Upto(n, bound) == IF n > bound THEN bound ELSE n

\* What the hardware should show now, by the service's own definition.
Wanted == IF test # None /\ testLeft > 0 THEN test ELSE level

TypeOK ==
    /\ BoardTypeOK
    /\ level \in LevelCommands /\ linkUp \in BOOLEAN /\ faults \in Scenarios
    /\ hpc \in {"off", "idle", "open", "ready", "drain", "write", "ack",
                "stopWrite", "stopAck"}
    /\ hAge \in 0 .. MaxPass + TickSeconds /\ passAge \in 0 .. MaxPass
    /\ sending \in Commands \cup {None} /\ commanded \in Commands \cup {None}
    /\ cmdAge \in 0 .. Due /\ reconnectIn \in 0 .. Reconnect
    /\ test \in Commands \cup {None} /\ testLeft \in -MaxPass .. TestMax
    /\ orphan \in Commands \cup {None, "open"} /\ orphanAge \in 0 .. MaxPass
    /\ held \in [Levels -> 0 .. LinkTimeout + WriteMax + 2]
    /\ settled \in 0 .. PromptWithin + 1 /\ calm \in 0 .. InStepWithin + 1

Init ==
    /\ BoardInit
    /\ level \in LevelCommands /\ linkUp = TRUE /\ faults \in Scenarios
    /\ hpc = "off" /\ hAge = 0 /\ passAge = 0
    /\ sending = None /\ commanded = None /\ cmdAge = Due
    /\ reconnectIn = 0 /\ test = None /\ testLeft = 0
    /\ orphan = None /\ orphanAge = 0
    /\ held = [l \in Levels |-> IF l = level THEN 0 ELSE LinkTimeout + WriteMax + 2]
    /\ settled = 0 /\ calm = 0

-----------------------------------------------------------------------------
(* A pass.                                                                 *)

At(pc) == hpc' = pc /\ hAge' = 0
PassEnds == At("idle") /\ passAge' = 0
Undisturbed == UNCHANGED <<envVars, orphanVars, history>>

\* step begins: the tick is over or a report woke _run.
StepBegin ==
    /\ hpc = "idle"
    /\ \/ connected /\ At("drain")
       \/ ~connected /\ reconnectIn = 0 /\ At("open")
       \/ ~connected /\ reconnectIn > 0 /\ At("idle")
    /\ passAge' = 0
    /\ Undisturbed /\ UNCHANGED <<boardVars, connected, cmdVars, reconnectIn, testVars>>

\* _next_connect_at is counted from the pass's own now.
ReconnectWait == IF Reconnect > passAge THEN Reconnect - passAge ELSE 0

\* _fail and _close.
Failed ==
    /\ reconnectIn' = ReconnectWait
    /\ connected' = FALSE
    /\ PassEnds

\* transport.open returns: opening the port resets the board.
OpenOk ==
    /\ hpc = "open" /\ linkUp
    /\ BoardRestarted /\ toHost' = <<>>
    /\ connected' = TRUE /\ reconnectIn' = 0
    /\ commanded' = None /\ cmdAge' = Due
    /\ At("ready")
    /\ Undisturbed /\ UNCHANGED <<passAge, sending, testVars>>

OpenFails ==
    /\ hpc = "open" /\ ~linkUp
    /\ Failed
    /\ Undisturbed /\ UNCHANGED <<boardVars, cmdVars, testVars>>

\* _read_until READY: other lines are passed over.
AwaitReady ==
    /\ hpc = "ready" /\ linkUp
    /\ \/ /\ toHost # <<>>
          /\ toHost' = Tail(toHost)
          /\ IF Head(toHost) = READY THEN At("drain") ELSE UNCHANGED <<hpc, hAge>>
       \/ /\ toHost = <<>> /\ hAge >= ReadyTimeout
          /\ At("drain") /\ UNCHANGED toHost
    /\ Undisturbed
    /\ UNCHANGED <<mode, linkEstablished, quiet, boot, toBoard, passAge, connected,
                   cmdVars, reconnectIn, testVars>>

\* Any serial call of a connected pass raises.
LinkBreaks ==
    /\ hpc \in {"ready", "drain", "write", "ack"} /\ ~linkUp
    /\ Failed
    /\ toHost' = <<>>
    /\ Undisturbed
    /\ UNCHANGED <<mode, linkEstablished, quiet, boot, toBoard, cmdVars, testVars>>

\* _drain: a restart or a lost link means the command must be sent again.
DrainLine ==
    /\ hpc = "drain" /\ linkUp /\ toHost # <<>>
    /\ toHost' = Tail(toHost)
    /\ commanded' = IF Head(toHost) \in {READY, LINK_LOST} THEN None ELSE commanded
    /\ Undisturbed
    /\ UNCHANGED <<mode, linkEstablished, quiet, boot, toBoard, passVars, connected,
                   sending, cmdAge, reconnectIn, testVars>>

(* _desired by the pass's now; an expired test is forgotten.               *)

\* Mutant: a test lasts until it is stopped.
TestRunsOn == test # None

TestRuns == test # None /\ testLeft + passAge > 0
Desired == IF TestRuns THEN test ELSE level

MustSend(c) == c # commanded \/ cmdAge - passAge >= Keepalive

Decide ==
    /\ hpc = "drain" /\ linkUp /\ toHost = <<>>
    /\ IF MustSend(Desired)
       THEN At("write") /\ sending' = Desired /\ UNCHANGED passAge
       ELSE PassEnds /\ UNCHANGED sending
    /\ IF TestRuns THEN UNCHANGED testVars ELSE test' = None /\ testLeft' = 0
    /\ Undisturbed
    /\ UNCHANGED <<boardVars, connected, commanded, cmdAge, reconnectIn>>

\* A line on the wire; a booting board does not read it.
Transmit(c) ==
    /\ toBoard' = IF boot = 0 THEN Append(toBoard, c) ELSE toBoard
    /\ UNCHANGED <<mode, linkEstablished, quiet, boot, toHost>>

\* write_line returns.
Written ==
    /\ hpc = "write" /\ linkUp
    /\ Transmit(sending)
    /\ commanded' = sending
    /\ At("ack")
    /\ Undisturbed /\ UNCHANGED <<passAge, connected, sending, cmdAge, reconnectIn, testVars>>

\* _read_until OK or ERR, or the ack timeout; _commanded_mono becomes now.
AwaitReply ==
    /\ hpc = "ack" /\ linkUp
    /\ \/ /\ toHost # <<>>
          /\ toHost' = Tail(toHost)
          /\ IF Head(toHost) \in Commands THEN PassEnds /\ cmdAge' = passAge
                                          ELSE UNCHANGED <<passVars, cmdAge>>
       \/ /\ toHost = <<>> /\ hAge >= AckTimeout
          /\ PassEnds /\ cmdAge' = passAge /\ UNCHANGED toHost
    /\ Undisturbed
    /\ UNCHANGED <<mode, linkEstablished, quiet, boot, toBoard, connected, sending,
                   commanded, reconnectIn, testVars>>

-----------------------------------------------------------------------------
(* Starting, stopping, crashing.                                           *)

Disturbed == calm' = 0 /\ settled' = 0

Start ==
    /\ Off /\ orphan = None
    /\ At("idle") /\ passAge' = 0 /\ connected' = FALSE
    /\ sending' = None /\ commanded' = None /\ cmdAge' = Due /\ reconnectIn' = 0
    /\ test' = None /\ testLeft' = 0
    /\ Disturbed
    /\ UNCHANGED <<boardVars, envVars, orphanVars, held>>

\* stop() cancels the pass; a serial call it was awaiting runs on.
Stop ==
    /\ "stop" \in faults
    /\ hpc = "idle" \/ Passing
    /\ orphan' = IF hpc = "write" THEN sending ELSE IF hpc = "open" THEN "open" ELSE None
    /\ orphanAge' = IF hpc \in {"write", "open"} THEN hAge ELSE 0
    /\ IF connected THEN At("stopWrite") ELSE At("off")
    /\ passAge' = 0
    /\ UNCHANGED <<boardVars, envVars, connected, cmdVars, reconnectIn, testVars, history>>

\* The orphaned thread's call takes effect, or fails as the pass's would have.
OrphanActs ==
    /\ \/ orphan \in Commands /\ linkUp /\ Transmit(orphan)
       \/ orphan = "open" /\ linkUp /\ BoardRestarted /\ UNCHANGED toHost
       \/ orphan # None /\ ~linkUp /\ UNCHANGED boardVars
    /\ orphan' = None /\ orphanAge' = 0
    /\ UNCHANGED <<envVars, passVars, connected, cmdVars, reconnectIn, testVars,
                   history>>

StopWritten ==
    /\ hpc = "stopWrite" /\ linkUp
    /\ Transmit(NO_DATA) /\ commanded' = NO_DATA
    /\ At("stopAck")
    /\ Undisturbed
    /\ UNCHANGED <<passAge, connected, sending, cmdAge, reconnectIn, testVars>>

Replied == \E i \in DOMAIN toHost : toHost[i] \in Commands

\* The reply came, or did not (the cancelled pass's reader may have taken it),
\* or the link is gone: _close.
StopCloses ==
    /\ \/ hpc = "stopAck" /\ (hAge >= AckTimeout \/ Replied \/ ~linkUp)
       \/ hpc = "stopWrite" /\ ~linkUp
    /\ At("off") /\ connected' = FALSE /\ toHost' = <<>>
    /\ orphan' = None /\ orphanAge' = 0
    /\ UNCHANGED <<mode, linkEstablished, quiet, boot, toBoard, envVars, passAge,
                   cmdVars, reconnectIn, testVars, history>>

\* The process dies; what it had written is on the wire.
Crash ==
    /\ "crash" \in faults /\ ~Off
    /\ At("off") /\ passAge' = 0 /\ connected' = FALSE /\ toHost' = <<>>
    /\ orphan' = None /\ orphanAge' = 0
    /\ UNCHANGED <<mode, linkEstablished, quiet, boot, toBoard, envVars, cmdVars, reconnectIn, testVars, history>>

-----------------------------------------------------------------------------
(* Operator and environment.                                               *)

StartTest(c, d) ==
    /\ "test" \in faults /\ ~Off /\ hpc \notin {"stopWrite", "stopAck"}
    /\ test' = c /\ testLeft' = d
    /\ settled' = 0
    /\ UNCHANGED <<boardVars, envVars, passVars, connected, cmdVars, reconnectIn,
                   orphanVars, held, calm>>

StopTest ==
    /\ test # None /\ ~Off
    /\ test' = None /\ testLeft' = 0
    /\ settled' = 0
    /\ UNCHANGED <<boardVars, envVars, passVars, connected, cmdVars, reconnectIn,
                   orphanVars, held, calm>>

LevelChanges(l) ==
    /\ l # level /\ level' = l
    /\ held' = IF l \in Levels THEN [held EXCEPT ![l] = 0] ELSE held
    /\ settled' = 0
    /\ UNCHANGED <<boardVars, linkUp, faults, passVars, connected, cmdVars, reconnectIn,
                   testVars, orphanVars, calm>>

LinkChanges ==
    /\ "link" \in faults
    /\ linkUp' = ~linkUp /\ Disturbed
    /\ UNCHANGED <<boardVars, level, faults, passVars, connected, cmdVars, reconnectIn,
                   testVars, orphanVars, held>>

\* Power glitch or reset button.
BoardResets ==
    /\ "reset" \in faults
    /\ boot = 0 /\ Len(toHost) < MaxLines
    /\ BoardRestarted /\ Disturbed /\ UNCHANGED toHost
    /\ UNCHANGED <<envVars, passVars, connected, cmdVars, reconnectIn, testVars,
                   orphanVars, held>>

BoardActs ==
    /\ BoardReads \/ BoardTimesOut
    /\ UNCHANGED <<envVars, passVars, connected, cmdVars, reconnectIn, testVars,
                   orphanVars, history>>

\* Nothing the host is doing is due before the next second.
HostWaits ==
    \/ Off
    \/ hpc = "idle" /\ hAge < TickSeconds
    \/ hpc = "open" /\ hAge < OpenMax
    \/ hpc \in {"write", "stopWrite"} /\ hAge < WriteMax /\ linkUp
    \/ hpc = "ready" /\ hAge < ReadyTimeout /\ toHost = <<>> /\ linkUp
    \/ hpc = "ack" /\ hAge < AckTimeout /\ toHost = <<>> /\ linkUp
    \/ hpc = "stopAck" /\ hAge < AckTimeout /\ linkUp

OrphanWaits ==
    \/ orphan = None
    \/ linkUp /\ orphanAge < (IF orphan = "open" THEN OpenMax ELSE WriteMax)

Tick ==
    /\ BoardIdle /\ HostWaits /\ OrphanWaits
    /\ BoardElapses
    /\ hAge' = IF Off THEN hAge ELSE hAge + 1
    /\ passAge' = IF Passing THEN passAge + 1 ELSE passAge
    /\ cmdAge' = Upto(cmdAge + 1, Due)
    /\ reconnectIn' = IF reconnectIn > 0 THEN reconnectIn - 1 ELSE 0
    /\ testLeft' = IF test # None /\ testLeft > -MaxPass THEN testLeft - 1 ELSE testLeft
    /\ held' = [l \in Levels |-> IF l = level THEN 0
                                 ELSE Upto(held[l] + 1, LinkTimeout + WriteMax + 2)]
    /\ settled' = IF test # None /\ testLeft = 1 THEN 0 ELSE Upto(settled + 1, PromptWithin + 1)
    /\ calm' = Upto(calm + 1, InStepWithin + 1)
    /\ orphanAge' = IF orphan = None THEN 0 ELSE orphanAge + 1
    /\ UNCHANGED <<envVars, hpc, connected, sending, commanded, test, orphan>>

-----------------------------------------------------------------------------
Pass == StepBegin \/ OpenOk \/ OpenFails \/ AwaitReady \/ LinkBreaks \/ DrainLine
        \/ Decide \/ Written \/ AwaitReply
Lifecycle == Start \/ Stop \/ OrphanActs \/ StopWritten \/ StopCloses \/ Crash
Environment ==
    \/ \E c \in Tests, d \in 1 .. TestMax : StartTest(c, d)
    \/ StopTest \/ LinkChanges \/ BoardResets
    \/ \E l \in LevelCommands : LevelChanges(l)

Next == Pass \/ Lifecycle \/ Environment \/ BoardActs \/ Tick

Spec == Init /\ [][Next]_vars

-----------------------------------------------------------------------------
(* What the LED claims about the crowd was true at most a link timeout and *)
(* one write ago, whatever happened to the link, the board or the backend. *)
ClaimIsFresh == mode \in Levels => held[mode] <= LinkTimeout + WriteMax + 1

(* The service's whole purpose.  On a link and a board undisturbed for      *)
(* InStepWithin seconds, a level or a test that began or ended PromptWithin *)
(* seconds ago, a tick and the exchange in progress, is on display: not a   *)
(* keepalive later, and whatever banners, lines and replies were lost       *)
(* before the calm.                                                         *)
BoardInStep ==
    (hpc = "idle" \/ Passing) /\ linkUp /\ calm > InStepWithin /\ settled > PromptWithin
        => mode = Wanted

(* "Must stay well inside the firmware's 10 s link timeout": while the     *)
(* service holds the port, keepalives never let the board lose the link.   *)
KeepaliveHoldsLink == connected => mode # LINK_LOST

(* The service keeps the board in step and on the link, through lost       *)
(* lines, resets and its own delays.                                       *)
BoardIsKept == TypeOK /\ BoardInStep /\ KeepaliveHoldsLink
=============================================================================
