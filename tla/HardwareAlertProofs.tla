-------------------------- MODULE HardwareAlertProofs --------------------------
(***************************************************************************)
(* Theorems about HardwareAlert, for every duration the assumptions allow: *)
(* how old the claim on the board may be, that keepalives hold the link,   *)
(* and that a calm board shows what the service wants.                     *)
(***************************************************************************)
EXTENDS HardwareAlert, SequenceTheorems, TLAPS

Live == hpc = "idle" \/ Passing

\* What the board shows once it has read its line.
LastCommand == IF toBoard = <<>> THEN mode ELSE toBoard[Len(toBoard)]

\* The board shows what the service remembers to have sent.
Synced == connected /\ LastCommand \in Commands /\ commanded \in {None, LastCommand}

\* A lost banner is noticed by the next keepalive; a connection and its first
\* command take so long.
Recover == Keepalive + AckTimeout
Connect == Reconnect + TickSeconds + OpenMax
Reach == Connect + ReadyTimeout + WriteMax

(* Where a pass is and how long it has taken.                              *)
PassInv ==
    /\ hpc = "idle" => hAge <= TickSeconds /\ passAge = 0
    /\ hpc = "open" => hAge <= OpenMax /\ passAge = hAge
    /\ hpc = "ready" => hAge <= ReadyTimeout /\ hAge <= passAge /\ passAge <= OpenMax + hAge
    /\ hpc = "drain" => hAge = 0 /\ passAge <= OpenMax + ReadyTimeout
    /\ hpc = "write" =>
          hAge <= WriteMax /\ hAge <= passAge /\ passAge <= OpenMax + ReadyTimeout + hAge
    /\ hpc = "ack" =>
          /\ hAge <= AckTimeout /\ hAge <= passAge
          /\ passAge <= OpenMax + ReadyTimeout + WriteMax + hAge
    /\ hpc = "stopWrite" => hAge <= WriteMax
    /\ hpc = "stopAck" => hAge <= AckTimeout

(* Who holds the port, and what a booting or just opened board knows.      *)
PortInv ==
    /\ hpc \in {"ready", "drain", "write", "ack", "stopWrite", "stopAck"} => connected = TRUE
    /\ hpc \in {"off", "open"} => connected = FALSE
    /\ boot > 0 => mode = WAITING /\ toBoard = <<>>
    /\ mode \in LevelCommands => linkEstablished = TRUE
    /\ hpc = "ready" \/ (hpc = "drain" /\ passAge > 0) =>
          commanded = None /\ mode = WAITING /\ toBoard = <<>>
    /\ hpc = "write" => sending \in Commands
    /\ test \in Tests \cup {None}
    /\ Live => orphan = None
    /\ orphan = "open" => hpc = "off"
    /\ orphan \in Commands => orphanAge <= WriteMax

(* A level on its way or on display was current so long ago.               *)
FreshInv ==
    /\ level \in Levels => held[level] = 0
    /\ hpc = "write" /\ sending \in Levels => held[sending] <= hAge
    /\ orphan \in Levels => held[orphan] <= orphanAge
    /\ \A i \in 1 .. Len(toBoard) : toBoard[i] \in Levels => held[toBoard[i]] <= WriteMax
    /\ mode \in Levels => held[mode] <= WriteMax + quiet

(* How long a board that shows a level has heard nothing.                  *)
Quiet(bound) == mode \in LevelCommands /\ toBoard = <<>> => quiet <= bound
Aged(span) == span <= cmdAge \/ cmdAge = Due
LinkInv ==
    connected = TRUE =>
    /\ mode # LINK_LOST
    /\ hpc = "idle" => Quiet(Recover + hAge)
    /\ hpc = "drain" => Quiet(Recover + TickSeconds)
    /\ hpc \in {"idle", "drain"} /\ mode \in LevelCommands /\ toBoard = <<>> => Aged(quiet)
    /\ hpc = "write" => Quiet(Recover + TickSeconds + hAge)
    /\ hpc \in {"ack", "stopAck"} => Quiet(hAge)
    /\ hpc = "stopWrite" => Quiet(Recover + TickSeconds + WriteMax + hAge)

(* A board boots because it was disturbed, or because its port was opened. *)
BootInv ==
    connected = TRUE /\ Live /\ boot > 0 =>
        \/ calm + boot <= BootTime
        \/ hpc = "ready" /\ hAge + boot <= BootTime /\ toHost = <<>>

(* How long a pass may be without a board that shows what was sent.        *)
ReachInv ==
    linkUp = TRUE /\ Live /\ ~Synced =>
    /\ hpc = "idle" /\ connected = FALSE /\ reconnectIn > 0 => calm <= Reconnect - reconnectIn
    /\ hpc = "idle" /\ connected = FALSE /\ reconnectIn = 0 => calm <= Reconnect + hAge
    /\ hpc = "idle" /\ connected = TRUE =>
          calm <= BootTime + Recover + hAge /\ Aged(calm - BootTime)
    /\ hpc = "open" => calm <= Reconnect + TickSeconds + hAge
    /\ hpc = "ready" => calm <= Connect + hAge
    /\ hpc = "drain" =>
          \/ commanded = None /\ calm <= Connect + ReadyTimeout
          \/ calm <= BootTime + Recover + TickSeconds /\ Aged(calm - BootTime)
    /\ hpc = "write" => calm <= Connect + ReadyTimeout + hAge
    /\ hpc = "ack" => calm <= BootTime + hAge

(* How long the board may show, or be about to show, another wish.         *)
Since(wish, span) == settled <= wish + span \/ calm <= Reach + AckTimeout + span
WishInv ==
    linkUp = TRUE /\ Live /\ Synced =>
    /\ LastCommand # Wanted =>
          /\ hpc = "idle" => Since(WriteMax + AckTimeout, hAge)
          /\ hpc = "drain" => Since(WriteMax + AckTimeout, TickSeconds)
          /\ hpc = "write" /\ sending = Wanted => Since(WriteMax + AckTimeout, TickSeconds + hAge)
          /\ hpc = "ack" => settled <= WriteMax + hAge \/ calm <= Reach + hAge
    /\ hpc = "write" /\ sending # Wanted => settled <= hAge
    /\ toBoard # <<>> =>
          \/ settled <= PromptWithin \/ calm <= InStepWithin
          \/ mode = Wanted /\ \A i \in 1 .. Len(toBoard) : toBoard[i] = Wanted

IInv == /\ TypeOK /\ PassInv /\ PortInv /\ FreshInv
        /\ LinkInv /\ BootInv /\ ReachInv /\ WishInv

-----------------------------------------------------------------------------
(* About the durations and the operators.                                  *)

LEMMA Durations ==
    /\ LinkTimeout \in Nat /\ BootTime \in Nat /\ Keepalive \in Nat /\ Reconnect \in Nat
    /\ ReadyTimeout \in Nat /\ AckTimeout \in Nat /\ TickSeconds \in Nat /\ TestMax \in Nat
    /\ OpenMax \in Nat /\ WriteMax \in Nat /\ MaxLines \in Nat
    /\ LinkTimeout > 0 /\ BootTime > 0 /\ Keepalive > 0 /\ Reconnect > 0
    /\ ReadyTimeout > 0 /\ AckTimeout > 0 /\ TickSeconds > 0 /\ OpenMax > 0 /\ WriteMax > 0
    /\ BootTime < ReadyTimeout
    /\ Recover + TickSeconds + WriteMax + WriteMax <= LinkTimeout
    /\ Recover <= Reconnect + OpenMax
BY FirmwareAssumption, ServiceAssumption, BannerAssumption, KeepaliveAssumption,
   ReconnectAssumption DEF Recover

LEMMA Sums ==
    /\ MaxPass = OpenMax + ReadyTimeout + WriteMax + AckTimeout /\ Due = Keepalive + MaxPass
    /\ Recover = Keepalive + AckTimeout /\ Connect = Reconnect + TickSeconds + OpenMax
    /\ Reach = Connect + ReadyTimeout + WriteMax
    /\ PromptWithin = TickSeconds + AckTimeout + WriteMax + WriteMax
    /\ InStepWithin = Reconnect + TickSeconds + OpenMax + ReadyTimeout + PromptWithin
    /\ MaxPass \in Nat /\ Due \in Nat /\ Recover \in Nat /\ Connect \in Nat /\ Reach \in Nat
    /\ PromptWithin \in Nat /\ InStepWithin \in Nat
BY Durations DEF MaxPass, Due, Recover, Connect, Reach, PromptWithin, InStepWithin

LEMMA Names ==
    /\ Levels \subseteq LevelCommands /\ NO_DATA \notin Levels /\ NO_DATA \in LevelCommands
    /\ LevelCommands \subseteq Commands /\ Tests \subseteq Commands
    /\ \A c \in Commands : c \in Tests <=> c \notin LevelCommands
    /\ \A c \in Commands : c \notin {WAITING, LINK_LOST, READY, None, "open"}
    /\ None # "open" /\ WAITING # LINK_LOST
    /\ Commands \subseteq Modes /\ {WAITING, LINK_LOST} \subseteq Modes
    /\ Commands \subseteq Lines /\ {READY, LINK_LOST} \subseteq Lines
BY FirmwareAssumption, ServiceAssumption
   DEF LevelCommands, Commands, WAITING, LINK_LOST, Modes, Lines

LEMMA UptoBounds ==
    ASSUME NEW n \in Nat, NEW bound \in Nat, n <= bound
    PROVE  /\ Upto(n + 1, bound) \in 0 .. bound /\ Upto(n + 1, bound) <= n + 1
           /\ Upto(n + 1, bound) >= n
           /\ Upto(n + 1, bound) = bound \/ Upto(n + 1, bound) = n + 1
BY DEF Upto

LEMMA Sequence ==
    ASSUME NEW S, NEW s \in Seq(S)
    PROVE  /\ \A x \in S : Append(s, x) \in Seq(S) /\ Append(s, x) # <<>>
                            /\ Append(s, x)[Len(Append(s, x))] = x
                            /\ Len(Append(s, x)) = Len(s) + 1
                            /\ \A i \in 1 .. Len(s) : Append(s, x)[i] = s[i]
           /\ s # <<>> => /\ Tail(s) \in Seq(S) /\ Head(s) \in S /\ Len(s) > 0
                          /\ Len(Tail(s)) = Len(s) - 1 /\ Head(s) = s[1]
                          /\ \A i \in 1 .. Len(s) - 1 : Tail(s)[i] = s[i + 1]
BY AppendProperties, HeadTailProperties, EmptySeq

LEMMA LineAdded ==
    ASSUME NEW s \in Seq(Commands), NEW c \in Commands, NEW t \in {s, Append(s, c)},
           NEW age, NEW bound,
           \A i \in 1 .. Len(s) : s[i] \in Levels => age[s[i]] <= bound,
           c \in Levels => age[c] <= bound
    PROVE  \A i \in 1 .. Len(t) : t[i] \in Levels => age[t[i]] <= bound
<1>1. CASE t = s
  BY <1>1
<1>2. CASE t = Append(s, c)
  BY <1>2, Sequence
<1> QED BY <1>1, <1>2

(* A pass begins.                                                          *)
LEMMA StepBeginKeeps == ASSUME IInv, StepBegin PROVE IInv'
<1> USE Durations, Sums DEF IInv
<1>1. TypeOK' /\ PassInv'
  BY DEF StepBegin, TypeOK, PassInv, At, Undisturbed, BoardTypeOK, boardVars, envVars, orphanVars, history, cmdVars, testVars
<1>2. PortInv'
  BY DEF StepBegin, TypeOK, PortInv, PassInv, At, Undisturbed, BoardTypeOK, boardVars, envVars, orphanVars, history, cmdVars, testVars, Live, Passing
<1>3. FreshInv'
  BY DEF StepBegin, FreshInv, At, Undisturbed, boardVars, envVars, orphanVars, history, cmdVars, testVars
<1>4. LinkInv'
  BY DEF StepBegin, TypeOK, LinkInv, PassInv, At, Undisturbed, BoardTypeOK, boardVars, envVars, orphanVars, history, cmdVars, testVars, Quiet, Aged
<1>5. BootInv'
  BY DEF StepBegin, TypeOK, BootInv, PassInv, At, Undisturbed, BoardTypeOK, boardVars, envVars, orphanVars, history, cmdVars, testVars, Live, Passing
<1>6. ReachInv'
  BY DEF StepBegin, TypeOK, ReachInv, PassInv, At, Undisturbed, BoardTypeOK, boardVars, envVars, orphanVars, history, cmdVars, testVars, Live, Passing, Aged, Synced, LastCommand
<1>7. WishInv'
  BY DEF StepBegin, TypeOK, WishInv, PassInv, At, Undisturbed, BoardTypeOK, boardVars, envVars, orphanVars, history, cmdVars, testVars, Live, Passing, Since, Synced, LastCommand, Wanted
<1> QED BY <1>1, <1>2, <1>3, <1>4, <1>5, <1>6, <1>7

(* The port opens, which resets the board.                                 *)
LEMMA OpenOkKeeps == ASSUME IInv, OpenOk PROVE IInv'
<1>0. boot' \in 0 .. BootTime /\ quiet' \in 0 .. LinkTimeout + 1
  BY Durations DEF OpenOk, BoardRestarted
<1> USE Durations, Sums, Names DEF IInv, TypeOK, OpenOk, BoardRestarted, BoardTypeOK, At, Undisturbed, boardVars, passVars, envVars, orphanVars, history, cmdVars, testVars
<1>1. TypeOK' /\ PassInv'
  <2>1. toBoard' \in Seq(Commands) /\ toHost' \in Seq(Lines)
    BY Sequence, EmptySeq
  <2>2. mode' \in Modes
    OBVIOUS
  <2>3. connected' \in BOOLEAN
    OBVIOUS
  <2>4. linkEstablished' \in BOOLEAN
    OBVIOUS
  <2>5. PassInv'
    BY DEF PassInv, PortInv
  <2>6. UNCHANGED <<level, linkUp, faults>>
    OBVIOUS
  <2>7. hAge' \in 0 .. MaxPass + TickSeconds /\ passAge' \in 0 .. MaxPass
    BY DEF PassInv
  <2>8. /\ sending' \in Commands \cup {None} /\ commanded' \in Commands \cup {None}
        /\ cmdAge' \in 0 .. Due /\ reconnectIn' \in 0 .. Reconnect
    BY DEF PassInv
  <2>9. /\ test' \in Commands \cup {None} /\ testLeft' \in -MaxPass .. TestMax
        /\ orphan' \in Commands \cup {None, "open"} /\ orphanAge' \in 0 .. MaxPass
    BY DEF PassInv
  <2>10. quiet' \in 0 .. LinkTimeout + 1
    BY <1>0
  <2>11. boot' \in 0 .. BootTime
    BY <1>0
  <2>12. UNCHANGED <<held, settled, calm>>
    OBVIOUS
  <2>13. hpc' = "ready"
    OBVIOUS
  <2> HIDE DEF OpenOk
  <2> QED BY <2>1, <2>2, <2>3, <2>4, <2>5, <2>6, <2>7, <2>8, <2>9, <2>10, <2>11,
            <2>12, <2>13
<1>2. PortInv'
  BY DEF PortInv, PassInv, Live, Passing
<1>3. FreshInv'
  BY DEF FreshInv, PortInv, Live, Passing
<1>4. LinkInv'
  BY DEF LinkInv, PassInv, PortInv, Quiet, Aged
<1>5. BootInv'
  BY DEF BootInv, PassInv, PortInv, Live, Passing
<1>6. ReachInv'
  BY DEF ReachInv, BootInv, PassInv, PortInv, Live, Passing, Aged, Synced, LastCommand
<1>7. WishInv'
  BY DEF WishInv, ReachInv, PassInv, PortInv, Live, Passing, Since, Synced, LastCommand, Wanted, Aged
<1> QED BY <1>1, <1>2, <1>3, <1>4, <1>5, <1>6, <1>7

(* The port does not open.                                                 *)
LEMMA OpenFailsKeeps == ASSUME IInv, OpenFails PROVE IInv'
<1> USE Durations, Sums, Names DEF IInv, TypeOK, OpenFails, Failed, PassEnds, ReconnectWait, BoardTypeOK, At, Undisturbed, boardVars, passVars, envVars, orphanVars, history, cmdVars, testVars
<1>1. TypeOK' /\ PassInv'
  <2>1. toBoard' \in Seq(Commands) /\ toHost' \in Seq(Lines)
    BY Sequence, EmptySeq
  <2>2. mode' \in Modes
    OBVIOUS
  <2>3. connected' \in BOOLEAN
    OBVIOUS
  <2>4. linkEstablished' \in BOOLEAN
    OBVIOUS
  <2>5. PassInv'
    BY DEF PassInv, PortInv
  <2>6. UNCHANGED <<level, linkUp, faults>>
    OBVIOUS
  <2>7. hAge' \in 0 .. MaxPass + TickSeconds /\ passAge' \in 0 .. MaxPass
    BY DEF PassInv
  <2>8. /\ sending' \in Commands \cup {None} /\ commanded' \in Commands \cup {None}
        /\ cmdAge' \in 0 .. Due /\ reconnectIn' \in 0 .. Reconnect
    BY DEF PassInv
  <2>9. /\ test' \in Commands \cup {None} /\ testLeft' \in -MaxPass .. TestMax
        /\ orphan' \in Commands \cup {None, "open"} /\ orphanAge' \in 0 .. MaxPass
    BY DEF PassInv
  <2> QED BY <2>1, <2>2, <2>3, <2>4, <2>5, <2>6, <2>7, <2>8, <2>9
<1>2. PortInv'
  BY DEF PortInv, PassInv, Live, Passing
<1>3. FreshInv'
  BY DEF FreshInv, PortInv, Live, Passing
<1>4. LinkInv'
  BY DEF LinkInv, PassInv, PortInv, Quiet, Aged
<1>5. BootInv'
  BY DEF BootInv, PassInv, PortInv, Live, Passing
<1>6. ReachInv'
  BY DEF ReachInv, BootInv, PassInv, PortInv, Live, Passing, Aged, Synced, LastCommand
<1>7. WishInv'
  BY DEF WishInv, ReachInv, PassInv, PortInv, Live, Passing, Since, Synced, LastCommand, Wanted, Aged
<1> QED BY <1>1, <1>2, <1>3, <1>4, <1>5, <1>6, <1>7

(* A line is read while the banner is awaited, or the wait ends.           *)
LEMMA AwaitReadyKeeps == ASSUME IInv, AwaitReady PROVE IInv'
<1> USE Durations, Sums, Names DEF IInv, TypeOK, AwaitReady, BoardTypeOK, At, Undisturbed, boardVars, passVars, envVars, orphanVars, history, cmdVars, testVars
<1>1. TypeOK' /\ PassInv'
  <2>1. toBoard' \in Seq(Commands) /\ toHost' \in Seq(Lines)
    <3>1. toHost # <<>> => Tail(toHost) \in Seq(Lines)
      BY Sequence
    <3> QED BY <3>1
  <2>2. mode' \in Modes
    OBVIOUS
  <2>3. connected' \in BOOLEAN
    OBVIOUS
  <2>4. linkEstablished' \in BOOLEAN
    OBVIOUS
  <2>5. PassInv'
    BY DEF PassInv, PortInv
  <2>6. UNCHANGED <<level, linkUp, faults>>
    OBVIOUS
  <2>7. hAge' \in 0 .. MaxPass + TickSeconds /\ passAge' \in 0 .. MaxPass
    BY DEF PassInv
  <2>8. /\ sending' \in Commands \cup {None} /\ commanded' \in Commands \cup {None}
        /\ cmdAge' \in 0 .. Due /\ reconnectIn' \in 0 .. Reconnect
    BY DEF PassInv
  <2>9. /\ test' \in Commands \cup {None} /\ testLeft' \in -MaxPass .. TestMax
        /\ orphan' \in Commands \cup {None, "open"} /\ orphanAge' \in 0 .. MaxPass
    BY DEF PassInv
  <2> QED BY <2>1, <2>2, <2>3, <2>4, <2>5, <2>6, <2>7, <2>8, <2>9
<1>2. PortInv'
  BY DEF PortInv, PassInv, Live, Passing
<1>3. FreshInv'
  BY DEF FreshInv, PortInv, Live, Passing
<1>4. LinkInv'
  BY DEF LinkInv, PassInv, PortInv, Quiet, Aged
<1>5. BootInv'
  BY DEF BootInv, PassInv, PortInv, Live, Passing
<1>6. ReachInv'
  BY DEF ReachInv, BootInv, PassInv, PortInv, Live, Passing, Aged, Synced, LastCommand
<1>7. WishInv'
  BY DEF WishInv, ReachInv, PassInv, PortInv, Live, Passing, Since, Synced, LastCommand, Wanted, Aged
<1> QED BY <1>1, <1>2, <1>3, <1>4, <1>5, <1>6, <1>7

(* A serial call raises.                                                   *)
LEMMA LinkBreaksKeeps == ASSUME IInv, LinkBreaks PROVE IInv'
<1> USE Durations, Sums, Names DEF IInv, TypeOK, LinkBreaks, Failed, PassEnds, ReconnectWait, BoardTypeOK, At, Undisturbed, boardVars, passVars, envVars, orphanVars, history, cmdVars, testVars
<1>1. TypeOK' /\ PassInv'
  <2>1. toBoard' \in Seq(Commands) /\ toHost' \in Seq(Lines)
    BY Sequence, EmptySeq
  <2>2. mode' \in Modes
    OBVIOUS
  <2>3. connected' \in BOOLEAN
    OBVIOUS
  <2>4. linkEstablished' \in BOOLEAN
    OBVIOUS
  <2>5. PassInv'
    BY DEF PassInv, PortInv
  <2>6. UNCHANGED <<level, linkUp, faults>>
    OBVIOUS
  <2>7. hAge' \in 0 .. MaxPass + TickSeconds /\ passAge' \in 0 .. MaxPass
    BY DEF PassInv
  <2>8. /\ sending' \in Commands \cup {None} /\ commanded' \in Commands \cup {None}
        /\ cmdAge' \in 0 .. Due /\ reconnectIn' \in 0 .. Reconnect
    BY DEF PassInv
  <2>9. /\ test' \in Commands \cup {None} /\ testLeft' \in -MaxPass .. TestMax
        /\ orphan' \in Commands \cup {None, "open"} /\ orphanAge' \in 0 .. MaxPass
    BY DEF PassInv
  <2> QED BY <2>1, <2>2, <2>3, <2>4, <2>5, <2>6, <2>7, <2>8, <2>9
<1>2. PortInv'
  BY DEF PortInv, PassInv, Live, Passing
<1>3. FreshInv'
  BY DEF FreshInv, PortInv, Live, Passing
<1>4. LinkInv'
  BY DEF LinkInv, PassInv, PortInv, Quiet, Aged
<1>5. BootInv'
  BY DEF BootInv, PassInv, PortInv, Live, Passing
<1>6. ReachInv'
  BY DEF ReachInv, BootInv, PassInv, PortInv, Live, Passing, Aged, Synced, LastCommand
<1>7. WishInv'
  BY DEF WishInv, ReachInv, PassInv, PortInv, Live, Passing, Since, Synced, LastCommand, Wanted, Aged
<1> QED BY <1>1, <1>2, <1>3, <1>4, <1>5, <1>6, <1>7

(* A line the board sent unasked.                                          *)
LEMMA DrainLineKeeps == ASSUME IInv, DrainLine PROVE IInv'
<1> USE Durations, Sums, Names DEF IInv, TypeOK, DrainLine, BoardTypeOK, At, Undisturbed, boardVars, passVars, envVars, orphanVars, history, cmdVars, testVars
<1>1. TypeOK' /\ PassInv'
  BY DEF TypeOK, PassInv, PortInv
<1>2. PortInv'
  BY DEF PortInv, PassInv, Live, Passing
<1>3. FreshInv'
  BY DEF FreshInv, PortInv, Live, Passing
<1>4. LinkInv'
  BY DEF LinkInv, PassInv, PortInv, Quiet, Aged
<1>5. BootInv'
  BY DEF BootInv, PassInv, PortInv, Live, Passing
<1>6. ReachInv'
  BY DEF ReachInv, BootInv, PassInv, PortInv, Live, Passing, Aged, Synced, LastCommand
<1>7. WishInv'
  BY DEF WishInv, ReachInv, PassInv, PortInv, Live, Passing, Since, Synced, LastCommand, Wanted, Aged
<1> QED BY <1>1, <1>2, <1>3, <1>4, <1>5, <1>6, <1>7

(* The pass sends a command, or has nothing to send.                       *)
LEMMA DecideKeeps == ASSUME IInv, Decide PROVE IInv'
<1> USE Durations, Sums, Names DEF IInv, TypeOK, Decide, PassEnds, TestRuns, Desired, MustSend, BoardTypeOK, At, Undisturbed, boardVars, passVars, envVars, orphanVars, history, cmdVars, testVars
<1>1. TypeOK' /\ PassInv'
  BY DEF TypeOK, PassInv, PortInv
<1>2. PortInv'
  BY DEF PortInv, PassInv, Live, Passing
<1>3. FreshInv'
  <2>1. hpc' = "write" => sending' = level \/ sending' \in Tests
    BY DEF PortInv
  <2>2. UNCHANGED <<level, held, orphan, orphanAge, toBoard, mode, quiet>>
    OBVIOUS
  <2>3. hpc' = "write" => hAge' = 0
    OBVIOUS
  <2> QED BY <2>1, <2>2, <2>3 DEF FreshInv
<1>4. LinkInv'
  BY DEF LinkInv, PassInv, PortInv, Quiet, Aged
<1>5. BootInv'
  BY DEF BootInv, PassInv, PortInv, Live, Passing
<1>6. ReachInv'
  BY DEF ReachInv, BootInv, PassInv, PortInv, Live, Passing, Aged, Synced, LastCommand
<1>7. WishInv'
  BY DEF WishInv, ReachInv, PassInv, PortInv, Live, Passing, Since, Synced, LastCommand, Wanted, Aged
<1> QED BY <1>1, <1>2, <1>3, <1>4, <1>5, <1>6, <1>7

(* The command is on the wire.                                             *)
LEMMA WrittenKeeps == ASSUME IInv, Written PROVE IInv'
<1> USE Durations, Sums, Names DEF IInv, TypeOK, Written, Transmit, BoardTypeOK, At, Undisturbed, boardVars, passVars, envVars, orphanVars, history, cmdVars, testVars
<1>1. TypeOK' /\ PassInv'
  BY DEF TypeOK, PassInv, PortInv
<1>2. PortInv'
  BY DEF PortInv, PassInv, Live, Passing
<1>3. FreshInv'
  <2>0. /\ toBoard \in Seq(Commands) /\ sending \in Commands
        /\ \A i \in 1 .. Len(toBoard) : toBoard[i] \in Levels => held[toBoard[i]] <= WriteMax
    BY DEF FreshInv, PassInv, PortInv
  <2>1. toBoard' \in {toBoard, Append(toBoard, sending)}
    OBVIOUS
  <2>2. sending \in Levels => held[sending] <= WriteMax
    BY DEF FreshInv, PassInv, PortInv
  <2>3. \A i \in 1 .. Len(toBoard') : toBoard'[i] \in Levels => held[toBoard'[i]] <= WriteMax
    BY <2>0, <2>1, <2>2, LineAdded
  <2>4. UNCHANGED <<level, held, mode, quiet>> /\ orphan' \in {orphan, None} /\ hpc' # "write"
    BY DEF PortInv
  <2> QED BY <2>3, <2>4 DEF FreshInv
<1>4. LinkInv'
  BY DEF LinkInv, PassInv, PortInv, Quiet, Aged
<1>5. BootInv'
  BY DEF BootInv, PassInv, PortInv, Live, Passing
<1>6. ReachInv'
  BY DEF ReachInv, BootInv, PassInv, PortInv, Live, Passing, Aged, Synced, LastCommand
<1>7. WishInv'
  BY DEF WishInv, ReachInv, PassInv, PortInv, Live, Passing, Since, Synced, LastCommand, Wanted, Aged
<1> QED BY <1>1, <1>2, <1>3, <1>4, <1>5, <1>6, <1>7

(* A line is read while the reply is awaited, or the wait ends.            *)
LEMMA AwaitReplyKeeps == ASSUME IInv, AwaitReply PROVE IInv'
<1> USE Durations, Sums, Names DEF IInv, TypeOK, AwaitReply, PassEnds, BoardTypeOK, At, Undisturbed, boardVars, passVars, envVars, orphanVars, history, cmdVars, testVars
<1>1. TypeOK' /\ PassInv'
  <2>1. toBoard' \in Seq(Commands) /\ toHost' \in Seq(Lines)
    <3>1. toHost # <<>> => Tail(toHost) \in Seq(Lines)
      BY Sequence
    <3> QED BY <3>1
  <2>2. mode' \in Modes
    OBVIOUS
  <2>3. connected' \in BOOLEAN
    OBVIOUS
  <2>4. linkEstablished' \in BOOLEAN
    OBVIOUS
  <2>5. PassInv'
    <3>1. CASE hpc' = "ack" /\ hAge' = hAge /\ passAge' = passAge
      BY <3>1 DEF PassInv
    <3>2. CASE hpc' = "idle" /\ hAge' = 0 /\ passAge' = 0
      BY <3>2 DEF PassInv
    <3>3. \/ hpc' = "ack" /\ hAge' = hAge /\ passAge' = passAge
          \/ hpc' = "idle" /\ hAge' = 0 /\ passAge' = 0
      OBVIOUS
    <3> QED BY <3>1, <3>2, <3>3
  <2>6. UNCHANGED <<level, linkUp, faults>>
    OBVIOUS
  <2>7. hAge' \in 0 .. MaxPass + TickSeconds /\ passAge' \in 0 .. MaxPass
    BY DEF PassInv
  <2>8. /\ sending' \in Commands \cup {None} /\ commanded' \in Commands \cup {None}
        /\ cmdAge' \in 0 .. Due /\ reconnectIn' \in 0 .. Reconnect
    BY DEF PassInv
  <2>9. /\ test' \in Commands \cup {None} /\ testLeft' \in -MaxPass .. TestMax
        /\ orphan' \in Commands \cup {None, "open"} /\ orphanAge' \in 0 .. MaxPass
    BY DEF PassInv
  <2> QED BY <2>1, <2>2, <2>3, <2>4, <2>5, <2>6, <2>7, <2>8, <2>9
<1>2. PortInv'
  BY DEF PortInv, PassInv, Live, Passing
<1>3. FreshInv'
  BY DEF FreshInv, PortInv, Live, Passing
<1>4. LinkInv'
  BY DEF LinkInv, PassInv, PortInv, Quiet, Aged
<1>5. BootInv'
  BY DEF BootInv, PassInv, PortInv, Live, Passing
<1>6. ReachInv'
  BY DEF ReachInv, BootInv, PassInv, PortInv, Live, Passing, Aged, Synced, LastCommand
<1>7. WishInv'
  BY DEF WishInv, ReachInv, PassInv, PortInv, Live, Passing, Since, Synced, LastCommand, Wanted, Aged
<1> QED BY <1>1, <1>2, <1>3, <1>4, <1>5, <1>6, <1>7

(* The service starts.                                                     *)
LEMMA StartKeeps == ASSUME IInv, Start PROVE IInv'
<1> USE Durations, Sums, Names DEF IInv, TypeOK, Start, Disturbed, Off, BoardTypeOK, At, Undisturbed, boardVars, passVars, envVars, orphanVars, history, cmdVars, testVars
<1>1. TypeOK' /\ PassInv'
  <2>1. toBoard' \in Seq(Commands) /\ toHost' \in Seq(Lines)
    BY Sequence, EmptySeq
  <2>2. mode' \in Modes
    OBVIOUS
  <2>3. connected' \in BOOLEAN
    OBVIOUS
  <2>4. linkEstablished' \in BOOLEAN
    OBVIOUS
  <2>5. PassInv'
    BY DEF PassInv, PortInv
  <2>6. UNCHANGED <<level, linkUp, faults>>
    OBVIOUS
  <2>7. hAge' \in 0 .. MaxPass + TickSeconds /\ passAge' \in 0 .. MaxPass
    BY DEF PassInv
  <2>8. /\ sending' \in Commands \cup {None} /\ commanded' \in Commands \cup {None}
        /\ cmdAge' \in 0 .. Due /\ reconnectIn' \in 0 .. Reconnect
    BY DEF PassInv
  <2>9. /\ test' \in Commands \cup {None} /\ testLeft' \in -MaxPass .. TestMax
        /\ orphan' \in Commands \cup {None, "open"} /\ orphanAge' \in 0 .. MaxPass
    BY DEF PassInv
  <2> QED BY <2>1, <2>2, <2>3, <2>4, <2>5, <2>6, <2>7, <2>8, <2>9
<1>2. PortInv'
  BY DEF PortInv, PassInv, Live, Passing
<1>3. FreshInv'
  BY DEF FreshInv, PortInv, Live, Passing
<1>4. LinkInv'
  BY DEF LinkInv, PassInv, PortInv, Quiet, Aged
<1>5. BootInv'
  BY DEF BootInv, PassInv, PortInv, Live, Passing
<1>6. ReachInv'
  BY DEF ReachInv, BootInv, PassInv, PortInv, Live, Passing, Aged, Synced, LastCommand
<1>7. WishInv'
  BY DEF WishInv, ReachInv, PassInv, PortInv, Live, Passing, Since, Synced, LastCommand, Wanted, Aged
<1> QED BY <1>1, <1>2, <1>3, <1>4, <1>5, <1>6, <1>7

(* The service is stopped in the middle of a pass.                         *)
LEMMA StopKeeps == ASSUME IInv, Stop PROVE IInv'
<1> USE Durations, Sums, Names DEF IInv, TypeOK, Stop, BoardTypeOK, At, Undisturbed, boardVars, passVars, envVars, orphanVars, history, cmdVars, testVars
<1>1. TypeOK' /\ PassInv'
  BY DEF TypeOK, PassInv, PortInv
<1>2. PortInv'
  BY DEF PortInv, PassInv, Live, Passing
<1>3. FreshInv'
  BY DEF FreshInv, PortInv, Live, Passing
<1>4. LinkInv'
  <2>1. UNCHANGED <<mode, toBoard, quiet, connected>> /\ hAge' = 0
    OBVIOUS
  <2>2. CASE connected = FALSE
    BY <2>1, <2>2 DEF LinkInv
  <2>3. CASE connected = TRUE
    <3>1. hpc' = "stopWrite" /\ hpc \in {"idle", "ready", "drain", "write", "ack"}
      BY <2>3 DEF PortInv, Passing
    <3>2. mode # LINK_LOST
      BY <2>3 DEF LinkInv
    <3>3. Quiet(Recover + TickSeconds + WriteMax)
      <4>1. CASE hpc = "ready"
        BY <4>1, Names DEF PortInv, Quiet
      <4>2. CASE hpc # "ready"
        BY <2>3, <3>1, <4>2 DEF LinkInv, Quiet, PassInv
      <4> QED BY <4>1, <4>2
    <3> QED BY <2>1, <3>1, <3>2, <3>3 DEF LinkInv, Quiet
  <2> QED BY <2>2, <2>3
<1>5. BootInv'
  BY DEF BootInv, PassInv, PortInv, Live, Passing
<1>6. ReachInv'
  BY DEF ReachInv, BootInv, PassInv, PortInv, Live, Passing, Aged, Synced, LastCommand
<1>7. WishInv'
  BY DEF WishInv, ReachInv, PassInv, PortInv, Live, Passing, Since, Synced, LastCommand, Wanted, Aged
<1> QED BY <1>1, <1>2, <1>3, <1>4, <1>5, <1>6, <1>7

(* The call of a cancelled pass takes effect.                              *)
LEMMA OrphanActsKeeps == ASSUME IInv, OrphanActs PROVE IInv'
<1> USE Durations, Sums, Names DEF IInv, TypeOK, OrphanActs, Transmit, BoardRestarted, BoardTypeOK, At, Undisturbed, boardVars, passVars, envVars, orphanVars, history, cmdVars, testVars
<1>1. TypeOK' /\ PassInv'
  <2>1. toBoard' \in Seq(Commands) /\ toHost' \in Seq(Lines)
    <3>1. CASE orphan \in Commands /\ linkUp /\ Transmit(orphan)
      BY <3>1, Sequence
    <3>2. CASE orphan \notin Commands \/ ~linkUp
      BY <3>2, EmptySeq
    <3> QED BY <3>1, <3>2
  <2>2. mode' \in Modes
    OBVIOUS
  <2>3. connected' \in BOOLEAN
    OBVIOUS
  <2>4. linkEstablished' \in BOOLEAN
    OBVIOUS
  <2>5. PassInv'
    BY DEF PassInv, PortInv
  <2>6. UNCHANGED <<level, linkUp, faults>>
    OBVIOUS
  <2>7. hAge' \in 0 .. MaxPass + TickSeconds /\ passAge' \in 0 .. MaxPass
    BY DEF PassInv
  <2>8. /\ sending' \in Commands \cup {None} /\ commanded' \in Commands \cup {None}
        /\ cmdAge' \in 0 .. Due /\ reconnectIn' \in 0 .. Reconnect
    BY DEF PassInv
  <2>9. /\ test' \in Commands \cup {None} /\ testLeft' \in -MaxPass .. TestMax
        /\ orphan' \in Commands \cup {None, "open"} /\ orphanAge' \in 0 .. MaxPass
    BY DEF PassInv
  <2> QED BY <2>1, <2>2, <2>3, <2>4, <2>5, <2>6, <2>7, <2>8, <2>9
<1>2. PortInv'
  BY DEF PortInv, PassInv, Live, Passing
<1>3. FreshInv'
  <2>1. toBoard' \in {<<>>, toBoard} \/ (orphan \in Commands /\ toBoard' = Append(toBoard, orphan))
    OBVIOUS
  <2>2. orphan \in Levels => held[orphan] <= WriteMax
    BY DEF FreshInv, PortInv
  <2>3. \A i \in 1 .. Len(toBoard') : toBoard'[i] \in Levels => held[toBoard'[i]] <= WriteMax
    <3>1. CASE toBoard' \in {<<>>, toBoard}
      BY <3>1 DEF FreshInv
    <3>2. CASE orphan \in Commands /\ toBoard' = Append(toBoard, orphan)
      BY <3>2, <2>2, Sequence DEF FreshInv
    <3> QED BY <2>1, <3>1, <3>2
  <2>4. /\ UNCHANGED <<level, held, hpc, hAge, sending>> /\ orphan' = None
        /\ <<mode, quiet>>' = <<mode, quiet>> \/ mode' = WAITING
    OBVIOUS
  <2> QED BY <2>3, <2>4 DEF FreshInv
<1>4. LinkInv'
  BY DEF LinkInv, PassInv, PortInv, Quiet, Aged
<1>5. BootInv'
  BY DEF BootInv, PassInv, PortInv, Live, Passing
<1>6. ReachInv'
  BY DEF ReachInv, BootInv, PassInv, PortInv, Live, Passing, Aged, Synced, LastCommand
<1>7. WishInv'
  BY DEF WishInv, ReachInv, PassInv, PortInv, Live, Passing, Since, Synced, LastCommand, Wanted, Aged
<1> QED BY <1>1, <1>2, <1>3, <1>4, <1>5, <1>6, <1>7

(* The last command is on the wire.                                        *)
LEMMA StopWrittenKeeps == ASSUME IInv, StopWritten PROVE IInv'
<1>0. FreshInv'
  <2>0. /\ toBoard \in Seq(Commands) /\ NO_DATA \in Commands /\ NO_DATA \notin Levels
        /\ \A i \in 1 .. Len(toBoard) : toBoard[i] \in Levels => held[toBoard[i]] <= WriteMax
    BY Names DEF IInv, FreshInv, TypeOK, BoardTypeOK
  <2>1. toBoard' \in {toBoard, Append(toBoard, NO_DATA)}
    BY DEF StopWritten, Transmit
  <2>2. \A i \in 1 .. Len(toBoard') : toBoard'[i] \in Levels => held[toBoard'[i]] <= WriteMax
    BY <2>0, <2>1, LineAdded
  <2>3. UNCHANGED <<level, held, mode, quiet, orphan, orphanAge>> /\ hpc' # "write"
    BY DEF StopWritten, Transmit, At, Undisturbed, envVars, orphanVars, history
  <2> QED BY <2>2, <2>3 DEF IInv, FreshInv
<1> USE Durations, Sums, Names DEF IInv, TypeOK, StopWritten, Transmit, BoardTypeOK, At, Undisturbed, boardVars, passVars, envVars, orphanVars, history, cmdVars, testVars
<1>1. TypeOK' /\ PassInv'
  BY DEF TypeOK, PassInv, PortInv
<1>2. PortInv'
  BY DEF PortInv, PassInv, Live, Passing
<1>3. FreshInv'
  BY <1>0
<1>4. LinkInv'
  <2>1. hpc' = "stopAck" /\ UNCHANGED <<mode, connected, quiet, cmdAge>>
    OBVIOUS
  <2>2. boot = 0 \/ mode \notin LevelCommands
    BY DEF PassInv, PortInv
  <2>3. boot = 0 => toBoard' # <<>>
    BY Sequence
  <2>4. mode \in LevelCommands => toBoard' # <<>>
    BY <2>2, <2>3
  <2> QED BY <2>1, <2>4 DEF LinkInv, Quiet
<1>5. BootInv'
  BY DEF BootInv, PassInv, PortInv, Live, Passing
<1>6. ReachInv'
  BY DEF ReachInv, BootInv, PassInv, PortInv, Live, Passing, Aged, Synced, LastCommand
<1>7. WishInv'
  BY DEF WishInv, ReachInv, PassInv, PortInv, Live, Passing, Since, Synced, LastCommand, Wanted, Aged
<1> QED BY <1>1, <1>2, <1>3, <1>4, <1>5, <1>6, <1>7

(* The service lets the port go.                                           *)
LEMMA StopClosesKeeps == ASSUME IInv, StopCloses PROVE IInv'
<1> USE Durations, Sums, Names DEF IInv, TypeOK, StopCloses, BoardTypeOK, At, Undisturbed, boardVars, passVars, envVars, orphanVars, history, cmdVars, testVars
<1>1. TypeOK' /\ PassInv'
  <2>1. toBoard' \in Seq(Commands) /\ toHost' \in Seq(Lines)
    BY Sequence, EmptySeq
  <2>2. mode' \in Modes
    OBVIOUS
  <2>3. connected' \in BOOLEAN
    OBVIOUS
  <2>4. linkEstablished' \in BOOLEAN
    OBVIOUS
  <2>5. PassInv'
    BY DEF PassInv, PortInv
  <2>6. UNCHANGED <<level, linkUp, faults>>
    OBVIOUS
  <2>7. hAge' \in 0 .. MaxPass + TickSeconds /\ passAge' \in 0 .. MaxPass
    BY DEF PassInv
  <2>8. /\ sending' \in Commands \cup {None} /\ commanded' \in Commands \cup {None}
        /\ cmdAge' \in 0 .. Due /\ reconnectIn' \in 0 .. Reconnect
    BY DEF PassInv
  <2>9. /\ test' \in Commands \cup {None} /\ testLeft' \in -MaxPass .. TestMax
        /\ orphan' \in Commands \cup {None, "open"} /\ orphanAge' \in 0 .. MaxPass
    BY DEF PassInv
  <2> QED BY <2>1, <2>2, <2>3, <2>4, <2>5, <2>6, <2>7, <2>8, <2>9
<1>2. PortInv'
  BY DEF PortInv, PassInv, Live, Passing
<1>3. FreshInv'
  BY DEF FreshInv, PortInv, Live, Passing
<1>4. LinkInv'
  BY DEF LinkInv, PassInv, PortInv, Quiet, Aged
<1>5. BootInv'
  BY DEF BootInv, PassInv, PortInv, Live, Passing
<1>6. ReachInv'
  BY DEF ReachInv, BootInv, PassInv, PortInv, Live, Passing, Aged, Synced, LastCommand
<1>7. WishInv'
  BY DEF WishInv, ReachInv, PassInv, PortInv, Live, Passing, Since, Synced, LastCommand, Wanted, Aged
<1> QED BY <1>1, <1>2, <1>3, <1>4, <1>5, <1>6, <1>7

(* The process dies.                                                       *)
LEMMA CrashKeeps == ASSUME IInv, Crash PROVE IInv'
<1> USE Durations, Sums, Names DEF IInv, TypeOK, Crash, Off, BoardTypeOK, At, Undisturbed, boardVars, passVars, envVars, orphanVars, history, cmdVars, testVars
<1>1. TypeOK' /\ PassInv'
  <2>1. toBoard' \in Seq(Commands) /\ toHost' \in Seq(Lines)
    BY Sequence, EmptySeq
  <2>2. mode' \in Modes
    OBVIOUS
  <2>3. connected' \in BOOLEAN
    OBVIOUS
  <2>4. linkEstablished' \in BOOLEAN
    OBVIOUS
  <2>5. PassInv'
    BY DEF PassInv, PortInv
  <2>6. UNCHANGED <<level, linkUp, faults>>
    OBVIOUS
  <2>7. hAge' \in 0 .. MaxPass + TickSeconds /\ passAge' \in 0 .. MaxPass
    BY DEF PassInv
  <2>8. /\ sending' \in Commands \cup {None} /\ commanded' \in Commands \cup {None}
        /\ cmdAge' \in 0 .. Due /\ reconnectIn' \in 0 .. Reconnect
    BY DEF PassInv
  <2>9. /\ test' \in Commands \cup {None} /\ testLeft' \in -MaxPass .. TestMax
        /\ orphan' \in Commands \cup {None, "open"} /\ orphanAge' \in 0 .. MaxPass
    BY DEF PassInv
  <2> QED BY <2>1, <2>2, <2>3, <2>4, <2>5, <2>6, <2>7, <2>8, <2>9
<1>2. PortInv'
  BY DEF PortInv, PassInv, Live, Passing
<1>3. FreshInv'
  BY DEF FreshInv, PortInv, Live, Passing
<1>4. LinkInv'
  BY DEF LinkInv, PassInv, PortInv, Quiet, Aged
<1>5. BootInv'
  BY DEF BootInv, PassInv, PortInv, Live, Passing
<1>6. ReachInv'
  BY DEF ReachInv, BootInv, PassInv, PortInv, Live, Passing, Aged, Synced, LastCommand
<1>7. WishInv'
  BY DEF WishInv, ReachInv, PassInv, PortInv, Live, Passing, Since, Synced, LastCommand, Wanted, Aged
<1> QED BY <1>1, <1>2, <1>3, <1>4, <1>5, <1>6, <1>7

(* A test is started.                                                      *)
LEMMA StartTestKeeps == ASSUME IInv, NEW c \in Tests, NEW d \in 1 .. TestMax, StartTest(c, d) PROVE IInv'
<1> USE Durations, Sums, Names DEF IInv, TypeOK, StartTest, Off, BoardTypeOK, At, Undisturbed, boardVars, passVars, envVars, orphanVars, history, cmdVars, testVars
<1>1. TypeOK' /\ PassInv'
  BY DEF TypeOK, PassInv, PortInv
<1>2. PortInv'
  BY DEF PortInv, PassInv, Live, Passing
<1>3. FreshInv'
  BY DEF FreshInv, PortInv, Live, Passing
<1>4. LinkInv'
  BY DEF LinkInv, PassInv, PortInv, Quiet, Aged
<1>5. BootInv'
  BY DEF BootInv, PassInv, PortInv, Live, Passing
<1>6. ReachInv'
  BY DEF ReachInv, BootInv, PassInv, PortInv, Live, Passing, Aged, Synced, LastCommand
<1>7. WishInv'
  BY DEF WishInv, ReachInv, PassInv, PortInv, Live, Passing, Since, Synced, LastCommand, Wanted, Aged
<1> QED BY <1>1, <1>2, <1>3, <1>4, <1>5, <1>6, <1>7

(* A test is stopped.                                                      *)
LEMMA StopTestKeeps == ASSUME IInv, StopTest PROVE IInv'
<1> USE Durations, Sums, Names DEF IInv, TypeOK, StopTest, Off, BoardTypeOK, At, Undisturbed, boardVars, passVars, envVars, orphanVars, history, cmdVars, testVars
<1>1. TypeOK' /\ PassInv'
  BY DEF TypeOK, PassInv, PortInv
<1>2. PortInv'
  BY DEF PortInv, PassInv, Live, Passing
<1>3. FreshInv'
  BY DEF FreshInv, PortInv, Live, Passing
<1>4. LinkInv'
  BY DEF LinkInv, PassInv, PortInv, Quiet, Aged
<1>5. BootInv'
  BY DEF BootInv, PassInv, PortInv, Live, Passing
<1>6. ReachInv'
  BY DEF ReachInv, BootInv, PassInv, PortInv, Live, Passing, Aged, Synced, LastCommand
<1>7. WishInv'
  BY DEF WishInv, ReachInv, PassInv, PortInv, Live, Passing, Since, Synced, LastCommand, Wanted, Aged
<1> QED BY <1>1, <1>2, <1>3, <1>4, <1>5, <1>6, <1>7

(* The level changes.                                                      *)
LEMMA LevelChangesKeeps == ASSUME IInv, NEW l \in LevelCommands, LevelChanges(l) PROVE IInv'
<1> USE Durations, Sums, Names DEF IInv, TypeOK, LevelChanges, BoardTypeOK, At, Undisturbed, boardVars, passVars, envVars, orphanVars, history, cmdVars, testVars
<1>1. TypeOK' /\ PassInv'
  BY DEF TypeOK, PassInv, PortInv
<1>2. PortInv'
  BY DEF PortInv, PassInv, Live, Passing
<1>3. FreshInv'
  BY DEF FreshInv, PortInv, Live, Passing
<1>4. LinkInv'
  BY DEF LinkInv, PassInv, PortInv, Quiet, Aged
<1>5. BootInv'
  BY DEF BootInv, PassInv, PortInv, Live, Passing
<1>6. ReachInv'
  BY DEF ReachInv, BootInv, PassInv, PortInv, Live, Passing, Aged, Synced, LastCommand
<1>7. WishInv'
  BY DEF WishInv, ReachInv, PassInv, PortInv, Live, Passing, Since, Synced, LastCommand, Wanted, Aged
<1> QED BY <1>1, <1>2, <1>3, <1>4, <1>5, <1>6, <1>7

(* The cable is pulled out or put back.                                    *)
LEMMA LinkChangesKeeps == ASSUME IInv, LinkChanges PROVE IInv'
<1> USE Durations, Sums, Names DEF IInv, TypeOK, LinkChanges, Disturbed, BoardTypeOK, At, Undisturbed, boardVars, passVars, envVars, orphanVars, history, cmdVars, testVars
<1>1. TypeOK' /\ PassInv'
  BY DEF TypeOK, PassInv, PortInv
<1>2. PortInv'
  BY DEF PortInv, PassInv, Live, Passing
<1>3. FreshInv'
  BY DEF FreshInv, PortInv, Live, Passing
<1>4. LinkInv'
  BY DEF LinkInv, PassInv, PortInv, Quiet, Aged
<1>5. BootInv'
  BY DEF BootInv, PassInv, PortInv, Live, Passing
<1>6. ReachInv'
  BY DEF ReachInv, BootInv, PassInv, PortInv, Live, Passing, Aged, Synced, LastCommand
<1>7. WishInv'
  BY DEF WishInv, ReachInv, PassInv, PortInv, Live, Passing, Since, Synced, LastCommand, Wanted, Aged
<1> QED BY <1>1, <1>2, <1>3, <1>4, <1>5, <1>6, <1>7

(* The board is reset.                                                     *)
LEMMA BoardResetsKeeps == ASSUME IInv, BoardResets PROVE IInv'
<1> USE Durations, Sums, Names DEF IInv, TypeOK, BoardResets, Disturbed, BoardRestarted, BoardTypeOK, At, Undisturbed, boardVars, passVars, envVars, orphanVars, history, cmdVars, testVars
<1>1. TypeOK' /\ PassInv'
  <2>1. toBoard' \in Seq(Commands) /\ toHost' \in Seq(Lines)
    BY Sequence, EmptySeq
  <2>2. mode' \in Modes
    OBVIOUS
  <2>3. connected' \in BOOLEAN
    OBVIOUS
  <2>4. linkEstablished' \in BOOLEAN
    OBVIOUS
  <2>5. PassInv'
    BY DEF PassInv, PortInv
  <2>6. UNCHANGED <<level, linkUp, faults>>
    OBVIOUS
  <2>7. hAge' \in 0 .. MaxPass + TickSeconds /\ passAge' \in 0 .. MaxPass
    BY DEF PassInv
  <2>8. /\ sending' \in Commands \cup {None} /\ commanded' \in Commands \cup {None}
        /\ cmdAge' \in 0 .. Due /\ reconnectIn' \in 0 .. Reconnect
    BY DEF PassInv
  <2>9. /\ test' \in Commands \cup {None} /\ testLeft' \in -MaxPass .. TestMax
        /\ orphan' \in Commands \cup {None, "open"} /\ orphanAge' \in 0 .. MaxPass
    BY DEF PassInv
  <2> QED BY <2>1, <2>2, <2>3, <2>4, <2>5, <2>6, <2>7, <2>8, <2>9
<1>2. PortInv'
  BY DEF PortInv, PassInv, Live, Passing
<1>3. FreshInv'
  BY DEF FreshInv, PortInv, Live, Passing
<1>4. LinkInv'
  BY DEF LinkInv, PassInv, PortInv, Quiet, Aged
<1>5. BootInv'
  BY DEF BootInv, PassInv, PortInv, Live, Passing
<1>6. ReachInv'
  BY DEF ReachInv, BootInv, PassInv, PortInv, Live, Passing, Aged, Synced, LastCommand
<1>7. WishInv'
  BY DEF WishInv, ReachInv, PassInv, PortInv, Live, Passing, Since, Synced, LastCommand, Wanted, Aged
<1> QED BY <1>1, <1>2, <1>3, <1>4, <1>5, <1>6, <1>7

(* The board reads a line: what it will show has not changed.              *)
LEMMA BoardReadsKeeps ==
    ASSUME IInv, BoardReads,
           UNCHANGED <<envVars, passVars, connected, cmdVars, reconnectIn, testVars,
                       orphanVars, history>>
    PROVE  IInv'
<1> USE Durations, Sums, Names
    DEF IInv, TypeOK, BoardReads, AcceptTest, AcceptLevel, Reply, BoardTypeOK,
        boardVars, passVars, envVars, orphanVars, history, cmdVars, testVars
<1>1. PICK c \in Commands : c = Head(toBoard) /\ c = toBoard[1]
  <2>1. toBoard \in Seq(Commands) /\ toBoard # <<>>
    OBVIOUS
  <2> HIDE DEF IInv, BoardReads, TypeOK, BoardTypeOK
  <2> QED BY <2>1, Sequence
<1>2. /\ mode' = c /\ toBoard' = Tail(toBoard) /\ boot = 0 /\ boot' = 0 /\ toBoard # <<>>
      /\ c \in Tests => linkEstablished' = linkEstablished /\ quiet' = quiet
      /\ c \notin Tests => linkEstablished' = TRUE /\ quiet' = 0
      /\ toHost' \in {<<>>, Append(toHost, c)}
  BY <1>1
<1>3. /\ toBoard' \in Seq(Commands) /\ toHost' \in Seq(Lines)
      /\ Len(toBoard') = Len(toBoard) - 1 /\ Len(toBoard) > 0
      /\ \A i \in 1 .. Len(toBoard') : toBoard'[i] = toBoard[i + 1]
  BY <1>1, <1>2, Sequence, EmptySeq
<1>4. LastCommand' = LastCommand
  <2>1. Len(toBoard') = 0 <=> toBoard' = <<>>
    BY <1>3, EmptySeq
  <2> QED BY <1>1, <1>2, <1>3, <2>1 DEF LastCommand
<1>5. UNCHANGED <<hpc, hAge, passAge, connected, commanded, sending, cmdAge, reconnectIn,
                  test, testLeft, orphan, orphanAge, level, linkUp, held, settled, calm, faults>>
  OBVIOUS
<1>6. PassInv /\ PortInv /\ FreshInv /\ LinkInv /\ BootInv /\ ReachInv /\ WishInv
  OBVIOUS
<1>7. TypeOK'
  <2>1. mode' \in Modes /\ linkEstablished' \in BOOLEAN
    BY <1>1, <1>2
  <2>2. quiet' \in 0 .. LinkTimeout + 1 /\ boot' \in 0 .. BootTime
    BY <1>2
  <2>3. connected' \in BOOLEAN
    OBVIOUS
  <2>4. TypeOK
    OBVIOUS
  <2> HIDE DEF IInv, BoardReads
  <2> QED BY <1>3, <1>5, <2>1, <2>2, <2>3, <2>4
<1>7a. c \in LevelCommands => quiet' = 0
  BY <1>1, <1>2
<1>7b. TypeOK
  OBVIOUS
<1> HIDE DEF IInv, BoardReads, TypeOK
<1>8. PassInv'
  BY <1>5, <1>6 DEF PassInv
<1>9. PortInv'
  BY <1>1, <1>2, <1>5, <1>6 DEF PortInv, Live, Passing
<1>10. FreshInv'
  <2>1. ASSUME NEW i \in 1 .. Len(toBoard'), toBoard'[i] \in Levels
        PROVE  held[toBoard'[i]] <= WriteMax
    <3>1. i + 1 \in 1 .. Len(toBoard) /\ toBoard'[i] = toBoard[i + 1]
      BY <1>3, <1>7b DEF TypeOK
    <3> QED BY <1>6, <2>1, <3>1 DEF FreshInv
  <2>2. c \in Levels => held[c] <= WriteMax /\ quiet' = 0
    <3>1. 1 \in 1 .. Len(toBoard)
      BY <1>3, <1>7b DEF TypeOK
    <3> QED BY <1>1, <1>6, <1>7a, <3>1 DEF FreshInv
  <2>3. /\ level' \in Levels => held'[level'] = 0
        /\ hpc' = "write" /\ sending' \in Levels => held'[sending'] <= hAge'
        /\ orphan' \in Levels => held'[orphan'] <= orphanAge'
    BY <1>5, <1>6 DEF FreshInv
  <2>4. mode' \in Levels => held'[mode'] <= WriteMax + quiet'
    BY <1>2, <1>5, <2>2
  <2> QED BY <1>5, <2>1, <2>3, <2>4 DEF FreshInv
<1>11. LinkInv'
  <2>1. mode' # LINK_LOST
    BY <1>1, <1>2
  <2>2. \A bound \in Nat : mode' \in LevelCommands /\ toBoard' = <<>> => quiet' <= bound
    BY <1>2, <1>7a
  <2>3. hAge' \in Nat /\ cmdAge' \in Nat
    BY <1>5, <1>7b DEF TypeOK
  <2>4. mode' \in LevelCommands => quiet' <= cmdAge'
    BY <1>2, <1>7a, <2>3
  <2> QED BY <2>1, <2>2, <2>3, <2>4 DEF LinkInv, Quiet, Aged
<1>12. BootInv'
  BY <1>2, <1>5, <1>6 DEF BootInv, Live, Passing
<1>13. Synced' = Synced /\ Wanted' = Wanted
  BY <1>4, <1>5 DEF Synced, Wanted
<1>14. ReachInv'
  BY <1>5, <1>6, <1>13 DEF ReachInv, Live, Passing, Aged
<1>15. WishInv'
  <2>1. ASSUME mode = Wanted, \A i \in 1 .. Len(toBoard) : toBoard[i] = Wanted
        PROVE  mode' = Wanted /\ \A i \in 1 .. Len(toBoard') : toBoard'[i] = Wanted
    BY <1>1, <1>2, <1>3, <2>1
  <2> QED BY <1>2, <1>4, <1>5, <1>6, <1>13, <2>1 DEF WishInv, Live, Passing, Since
<1> QED BY <1>7, <1>8, <1>9, <1>10, <1>11, <1>12, <1>14, <1>15 DEF IInv

(* Only a board whose port nobody holds gives up its level.                *)
LEMMA BoardTimesOutKeeps ==
    ASSUME IInv, BoardTimesOut,
           UNCHANGED <<envVars, passVars, connected, cmdVars, reconnectIn, testVars,
                       orphanVars, history>>
    PROVE  IInv'
<1> USE Durations, Sums, Names
    DEF IInv, TypeOK, BoardTimesOut, Reply, BoardTypeOK, LinkTimedOut,
        boardVars, passVars, envVars, orphanVars, history, cmdVars, testVars
<1>1. connected = FALSE
  <2>1. SUFFICES ASSUME connected = TRUE PROVE FALSE
    OBVIOUS
  <2>2. mode \in LevelCommands /\ toBoard = <<>> /\ quiet > LinkTimeout
    OBVIOUS
  <2>3. hpc \in {"idle", "ready", "drain", "write", "ack", "stopWrite", "stopAck"}
    BY <2>1 DEF PortInv
  <2>4. hpc # "ready"
    BY <2>2 DEF PortInv
  <2>5. LinkInv /\ PassInv /\ hAge \in Nat /\ quiet \in Nat
    OBVIOUS
  <2> HIDE DEF IInv, BoardTimesOut, TypeOK, LinkTimedOut
  <2>6. CASE hpc \in {"idle", "drain"}
    BY <2>1, <2>2, <2>5, <2>6 DEF LinkInv, Quiet, PassInv
  <2>7. CASE hpc \in {"write", "stopWrite"}
    BY <2>1, <2>2, <2>5, <2>7 DEF LinkInv, Quiet, PassInv
  <2>8. CASE hpc \in {"ack", "stopAck"}
    BY <2>1, <2>2, <2>5, <2>8 DEF LinkInv, Quiet, PassInv
  <2> QED BY <2>3, <2>4, <2>6, <2>7, <2>8
<1>2. /\ mode' = LINK_LOST /\ toHost' = <<>> /\ boot' = boot /\ toBoard' = toBoard
      /\ quiet' = quiet /\ linkEstablished' = linkEstablished /\ boot = 0
  BY <1>1
<1>3. UNCHANGED <<hpc, hAge, passAge, connected, commanded, sending, cmdAge, reconnectIn,
                  test, testLeft, orphan, orphanAge, level, linkUp, held, settled, calm, faults>>
  OBVIOUS
<1>4. PassInv /\ PortInv /\ FreshInv /\ LinkInv /\ BootInv /\ ReachInv /\ WishInv
  OBVIOUS
<1>5. TypeOK'
  BY <1>2, EmptySeq
<1> HIDE DEF IInv, BoardTimesOut
<1>6. PassInv'
  BY <1>3, <1>4 DEF PassInv
<1>7. PortInv'
  BY <1>1, <1>2, <1>3, <1>4 DEF PortInv, Live, Passing
<1>8. FreshInv'
  BY <1>2, <1>3, <1>4 DEF FreshInv
<1>9. LinkInv' /\ BootInv'
  BY <1>1, <1>3 DEF LinkInv, BootInv
<1>10. ~Synced /\ ~Synced'
  BY <1>1, <1>3 DEF Synced
<1>11. ReachInv'
  BY <1>3, <1>4, <1>10 DEF ReachInv, Live, Passing, Aged
<1>12. WishInv'
  BY <1>10 DEF WishInv
<1> QED BY <1>5, <1>6, <1>7, <1>8, <1>9, <1>11, <1>12 DEF IInv

LEMMA OneLater ==
    ASSUME NEW now \in Int, NEW before \in Int, now <= before + 1,
           NEW left \in Int, NEW had \in Int, left = had - 1,
           NEW bound \in Int, before + had <= bound
    PROVE  now + left <= bound
OBVIOUS

(* A second passes.                                                        *)
LEMMA TickKeeps == ASSUME IInv, Tick PROVE IInv'
<1> USE Durations, Sums, Names
<1>1. /\ TypeOK /\ PassInv /\ PortInv /\ FreshInv /\ LinkInv /\ BootInv /\ ReachInv /\ WishInv
      /\ HostWaits /\ OrphanWaits
  BY DEF IInv, Tick
<1>2. UNCHANGED <<level, linkUp, faults, hpc, connected, sending, commanded, test, orphan,
                  mode, linkEstablished, toBoard>>
  BY DEF Tick, BoardElapses, envVars
<1>3. /\ hAge' = (IF Off THEN hAge ELSE hAge + 1)
      /\ passAge' = (IF Passing THEN passAge + 1 ELSE passAge)
      /\ cmdAge' = Upto(cmdAge + 1, Due)
      /\ reconnectIn' = (IF reconnectIn > 0 THEN reconnectIn - 1 ELSE 0)
      /\ orphanAge' = (IF orphan = None THEN 0 ELSE orphanAge + 1)
      /\ testLeft' = (IF test # None /\ testLeft > -MaxPass THEN testLeft - 1 ELSE testLeft)
  BY DEF Tick
<1>4. /\ quiet' = (IF quiet > LinkTimeout THEN quiet ELSE quiet + 1)
      /\ boot' = (IF boot > 0 THEN boot - 1 ELSE 0)
      /\ toHost' = toHost \/ (boot = 1 /\ toHost' \in {<<>>, Append(toHost, READY)})
  BY DEF Tick, BoardElapses, Reply
<1>5. /\ held' = [l \in Levels |-> IF l = level THEN 0
                                   ELSE Upto(held[l] + 1, LinkTimeout + WriteMax + 2)]
      /\ settled' = (IF test # None /\ testLeft = 1 THEN 0
                                                    ELSE Upto(settled + 1, PromptWithin + 1))
      /\ calm' = Upto(calm + 1, InStepWithin + 1)
  BY DEF Tick
<1>6. boot > 0 \/ (toBoard = <<>> /\ ~LinkTimedOut)
  BY DEF Tick, BoardIdle
<1>7. /\ hAge \in Nat /\ passAge \in Nat /\ quiet \in Nat /\ boot \in Nat
      /\ cmdAge \in Nat /\ cmdAge <= Due /\ settled \in Nat /\ calm \in Nat /\ orphanAge \in Nat
      /\ reconnectIn \in Nat /\ testLeft \in Int
  BY <1>1 DEF TypeOK, BoardTypeOK
<1>8. /\ cmdAge' \in Nat /\ cmdAge' <= Due /\ (cmdAge' = Due \/ cmdAge' = cmdAge + 1)
      /\ settled' \in 0 .. PromptWithin + 1 /\ settled' <= settled + 1
      /\ calm' \in 0 .. InStepWithin + 1 /\ calm' <= calm + 1
  BY <1>1, <1>3, <1>5, <1>7 DEF Upto, TypeOK
<1>9. \A l \in Levels : /\ held'[l] \in 0 .. LinkTimeout + WriteMax + 2
                        /\ held'[l] <= held[l] + 1
                        /\ l = level => held'[l] = 0
  BY <1>1, <1>5 DEF Upto, TypeOK
<1>10. /\ hpc \in {"off", "idle", "open", "ready", "write", "ack", "stopWrite", "stopAck"}
       /\ hpc = "idle" => hAge < TickSeconds
       /\ hpc = "open" => hAge < OpenMax
       /\ hpc \in {"write", "stopWrite"} => hAge < WriteMax
       /\ hpc = "ready" => hAge < ReadyTimeout /\ toHost = <<>>
       /\ hpc = "ack" => hAge < AckTimeout
       /\ hpc = "stopAck" => hAge < AckTimeout
  BY <1>1 DEF HostWaits, Off
<1>11. /\ orphan = "open" => orphanAge < OpenMax
       /\ orphan \in Commands => orphanAge < WriteMax
  BY <1>1 DEF OrphanWaits
<1>12. PassInv'
  BY <1>1, <1>2, <1>3, <1>7, <1>10 DEF PassInv, Off, Passing
<1>13. PortInv'
  BY <1>1, <1>2, <1>3, <1>4, <1>7, <1>10, <1>11 DEF PortInv, Live, Passing
<1>14. TypeOK'
  <2>1. toHost' \in Seq(Lines)
    <3>1. toHost \in Seq(Lines) /\ READY \in Lines
      BY <1>1 DEF TypeOK, BoardTypeOK
    <3>2. Append(toHost, READY) \in Seq(Lines)
      BY <3>1, Sequence
    <3> QED BY <1>4, <3>1, <3>2, EmptySeq
  <2>2. quiet' \in 0 .. LinkTimeout + 1 /\ boot' \in 0 .. BootTime
    BY <1>1, <1>4 DEF TypeOK, BoardTypeOK
  <2>3. BoardTypeOK'
    BY <1>1, <1>2, <2>1, <2>2 DEF TypeOK, BoardTypeOK
  <2>4. hAge' \in 0 .. MaxPass + TickSeconds /\ passAge' \in 0 .. MaxPass
    BY <1>2, <1>7, <1>3, <1>10, <1>12, <1>1 DEF PassInv, TypeOK, Off, Passing
  <2>5. orphanAge' \in 0 .. MaxPass
    BY <1>1, <1>3, <1>7, <1>11 DEF TypeOK
  <2>6. reconnectIn' \in 0 .. Reconnect /\ testLeft' \in -MaxPass .. TestMax
    BY <1>1, <1>3 DEF TypeOK
  <2>7. held' \in [Levels -> 0 .. LinkTimeout + WriteMax + 2]
    BY <1>5, <1>9
  <2> QED BY <1>1, <1>2, <1>8, <2>3, <2>4, <2>5, <2>6, <2>7 DEF TypeOK
<1>15. FreshInv'
  <2>1. mode \in Levels => ~(quiet > LinkTimeout)
    BY <1>1, <1>6 DEF LinkTimedOut, PortInv
  <2>2. mode' \in Levels => held'[mode'] <= WriteMax + quiet'
    BY <1>1, <1>2, <1>4, <1>7, <1>9, <2>1 DEF FreshInv, TypeOK
  <2>3. toBoard = <<>>
    BY <1>1, <1>6 DEF PortInv
  <2>4. hpc' = "write" /\ sending' \in Levels => held'[sending'] <= hAge'
    BY <1>1, <1>2, <1>3, <1>7, <1>9 DEF FreshInv, Off, TypeOK
  <2>5. orphan' \in Levels => held'[orphan'] <= orphanAge'
    BY <1>1, <1>2, <1>3, <1>7, <1>9 DEF FreshInv, TypeOK
  <2> QED BY <1>2, <1>9, <2>2, <2>3, <2>4, <2>5 DEF FreshInv
<1>16. LinkInv'
  BY <1>1, <1>2, <1>3, <1>4, <1>7, <1>8, <1>10 DEF LinkInv, Quiet, Aged, Off
<1>17. BootInv'
  <2>1. SUFFICES ASSUME connected = TRUE, Live, boot > 1
                 PROVE  \/ calm' + boot' <= BootTime
                        \/ hpc' = "ready" /\ hAge' + boot' <= BootTime /\ toHost' = <<>>
    BY <1>2, <1>4, <1>7 DEF BootInv, Live, Passing
  <2>2. boot' = boot - 1 /\ toHost' = toHost
    BY <1>4, <1>7, <2>1
  <2>3. CASE calm + boot <= BootTime
    <3>1. calm' \in Int /\ calm' <= calm + 1 /\ calm \in Int
      BY <1>7, <1>8
    <3>2. boot' \in Int /\ boot' = boot - 1 /\ boot \in Int /\ BootTime \in Int
      BY <1>7, <2>2
    <3>3. calm' + boot' <= BootTime
      BY <2>3, <3>1, <3>2, OneLater, ZenonT(60)
    <3> QED BY <3>3
  <2>4. CASE hpc = "ready" /\ hAge + boot <= BootTime /\ toHost = <<>>
    BY <1>2, <1>3, <1>7, <2>2, <2>4 DEF Off
  <2> QED BY <1>1, <1>7, <2>1, <2>3, <2>4 DEF BootInv
<1>18. Synced' = Synced
  BY <1>2 DEF Synced, LastCommand
<1>19. ReachInv'
  BY <1>1, <1>2, <1>3, <1>7, <1>8, <1>10, <1>18 DEF ReachInv, Live, Passing, Off, Aged
<1>20. WishInv'
  <2>1. Wanted' = Wanted \/ settled' = 0
    BY <1>2, <1>3, <1>5, <1>7 DEF Wanted
  <2>2. toBoard = <<>>
    BY <1>1, <1>6 DEF PortInv
  <2>3. CASE settled' = 0
    BY <1>2, <1>3, <1>7, <2>2, <2>3 DEF WishInv, Since
  <2>4. CASE Wanted' = Wanted
    BY <1>1, <1>2, <1>3, <1>7, <1>8, <1>10, <1>18, <2>2, <2>4
       DEF WishInv, Live, Passing, Off, Since, LastCommand
  <2> QED BY <2>1, <2>3, <2>4
<1> QED BY <1>12, <1>13, <1>14, <1>15, <1>16, <1>17, <1>19, <1>20 DEF IInv

LEMMA Initially == ASSUME Init PROVE IInv
<1> USE Durations, Sums, Names DEF Init, BoardInit
<1>1. TypeOK
  <2>1. BoardTypeOK
    <3>1. toBoard \in Seq(Commands) /\ toHost \in Seq(Lines)
      BY EmptySeq
    <3>2. linkEstablished \in BOOLEAN /\ connected \in BOOLEAN
      OBVIOUS
    <3>3. mode \in Modes /\ quiet \in 0 .. LinkTimeout + 1 /\ boot \in 0 .. BootTime
      OBVIOUS
    <3> QED BY <3>1, <3>2, <3>3 DEF BoardTypeOK
  <2>2. level \in LevelCommands /\ faults \in Scenarios /\ linkUp \in BOOLEAN
    OBVIOUS
  <2>3. held \in [Levels -> 0 .. LinkTimeout + WriteMax + 2]
    OBVIOUS
  <2> QED BY <2>1, <2>2, <2>3 DEF TypeOK
<1>2. PassInv /\ PortInv
  BY DEF PassInv, PortInv, Live, Passing
<1>3. FreshInv
  <2>1. toBoard = <<>> /\ Len(toBoard) = 0
    BY EmptySeq
  <2>2. level \in Levels => held[level] = 0
    OBVIOUS
  <2>3. hpc = "off" /\ orphan \notin Levels /\ mode \notin Levels
    OBVIOUS
  <2> QED BY <2>1, <2>2, <2>3 DEF FreshInv
<1>4. LinkInv /\ BootInv /\ ReachInv /\ WishInv
  BY DEF LinkInv, BootInv, ReachInv, WishInv, Live, Passing
<1> QED BY <1>1, <1>2, <1>3, <1>4 DEF IInv

LEMMA Preserved == ASSUME IInv, [Next]_vars PROVE IInv'
<1>1. CASE UNCHANGED vars
  <2> USE <1>1 DEF vars, boardVars, envVars, passVars, cmdVars, testVars, orphanVars, history
  <2>1. TypeOK' /\ PassInv' /\ PortInv' /\ FreshInv'
    BY DEF IInv, TypeOK, BoardTypeOK, PassInv, PortInv, FreshInv, Live, Passing
  <2>2. LinkInv' /\ BootInv'
    BY DEF IInv, LinkInv, BootInv, Quiet, Aged, Live, Passing
  <2>3. ReachInv'
    BY DEF IInv, ReachInv, Aged, Live, Passing, Synced, LastCommand
  <2>4. WishInv'
    BY DEF IInv, WishInv, Since, Live, Passing, Synced, LastCommand, Wanted
  <2> QED BY <2>1, <2>2, <2>3, <2>4 DEF IInv
<1>2. CASE Pass
  BY <1>2, StepBeginKeeps, OpenOkKeeps, OpenFailsKeeps, AwaitReadyKeeps, LinkBreaksKeeps,
     DrainLineKeeps, DecideKeeps, WrittenKeeps, AwaitReplyKeeps DEF Pass
<1>3. CASE Lifecycle
  BY <1>3, StartKeeps, StopKeeps, OrphanActsKeeps, StopWrittenKeeps, StopClosesKeeps,
     CrashKeeps DEF Lifecycle
<1>4. CASE Environment
  BY <1>4, StartTestKeeps, StopTestKeeps, LevelChangesKeeps, LinkChangesKeeps,
     BoardResetsKeeps DEF Environment
<1>5. CASE BoardActs
  BY <1>5, BoardReadsKeeps, BoardTimesOutKeeps DEF BoardActs
<1> QED BY <1>1, <1>2, <1>3, <1>4, <1>5, TickKeeps DEF Next

(* How long each stage may take, and what the board and the wish may be    *)
(* meanwhile: the inductive invariant.                                     *)
THEOREM AlertInvariant == Spec => []IInv
<1>1. Init => IInv
  BY Initially
<1>2. IInv /\ [Next]_vars => IInv'
  BY Preserved
<1> QED BY <1>1, <1>2, PTL DEF Spec

(* What the LED claims about the crowd was true at most a link timeout and *)
(* one write ago (loop() and acceptLevel of the sketch, and the service's  *)
(* _send, _fail and stop), for every duration.                             *)
THEOREM FreshClaim == Spec => []ClaimIsFresh
<1>1. IInv => ClaimIsFresh
  <2>1. SUFFICES ASSUME IInv, mode \in Levels
                 PROVE  held[mode] <= LinkTimeout + WriteMax + 1
    BY DEF ClaimIsFresh
  <2>2. held[mode] <= WriteMax + quiet
    BY <2>1 DEF IInv, FreshInv
  <2>3. quiet \in 0 .. LinkTimeout + 1 /\ held[mode] \in Int
    BY <2>1, Durations DEF IInv, TypeOK, BoardTypeOK
  <2> QED BY <2>2, <2>3, Durations
<1> QED BY <1>1, AlertInvariant, PTL

(* The service keeps the board in step and on the link                     *)
(* (HardwareAlertService.step, _connect, _drain and _send): keepalives     *)
(* hold the link timeout off while the port is held, and after calm of     *)
(* InStepWithin a wish of PromptWithin ago is on display.                  *)
THEOREM KeptBoard == Spec => []BoardIsKept
<1>1. ASSUME IInv PROVE KeepaliveHoldsLink
  BY <1>1 DEF IInv, LinkInv, KeepaliveHoldsLink, TypeOK, BoardTypeOK
<1>2. ASSUME IInv PROVE BoardInStep
  <2>1. SUFFICES ASSUME Live, linkUp = TRUE, calm > InStepWithin, settled > PromptWithin
                 PROVE  mode = Wanted
    BY <1>2 DEF BoardInStep, Live, IInv, TypeOK
  <2>2. calm \in Nat /\ settled \in Nat /\ hAge \in Nat /\ reconnectIn \in Nat /\ connected \in BOOLEAN
    BY <1>2 DEF IInv, TypeOK, BoardTypeOK
  <2>3. Synced
    <3>1. ReachInv /\ PassInv /\ PortInv
      BY <1>2 DEF IInv
    <3> QED BY <2>1, <2>2, <3>1, Durations, Sums DEF ReachInv, PassInv, PortInv, Live, Passing
  <2>4. LastCommand = Wanted
    <3>1. WishInv /\ PassInv /\ PortInv
      BY <1>2 DEF IInv
    <3>2. SUFFICES ASSUME LastCommand # Wanted PROVE FALSE
      OBVIOUS
    <3>3. connected = TRUE /\ hpc \in {"idle", "open", "ready", "drain", "write", "ack"}
      BY <2>1, <2>3 DEF Live, Passing, Synced
    <3> USE <2>1, <2>2, <2>3, <3>1, <3>2, Durations, Sums DEF WishInv, PassInv, Since
    <3>4. hpc # "idle"
      OBVIOUS
    <3>5. hpc # "drain"
      OBVIOUS
    <3>6. hpc # "write"
      OBVIOUS
    <3>7. hpc # "ack"
      OBVIOUS
    <3>8. hpc \notin {"open", "ready"}
      <4>1. hpc = "ready" => LastCommand = WAITING
        BY DEF LastCommand, PortInv
      <4> QED BY <3>3, <4>1, Names DEF PortInv, Synced
    <3> QED BY <3>3, <3>4, <3>5, <3>6, <3>7, <3>8
  <2> QED BY <1>2, <2>1, <2>2, <2>3, <2>4, Sums DEF IInv, WishInv, LastCommand
<1> QED BY <1>1, <1>2, AlertInvariant, PTL DEF IInv, BoardIsKept
=============================================================================
