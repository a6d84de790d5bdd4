-------------------------- MODULE SocketClientProofs --------------------------
(***************************************************************************)
(* Theorems about SocketClient, for every number of attempts, delay and    *)
(* threshold, and about CameraBoard, for every set of analyses, rate floor *)
(* and backlog.                                                            *)
(***************************************************************************)
EXTENDS MCSocketClient, Sequences, TLAPS

(* A retry waits for no socket, and an idle client has neither.            *)
OneInv ==
    /\ OneConnection
    /\ state = "idle" => socket = "none"

(* What is awaited is what was asked for, about a gap.                     *)
GapInv ==
    \/ awaiting = TRUE /\ behind = TRUE /\ asked = 1
    \/ awaiting = FALSE /\ behind = FALSE /\ asked = 0

-----------------------------------------------------------------------------
(* A retry is only scheduled for a client without a socket.                *)
LEMMA ScheduledAlone ==
    ASSUME NEW n, NEW timer, NEW isOnline, Reschedule(n, timer, isOnline),
           timer = NoTimer, socket' = "none"
    PROVE  OneInv'
BY DEF Reschedule, OneInv, OneConnection

LEMMA ConnectedAlone ==
    ASSUME NEW n, NEW isOnline, Connect(n, "none", NoTimer, isOnline)
    PROVE  OneInv'
BY ScheduledAlone DEF Connect, NewSocket, OneInv, OneConnection

(* OneConnection: a pending retry never finds a connected socket.          *)
THEOREM OneSocket == Spec => []OneConnection
<1>1. Init => OneInv
  BY DEF Init, OneInv, OneConnection
<1>2. OneInv /\ [Next]_vars => OneInv'
  <2> SUFFICES ASSUME OneInv, [Next]_vars PROVE OneInv'
    OBVIOUS
  <2> USE DEF OneInv, OneConnection
  <2>1. CASE Start
    BY <2>1, ConnectedAlone DEF Start
  <2>2. CASE Stop
    BY <2>2 DEF Stop
  <2>3. CASE RetryNow
    BY <2>3, ConnectedAlone DEF RetryNow, ConnectNow
  <2>4. CASE GoOnline
    BY <2>4, ConnectedAlone DEF GoOnline, ConnectNow, link
  <2>5. CASE GoOffline
    BY <2>5 DEF GoOffline
  <2>6. CASE Opens
    BY <2>6 DEF Opens
  <2>7. CASE Snapshot
    BY <2>7 DEF Snapshot
  <2>8. ASSUME NEW b \in BOOLEAN, Message(b) PROVE OneInv'
    BY <2>8 DEF Message
  <2>9. ASSUME NEW b \in BOOLEAN, Closes(b) PROVE OneInv'
    BY <2>9, ScheduledAlone DEF Closes
  <2>10. CASE RetryFires
    BY <2>10, ConnectedAlone DEF RetryFires, NoTimer
  <2>11. CASE Tick
    <3>1. Countdown = NoTimer \/ (socket = "none" /\ Countdown = retry - 1)
      BY DEF Countdown
    <3> QED BY <2>11, <3>1, ScheduledAlone DEF Tick, PresumedDead, Countdown
  <2>12. CASE UNCHANGED vars
    BY <2>12 DEF vars, link
  <2> QED
    BY <2>1, <2>2, <2>3, <2>4, <2>5, <2>6, <2>7, <2>8, <2>9, <2>10, <2>11, <2>12 DEF Next
<1> QED BY <1>1, <1>2, PTL DEF Spec, OneInv

-----------------------------------------------------------------------------
LEMMA ConnectKeepsGaps ==
    ASSUME GapInv, NEW n, NEW left, NEW timer, NEW isOnline, Connect(n, left, timer, isOnline)
    PROVE  GapInv'
BY DEF Connect, NewSocket, GapInv, sequence, history

(* GapInv: awaitingResync and the gap it is about agree through every      *)
(* snapshot, close and reconnection.                                       *)
THEOREM GapsInvariant == Spec => []GapInv
<1>1. Init => GapInv
  BY DEF Init, GapInv
<1>2. GapInv /\ [Next]_vars => GapInv'
  <2> SUFFICES ASSUME GapInv, [Next]_vars PROVE GapInv'
    OBVIOUS
  <2>1. CASE Start \/ RetryNow \/ RetryFires
    BY <2>1, ConnectKeepsGaps DEF Start, RetryNow, RetryFires, ConnectNow
  <2>2. CASE GoOnline
    <3>1. ConnectNow(attempts, TRUE) \/ UNCHANGED <<sequence, history>>
      BY <2>2 DEF GoOnline
    <3> QED BY <3>1, ConnectKeepsGaps DEF ConnectNow, GapInv, sequence, history
  <2>3. CASE UNCHANGED <<awaiting, behind, asked>>
    BY <2>3 DEF GapInv
  <2>4. CASE Snapshot
    BY <2>4 DEF Snapshot, Answered, GapInv
  <2>5. ASSUME NEW b \in BOOLEAN, Message(b) PROVE GapInv'
    <3>1. CASE awaiting = TRUE
      <4>1. UNCHANGED <<awaiting, asked>> /\ behind' = (TRUE \/ b)
        BY <2>5, <3>1 DEF Message, GapInv
      <4> QED BY <3>1, <4>1 DEF GapInv
    <3>2. CASE awaiting = FALSE /\ b = TRUE
      <4>1. awaiting' = TRUE /\ asked' = 0 + 1 /\ behind' = (FALSE \/ TRUE)
        BY <2>5, <3>2 DEF Message, GapInv
      <4>2. behind' = TRUE /\ asked' = 1
        <5>1. 0 + 1 = 1
          OBVIOUS
        <5> QED BY <4>1, <5>1, Zenon
      <4> QED BY <4>1, <4>2 DEF GapInv
    <3>3. CASE awaiting = FALSE /\ b = FALSE
      <4>1. UNCHANGED <<awaiting, asked>> /\ behind' = (FALSE \/ FALSE)
        BY <2>5, <3>3 DEF Message, GapInv
      <4> QED BY <3>3, <4>1 DEF GapInv
    <3> QED BY <3>1, <3>2, <3>3 DEF GapInv
  <2> QED
    BY <2>1, <2>2, <2>3, <2>4, <2>5 DEF Next, Stop, GoOffline, Opens, Closes, Tick, vars,
       sequence, history
<1> QED BY <1>1, <1>2, PTL DEF Spec

(* GapsAreAskedForOnce: a gap is asked about, and only once.               *)
THEOREM GapsAsked == Spec => []GapsAreAskedForOnce
<1>1. GapInv => GapsAreAskedForOnce
  BY DEF GapInv, GapsAreAskedForOnce
<1> QED BY <1>1, GapsInvariant, PTL

-----------------------------------------------------------------------------
(* Silence is a number of ticks; a live display has heard something.       *)
LiveInv ==
    /\ silence \in Never .. DeadAfter + 1
    /\ LiveIsLive

(* No way of connecting or scheduling leaves a display live.               *)
LEMMA NotLiveYet ==
    ASSUME NEW n, NEW left, NEW timer, NEW isOnline,
           Connect(n, left, timer, isOnline) \/ Reschedule(n, timer, isOnline)
    PROVE  state' # "live"
BY DEF Connect, Reschedule

(* LiveIsLive: a display that says live is connected, and marked stale as  *)
(* soon as, and only when, it has been silent too long.                    *)
THEOREM LiveHolds == Spec => []LiveIsLive
<1> USE TimesAssumption
<1>1. Init => LiveInv
  <2>1. Init => silence \in Never .. DeadAfter + 1
    BY DEF Init, Never
  <2> QED BY <2>1 DEF Init, LiveInv, LiveIsLive
<1>2. LiveInv /\ [Next]_vars => LiveInv'
  <2> SUFFICES ASSUME LiveInv, [Next]_vars PROVE LiveInv'
    OBVIOUS
  <2> USE DEF LiveInv, LiveIsLive
  <2>1. CASE Start \/ RetryNow \/ RetryFires
    <3>1. state' # "live" /\ UNCHANGED <<silence, stale>>
      BY <2>1, NotLiveYet DEF Start, RetryNow, RetryFires, ConnectNow
    <3> QED BY <3>1
  <2>2. CASE GoOnline
    <3>1. /\ UNCHANGED <<silence, stale>>
          /\ state' # "live" \/ UNCHANGED <<state, socket, expected>>
      BY <2>2, NotLiveYet DEF GoOnline, ConnectNow, link, sequence
    <3> QED BY <3>1
  <2>3. CASE Stop
    BY <2>3 DEF Stop
  <2>4. CASE GoOffline
    BY <2>4 DEF GoOffline, sequence
  <2>5. CASE Opens
    BY <2>5 DEF Opens, sequence
  <2>0. 0 \in Never .. DeadAfter + 1 /\ 0 \in 0 .. DeadAfter /\ ~(0 > StaleAfter)
    BY DEF Never
  <2>6. CASE Snapshot
    <3>1. silence' = 0 /\ stale' = FALSE /\ socket' = "open" /\ expected' = TRUE
      BY <2>6 DEF Snapshot, Hears, Answered
    <3> QED BY <2>0, <3>1, Zenon
  <2>7. ASSUME NEW b \in BOOLEAN, Message(b) PROVE LiveInv'
    <3>1. silence' = 0 /\ stale' = FALSE /\ socket' = "open" /\ expected' = TRUE
      BY <2>7 DEF Message, Hears
    <3> QED BY <2>0, <3>1, Zenon
  <2>8. ASSUME NEW b \in BOOLEAN, Closes(b) PROVE LiveInv'
    <3>1. state' # "live" /\ UNCHANGED <<silence, stale>>
      BY <2>8, NotLiveYet DEF Closes
    <3> QED BY <3>1
  <2>9. CASE Tick
    <3> DEFINE silent == IF silence = Never THEN Never ELSE Later(silence)
               checked == state \in {"live", "syncing"} /\ silent # Never
    <3>1. /\ silence' = silent /\ silent \in Never .. DeadAfter + 1
          /\ stale' = (stale \/ (checked /\ silent > StaleAfter))
      BY <2>9 DEF Tick, Later, Never
    <3>2. CASE state' = "live"
      <4>1. /\ state = "live" /\ socket' = socket /\ expected' = expected
            /\ ~(checked /\ PresumedDead(silent))
        BY <2>9, <3>2, NotLiveYet DEF Tick
      <4>2. /\ silence \in 0 .. DeadAfter /\ silent = silence + 1 /\ checked
            /\ stale <=> silence > StaleAfter
        BY <4>1 DEF Later, Never
      <4>3. silent <= DeadAfter
        BY <4>1, <4>2 DEF PresumedDead
      <4>4. silence > StaleAfter => silent > StaleAfter
        BY <4>2
      <4>5. stale' <=> silent > StaleAfter
        <5> HIDE DEF silent, checked, LiveInv, LiveIsLive
        <5> QED BY <3>1, <4>2, <4>4, Zenon
      <4> HIDE DEF checked
      <4> QED BY <3>1, <3>2, <4>1, <4>2, <4>3, <4>5
    <3>3. CASE state' # "live"
      BY <3>1, <3>3
    <3> QED BY <3>2, <3>3
  <2>10. CASE UNCHANGED vars
    BY <2>10 DEF vars, link, sequence
  <2> QED
    BY <2>1, <2>2, <2>3, <2>4, <2>5, <2>6, <2>7, <2>8, <2>9, <2>10 DEF Next
<1> QED BY <1>1, <1>2, PTL DEF Spec, LiveInv

(* DisplayIsHonest: what a live display claims, and what it asks for.      *)
THEOREM HonestDisplay == Spec => []DisplayIsHonest
BY LiveHolds, GapsAsked, PTL DEF DisplayIsHonest

-----------------------------------------------------------------------------
(* What the client counts, and what it waits for.                          *)
CountInv ==
    /\ attempts \in 0 .. MaxAttempts + 1 /\ retry \in NoTimer .. MaxDelay
    /\ silence \in Never .. DeadAfter + 1 /\ quiet \in 0 .. DeadAfter + 1

NameInv == state \in LinkStates /\ socket \in {"none", "opening", "open"}

FlagInv == stale \in BOOLEAN /\ expected \in BOOLEAN /\ online \in BOOLEAN

(* A client that is connecting or connected has its socket.                *)
ComingInv ==
    /\ SomethingIsComing
    /\ state \in {"connecting", "syncing", "live"} => socket # "none"

(* A delay is never the absence of a timer.                                *)
LEMMA DelayIsTicks == ASSUME NEW n PROVE Delay(n) \in 1 .. MaxDelay
BY TimesAssumption DEF Delay

LEMMA RescheduleCounts ==
    ASSUME NEW n \in 0 .. MaxAttempts + 1, NEW timer \in NoTimer .. MaxDelay, NEW isOnline,
           Reschedule(n, timer, isOnline)
    PROVE  attempts' \in 0 .. MaxAttempts + 1 /\ retry' \in NoTimer .. MaxDelay
BY TimesAssumption, DelayIsTicks DEF Reschedule, Failed, NoTimer

LEMMA ConnectCounts ==
    ASSUME NEW n \in 0 .. MaxAttempts + 1, NEW timer \in NoTimer .. MaxDelay, NEW isOnline,
           NEW left, quiet \in 0 .. DeadAfter + 1, Connect(n, left, timer, isOnline)
    PROVE  /\ attempts' \in 0 .. MaxAttempts + 1 /\ retry' \in NoTimer .. MaxDelay
           /\ quiet' \in 0 .. DeadAfter + 1
BY TimesAssumption, RescheduleCounts DEF Connect, NewSocket, history

(* CountInv: attempts, delays and silences stay within their limits.       *)
THEOREM Counts == Spec => []CountInv
<1> USE TimesAssumption
<1>1. Init => CountInv
  BY DEF Init, CountInv, Never, NoTimer
<1>2. CountInv /\ [Next]_vars => CountInv'
  <2> SUFFICES ASSUME CountInv, [Next]_vars PROVE CountInv'
    OBVIOUS
  <2> USE DEF CountInv
  <2>0. 0 \in 0 .. MaxAttempts + 1 /\ NoTimer \in NoTimer .. MaxDelay
    BY DEF NoTimer
  <2>1. CASE Start
    BY <2>1, ConnectCounts DEF Start
  <2>2. CASE RetryNow
    BY <2>0, <2>2, ConnectCounts DEF RetryNow, ConnectNow
  <2>3. CASE RetryFires
    BY <2>0, <2>3, ConnectCounts DEF RetryFires
  <2>4. CASE GoOnline
    BY <2>0, <2>4, ConnectCounts DEF GoOnline, ConnectNow, link, history
  <2>5. ASSUME NEW b \in BOOLEAN, Closes(b) PROVE CountInv'
    BY <2>5, RescheduleCounts DEF Closes, history
  <2>6. CASE Tick
    <3>1. Countdown \in NoTimer .. MaxDelay
      BY <2>6 DEF Tick, Countdown, NoTimer
    <3>2. attempts' \in 0 .. MaxAttempts + 1 /\ retry' \in NoTimer .. MaxDelay
      BY <2>6, <3>1, RescheduleCounts DEF Tick
    <3>3. quiet' \in 0 .. DeadAfter + 1 /\ silence' \in Never .. DeadAfter + 1
      BY <2>6 DEF Tick, Later, Never
    <3> QED BY <3>2, <3>3
  <2>7. CASE Snapshot
    BY <2>7 DEF Snapshot, Hears, Never
  <2>8. ASSUME NEW b \in BOOLEAN, Message(b) PROVE CountInv'
    BY <2>8 DEF Message, Hears, Never
  <2>9. CASE Stop
    BY <2>0, <2>9 DEF Stop, history
  <2>10. CASE GoOffline \/ Opens \/ UNCHANGED vars
    BY <2>10 DEF GoOffline, Opens, vars, link, history
  <2> QED
    BY <2>1, <2>2, <2>3, <2>4, <2>5, <2>6, <2>7, <2>8, <2>9, <2>10 DEF Next
<1> QED BY <1>1, <1>2, PTL DEF Spec

-----------------------------------------------------------------------------
LEMMA RescheduleNames ==
    ASSUME NEW n, NEW timer, NEW isOnline, Reschedule(n, timer, isOnline)
    PROVE  state' \in LinkStates
BY DEF Reschedule, LinkStates

LEMMA ConnectNames ==
    ASSUME NEW n, NEW timer, NEW isOnline, NEW left \in {"none", "opening", "open"},
           Connect(n, left, timer, isOnline)
    PROVE  NameInv'
BY RescheduleNames DEF Connect, NewSocket, LinkStates, NameInv

(* NameInv: the link and its socket are always in a state they have.        *)
THEOREM Names == Spec => []NameInv
<1>1. Init => NameInv
  BY DEF Init, NameInv, LinkStates
<1>2. NameInv /\ [Next]_vars => NameInv'
  <2> SUFFICES ASSUME NameInv, [Next]_vars PROVE NameInv'
    OBVIOUS
  <2>1. CASE Start \/ RetryNow \/ RetryFires
    BY <2>1, ConnectNames DEF Start, RetryNow, RetryFires, ConnectNow, NameInv
  <2>2. CASE GoOnline
    BY <2>2, ConnectNames DEF GoOnline, ConnectNow, link, NameInv
  <2>3. CASE Stop \/ GoOffline \/ Opens \/ Snapshot
    BY <2>3 DEF Stop, GoOffline, Opens, Snapshot, NameInv, LinkStates
  <2>4. ASSUME NEW b \in BOOLEAN, Message(b) \/ Closes(b) PROVE NameInv'
    BY <2>4, RescheduleNames DEF Message, Closes, NameInv, LinkStates
  <2>5. CASE Tick
    BY <2>5, RescheduleNames DEF Tick, NameInv
  <2>6. CASE UNCHANGED vars
    BY <2>6 DEF vars, link, NameInv
  <2> QED BY <2>1, <2>2, <2>3, <2>4, <2>5, <2>6 DEF Next
<1> QED BY <1>1, <1>2, PTL DEF Spec

(* FlagInv: every flag of the client is true or false.                      *)
THEOREM Flags == Spec => []FlagInv
<1>1. Init => FlagInv
  BY DEF Init, FlagInv
<1>2. FlagInv /\ [Next]_vars => FlagInv'
  <2> SUFFICES ASSUME FlagInv, [Next]_vars PROVE FlagInv'
    OBVIOUS
  <2> USE DEF FlagInv
  <2>1. ASSUME NEW n, NEW left, NEW timer, NEW isOnline, Connect(n, left, timer, isOnline)
        PROVE  expected' \in BOOLEAN
    BY <2>1 DEF Connect, NewSocket, sequence
  <2>2. CASE Start \/ RetryNow \/ RetryFires
    BY <2>1, <2>2 DEF Start, RetryNow, RetryFires, ConnectNow
  <2>3. CASE GoOnline
    BY <2>1, <2>3 DEF GoOnline, ConnectNow, link, sequence
  <2>4. CASE Stop \/ GoOffline \/ Opens
    BY <2>4 DEF Stop, GoOffline, Opens, sequence
  <2>5. CASE Snapshot
    BY <2>5 DEF Snapshot, Hears, Answered
  <2>6. ASSUME NEW b \in BOOLEAN, Message(b) \/ Closes(b) PROVE FlagInv'
    BY <2>6 DEF Message, Closes, Hears
  <2>7. CASE Tick
    <3>1. (expected' = FALSE \/ UNCHANGED expected) /\ UNCHANGED online
      BY <2>7 DEF Tick
    <3>2. \E p : stale' = (stale \/ p)
      BY <2>7, Zenon DEF Tick
    <3> QED BY <3>1, <3>2, Zenon
  <2>8. CASE UNCHANGED vars
    BY <2>8 DEF vars, link, sequence
  <2> QED BY <2>2, <2>3, <2>4, <2>5, <2>6, <2>7, <2>8 DEF Next
<1> QED BY <1>1, <1>2, PTL DEF Spec

-----------------------------------------------------------------------------
(* Scheduling a retry leaves one waiting, or says that it has given up.    *)
LEMMA RescheduleComes ==
    ASSUME NEW n, NEW timer, NEW isOnline, Reschedule(n, timer, isOnline)
    PROVE  ComingInv'
<1>1. Delay(n + 1) # NoTimer
  BY TimesAssumption, DelayIsTicks DEF NoTimer
<1>2. state' = "failed" \/ (retry' # NoTimer /\ state' \in {"reconnecting", "offline"})
  BY <1>1 DEF Reschedule
<1> QED BY <1>2 DEF ComingInv, SomethingIsComing

LEMMA ConnectComes ==
    ASSUME NEW n, NEW left, NEW timer, Connect(n, left, timer, online')
    PROVE  ComingInv'
<1>1. CASE Reschedule(n, timer, online')
  BY <1>1, RescheduleComes
<1>2. CASE ~Reschedule(n, timer, online')
  BY <1>2 DEF Connect, NewSocket, ComingInv, SomethingIsComing
<1> QED BY <1>1, <1>2

(* SomethingIsComing, on which the operator's patience rests.              *)
THEOREM Coming == Spec => []SomethingIsComing
<1>1. Init => ComingInv
  BY DEF Init, ComingInv, SomethingIsComing
<1>2. ComingInv /\ CountInv /\ NameInv /\ [Next]_vars => ComingInv'
  <2> SUFFICES ASSUME ComingInv, CountInv, NameInv, [Next]_vars PROVE ComingInv'
    OBVIOUS
  <2>1. CASE Start \/ RetryNow \/ RetryFires
    <3>1. online' = online
      BY <2>1 DEF Start, RetryNow, RetryFires
    <3>2. \E n, left, timer : Connect(n, left, timer, online')
      BY <2>1, <3>1 DEF Start, RetryNow, RetryFires, ConnectNow
    <3> QED BY <3>2, ConnectComes
  <2>2. CASE GoOnline
    <3>1. CASE state \in {"offline", "reconnecting"}
      <4>1. \E n, left, timer : Connect(n, left, timer, online')
        BY <2>2, <3>1 DEF GoOnline, ConnectNow
      <4> QED BY <4>1, ConnectComes
    <3>2. CASE state \notin {"offline", "reconnecting"}
      <4>1. UNCHANGED <<state, socket, retry>> /\ state \notin {"offline", "reconnecting"}
        BY <2>2, <3>2 DEF GoOnline, link
      <4> QED BY <4>1 DEF ComingInv, SomethingIsComing, NameInv, LinkStates
    <3> QED BY <3>1, <3>2
  <2>3. CASE Stop \/ GoOffline \/ Opens
    BY <2>3 DEF Stop, GoOffline, Opens, ComingInv, SomethingIsComing
  <2>4. CASE Snapshot
    BY <2>4 DEF Snapshot, ComingInv, SomethingIsComing
  <2>5. ASSUME NEW b \in BOOLEAN, Message(b) PROVE ComingInv'
    BY <2>5 DEF Message, ComingInv, SomethingIsComing
  <2>6. ASSUME NEW b \in BOOLEAN, Closes(b) PROVE ComingInv'
    <3>1. state' = "unauthorized" \/ Reschedule(attempts, retry, online)
      BY <2>6 DEF Closes
    <3> QED BY <3>1, RescheduleComes DEF ComingInv, SomethingIsComing
  <2>7. CASE Tick
    <3>1. \/ Reschedule(attempts, Countdown, online)
          \/ retry' = Countdown /\ UNCHANGED <<state, socket>>
      BY <2>7 DEF Tick
    <3>2. retry # NoTimer => Countdown # NoTimer
      BY <2>7 DEF Tick, Countdown, CountInv, NoTimer
    <3>3. UNCHANGED online
      BY <2>7 DEF Tick
    <3> QED BY <3>1, <3>2, <3>3, RescheduleComes DEF ComingInv, SomethingIsComing
  <2>8. CASE UNCHANGED vars
    BY <2>8 DEF vars, link, ComingInv, SomethingIsComing
  <2> QED BY <2>1, <2>2, <2>3, <2>4, <2>5, <2>6, <2>7, <2>8 DEF Next
<1> QED BY <1>1, <1>2, Counts, Names, PTL DEF Spec, ComingInv

-----------------------------------------------------------------------------
(* ConnectionIsSound: one connection, and never a wait for nothing.        *)
THEOREM SoundConnection == Spec => []ConnectionIsSound
<1>1. Spec => []GapInv
  BY GapsInvariant
<1>2. CountInv /\ NameInv /\ FlagInv /\ GapInv => TypeOK
  <2> SUFFICES ASSUME CountInv, NameInv, FlagInv, GapInv PROVE TypeOK
    OBVIOUS
  <2>1. asked \in 0 .. 1
    BY DEF GapInv
  <2>2. {stale, expected, awaiting, online, behind} \subseteq BOOLEAN
    <3>1. awaiting \in BOOLEAN /\ behind \in BOOLEAN
      BY Zenon DEF GapInv
    <3> QED BY <3>1, Zenon DEF FlagInv
  <2> QED BY <2>1, <2>2 DEF CountInv, NameInv, TypeOK
<1> QED BY <1>1, <1>2, Counts, Names, Flags, OneSocket, Coming, PTL DEF ConnectionIsSound

-----------------------------------------------------------------------------
(* The camera's board.  What is said of its camera is on its way in two    *)
(* queues, older and newer: of what is said, the last word counts.         *)
Updates == [type : {"analysis"}, analysis : Analyses] \cup [type : {"cameras"}, camera : BOOLEAN]
Snapshots ==
    [type : {"snapshot"}, camera : BOOLEAN, analysis : Board!Shown, all : {TRUE}]
        \cup [type : {"snapshot"}, camera : {FALSE}, analysis : {Board!None}, all : {FALSE}]
Messages == Updates \cup Snapshots
Analysed == [type : {"analysis"}, analysis : Analyses, changed : BOOLEAN]
Transitions == {m \in Analysed : m.changed = TRUE}
Edits == [type : {"cameras"}]
Tasks == Analysed \cup Edits

Silent(q, About) == \A j \in 1 .. Len(q) : q[j] \notin About
LastIs(q, About, Right) ==
    \E i \in 1 .. Len(q) : q[i] \in Right /\ \A j \in 1 .. Len(q) : j > i => q[j] \notin About
Told(older, newer, About, Right) ==
    LastIs(newer, About, Right) \/ (Silent(newer, About) /\ LastIs(older, About, Right))
Still(older, newer, About) == Silent(older, About) /\ Silent(newer, About)

(* Messages that change what the board shows of the analysis or the card,  *)
(* and those that make it right.                                           *)
OfAnalysis == {m \in Messages : m.type = "cameras" => m.camera = FALSE}
OfCard == {m \in Messages : m.type # "analysis"}
BandIs(b) ==
    {m \in Messages : \/ m.type = "analysis" /\ m.analysis.band = b
                      \/ m.type = "snapshot" /\ (m.all = FALSE \/ m.analysis.band = b)}
CardIs(there) ==
    {m \in Messages : \/ m.type = "cameras" /\ m.camera = there
                      \/ m.type = "snapshot" /\ (m.all = FALSE \/ m.camera = there)}
Cleared ==
    {m \in Messages : \/ m.type = "cameras" /\ m.camera = FALSE
                      \/ m.type = "snapshot" /\ m.analysis = Board!None}

(* Of the tasks dispatched, what follows the last transition has its band; *)
(* after the analyses of a camera that is gone comes word of the edit.     *)
Settles(q, b) ==
    \A i \in 1 .. Len(q) :
        q[i] \in Analysed /\ (\A j \in 1 .. Len(q) : j > i => q[j] \notin Transitions)
            => q[i].analysis.band = b
EditsFollow(q) ==
    \A i \in 1 .. Len(q) : q[i] \in Analysed => \E j \in 1 .. Len(q) : j > i /\ q[j] \in Edits

BoardTypes ==
    /\ present \in BOOLEAN /\ connected \in BOOLEAN /\ building \in BOOLEAN
    /\ polling \in BOOLEAN /\ whole \in BOOLEAN /\ Board!TypeOK
    /\ dispatched \in Seq(Tasks) /\ sending \in Seq(Updates) /\ outbox \in Seq(Messages)
    /\ connected = FALSE => outbox = <<>> /\ sending = <<>>
    /\ connected = TRUE /\ polling = TRUE => building = TRUE \/ ~Silent(outbox, Snapshots)

BandOnBoard ==
    \/ building = TRUE \/ board.analysis.band = latest.band
    \/ board.analysis = Board!None /\ whole = FALSE
BandInv ==
    latest # Board!None =>
    /\ Settles(dispatched, latest.band)
    /\ connected = TRUE /\ Silent(dispatched, Transitions) =>
          \/ Told(outbox, sending, OfAnalysis, BandIs(latest.band))
          \/ Still(outbox, sending, OfAnalysis) /\ BandOnBoard

CardOnBoard ==
    \/ building = TRUE
    \/ /\ board.camera = TRUE => present = TRUE
       /\ present = TRUE /\ whole = TRUE => board.camera = TRUE
CardInv ==
    connected = TRUE /\ Silent(dispatched, Edits) =>
        \/ Told(outbox, sending, OfCard, CardIs(present))
        \/ Still(outbox, sending, OfCard) /\ CardOnBoard

GoneInv ==
    present = FALSE =>
    /\ latest = Board!None /\ EditsFollow(dispatched)
    /\ connected = TRUE /\ Silent(dispatched, Edits) =>
          \/ Told(outbox, sending, OfAnalysis, Cleared)
          \/ Still(outbox, sending, OfAnalysis)
             /\ (building = TRUE \/ board.analysis = Board!None)

BoardInv == BoardTypes /\ BandInv /\ CardInv /\ GoneInv

(* About queues.                                                           *)
LEMMA Queue ==
    ASSUME NEW S, NEW q \in Seq(S)
    PROVE  /\ Len(q) \in Nat
           /\ \A x \in S : /\ Append(q, x) \in Seq(S) /\ Len(Append(q, x)) = Len(q) + 1
                           /\ Append(q, x)[Len(q) + 1] = x
                           /\ \A i \in 1 .. Len(q) : Append(q, x)[i] = q[i]
           /\ q # <<>> => /\ Tail(q) \in Seq(S) /\ Head(q) \in S /\ Head(q) = q[1]
                          /\ Len(Tail(q)) = Len(q) - 1 /\ Len(q) > 0
                          /\ \A i \in 1 .. Len(q) - 1 : Tail(q)[i] = q[i + 1]
           /\ q = <<>> => Len(q) = 0
OBVIOUS

LEMMA SilentTail ==
    ASSUME NEW S, NEW q \in Seq(S), q # <<>>, NEW About
    PROVE  Silent(q, About) <=> Head(q) \notin About /\ Silent(Tail(q), About)
<1>1. ASSUME Silent(q, About) PROVE Head(q) \notin About /\ Silent(Tail(q), About)
  BY <1>1, Queue DEF Silent
<1>2. ASSUME Head(q) \notin About, Silent(Tail(q), About) PROVE Silent(q, About)
  <2> SUFFICES ASSUME NEW j \in 1 .. Len(q) PROVE q[j] \notin About
    BY DEF Silent
  <2>1. CASE j = 1
    BY <1>2, <2>1, Queue
  <2>2. CASE j # 1
    <3>1. PICK k \in 1 .. Len(q) - 1 : j = k + 1
      BY <2>2, Queue
    <3> QED BY <1>2, <3>1, Queue DEF Silent
  <2> QED BY <2>1, <2>2
<1> QED BY <1>1, <1>2

LEMMA SilentAppend ==
    ASSUME NEW S, NEW q \in Seq(S), NEW m \in S, NEW About
    PROVE  Silent(Append(q, m), About) <=> m \notin About /\ Silent(q, About)
BY Queue DEF Silent

LEMMA LastTail ==
    ASSUME NEW S, NEW q \in Seq(S), q # <<>>, NEW About, NEW Right, LastIs(q, About, Right)
    PROVE  \/ LastIs(Tail(q), About, Right)
           \/ Silent(Tail(q), About) /\ Head(q) \in Right
<1>1. PICK i \in 1 .. Len(q) :
         q[i] \in Right /\ \A j \in 1 .. Len(q) : j > i => q[j] \notin About
  BY DEF LastIs
<1>2. CASE i = 1
  BY <1>1, <1>2, Queue DEF Silent
<1>3. CASE i # 1
  <2>1. PICK k \in 1 .. Len(q) - 1 : i = k + 1
    BY <1>3, Queue
  <2>2. Tail(q)[k] \in Right /\ k \in 1 .. Len(Tail(q))
    BY <1>1, <2>1, Queue
  <2>3. \A j \in 1 .. Len(Tail(q)) : j > k => Tail(q)[j] \notin About
    BY <1>1, <2>1, Queue
  <2> QED BY <2>2, <2>3 DEF LastIs
<1> QED BY <1>2, <1>3

LEMMA LastAppend ==
    ASSUME NEW S, NEW q \in Seq(S), NEW m \in S, NEW About, NEW Right
    PROVE  /\ m \in Right => LastIs(Append(q, m), About, Right)
           /\ m \notin About /\ LastIs(q, About, Right) => LastIs(Append(q, m), About, Right)
<1>1. ASSUME m \in Right PROVE LastIs(Append(q, m), About, Right)
  BY <1>1, Queue DEF LastIs
<1>2. ASSUME m \notin About, LastIs(q, About, Right) PROVE LastIs(Append(q, m), About, Right)
  <2>1. PICK i \in 1 .. Len(q) :
           q[i] \in Right /\ \A j \in 1 .. Len(q) : j > i => q[j] \notin About
    BY <1>2 DEF LastIs
  <2>2. Append(q, m)[i] \in Right /\ i \in 1 .. Len(Append(q, m))
    BY <2>1, Queue
  <2>3. \A j \in 1 .. Len(Append(q, m)) : j > i => Append(q, m)[j] \notin About
    BY <1>2, <2>1, Queue
  <2> QED BY <2>2, <2>3 DEF LastIs
<1> QED BY <1>1, <1>2

(* Something more is said, or nothing to the point.                        *)
LEMMA Said ==
    ASSUME NEW o, NEW s \in Seq(Updates), NEW m \in Updates, NEW About, NEW Right
    PROVE  /\ m \in Right => Told(o, Append(s, m), About, Right)
           /\ m \notin About /\ Told(o, s, About, Right) => Told(o, Append(s, m), About, Right)
           /\ m \notin About /\ Still(o, s, About) => Still(o, Append(s, m), About)
BY SilentAppend, LastAppend DEF Told, Still

(* A message goes out (ConnectionManager's send).                          *)
LEMMA Sent ==
    ASSUME NEW o \in Seq(Messages), NEW s \in Seq(Updates), s # <<>>, NEW About, NEW Right
    PROVE  /\ Told(o, s, About, Right) => Told(Append(o, Head(s)), Tail(s), About, Right)
           /\ Still(o, s, About) => Still(Append(o, Head(s)), Tail(s), About)
<1>1. Head(s) \in Messages
  BY Queue DEF Messages
<1>2. Silent(s, About) => Head(s) \notin About /\ Silent(Tail(s), About)
  BY SilentTail
<1>3. LastIs(s, About, Right) =>
         LastIs(Tail(s), About, Right) \/ (Silent(Tail(s), About) /\ Head(s) \in Right)
  BY LastTail
<1>4. /\ Head(s) \in Right => LastIs(Append(o, Head(s)), About, Right)
      /\ Head(s) \notin About /\ LastIs(o, About, Right) => LastIs(Append(o, Head(s)), About, Right)
      /\ Head(s) \notin About /\ Silent(o, About) => Silent(Append(o, Head(s)), About)
  BY <1>1, LastAppend, SilentAppend
<1> QED BY <1>2, <1>3, <1>4 DEF Told, Still

(* A snapshot is sent, behind what went out and ahead of what did not.     *)
LEMMA Built ==
    ASSUME NEW o \in Seq(Messages), NEW s, NEW m \in Messages, NEW About, NEW Right,
           m \in Right, Told(o, s, About, Right) \/ Still(o, s, About)
    PROVE  Told(Append(o, m), s, About, Right)
BY LastAppend DEF Told, Still

(* A message arrives.                                                      *)
LEMMA Arrived ==
    ASSUME NEW o \in Seq(Messages), NEW s, o # <<>>, NEW About, NEW Right
    PROVE  /\ Told(o, s, About, Right) =>
                 \/ Told(Tail(o), s, About, Right)
                 \/ Still(Tail(o), s, About) /\ Head(o) \in Right
           /\ Still(o, s, About) => Still(Tail(o), s, About) /\ Head(o) \notin About
<1>1. Silent(o, About) => Head(o) \notin About /\ Silent(Tail(o), About)
  BY SilentTail
<1>2. LastIs(o, About, Right) =>
         LastIs(Tail(o), About, Right) \/ (Silent(Tail(o), About) /\ Head(o) \in Right)
  BY LastTail
<1> QED BY <1>1, <1>2 DEF Told, Still

LEMMA Nothing ==
    ASSUME NEW About, NEW Right
    PROVE  Still(<<>>, <<>>, About) /\ Silent(<<>>, About) /\ ~Told(<<>>, <<>>, About, Right)
BY DEF Still, Silent, Told, LastIs

(* About tasks.                                                            *)
LEMMA SettlesTail ==
    ASSUME NEW q \in Seq(Tasks), q # <<>>, NEW b, Settles(q, b)
    PROVE  /\ Settles(Tail(q), b)
           /\ Head(q) \in Analysed /\ Silent(Tail(q), Transitions) => Head(q).analysis.band = b
<1>1. Settles(Tail(q), b)
  <2>1. SUFFICES ASSUME NEW i \in 1 .. Len(Tail(q)), Tail(q)[i] \in Analysed,
                        \A j \in 1 .. Len(Tail(q)) : j > i => Tail(q)[j] \notin Transitions
                 PROVE  Tail(q)[i].analysis.band = b
    BY DEF Settles
  <2>2. Tail(q)[i] = q[i + 1] /\ i + 1 \in 1 .. Len(q)
    BY <2>1, Queue
  <2>3. \A j \in 1 .. Len(q) : j > i + 1 => q[j] \notin Transitions
    <3>1. SUFFICES ASSUME NEW j \in 1 .. Len(q), j > i + 1 PROVE q[j] \notin Transitions
      OBVIOUS
    <3>2. PICK k \in 1 .. Len(q) - 1 : j = k + 1
      BY <3>1, Queue
    <3> QED BY <2>1, <3>1, <3>2, Queue
  <2> QED BY <2>1, <2>2, <2>3 DEF Settles
<1>2. ASSUME Head(q) \in Analysed, Silent(Tail(q), Transitions)
      PROVE  Head(q).analysis.band = b
  <2>1. \A j \in 1 .. Len(q) : j > 1 => q[j] \notin Transitions
    <3>1. SUFFICES ASSUME NEW j \in 1 .. Len(q), j > 1 PROVE q[j] \notin Transitions
      OBVIOUS
    <3>2. PICK k \in 1 .. Len(q) - 1 : j = k + 1
      BY <3>1, Queue
    <3> QED BY <1>2, <3>2, Queue DEF Silent
  <2>2. 1 \in 1 .. Len(q) /\ q[1] = Head(q)
    BY Queue
  <2> QED BY <1>2, <2>1, <2>2 DEF Settles
<1> QED BY <1>1, <1>2

LEMMA SettlesAppend ==
    ASSUME NEW q \in Seq(Tasks), NEW m \in Tasks, NEW b,
           m \in Analysed => m.analysis.band = b, Settles(q, b) \/ m \in Transitions
    PROVE  Settles(Append(q, m), b)
<1>1. SUFFICES ASSUME NEW i \in 1 .. Len(Append(q, m)), Append(q, m)[i] \in Analysed,
                      \A j \in 1 .. Len(Append(q, m)) : j > i => Append(q, m)[j] \notin Transitions
               PROVE  Append(q, m)[i].analysis.band = b
  BY DEF Settles
<1>2. CASE i = Len(q) + 1
  BY <1>1, <1>2, Queue
<1>3. CASE i # Len(q) + 1
  <2>1. i \in 1 .. Len(q) /\ Append(q, m)[i] = q[i]
    BY <1>3, Queue
  <2>2. m \notin Transitions
    BY <1>1, <2>1, Queue
  <2>3. \A j \in 1 .. Len(q) : j > i => q[j] \notin Transitions
    BY <1>1, <2>1, Queue
  <2> QED BY <1>1, <2>1, <2>2, <2>3 DEF Settles
<1> QED BY <1>2, <1>3

LEMMA EditsFollowTail ==
    ASSUME NEW q \in Seq(Tasks), q # <<>>, EditsFollow(q)
    PROVE  /\ EditsFollow(Tail(q))
           /\ Head(q) \in Analysed => ~Silent(Tail(q), Edits)
<1>1. ASSUME NEW i \in 1 .. Len(q), q[i] \in Analysed
      PROVE  \E k \in 1 .. Len(Tail(q)) : k + 1 > i /\ Tail(q)[k] \in Edits
  <2>1. PICK j \in 1 .. Len(q) : j > i /\ q[j] \in Edits
    BY <1>1 DEF EditsFollow
  <2>2. PICK k \in 1 .. Len(q) - 1 : j = k + 1
    BY <2>1, Queue
  <2> QED BY <2>1, <2>2, Queue
<1>2. EditsFollow(Tail(q))
  <2>1. SUFFICES ASSUME NEW i \in 1 .. Len(Tail(q)), Tail(q)[i] \in Analysed
                 PROVE  \E k \in 1 .. Len(Tail(q)) : k > i /\ Tail(q)[k] \in Edits
    BY DEF EditsFollow
  <2>2. Tail(q)[i] = q[i + 1] /\ i + 1 \in 1 .. Len(q)
    BY Queue
  <2>3. PICK k \in 1 .. Len(Tail(q)) : k + 1 > i + 1 /\ Tail(q)[k] \in Edits
    BY <1>1, <2>1, <2>2
  <2> QED BY <2>3, Queue
<1>3. Head(q) \in Analysed => ~Silent(Tail(q), Edits)
  <2>1. 1 \in 1 .. Len(q) /\ q[1] = Head(q)
    BY Queue
  <2> QED BY <1>1, <2>1 DEF Silent
<1> QED BY <1>2, <1>3

LEMMA EditsFollowAppend ==
    ASSUME NEW q \in Seq(Tasks), NEW m \in Edits
    PROVE  EditsFollow(Append(q, m)) /\ ~Silent(Append(q, m), Edits)
<1>1. m \in Tasks /\ m \notin Analysed
  BY DEF Tasks, Analysed, Edits
<1>2. /\ Len(q) + 1 \in 1 .. Len(Append(q, m)) /\ Append(q, m)[Len(q) + 1] = m
      /\ Len(Append(q, m)) = Len(q) + 1 /\ Len(q) \in Nat
  BY <1>1, Queue
<1>3. EditsFollow(Append(q, m))
  BY <1>1, <1>2 DEF EditsFollow
<1>4. ~Silent(Append(q, m), Edits)
  BY <1>2 DEF Silent
<1> QED BY <1>3, <1>4

-----------------------------------------------------------------------------
(* The steps of the board.                                                 *)

LEMMA BoardNames ==
    /\ Analyses \subseteq Board!Shown /\ Board!None \in Board!Shown
    /\ Board!None \notin Analyses /\ \A x \in Analyses : x.band # Board!None.band
    /\ Interval \in Nat /\ MaxBacklog \in Nat
BY BoardAssumption DEF Board!ConstantsAssumption, Board!Shown

LEMMA BoardStarts == ASSUME Board!Init PROVE BoardInv
<1> USE DEF Board!Init
<1>1. BoardTypes
  <2>1. Board!TypeOK
    BY BoardNames DEF Board!TypeOK, Board!Idle
  <2>2. <<>> \in Seq(Tasks) /\ <<>> \in Seq(Updates) /\ <<>> \in Seq(Messages)
    OBVIOUS
  <2> HIDE DEF Tasks, Updates, Messages
  <2> QED BY <2>1, <2>2 DEF BoardTypes
<1>2. BandInv /\ CardInv
  BY DEF BandInv, CardInv
<1>3. EditsFollow(dispatched)
  BY DEF EditsFollow
<1> QED BY <1>1, <1>2, <1>3 DEF BoardInv, GoneInv

(* A window is analysed: it changes the band, and is dispatched as a       *)
(* transition, or it does not.                                             *)
LEMMA WindowKeeps == ASSUME BoardInv, NEW x \in Analyses, Board!Window(x) PROVE BoardInv'
<1>1. PICK m : m = [type |-> "analysis", analysis |-> x, changed |-> Board!Changed(x)]
  OBVIOUS
<1>2. /\ present = TRUE /\ latest' = x /\ dispatched' = Append(dispatched, m)
      /\ UNCHANGED <<present, sending, outbox, rest, connected, building, polling, poll, board,
                     whole>>
  BY <1>1 DEF Board!Window, BoardInv, BoardTypes
<1>3. /\ m \in Analysed /\ m \in Tasks /\ m.analysis = x /\ m \notin Edits
      /\ m \in Transitions <=> latest.band # x.band
  BY <1>1 DEF Analysed, Tasks, Transitions, Edits, Board!Changed
<1>4. BoardTypes'
  <2>1. dispatched' \in Seq(Tasks)
    BY <1>2, <1>3, Queue DEF BoardInv, BoardTypes
  <2>2. Board!TypeOK'
    BY <1>2, BoardNames DEF BoardInv, BoardTypes, Board!TypeOK
  <2> QED BY <1>2, <2>1, <2>2 DEF BoardInv, BoardTypes
<1>5. /\ Silent(dispatched', Transitions) <=> m \notin Transitions /\ Silent(dispatched, Transitions)
      /\ Silent(dispatched', Edits) <=> Silent(dispatched, Edits)
  BY <1>2, <1>3, SilentAppend DEF BoardInv, BoardTypes
<1>6. m \notin Transitions => latest # Board!None /\ latest.band = x.band
  BY <1>3, BoardNames
<1>7. Settles(dispatched', x.band)
  <2>1. Settles(dispatched, x.band) \/ m \in Transitions
    BY <1>6 DEF BoardInv, BandInv
  <2> QED BY <1>2, <1>3, <2>1, SettlesAppend DEF BoardInv, BoardTypes
<1>8. BandInv'
  <2>1. CASE m \in Transitions
    BY <1>2, <1>5, <1>7, <2>1 DEF BandInv
  <2>2. CASE m \notin Transitions
    <3>1. /\ BandIs(x.band) = BandIs(latest.band) /\ latest'.band = x.band
          /\ Silent(dispatched, Transitions) <=> Silent(dispatched', Transitions)
      BY <1>2, <1>5, <1>6, <2>2
    <3>2. BandOnBoard' <=> BandOnBoard
      BY <1>2, <1>6, <2>2 DEF BandOnBoard
    <3> QED BY <1>2, <1>6, <1>7, <2>2, <3>1, <3>2 DEF BoardInv, BandInv
  <2> QED BY <2>1, <2>2
<1>9. CardInv'
  BY <1>2, <1>5 DEF BoardInv, CardInv, CardOnBoard
<1>10. GoneInv'
  BY <1>2 DEF GoneInv
<1> QED BY <1>4, <1>8, <1>9, <1>10 DEF BoardInv

(* The camera is edited, which is dispatched after what was analysed.      *)
LEMMA EditKeeps == ASSUME BoardInv, NEW there \in BOOLEAN, Board!Edit(there) PROVE BoardInv'
<1>1. PICK m : m = [type |-> "cameras"]
  OBVIOUS
<1>2. /\ present' = there /\ dispatched' = Append(dispatched, m)
      /\ latest' = Board!None \/ (there = TRUE /\ latest' = latest)
      /\ UNCHANGED <<sending, outbox, rest, connected, building, polling, poll, board, whole>>
  BY <1>1 DEF Board!Edit
<1>3. m \in Edits /\ m \in Tasks /\ m \notin Analysed /\ m \notin Transitions
  BY <1>1 DEF Edits, Tasks, Analysed, Transitions
<1>4. BoardTypes'
  <2>1. dispatched' \in Seq(Tasks)
    BY <1>2, <1>3, Queue DEF BoardInv, BoardTypes
  <2>2. Board!TypeOK'
    BY <1>2, BoardNames DEF BoardInv, BoardTypes, Board!TypeOK
  <2> QED BY <1>2, <2>1, <2>2 DEF BoardInv, BoardTypes
<1>5. /\ Silent(dispatched', Transitions) <=> Silent(dispatched, Transitions)
      /\ ~Silent(dispatched', Edits) /\ EditsFollow(dispatched')
  BY <1>2, <1>3, SilentAppend, EditsFollowAppend DEF BoardInv, BoardTypes
<1>6. BandInv'
  <2>1. SUFFICES ASSUME latest' # Board!None PROVE BandInv'
    BY DEF BandInv
  <2>2. latest' = latest /\ latest # Board!None
    BY <1>2, <2>1
  <2>3. Settles(dispatched', latest.band)
    BY <1>2, <1>3, <2>2, SettlesAppend DEF BoardInv, BoardTypes, BandInv
  <2> QED BY <1>2, <1>5, <2>2, <2>3 DEF BoardInv, BandInv, BandOnBoard
<1>7. CardInv'
  BY <1>5 DEF CardInv
<1>8. GoneInv'
  BY <1>2, <1>5 DEF GoneInv
<1> QED BY <1>4, <1>6, <1>7, <1>8 DEF BoardInv

(* The cameras are sent as they are now.                                   *)
LEMMA CamerasSent ==
    ASSUME BoardInv, NEW u, u = [type |-> "cameras", camera |-> present],
           connected = TRUE, sending' = Append(sending, u),
           UNCHANGED <<present, latest, dispatched, outbox, connected, building, polling, poll,
                       rest, board, whole>>
    PROVE  BoardInv'
<1>1. /\ u \in Updates /\ u \in CardIs(present)
      /\ present = FALSE => u \in Cleared
      /\ present = TRUE => u \notin OfAnalysis
  BY DEF BoardInv, BoardTypes, Updates, Messages, CardIs, Cleared, OfAnalysis
<1>2. BoardTypes'
  <2>1. sending' \in Seq(Updates)
    BY <1>1, Queue DEF BoardInv, BoardTypes
  <2>2. Board!TypeOK'
    BY DEF BoardInv, BoardTypes, Board!TypeOK
  <2> QED BY <2>1, <2>2 DEF BoardInv, BoardTypes
<1>3. BandInv'
  <2>1. SUFFICES ASSUME latest # Board!None PROVE BandInv'
    BY DEF BandInv
  <2>2. u \notin OfAnalysis
    BY <1>1, <2>1 DEF BoardInv, BoardTypes, GoneInv
  <2>3. /\ Told(outbox, sending, OfAnalysis, BandIs(latest.band)) =>
             Told(outbox, sending', OfAnalysis, BandIs(latest.band))
        /\ Still(outbox, sending, OfAnalysis) => Still(outbox, sending', OfAnalysis)
    BY <1>1, <2>2, Said DEF BoardInv, BoardTypes
  <2> QED BY <2>3 DEF BoardInv, BandInv, BandOnBoard
<1>4. CardInv'
  BY <1>1, Said DEF BoardInv, BoardTypes, CardInv
<1>5. GoneInv'
  BY <1>1, Said DEF BoardInv, BoardTypes, GoneInv
<1> QED BY <1>2, <1>3, <1>4, <1>5 DEF BoardInv

(* A dispatched task runs.                                                 *)
LEMMA BroadcastKeeps == ASSUME BoardInv, Board!Broadcast PROVE BoardInv'
<1>1. PICK m : m = Head(dispatched)
  OBVIOUS
<1>2. /\ dispatched # <<>> /\ dispatched' = Tail(dispatched)
      /\ UNCHANGED <<present, latest, outbox, connected, building, polling, poll, board, whole>>
  BY DEF Board!Broadcast
<1>3. /\ m \in Tasks /\ m.type = "cameras" => m \in Edits
      /\ m.type # "cameras" => m \in Analysed /\ m \notin Edits
      /\ m.type = "cameras" => m \notin Analysed /\ m \notin Transitions
  <2>1. m \in Tasks
    BY <1>1, <1>2, Queue DEF BoardInv, BoardTypes
  <2> QED BY <2>1 DEF Tasks, Analysed, Edits, Transitions
<1>4. /\ Silent(dispatched, Transitions) <=> m \notin Transitions /\ Silent(dispatched', Transitions)
      /\ Silent(dispatched, Edits) <=> m \notin Edits /\ Silent(dispatched', Edits)
  BY <1>1, <1>2, SilentTail DEF BoardInv, BoardTypes
<1>5. latest # Board!None =>
         /\ Settles(dispatched', latest.band)
         /\ m \in Analysed /\ Silent(dispatched', Transitions) => m.analysis.band = latest.band
  BY <1>1, <1>2, SettlesTail DEF BoardInv, BoardTypes, BandInv
<1>6. present = FALSE =>
         /\ latest = Board!None /\ EditsFollow(dispatched')
         /\ m \in Analysed => ~Silent(dispatched', Edits)
  BY <1>1, <1>2, EditsFollowTail DEF BoardInv, BoardTypes, GoneInv
<1>7. dispatched' \in Seq(Tasks)
  BY <1>2, Queue DEF BoardInv, BoardTypes
<1>8. CASE connected = FALSE
  <2>1. UNCHANGED <<sending, rest>>
    BY <1>8 DEF Board!Broadcast
  <2>2. BoardTypes'
    BY <1>2, <1>7, <2>1 DEF BoardInv, BoardTypes, Board!TypeOK
  <2> QED BY <1>2, <1>5, <1>6, <1>8, <2>2 DEF BoardInv, BandInv, CardInv, GoneInv
<1>9. CASE connected = TRUE /\ m.type = "cameras"
  <2>1. PICK u : u = [type |-> "cameras", camera |-> present]
    OBVIOUS
  <2>2. sending' = Append(sending, u) /\ rest' = rest
    BY <1>1, <1>9, <2>1 DEF Board!Broadcast, Board!CamerasMessage
  <2>3. /\ u \in Updates /\ u \in CardIs(present)
        /\ present = FALSE => u \in Cleared
        /\ present = TRUE => u \notin OfAnalysis
    BY <2>1 DEF BoardInv, BoardTypes, Updates, Messages, CardIs, Cleared, OfAnalysis
  <2>4. BoardTypes'
    <3>1. sending' \in Seq(Updates)
      BY <2>2, <2>3, Queue DEF BoardInv, BoardTypes
    <3> QED BY <1>2, <1>7, <1>9, <2>2, <3>1 DEF BoardInv, BoardTypes, Board!TypeOK
  <2>5. BandInv'
    <3>1. SUFFICES ASSUME latest # Board!None PROVE BandInv'
      BY <1>2 DEF BandInv
    <3>2. u \notin OfAnalysis
      BY <2>3, <3>1 DEF BoardInv, BoardTypes, GoneInv
    <3>3. /\ Told(outbox, sending, OfAnalysis, BandIs(latest.band)) =>
               Told(outbox, sending', OfAnalysis, BandIs(latest.band))
          /\ Still(outbox, sending, OfAnalysis) => Still(outbox, sending', OfAnalysis)
      BY <2>2, <2>3, <3>2, Said DEF BoardInv, BoardTypes
    <3> QED BY <1>2, <1>3, <1>4, <1>5, <1>9, <3>1, <3>3 DEF BoardInv, BandInv, BandOnBoard
  <2>6. CardInv'
    BY <1>2, <2>2, <2>3, Said DEF BoardInv, BoardTypes, CardInv
  <2>7. GoneInv'
    BY <1>2, <1>6, <2>2, <2>3, Said DEF BoardInv, BoardTypes, GoneInv
  <2> QED BY <2>4, <2>5, <2>6, <2>7 DEF BoardInv
<1>10. CASE connected = TRUE /\ m.type # "cameras" /\ Board!Passes(m)
  <2>1. PICK u : u = [type |-> "analysis", analysis |-> m.analysis]
    OBVIOUS
  <2>2. sending' = Append(sending, u) /\ rest' \in {Interval, rest}
    BY <1>1, <1>10, <2>1 DEF Board!Broadcast, Board!FloorAfter
  <2>3. /\ u \in Updates /\ u \notin OfCard
        /\ latest # Board!None /\ Silent(dispatched', Transitions) => u \in BandIs(latest.band)
    <3>1. m.analysis \in Analyses
      BY <1>3, <1>10 DEF Analysed
    <3>2. u \in Updates /\ u \in Messages /\ u.type = "analysis" /\ u.analysis = m.analysis
      BY <2>1, <3>1 DEF Updates, Messages
    <3> QED BY <1>3, <1>5, <1>10, <3>2 DEF OfCard, BandIs
  <2>4. BoardTypes'
    <3>1. sending' \in Seq(Updates)
      BY <2>2, <2>3, Queue DEF BoardInv, BoardTypes
    <3>2. rest' \in 0 .. Interval
      BY <2>2, BoardNames DEF BoardInv, BoardTypes, Board!TypeOK
    <3> QED BY <1>2, <1>7, <1>10, <3>1, <3>2 DEF BoardInv, BoardTypes, Board!TypeOK
  <2>5. BandInv'
    BY <1>2, <1>5, <2>2, <2>3, Said DEF BoardInv, BoardTypes, BandInv
  <2>6. CardInv'
    BY <1>2, <1>3, <1>4, <1>10, <2>2, <2>3, Said DEF BoardInv, BoardTypes, CardInv, CardOnBoard
  <2>7. GoneInv'
    BY <1>2, <1>3, <1>6, <1>10 DEF GoneInv
  <2> QED BY <2>4, <2>5, <2>6, <2>7 DEF BoardInv
<1>11. CASE connected = TRUE /\ m.type # "cameras" /\ ~Board!Passes(m)
  <2>1. sending' = sending /\ rest' = rest
    BY <1>1, <1>11 DEF Board!Broadcast, Board!FloorAfter
  <2>2. m \notin Transitions
    BY <1>11 DEF Board!Passes, Transitions
  <2>3. BoardTypes'
    BY <1>2, <1>7, <2>1 DEF BoardInv, BoardTypes, Board!TypeOK
  <2>4. BandInv'
    BY <1>2, <1>4, <1>5, <2>1, <2>2 DEF BoardInv, BandInv, BandOnBoard
  <2>5. CardInv'
    BY <1>2, <1>3, <1>4, <1>11, <2>1 DEF BoardInv, CardInv, CardOnBoard
  <2>6. GoneInv'
    BY <1>2, <1>3, <1>6, <1>11 DEF GoneInv
  <2> QED BY <2>3, <2>4, <2>5, <2>6 DEF BoardInv
<1>12. connected \in BOOLEAN
  BY DEF BoardInv, BoardTypes
<1> QED BY <1>8, <1>9, <1>10, <1>11, <1>12

LEMMA StatusPushKeeps == ASSUME BoardInv, Board!StatusPush PROVE BoardInv'
<1>1. PICK u : u = [type |-> "cameras", camera |-> present]
  OBVIOUS
<1>2. /\ connected = TRUE /\ sending' = Append(sending, u)
      /\ UNCHANGED <<present, latest, dispatched, outbox, connected, building, polling, poll,
                     rest, board, whole>>
  BY <1>1 DEF Board!StatusPush, Board!CamerasMessage, BoardInv, BoardTypes
<1> QED BY <1>1, <1>2, CamerasSent

LEMMA TimePassesKeeps == ASSUME BoardInv, Board!TimePasses PROVE BoardInv'
<1>1. /\ rest > 0 /\ rest' = rest - 1
      /\ UNCHANGED <<present, latest, dispatched, sending, outbox, connected, building, polling,
                     poll, board, whole>>
  BY DEF Board!TimePasses
<1>2. rest' \in 0 .. Interval
  BY <1>1, BoardNames DEF BoardInv, BoardTypes, Board!TypeOK
<1>3. BoardTypes'
  BY <1>1, <1>2 DEF BoardInv, BoardTypes, Board!TypeOK
<1> QED BY <1>1, <1>3 DEF BoardInv, BandInv, BandOnBoard, CardInv, CardOnBoard, GoneInv

LEMMA SendStartsKeeps == ASSUME BoardInv, Board!SendStarts PROVE BoardInv'
<1>1. /\ sending # <<>> /\ sending' = Tail(sending) /\ outbox' = Append(outbox, Head(sending))
      /\ UNCHANGED <<present, latest, dispatched, rest, connected, building, polling, poll,
                     board, whole>>
  BY DEF Board!SendStarts
<1>2. sending \in Seq(Updates) /\ outbox \in Seq(Messages) /\ Head(sending) \in Messages
  <2>1. sending \in Seq(Updates) /\ outbox \in Seq(Messages)
    BY DEF BoardInv, BoardTypes
  <2> QED BY <1>1, <2>1, Queue DEF Messages
<1>3. BoardTypes'
  <2>1. sending' \in Seq(Updates) /\ outbox' \in Seq(Messages)
    BY <1>1, <1>2, Queue
  <2>2. connected = TRUE
    BY <1>1 DEF BoardInv, BoardTypes
  <2>3. Silent(outbox', Snapshots) => Silent(outbox, Snapshots)
    BY <1>1, <1>2, SilentAppend
  <2> QED BY <1>1, <2>1, <2>2, <2>3 DEF BoardInv, BoardTypes, Board!TypeOK
<1>4. BandInv' /\ CardInv' /\ GoneInv'
  BY <1>1, <1>2, Sent DEF BoardInv, BandInv, BandOnBoard, CardInv, CardOnBoard, GoneInv
<1> QED BY <1>3, <1>4 DEF BoardInv

(* A connection begins, with a snapshot, and with it the queues.           *)
LEMMA ConnectKeeps == ASSUME BoardInv, Board!Connect PROVE BoardInv'
<1>1. /\ connected = FALSE /\ connected' = TRUE /\ building' = TRUE
      /\ UNCHANGED <<present, latest, dispatched, sending, outbox, rest, polling, poll, board,
                     whole>>
  BY DEF Board!Connect, BoardInv, BoardTypes
<1>2. BoardTypes'
  BY <1>1 DEF BoardInv, BoardTypes, Board!TypeOK
<1>3. outbox = <<>> /\ sending = <<>>
  BY <1>1 DEF BoardInv, BoardTypes
<1>4. Still(outbox', sending', OfAnalysis) /\ Still(outbox', sending', OfCard)
  BY <1>1, <1>3, Nothing
<1> QED BY <1>1, <1>2, <1>4
        DEF BoardInv, BandInv, BandOnBoard, CardInv, CardOnBoard, GoneInv

LEMMA ResyncKeeps == ASSUME BoardInv, Board!Resync PROVE BoardInv'
<1>1. /\ building' = TRUE /\ connected = TRUE
      /\ UNCHANGED <<present, latest, dispatched, sending, outbox, rest, connected, polling, poll,
                     board, whole>>
  BY DEF Board!Resync, BoardInv, BoardTypes
<1>2. BoardTypes'
  BY <1>1 DEF BoardInv, BoardTypes, Board!TypeOK
<1> QED BY <1>1, <1>2 DEF BoardInv, BandInv, BandOnBoard, CardInv, CardOnBoard, GoneInv

LEMMA DisconnectKeeps == ASSUME BoardInv, Board!Disconnect PROVE BoardInv'
<1>1. /\ connected' = FALSE /\ building' = FALSE /\ sending' = <<>> /\ outbox' = <<>>
      /\ polling' = TRUE
      /\ UNCHANGED <<present, latest, dispatched, rest, poll, board, whole>>
  BY DEF Board!Disconnect
<1>2. sending' \in Seq(Updates) /\ outbox' \in Seq(Messages)
  BY <1>1
<1>3. BoardTypes'
  BY <1>1, <1>2 DEF BoardInv, BoardTypes, Board!TypeOK
<1> QED BY <1>1, <1>3 DEF BoardInv, BandInv, CardInv, GoneInv

LEMMA OpensKeeps == ASSUME BoardInv, Board!Opens PROVE BoardInv'
<1>1. /\ polling' = FALSE /\ poll' = Board!Idle
      /\ UNCHANGED <<present, latest, dispatched, sending, outbox, rest, connected, building,
                     board, whole>>
  BY DEF Board!Opens
<1>2. BoardTypes'
  BY <1>1, BoardNames DEF BoardInv, BoardTypes, Board!TypeOK, Board!Idle
<1> QED BY <1>1, <1>2 DEF BoardInv, BandInv, BandOnBoard, CardInv, CardOnBoard, GoneInv

(* The snapshot is of the camera as it is now.                             *)
LEMMA SnapshotKeeps == ASSUME BoardInv, NEW b \in BOOLEAN, Board!SnapshotBuilt(b) PROVE BoardInv'
<1>1. PICK m : m = [type |-> "snapshot", camera |-> b /\ present,
                    analysis |-> IF b THEN latest ELSE Board!None, all |-> b]
  OBVIOUS
<1>2. /\ building = TRUE /\ building' = FALSE /\ outbox' = Append(outbox, m)
      /\ UNCHANGED <<present, latest, dispatched, sending, rest, connected, polling, poll, board,
                     whole>>
  BY <1>1 DEF Board!SnapshotBuilt, BoardInv, BoardTypes
<1>3. /\ m \in Snapshots /\ m \in Messages /\ m.type = "snapshot"
      /\ m.all = FALSE \/ (m.camera = present /\ m.analysis = latest)
      /\ m.all = FALSE => m.analysis = Board!None
  <2>1. present \in BOOLEAN /\ latest \in Board!Shown
    BY DEF BoardInv, BoardTypes, Board!TypeOK
  <2>2. CASE b = TRUE
    BY <1>1, <2>1, <2>2 DEF Snapshots, Messages
  <2>3. CASE b = FALSE
    BY <1>1, <2>1, <2>3 DEF Snapshots, Messages
  <2> QED BY <2>2, <2>3
<1>4. /\ m \in BandIs(latest.band) /\ m \in CardIs(present)
      /\ present = FALSE => m \in Cleared
  BY <1>3 DEF BandIs, CardIs, Cleared, BoardInv, GoneInv
<1>5. BoardTypes'
  <2>1. outbox \in Seq(Messages)
    BY DEF BoardInv, BoardTypes
  <2>2. outbox' \in Seq(Messages) /\ ~Silent(outbox', Snapshots)
    BY <1>2, <1>3, <2>1, SilentAppend, Queue
  <2>3. connected = TRUE
    BY <1>2 DEF BoardInv, BoardTypes, Board!TypeOK
  <2> QED BY <1>2, <2>2, <2>3 DEF BoardInv, BoardTypes, Board!TypeOK
<1>6. BandInv' /\ CardInv' /\ GoneInv'
  BY <1>2, <1>3, <1>4, Built DEF BoardInv, BoardTypes, BandInv, CardInv, GoneInv
<1> QED BY <1>5, <1>6 DEF BoardInv

(* The reducers apply what arrives.                                        *)
LEMMA DeliverKeeps == ASSUME BoardInv, Board!Deliver PROVE BoardInv'
<1>1. PICK m : m = Head(outbox)
  OBVIOUS
<1>2. /\ outbox # <<>> /\ polling = FALSE /\ outbox' = Tail(outbox)
      /\ board' = Board!Applied(m)
      /\ whole' = IF m.type = "snapshot" THEN m.all ELSE whole
      /\ UNCHANGED <<present, latest, dispatched, sending, rest, connected, building, polling,
                     poll>>
  BY <1>1 DEF Board!Deliver, BoardInv, BoardTypes
<1>3. m \in Messages /\ outbox' \in Seq(Messages) /\ connected = TRUE
  BY <1>1, <1>2, Queue DEF BoardInv, BoardTypes
<1>4. /\ m.type \in {"analysis", "cameras", "snapshot"}
      /\ m.type = "analysis" => m.analysis \in Analyses
      /\ m.type = "cameras" => m.camera \in BOOLEAN
      /\ m.type = "snapshot" => /\ m.camera \in BOOLEAN /\ m.analysis \in Board!Shown
                                /\ m.all \in BOOLEAN
                                /\ m.all = FALSE => m.camera = FALSE /\ m.analysis = Board!None
  <2>1. CASE m \in Updates
    BY <2>1 DEF Updates
  <2>2. CASE m \in [type : {"snapshot"}, camera : BOOLEAN, analysis : Board!Shown, all : {TRUE}]
    BY <2>2
  <2>3. CASE m \in [type : {"snapshot"}, camera : {FALSE}, analysis : {Board!None}, all : {FALSE}]
    BY <2>3, BoardNames
  <2> QED BY <1>3, <2>1, <2>2, <2>3 DEF Messages, Snapshots
<1>5. board \in [camera : BOOLEAN, analysis : Board!Shown] /\ whole \in BOOLEAN
  BY DEF BoardInv, BoardTypes, Board!TypeOK
<1>6. /\ board' \in [camera : BOOLEAN, analysis : Board!Shown] /\ whole' \in BOOLEAN
      /\ m.type = "cameras" =>
            /\ board'.camera = m.camera /\ whole' = whole
            /\ board'.analysis = IF m.camera = TRUE THEN board.analysis ELSE Board!None
      /\ m.type = "analysis" =>
            board'.analysis = m.analysis /\ board'.camera = board.camera /\ whole' = whole
      /\ m.type = "snapshot" =>
            board'.analysis = m.analysis /\ board'.camera = m.camera /\ whole' = m.all
  <2>1. CASE m.type = "cameras"
    BY <1>2, <1>4, <1>5, <2>1, BoardNames DEF Board!Applied, Board!WithCameras
  <2>2. CASE m.type = "analysis"
    BY <1>2, <1>4, <1>5, <2>2, BoardNames DEF Board!Applied
  <2>3. CASE m.type = "snapshot"
    BY <1>2, <1>4, <1>5, <2>3, BoardNames DEF Board!Applied
  <2> QED BY <1>4, <2>1, <2>2, <2>3
<1>7. BoardTypes'
  BY <1>2, <1>3, <1>6 DEF BoardInv, BoardTypes, Board!TypeOK
<1>8. BandInv'
  <2>1. m \in BandIs(latest.band) => BandOnBoard'
    BY <1>2, <1>4, <1>6 DEF BandIs, BandOnBoard
  <2>2. m \notin OfAnalysis => board'.analysis = board.analysis /\ whole' = whole
    BY <1>3, <1>4, <1>6 DEF OfAnalysis
  <2>3. m \notin OfAnalysis /\ BandOnBoard => BandOnBoard'
    BY <1>2, <2>2 DEF BandOnBoard
  <2> QED BY <1>1, <1>2, <2>1, <2>3, Arrived DEF BoardInv, BoardTypes, BandInv
<1>9. CardInv'
  <2>1. m \in CardIs(present) => CardOnBoard'
    BY <1>2, <1>4, <1>6 DEF CardIs, CardOnBoard
  <2>2. m \notin OfCard => board'.camera = board.camera /\ whole' = whole
    BY <1>3, <1>4, <1>6 DEF OfCard
  <2>3. m \notin OfCard /\ CardOnBoard => CardOnBoard'
    BY <1>2, <2>2 DEF CardOnBoard
  <2> QED BY <1>1, <1>2, <2>1, <2>3, Arrived DEF BoardInv, BoardTypes, CardInv
<1>10. GoneInv'
  <2>1. m \in Cleared => board'.analysis = Board!None
    BY <1>4, <1>6 DEF Cleared
  <2>2. m \notin OfAnalysis => board'.analysis = board.analysis
    BY <1>3, <1>4, <1>6 DEF OfAnalysis
  <2> QED BY <1>1, <1>2, <2>1, <2>2, Arrived DEF BoardInv, BoardTypes, GoneInv
<1> QED BY <1>7, <1>8, <1>9, <1>10 DEF BoardInv

(* A poll lands on a board whose socket is not open: if there is a         *)
(* connection again, its snapshot is still to come.                        *)
LEMMA PollsKeep == ASSUME BoardInv, Board!Polls PROVE BoardInv'
<1>1. UNCHANGED <<present, latest, dispatched, sending, outbox, rest, connected, building,
                  polling, whole>>
  BY DEF Board!Polls, Board!PollLists, Board!PollLands, Board!PollFetches
<1>2. CASE board' = board /\ Board!TypeOK'
  <2>1. BoardTypes'
    BY <1>1, <1>2 DEF BoardInv, BoardTypes
  <2> QED BY <1>1, <1>2, <2>1 DEF BoardInv, BandInv, BandOnBoard, CardInv, CardOnBoard, GoneInv
<1>3. CASE Board!PollLists
  <2>1. board' = board /\ polling = TRUE
    BY <1>3 DEF Board!PollLists, BoardInv, BoardTypes
  <2>2. poll' \in [step : {"idle", "listed", "fetched"}, camera : BOOLEAN, analysis : Board!Shown]
    BY <1>3, BoardNames DEF Board!PollLists, Board!Idle, BoardInv, BoardTypes
  <2>3. Board!TypeOK'
    BY <1>1, <2>1, <2>2 DEF BoardInv, BoardTypes, Board!TypeOK
  <2> QED BY <1>2, <2>1, <2>3
<1>4. ASSUME NEW answered \in BOOLEAN, Board!PollFetches(answered) PROVE BoardInv'
  <2>1. /\ board' = board /\ poll.step = "listed"
        /\ poll' = [poll EXCEPT !.step = "fetched",
                        !.analysis = IF poll.camera /\ answered THEN latest ELSE Board!None]
    BY <1>4 DEF Board!PollFetches
  <2>2. poll' \in [step : {"idle", "listed", "fetched"}, camera : BOOLEAN, analysis : Board!Shown]
    <3>1. PICK a \in Board!Shown :
             a = IF poll.camera /\ answered THEN latest ELSE Board!None
      BY BoardNames DEF BoardInv, BoardTypes, Board!TypeOK
    <3>2. poll \in [step : {"idle", "listed", "fetched"}, camera : BOOLEAN, analysis : Board!Shown]
      BY DEF BoardInv, BoardTypes, Board!TypeOK
    <3> QED BY <2>1, <3>1, <3>2
  <2>3. Board!TypeOK'
    BY <1>1, <2>1, <2>2 DEF BoardInv, BoardTypes, Board!TypeOK
  <2> QED BY <1>2, <2>1, <2>3
<1>5. CASE Board!PollLands
  <2>1. poll.step = "fetched" /\ board' = Board!Fallback(board, poll) /\ poll' = Board!Idle
    BY <1>5 DEF Board!PollLands
  <2>2. polling = TRUE
    BY <2>1 DEF BoardInv, BoardTypes, Board!TypeOK
  <2>3. /\ board \in [camera : BOOLEAN, analysis : Board!Shown]
        /\ poll.camera \in BOOLEAN /\ poll.analysis \in Board!Shown
    BY DEF BoardInv, BoardTypes, Board!TypeOK
  <2>4. board' \in [camera : BOOLEAN, analysis : Board!Shown]
    <3>1. PICK c : c = Board!WithCameras(board, poll.camera)
      OBVIOUS
    <3>2. c \in [camera : BOOLEAN, analysis : Board!Shown]
      BY <2>3, <3>1, BoardNames DEF Board!WithCameras
    <3>3. board' = [c EXCEPT !.analysis = IF poll.analysis = Board!None THEN @ ELSE poll.analysis]
      BY <2>1, <3>1 DEF Board!Fallback
    <3> QED BY <2>3, <3>2, <3>3
  <2>5. Board!TypeOK'
    BY <1>1, <2>1, <2>4, BoardNames DEF BoardInv, BoardTypes, Board!TypeOK, Board!Idle
  <2>6. BoardTypes'
    BY <1>1, <2>5 DEF BoardInv, BoardTypes
  <2>7. connected = TRUE => building = TRUE \/ ~Silent(outbox, Snapshots)
    BY <2>2 DEF BoardInv, BoardTypes
  <2>8. Snapshots \subseteq OfAnalysis /\ Snapshots \subseteq OfCard
    BY DEF Snapshots, OfAnalysis, OfCard, Messages
  <2>9. connected = TRUE /\ (Still(outbox, sending, OfAnalysis) \/ Still(outbox, sending, OfCard))
           => building = TRUE
    BY <2>7, <2>8 DEF Still, Silent
  <2> QED BY <1>1, <2>6, <2>9
          DEF BoardInv, BandInv, BandOnBoard, CardInv, CardOnBoard, GoneInv
<1> QED BY <1>3, <1>4, <1>5 DEF Board!Polls

LEMMA BoardPreserved == ASSUME BoardInv, [Board!Next]_(Board!boardVars) PROVE BoardInv'
<1>1. CASE UNCHANGED Board!boardVars
  <2>1. UNCHANGED <<present, latest, dispatched, sending, outbox, rest, connected, building,
                    polling, poll, board, whole>>
    BY <1>1 DEF Board!boardVars
  <2>2. BoardTypes'
    BY <2>1 DEF BoardInv, BoardTypes, Board!TypeOK
  <2> QED BY <2>1, <2>2 DEF BoardInv, BandInv, BandOnBoard, CardInv, CardOnBoard, GoneInv
<1>2. CASE Board!Next
  BY <1>2, WindowKeeps, EditKeeps, BroadcastKeeps, TimePassesKeeps, StatusPushKeeps,
     SendStartsKeeps, ConnectKeeps, ResyncKeeps, DisconnectKeeps, OpensKeeps, SnapshotKeeps,
     DeliverKeeps, PollsKeep DEF Board!Next
<1> QED BY <1>1, <1>2

(* What is on its way to the board makes it right: the inductive           *)
(* invariant.                                                              *)
THEOREM BoardInvariant == Board!Spec => []BoardInv
<1>1. Board!Init => BoardInv
  BY BoardStarts
<1>2. BoardInv /\ [Board!Next]_(Board!boardVars) => BoardInv'
  BY BoardPreserved
<1> QED BY <1>1, <1>2, PTL DEF Board!Spec

(* A board with nothing on its way shows the band the camera is in, and a  *)
(* card just for a camera that is there: for every set of analyses, rate   *)
(* floor and backlog, however snapshots overtake updates, the floor holds  *)
(* them back and a poll lands between them (RealtimePublisher, the         *)
(* reducers of reducers.ts and useFallbackPolling).                        *)
THEOREM BoardTrue == Board!Spec => []BoardIsTrue
<1>1. ASSUME BoardInv PROVE BoardIsTrue
  <2>1. Board!TypeOK
    BY <1>1 DEF BoardInv, BoardTypes
  <2>2. ASSUME Board!Quiet
        PROVE  /\ connected = TRUE /\ building = FALSE
               /\ dispatched = <<>> /\ sending = <<>> /\ outbox = <<>>
    <3>1. connected = TRUE /\ building = FALSE /\ Board!Backlog = 0
      BY <1>1, <2>2 DEF Board!Quiet, BoardInv, BoardTypes
    <3>2. /\ Len(dispatched) \in Nat /\ Len(sending) \in Nat /\ Len(outbox) \in Nat
          /\ dispatched # <<>> => Len(dispatched) > 0
          /\ sending # <<>> => Len(sending) > 0
          /\ outbox # <<>> => Len(outbox) > 0
      BY <1>1, Queue DEF BoardInv, BoardTypes
    <3> QED BY <3>1, <3>2 DEF Board!Backlog
  <2>3. Board!Quiet =>
           /\ latest # Board!None => BandOnBoard
           /\ CardOnBoard /\ building = FALSE
           /\ present = FALSE => board.analysis = Board!None
    BY <1>1, <2>2, Nothing DEF BoardInv, BandInv, CardInv, GoneInv
  <2>4. Board!BandIsShown
    BY <1>1, <2>3 DEF Board!BandIsShown, BandOnBoard, BoardInv, BoardTypes
  <2>5. Board!CardIsTrue
    BY <1>1, <2>3 DEF Board!CardIsTrue, CardOnBoard, BoardInv, BoardTypes
  <2> QED BY <2>1, <2>4, <2>5 DEF BoardIsTrue, Board!BoardIsTrue
<1> QED BY <1>1, BoardInvariant, PTL
=============================================================================
