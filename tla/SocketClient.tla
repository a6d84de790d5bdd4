----------------------------- MODULE SocketClient -----------------------------
(***************************************************************************)
(* The Command Center's socket client: one connection at a time, backoff,  *)
(* resynchronisation after a gap, and staleness.  Handlers run to their    *)
(* end, one at a time.  The browser (online, visible), the server and the  *)
(* network are the environment.                                            *)
(*                                                                         *)
(* A tick is the period of the stale check; delays and thresholds are in   *)
(* ticks.  A socket the client has let go of has no handlers and is gone.  *)
(***************************************************************************)
EXTENDS Integers

CONSTANTS
    MaxAttempts, MaxDelay,   \* maxAttempts, maxDelayMs
    StaleAfter, DeadAfter    \* staleAfterSeconds; with deadAfterExtraMs

ASSUME TimesAssumption ==
    /\ MaxAttempts \in Nat \ {0} /\ MaxDelay \in Nat \ {0}
    /\ StaleAfter \in Nat \ {0} /\ DeadAfter \in Nat /\ StaleAfter < DeadAfter

LinkStates == {"idle", "connecting", "syncing", "live", "reconnecting",
               "offline", "failed", "unauthorized"}
Never == -1       \* lastMessageAt is null
NoTimer == -1     \* retryTimer is null

VARIABLES
    state, attempts,        \* link; idle is not running
    silence, stale,         \* ticks since lastMessageAt; isStale
    socket,                 \* "none", "opening" or "open"
    retry,                  \* ticks until retryTimer fires
    expected, awaiting,     \* expectedSeq is known; awaitingResync
    online,                 \* environment: navigator.onLine
    quiet, behind, asked    \* history, of this socket: ticks since it opened or
                            \* was heard; a gap since its snapshot; resyncs sent
link == <<state, attempts, silence, stale>>
sequence == <<expected, awaiting>>
history == <<quiet, behind, asked>>
vars == <<link, socket, retry, sequence, online, history>>

TypeOK ==
    /\ state \in LinkStates /\ attempts \in 0 .. MaxAttempts + 1
    /\ silence \in Never .. DeadAfter + 1 /\ quiet \in 0 .. DeadAfter + 1
    /\ socket \in {"none", "opening", "open"} /\ retry \in NoTimer .. MaxDelay
    /\ {stale, expected, awaiting, online, behind} \subseteq BOOLEAN
    /\ asked \in 0 .. 1

Init ==
    /\ state = "idle" /\ attempts = 0 /\ silence = Never /\ stale = FALSE
    /\ socket = "none" /\ retry = NoTimer
    /\ expected = FALSE /\ awaiting = FALSE
    /\ online \in BOOLEAN
    /\ quiet = 0 /\ behind = FALSE /\ asked = 0

-----------------------------------------------------------------------------
Later(n) == IF n > DeadAfter THEN n ELSE n + 1

\* initialDelayMs doubled per attempt up to maxDelayMs; the jitter is below a tick.
Delay(n) == IF 2 ^ (n - 1) \in 1 .. MaxDelay THEN 2 ^ (n - 1) ELSE MaxDelay

\* One more failure; past the limit all counts are alike.
Failed(n) == IF n > MaxAttempts THEN n ELSE n + 1

\* Mutant: the timer is cleared after it is set.
RescheduleCleared(n, timer, isOnline) ==
    /\ attempts' = Failed(n) /\ retry' = NoTimer
    /\ state' = IF n + 1 > MaxAttempts THEN "failed"
                ELSE IF isOnline THEN "reconnecting" ELSE "offline"

\* scheduleReconnect, after n failures; giving up leaves the timer alone.
Reschedule(n, timer, isOnline) ==
    /\ attempts' = Failed(n)
    /\ \/ n + 1 > MaxAttempts /\ state' = "failed" /\ retry' = timer
       \/ /\ n + 1 <= MaxAttempts /\ retry' = Delay(n + 1)
          /\ state' = IF isOnline THEN "reconnecting" ELSE "offline"

NewSocket ==
    /\ socket' = "opening"
    /\ expected' = FALSE /\ awaiting' = FALSE
    /\ quiet' = 0 /\ behind' = FALSE /\ asked' = 0

\* connect, from a caller that leaves these behind.
Connect(n, left, timer, isOnline) ==
    \/ /\ ~isOnline /\ state' = "offline"
       /\ attempts' = n /\ socket' = left /\ retry' = timer
       /\ UNCHANGED <<sequence, history>>
    \/ /\ isOnline /\ state' = IF n > 0 THEN "reconnecting" ELSE "connecting"
       /\ attempts' = n /\ retry' = timer
       /\ NewSocket
    \/ /\ isOnline /\ Reschedule(n, timer, isOnline)      \* createSocket throws
       /\ socket' = left /\ UNCHANGED <<sequence, history>>

\* Mutant: the pending retry is forgotten.
ConnectNowKeepsTimer(n, isOnline) == Connect(n, "none", retry, isOnline)

ConnectNow(n, isOnline) == Connect(n, "none", NoTimer, isOnline)

-----------------------------------------------------------------------------
(* The application and the operator.                                       *)

Start ==
    /\ state = "idle"
    /\ Connect(attempts, socket, retry, online)
    /\ UNCHANGED <<silence, stale, online>>

Stop ==
    /\ state # "idle" /\ state' = "idle"
    /\ socket' = "none" /\ retry' = NoTimer /\ expected' = FALSE /\ stale' = FALSE
    /\ UNCHANGED <<attempts, silence, awaiting, online, history>>

\* retryNow: the operator's button, and a tab that becomes visible.
RetryNow ==
    /\ state \in {"reconnecting", "failed"}
    /\ ConnectNow(0, online)
    /\ UNCHANGED <<silence, stale, online>>

(* The browser: handleOnline and handleOffline.                            *)

GoOnline ==
    /\ ~online /\ online' = TRUE
    /\ IF state \in {"offline", "reconnecting"}
       THEN ConnectNow(attempts, TRUE) /\ UNCHANGED <<silence, stale>>
       ELSE UNCHANGED <<link, socket, retry, sequence, history>>

GoOffline ==
    /\ online /\ online' = FALSE
    /\ state' = IF state \in {"idle", "live"} THEN state ELSE "offline"
    /\ UNCHANGED <<attempts, silence, stale, socket, retry, sequence, history>>

-----------------------------------------------------------------------------
(* The socket.                                                             *)

Opens ==
    /\ socket = "opening" /\ socket' = "open" /\ state' = "syncing" /\ quiet' = 0
    /\ UNCHANGED <<attempts, silence, stale, retry, sequence, online, behind, asked>>

Hears == silence' = 0 /\ stale' = FALSE /\ quiet' = 0

\* Mutant: the answer to a resync leaves the client waiting for it.
AnsweredStillAwaiting == expected' = TRUE /\ UNCHANGED awaiting

Answered == expected' = TRUE /\ awaiting' = FALSE

\* receive, a snapshot.
Snapshot ==
    /\ socket = "open"
    /\ Hears /\ Answered
    /\ state' = "live" /\ attempts' = 0
    /\ behind' = FALSE /\ asked' = 0
    /\ UNCHANGED <<socket, retry, online>>

\* receive, any other message, gap telling whether its number was not the
\* expected one.
Message(gap) ==
    /\ socket = "open" /\ (gap => expected)
    /\ Hears
    /\ expected' = TRUE
    /\ IF gap /\ ~awaiting
       THEN awaiting' = TRUE /\ asked' = asked + 1
       ELSE UNCHANGED <<awaiting, asked>>
    /\ behind' = (behind \/ gap)
    /\ UNCHANGED <<state, attempts, socket, retry, online>>

\* onclose; the server closes a socket it has accepted as unauthorized.
Closes(unauthorized) ==
    /\ socket # "none" /\ (unauthorized => socket = "open")
    /\ socket' = "none" /\ expected' = FALSE
    /\ IF unauthorized
       THEN state' = "unauthorized" /\ UNCHANGED <<attempts, retry>>
       ELSE Reschedule(attempts, retry, online)
    /\ UNCHANGED <<silence, stale, awaiting, online, history>>

-----------------------------------------------------------------------------
(* The timers.                                                             *)

RetryFires ==
    /\ retry = 0
    /\ Connect(attempts, socket, NoTimer, online)
    /\ UNCHANGED <<silence, stale, online>>

Countdown == IF retry = NoTimer THEN NoTimer ELSE retry - 1

PresumedDead(silent) == silent > DeadAfter /\ socket # "none"

\* A tick passes, and checkStale runs.
Tick ==
    LET silent == IF silence = Never THEN Never ELSE Later(silence)
        checked == state \in {"live", "syncing"} /\ silent # Never
    IN  /\ retry # 0
        /\ silence' = silent /\ quiet' = Later(quiet)
        /\ stale' = (stale \/ (checked /\ silent > StaleAfter))
        /\ IF checked /\ PresumedDead(silent)
           THEN /\ socket' = "none" /\ expected' = FALSE
                /\ Reschedule(attempts, Countdown, online)
           ELSE /\ retry' = Countdown
                /\ UNCHANGED <<state, attempts, socket, expected>>
        /\ UNCHANGED <<awaiting, online, behind, asked>>

Next ==
    \/ Start \/ Stop \/ RetryNow \/ GoOnline \/ GoOffline
    \/ Opens \/ Snapshot \/ RetryFires \/ Tick
    \/ \E b \in BOOLEAN : Message(b) \/ Closes(b)

Spec == Init /\ [][Next]_vars

\* Timers that are due fire.
FairSpec == Spec /\ WF_vars(RetryFires) /\ WF_vars(Tick)

-----------------------------------------------------------------------------
(* There is one connection: while a retry is waiting there is no socket    *)
(* for it to leave behind, connected and unheard.                          *)
OneConnection ==
    retry # NoTimer => socket = "none" /\ state \in {"reconnecting", "offline"}

(* A client that says it is connecting, connected or retrying has a socket *)
(* or a retry waiting, or waits for the browser to be online.              *)
SomethingIsComing ==
    state \notin {"idle", "failed", "unauthorized"}
        => socket # "none" \/ retry # NoTimer \/ ~online

(* "Silence longer than stale_after_seconds is shown, never hidden": a     *)
(* live display has an open socket, is marked stale exactly when it has    *)
(* been silent too long, and does not stay live when its socket is dead.   *)
LiveIsLive ==
    state = "live" => /\ socket = "open" /\ expected
                      /\ stale <=> silence > StaleAfter
                      /\ silence \in 0 .. DeadAfter

(* "The client asks for a fresh snapshot once per gap": a missed message   *)
(* is asked for, and only once until a snapshot answers.                   *)
GapsAreAskedForOnce == behind <=> asked = 1

(* A client never gives up in silence: for as long as it is online it has  *)
(* a socket or a retry due, again and again, or says that it has stopped.  *)
KeepsTrying ==
    <>[]online => []<>(\/ socket # "none" \/ retry = 0
                       \/ state \in {"idle", "failed", "unauthorized"})

(* The client has one connection, and never waits for nothing.             *)
ConnectionIsSound == TypeOK /\ OneConnection /\ SomethingIsComing

(* A display that says it is live is, and a gap in it is repaired.         *)
DisplayIsHonest == LiveIsLive /\ GapsAreAskedForOnce
=============================================================================
