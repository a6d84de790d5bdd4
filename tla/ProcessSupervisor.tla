------------------------- MODULE ProcessSupervisor -------------------------
(***************************************************************************)
(* The script that keeps a local deployment running: every TICK it looks   *)
(* after the backend's process, the frontend's and the cameras, until its  *)
(* stop file appears or its window closes.  A backend from an earlier run  *)
(* is adopted, and one that another hand started may still be booting.     *)
(*                                                                         *)
(* Time is counted in rounds of the loop.  The operator account is         *)
(* configured and right, and a process that is killed is gone.             *)
(***************************************************************************)
EXTENDS Integers, FiniteSets

CONSTANTS
    Processes,       \* bound: backend processes that may be alive at once
    Cameras,         \* 1 .. n, in the order the backend lists them
    UnhealthyRestart, CameraGrace, CameraRetryEvery,   \* in rounds
    MaxMoves         \* bound: what goes wrong outside, supervisors opened

VARIABLES
    process,         \* backend process -> what it is doing
    front,           \* the frontend: down, our child, or somebody else's
    status,          \* camera -> as the backend reports it
    step,            \* where the supervisor is
    child,           \* backend_proc, or NoChild
    unhealthy,       \* rounds since unhealthy_since
    offline, rested, \* camera -> rounds since offline_since, last_retry
    signedIn,
    moves,
    silence,         \* history: rounds since an answer, or a process started
    raced            \* history: a backend was started beside a living one

worldVars == <<process, front, status, moves>>
vars == <<worldVars, step, child, unhealthy, offline, rested, signedIn,
          silence, raced>>

None == -1
NoChild == 0

ConstantsAssumption ==
    /\ NoChild \notin Processes
    /\ IsFiniteSet(Cameras) /\ Cameras = 1 .. Cardinality(Cameras)
    /\ {UnhealthyRestart, CameraGrace, CameraRetryEvery, MaxMoves} \subseteq Nat

Running == {"backend", "frontend", "cameras", "rest"}

AtMostOne(S) == \A p, q \in S : p = q

Alive == {p \in Processes : process[p] # "gone"}
Listeners == {p \in Processes : process[p] \in {"serving", "hung"}}
Serving == \E p \in Processes : process[p] = "serving"
ChildLives == child # NoChild /\ process[child] # "gone"

Age(since) == IF since = None THEN 0 ELSE since
Older(since, cap) ==
    IF since = None THEN None ELSE IF since < cap THEN since + 1 ELSE cap

Opened ==
    /\ step' = "backend" /\ child' = NoChild /\ unhealthy' = None
    /\ offline' = [c \in Cameras |-> None]
    /\ rested' = [c \in Cameras |-> CameraRetryEvery]
    /\ signedIn' = FALSE /\ silence' = 0 /\ raced' = FALSE

Init ==
    /\ \E p \in Processes, s \in {"gone", "booting", "serving", "hung"} :
            process = [q \in Processes |-> IF q = p THEN s ELSE "gone"]
    /\ front \in {"down", "theirs"}
    /\ status \in [Cameras -> {"online", "offline"}] /\ moves = 0
    /\ step = "backend" /\ child = NoChild /\ unhealthy = None
    /\ offline = [c \in Cameras |-> None]
    /\ rested = [c \in Cameras |-> CameraRetryEvery]
    /\ signedIn = FALSE /\ silence = 0 /\ raced = FALSE

-----------------------------------------------------------------------------
(* The processes and the cameras.                                          *)

Becomes(p, s) ==
    /\ process' = [process EXCEPT ![p] = s]
    /\ UNCHANGED <<front, status, step, child, unhealthy, offline, rested,
                   signedIn, silence, raced>>

\* Whoever binds the port first serves; the others exit.
Boots(p) ==
    /\ process[p] = "booting"
    /\ Becomes(p, IF Listeners = {} THEN "serving" ELSE "gone")
    /\ UNCHANGED moves

Falters(p) ==
    /\ moves < MaxMoves /\ moves' = moves + 1
    /\ \/ process[p] = "serving" /\ Becomes(p, "hung")
       \/ process[p] = "hung" /\ Becomes(p, "serving")
       \/ process[p] # "gone" /\ Becomes(p, "gone")

CameraMoves(c) ==
    /\ moves < MaxMoves /\ moves' = moves + 1
    /\ \E s \in {"online", "offline", "disabled"} \ {status[c]} :
            status' = [status EXCEPT ![c] = s]
    /\ UNCHANGED <<process, front, step, child, unhealthy, offline, rested,
                   signedIn, silence, raced>>

-----------------------------------------------------------------------------
(* One round.                                                              *)

\* Mutant: a new backend inherits the old one's silence.
StartSuspicious(living) ==
    \E p \in Processes \ living :
        /\ process' = [q \in Processes |-> IF q = p THEN "booting"
                           ELSE IF q \in living THEN process[q] ELSE "gone"]
        /\ child' = p /\ signedIn' = FALSE /\ UNCHANGED unhealthy
        /\ silence' = 0

\* start_backend, and what is forgotten with the old one.
Start(living) ==
    \E p \in Processes \ living :
        /\ process' = [q \in Processes |-> IF q = p THEN "booting"
                           ELSE IF q \in living THEN process[q] ELSE "gone"]
        /\ child' = p /\ signedIn' = FALSE /\ unhealthy' = None
        /\ silence' = 0

NobodyListens ==
    /\ Listeners = {}
    /\ \/ ChildLives /\ UNCHANGED <<process, child, signedIn, unhealthy,
                                    silence, raced>>
       \/ ~ChildLives /\ Start(Alive) /\ raced' = (raced \/ Alive # {})

BackendAnswers ==
    /\ Serving /\ unhealthy' = None /\ silence' = 0
    /\ UNCHANGED <<process, child, signedIn, raced>>

\* The child is killed if there ever was one, else whoever listens.
BackendIsSilent ==
    /\ Listeners # {} /\ ~Serving
    /\ IF Age(unhealthy) >= UnhealthyRestart
       THEN /\ Start(Alive \ IF child # NoChild THEN {child} ELSE Listeners)
            /\ UNCHANGED raced
       ELSE /\ unhealthy' = Age(unhealthy)
            /\ UNCHANGED <<process, child, signedIn, silence, raced>>

CheckBackend ==
    /\ step = "backend" /\ step' = "frontend"
    /\ NobodyListens \/ BackendAnswers \/ BackendIsSilent
    /\ UNCHANGED <<front, status, moves, offline, rested>>

CheckFrontend ==
    /\ step = "frontend" /\ step' = "cameras"
    /\ front' = IF front = "down" THEN "ours" ELSE front
    /\ UNCHANGED <<process, status, moves, child, unhealthy, offline, rested,
                   signedIn, silence, raced>>

Due(c) ==
    /\ status[c] = "offline" /\ Age(offline[c]) >= CameraGrace
    /\ rested[c] >= CameraRetryEvery

\* The cameras are retried in order; a retry that raises ends the round.
Retry(last) ==
    /\ offline' = [c \in Cameras |->
           IF c > last \/ status[c] = "disabled" THEN offline[c]
           ELSE IF status[c] = "online" THEN None ELSE Age(offline[c])]
    /\ rested' = [c \in Cameras |->
           IF c <= last /\ Due(c) THEN 0 ELSE rested[c]]

CheckCameras ==
    /\ step = "cameras" /\ step' = "rest"
    /\ \/ ~Serving /\ signedIn' = FALSE /\ UNCHANGED <<offline, rested, moves>>
       \/ /\ Serving /\ UNCHANGED moves
          /\ \/ Retry(Cardinality(Cameras)) /\ signedIn' \in BOOLEAN
             \/ /\ \E c \in Cameras : Due(c) /\ Retry(c)
                /\ signedIn' = FALSE
       \/ /\ Serving /\ signedIn /\ signedIn' = FALSE      \* 401
          /\ moves < MaxMoves /\ moves' = moves + 1
          /\ UNCHANGED <<offline, rested>>
    /\ UNCHANGED <<process, front, status, child, unhealthy, silence, raced>>

Rest ==
    /\ step = "rest" /\ step' = "backend"
    /\ unhealthy' = Older(unhealthy, UnhealthyRestart)
    /\ offline' = [c \in Cameras |-> Older(offline[c], CameraGrace)]
    /\ rested' = [c \in Cameras |-> Older(rested[c], CameraRetryEvery)]
    /\ silence' = Older(silence, UnhealthyRestart)
    /\ UNCHANGED <<worldVars, child, signedIn, raced>>

-----------------------------------------------------------------------------
(* The end of it.                                                          *)

\* The stop file appears while it rests, or it is interrupted anywhere.
StopRequested ==
    /\ step \in Running /\ step' = "stopping"
    /\ UNCHANGED <<worldVars, child, unhealthy, offline, rested, signedIn,
                   silence, raced>>

Stop ==
    /\ step = "stopping" /\ step' = "stopped"
    /\ process' = [p \in Processes |->
           IF (ChildLives /\ p = child) \/ (child = NoChild /\ p \in Listeners)
           THEN "gone" ELSE process[p]]
    /\ front' = IF front = "ours" THEN "down" ELSE front
    /\ UNCHANGED <<status, moves, child, unhealthy, offline, rested, signedIn,
                   silence, raced>>

WindowCloses ==
    /\ step \in Running /\ step' = "closed"
    /\ UNCHANGED <<worldVars, child, unhealthy, offline, rested, signedIn,
                   silence, raced>>

\* Another supervisor; at most one backend is left for it to find.
Opens ==
    /\ step \in {"stopped", "closed"} /\ AtMostOne(Alive)
    /\ moves < MaxMoves /\ moves' = moves + 1
    /\ front' = IF front = "ours" THEN "theirs" ELSE front
    /\ Opened
    /\ UNCHANGED <<process, status>>

Next ==
    \/ \E p \in Processes : Boots(p) \/ Falters(p)
    \/ \E c \in Cameras : CameraMoves(c)
    \/ CheckBackend \/ CheckFrontend \/ CheckCameras \/ Rest
    \/ StopRequested \/ Stop \/ WindowCloses \/ Opens

\* The script loops until it is told to stop, and a backend that boots
\* comes up or exits.
Fairness ==
    /\ WF_vars(CheckBackend) /\ WF_vars(CheckFrontend)
    /\ WF_vars(CheckCameras) /\ WF_vars(Rest) /\ WF_vars(Stop)
    /\ \A p \in Processes : WF_vars(Boots(p))

Spec == Init /\ [][Next]_vars /\ Fairness

-----------------------------------------------------------------------------
TypeOK ==
    /\ process \in [Processes -> {"gone", "booting", "serving", "hung"}]
    /\ AtMostOne(Listeners)
    /\ front \in {"down", "ours", "theirs"}
    /\ status \in [Cameras -> {"online", "offline", "disabled"}]
    /\ step \in Running \cup {"stopping", "stopped", "closed"}
    /\ child \in Processes \cup {NoChild}
    /\ unhealthy \in 0 .. UnhealthyRestart \cup {None}
    /\ offline \in [Cameras -> 0 .. CameraGrace \cup {None}]
    /\ rested \in [Cameras -> 0 .. CameraRetryEvery]

\* Only a backend that has not answered, nor been started, for 45 s is ended
\* to be restarted, however often backends hung, exited and were replaced.
IsPatient ==
    (\E p \in Listeners : CheckBackend /\ process'[p] # process[p])
        => silence >= UnhealthyRestart

\* A stop leaves no backend listening and no frontend of ours, whether the
\* backend was started or adopted; not so once a second one was started
\* beside a backend still booting, which may then hold the port.
StopLeavesNothing ==
    Stop => front' # "ours" /\ (raced \/ Listeners' = {})

\* A backend that hangs, exits or fails to boot is always replaced, with the
\* same exception: a child that lost the port hides the one that has it.
BackendComesBack == []<>(step \notin Running \/ raced \/ Serving)

\* Claimed by the script's docstring, "any enabled camera that has not been
\* ONLINE for 45 s gets a retry": a camera that stays offline is retried again
\* and again.  A retry that raises ends its round, so with more cameras than
\* rounds between two retries of one the last are never reached.
EveryCameraIsRetried ==
    \A c \in Cameras : []<>(\/ step \notin Running \/ raced
                            \/ status[c] # "offline" \/ rested[c] = 0)

\* With no more cameras than that it holds, even when the retry of every camera
\* before it raises each time.
CamerasInTurnAreRetried ==
    Cardinality(Cameras) <= CameraRetryEvery => EveryCameraIsRetried

\* What the supervisor owes the processes, and what it owes the cameras.
ProcessesAreKept == []TypeOK /\ [][IsPatient /\ StopLeavesNothing]_vars
ServiceComesBack == BackendComesBack /\ CamerasInTurnAreRetried
=============================================================================
