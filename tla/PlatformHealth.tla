--------------------------- MODULE PlatformHealth ---------------------------
(***************************************************************************)
(* What the platform says of cameras that come and go: the latest result   *)
(* of each with its age, the status derived from it, and the health of the *)
(* AI pipeline and of the cameras.                                         *)
(*                                                                         *)
(* A worker reports what it does, not what arrives: one whose read never   *)
(* returns stays RUNNING.  Results are dated by the wall clock, which may  *)
(* be set back, by MaxSetBack seconds in all.                              *)
(***************************************************************************)
EXTENDS Integers

CONSTANTS
    Watched,         \* the cameras
    StaleAfter,      \* PERCEPTION_STALE_AFTER_SECONDS
    LateAfter,       \* StatusThresholds.stale_after_seconds
    OfflineAfter,    \* StatusThresholds.offline_after_seconds
    MaxSetBack       \* bound

\* A result that is late for a camera's status is not older than one that is
\* stale for the pipeline, as both defaults are 2 s; offline is later.
ConstantsAssumption ==
    /\ {StaleAfter, LateAfter, OfflineAfter, MaxSetBack} \subseteq Nat
    /\ LateAfter <= StaleAfter /\ StaleAfter <= OfflineAfter

VARIABLES
    on,              \* the cameras that are enabled
    reported,        \* camera -> the state its worker reports
    age,             \* camera -> seconds since received_at, or NoResult
    slow,            \* the cameras whose pipeline is degraded or too slow
    setBack,         \* seconds the clock has been set back so far
    silent,          \* history: camera -> seconds without a result
    heard            \* history: the cameras heard since they were enabled

healthVars == <<on, reported, age, slow, setBack, silent, heard>>

NoResult == 0 - MaxSetBack - 1

\* Beyond this, two ages are not told apart, even by a clock set back.
AgeCap == OfflineAfter + MaxSetBack + 1
Capped(n) == IF n < AgeCap THEN n ELSE AgeCap

\* age_seconds: never negative.
AgeOf(c) == IF age[c] < 0 THEN 0 ELSE age[c]
HasResult(c) == age[c] # NoResult
IsStale(c) == ~HasResult(c) \/ AgeOf(c) > StaleAfter

-----------------------------------------------------------------------------
(* derive_status and the two probes.                                       *)

StatusOfWorker ==
    [STARTING |-> "CONNECTING", RECOVERING |-> "RECOVERING", FAILED |-> "OFFLINE",
     COMPLETED |-> "OFFLINE", STOPPED |-> "OFFLINE"]

\* Mutant: a running worker is taken at its word.
StatusClaimed(c) ==
    IF c \notin on THEN "DISABLED"
    ELSE IF reported[c] # "RUNNING" THEN StatusOfWorker[reported[c]]
    ELSE IF ~HasResult(c) THEN "CONNECTING"
    ELSE IF c \in slow THEN "DEGRADED" ELSE "ONLINE"

\* A running worker is judged on evidence.
Status(c) ==
    IF c \notin on THEN "DISABLED"
    ELSE IF reported[c] # "RUNNING" THEN StatusOfWorker[reported[c]]
    ELSE IF ~HasResult(c) THEN "CONNECTING"
    ELSE IF AgeOf(c) > OfflineAfter THEN "OFFLINE"
    ELSE IF AgeOf(c) > LateAfter \/ c \in slow THEN "DEGRADED" ELSE "ONLINE"

IsContributing(c) == Status(c) \in {"ONLINE", "DEGRADED"}

\* build_camera_probe
CamerasHealth ==
    LET missing == {c \in on : ~IsContributing(c)}
    IN  IF on = {} THEN "OFFLINE"
        ELSE IF missing = {}
             THEN IF \E c \in on : Status(c) = "DEGRADED" THEN "WARNING" ELSE "HEALTHY"
        ELSE IF missing # on \/ \A c \in missing : Status(c) = "CONNECTING" THEN "WARNING"
        ELSE "OFFLINE"

\* build_pipeline_probe
PipelineHealth ==
    LET healthy == {c \in on : reported[c] = "RUNNING" /\ ~IsStale(c)}
        transitional == {c \in on \ healthy : reported[c] \in {"RUNNING", "STARTING", "RECOVERING"}}
    IN  IF on = {} THEN "OFFLINE"
        ELSE IF healthy = on THEN "HEALTHY"
        ELSE IF healthy \cup transitional # {} THEN "WARNING" ELSE "OFFLINE"

\* snapshot: figures are of a camera that delivers, and of its latest result.
ShowsPeople(c) == HasResult(c) /\ IsContributing(c)

-----------------------------------------------------------------------------
(* What happens to a camera.                                               *)

HealthInit ==
    /\ on \in SUBSET Watched
    /\ reported = [c \in Watched |-> IF c \in on THEN "STARTING" ELSE "STOPPED"]
    /\ age = [c \in Watched |-> NoResult] /\ slow = {} /\ setBack = 0
    /\ silent = [c \in Watched |-> AgeCap] /\ heard = {}

Second ==
    /\ age' = [c \in Watched |-> IF HasResult(c) THEN Capped(age[c] + 1) ELSE NoResult]
    /\ silent' = [c \in Watched |-> Capped(silent[c] + 1)]
    /\ UNCHANGED <<on, reported, slow, setBack, heard>>

\* The wall clock is corrected.
SetBack ==
    \E d \in 1 .. MaxSetBack - setBack :
        /\ setBack' = setBack + d
        /\ age' = [c \in Watched |-> IF HasResult(c) THEN age[c] - d ELSE NoResult]
        /\ UNCHANGED <<on, reported, slow, silent, heard>>

\* PerceptionState.record: the running pipeline delivers.
Record(c) ==
    /\ reported[c] = "RUNNING"
    /\ age' = [age EXCEPT ![c] = 0] /\ silent' = [silent EXCEPT ![c] = 0]
    /\ heard' = heard \cup {c}
    /\ slow' \in {slow \cup {c}, slow \ {c}}
    /\ UNCHANGED <<on, reported, setBack>>

\* A loop ends, a recovery succeeds or is given up, a finished clip is started
\* again: the latest result stays.
WorkerMoves(c) ==
    /\ c \in on
    /\ \E s \in IF reported[c] = "STARTING" THEN {"RUNNING", "RECOVERING", "FAILED"}
              ELSE IF reported[c] = "RUNNING" THEN {"RECOVERING", "FAILED", "COMPLETED"}
              ELSE {"STARTING", "RUNNING"} :
            reported' = [reported EXCEPT ![c] = s]
    /\ UNCHANGED <<on, age, slow, setBack, silent, heard>>

\* CameraRuntime.apply: stopping discards what the camera was showing.
Disable(c) ==
    /\ c \in on /\ on' = on \ {c} /\ heard' = heard \ {c}
    /\ reported' = [reported EXCEPT ![c] = "STOPPED"]
    /\ age' = [age EXCEPT ![c] = NoResult]
    /\ UNCHANGED <<slow, setBack, silent>>

Enable(c) ==
    /\ c \in Watched \ on /\ on' = on \cup {c}
    /\ reported' = [reported EXCEPT ![c] = "STARTING"]
    /\ slow' = slow \ {c}
    /\ UNCHANGED <<age, setBack, silent, heard>>

HealthNext ==
    \/ Second \/ SetBack
    \/ \E c \in Watched : Record(c) \/ WorkerMoves(c) \/ Disable(c) \/ Enable(c)

HealthSpec == HealthInit /\ [][HealthNext]_healthVars

-----------------------------------------------------------------------------
(* Silence is noticed whatever a worker says: a camera that has delivered  *)
(* nothing for the time that makes it offline shows no people and its      *)
(* absence is in both healths, at the latest by what the clock was set     *)
(* back later.                                                             *)
SilenceIsSeen ==
    \A c \in on : silent[c] > OfflineAfter + setBack =>
        /\ ~IsContributing(c) /\ ~ShowsPeople(c)
        /\ CamerasHealth # "HEALTHY" /\ PipelineHealth # "HEALTHY"

(* The two healths never contradict: cameras that are all online are       *)
(* analysed, and neither is lost while the other is whole.                 *)
HealthsAgree ==
    /\ CamerasHealth = "HEALTHY" => PipelineHealth = "HEALTHY"
    /\ PipelineHealth = "HEALTHY" => CamerasHealth \in {"HEALTHY", "WARNING"}
    /\ PipelineHealth = "OFFLINE" => CamerasHealth = "OFFLINE"

(* Nothing a camera showed before it was switched off is counted once it   *)
(* is on again, nor is it called lost for that silence while it connects.  *)
ComesBackConnecting ==
    \A c \in on \ heard :
        /\ ~ShowsPeople(c)
        /\ reported[c] \in {"STARTING", "RUNNING"} => Status(c) = "CONNECTING"

HealthIsEarned == SilenceIsSeen /\ HealthsAgree /\ ComesBackConnecting
=============================================================================
