-------------------------- MODULE PerceptionWorker --------------------------
(***************************************************************************)
(* One camera's supervision: PerceptionWorker over its PerceptionPipeline. *)
(*                                                                         *)
(* Three coroutines share the worker on one event loop.  The OPERATOR's    *)
(* edits (CameraManager serialises them: start, stop, replace_source), the *)
(* SUPERVISOR task (_supervise) and the pipeline's frame LOOP.  A step of  *)
(* the model is the code a coroutine runs between two awaits that can      *)
(* really suspend it; retry_now and stop's first line run between any two. *)
(* _lifecycle is a FIFO lock, and the operator and the supervisor are its  *)
(* only two users, so a release hands the lock to the other if it waits.   *)
(***************************************************************************)
EXTENDS Naturals

CONSTANTS
    Addrs,         \* stream addresses a camera definition may name
    NoSource,      \* no frame source is held
    MaxRestarts,   \* pipeline_max_restart_attempts; 0 never gives up
    MaxFailures,   \* max_consecutive_failures of the pipeline
    Finite         \* a source may end of its own accord (demonstration clip)

ASSUME AddrsAssumption == NoSource \notin Addrs
ASSUME BoundsAssumption ==
    MaxRestarts \in Nat /\ MaxFailures \in Nat \ {0} /\ Finite \in BOOLEAN

VARIABLES
    enabled, addr,          \* the camera definition
    up,                     \* environment: address and camera are usable now
    opPc,                   \* where the operator's call is
    supPc,                  \* where _supervise is; absent when _task is None
    lock,                   \* owner of _lifecycle
    stopping, retryRequested,        \* the worker's two asyncio.Events
    swapped,                \* _swap_generation moved since the supervisor read it
    swapError,              \* _swap_error
    workerState, restartAttempts,
    target,                 \* address the last source was built from
    loop,                   \* the frame loop's task
    source,                 \* the pipeline's open source
    degraded, failures,     \* _degraded_reason # None, _consecutive_failures
    served,                 \* PerceptionStateService holds a result
    ended                   \* history: why the last frame loop ended

envVars  == <<enabled, addr, up>>
syncVars == <<lock, stopping, retryRequested, swapped, swapError>>
supVars  == <<supPc, workerState, restartAttempts>>
loopVars == <<loop, source, degraded, failures, ended>>
vars == <<envVars, opPc, supVars, syncVars, target, loopVars, served>>

OpPcs  == {"idle", "replLock", "replSwap", "replStop", "stopLock", "stopTask"}
SupPcs == {"absent", "lock", "attach", "wait", "relock", "backoff", "done"}
States == {"stopped", "starting", "running", "recovering", "completed", "failed"}
Errors == {"config", "other"}

FlagsOK ==
    /\ enabled \in BOOLEAN /\ up \in BOOLEAN
    /\ stopping \in BOOLEAN /\ retryRequested \in BOOLEAN /\ swapped \in BOOLEAN
    /\ degraded \in BOOLEAN /\ served \in BOOLEAN

PlacesOK ==
    /\ addr \in Addrs /\ target \in Addrs \cup {NoSource}
    /\ source \in Addrs \cup {NoSource}
    /\ opPc \in OpPcs /\ supPc \in SupPcs
    /\ lock \in {"free", "op", "sup"}
    /\ swapError \in Errors \cup {"none"}
    /\ workerState \in States
    /\ loop \in {"none", "running", "done"}
    /\ ended \in {"never", "source", "fault", "halt"}

CountersOK ==
    /\ restartAttempts \in 0 .. MaxRestarts + 1
    /\ failures \in 0 .. MaxFailures

(* Every variable has its type; in particular the pipeline never counts    *)
(* more consecutive failures than it tolerates.                            *)
TypeOK == FlagsOK /\ PlacesOK /\ CountersOK

Init ==
    /\ enabled = FALSE /\ addr \in Addrs /\ up \in BOOLEAN
    /\ opPc = "idle" /\ supPc = "absent" /\ lock = "free"
    /\ stopping = FALSE /\ retryRequested = FALSE
    /\ swapped = FALSE /\ swapError = "none"
    /\ workerState = "stopped" /\ restartAttempts = 0
    /\ target = NoSource
    /\ loop = "none" /\ source = NoSource
    /\ degraded = FALSE /\ failures = 0 /\ served = FALSE /\ ended = "never"

-----------------------------------------------------------------------------
(* The lock, and what a source does when it is built and opened.           *)

Taken(who) == IF lock = "free" THEN who ELSE lock
ReleasedBySup == IF opPc \in {"replLock", "stopLock"} THEN "op" ELSE "free"
ReleasedByOp(pc) == IF pc \in {"lock", "relock"} THEN "sup" ELSE "free"

\* build_frame_source and the model's builders may refuse a configuration;
\* opening may fail, with nothing but recoverable errors.
FactoryErrors == IF up THEN {} ELSE Errors
OpenFails == ~up

Running == loop = "running"

\* _halt_loop by whoever is halting: the loop has been joined, or cancelled
\* after stop_timeout_s, and the source is closed.
Halted ==
    /\ ~Running
    /\ loop' = "none" /\ source' = NoSource

\* start() of the pipeline once source.open has returned.
Opened(a) ==
    /\ ~Running
    /\ loop' = "running" /\ source' = a
    /\ degraded' = FALSE /\ failures' = 0
    /\ UNCHANGED ended

\* swap_source whose open fails: halted and reset, nothing started.
OpenedNothing ==
    /\ Halted
    /\ degraded' = FALSE /\ failures' = 0
    /\ UNCHANGED ended

-----------------------------------------------------------------------------
(* The supervisor.                                                         *)

GivesUp(n) == MaxRestarts > 0 /\ n > MaxRestarts

\* _schedule_recovery up to its wait.
ScheduleRecovery ==
    LET n == IF restartAttempts > MaxRestarts THEN restartAttempts
                                              ELSE restartAttempts + 1
    IN  /\ restartAttempts' = n
        /\ IF GivesUp(n)
           THEN /\ supPc' = "done" /\ workerState' = "failed"
                /\ UNCHANGED retryRequested
           ELSE /\ supPc' = "backoff" /\ workerState' = "recovering"
                /\ retryRequested' = FALSE

SupReturns(state) ==
    /\ supPc' = "done" /\ workerState' = state
    /\ UNCHANGED <<restartAttempts, retryRequested>>

\* What _supervise does with an attempt's result.
AfterRecoverable == IF stopping THEN SupReturns(workerState) ELSE ScheduleRecovery

AfterCompleted == SupReturns(IF stopping THEN workerState ELSE "completed")

AfterError(e) == IF e = "config" THEN SupReturns("failed") ELSE AfterRecoverable

\* Mutant: the pipeline's degraded status is not consulted.
ConcludeCompleted == AfterCompleted

\* The end of _run_once: the loop is over, and its status says how.
Conclude == IF degraded THEN AfterRecoverable ELSE AfterCompleted

\* _run_once takes the lock: abandon if stopping, else build a source.
SupBegin ==
    /\ supPc = "lock" /\ lock = "sup"
    /\ \/ /\ stopping
          /\ SupReturns(workerState)
          /\ lock' = ReleasedBySup
          /\ UNCHANGED target
       \/ /\ ~stopping
          /\ target' = addr
          /\ \/ /\ supPc' = "attach"
                /\ UNCHANGED <<lock, workerState, restartAttempts, retryRequested>>
             \/ \E e \in FactoryErrors :
                    AfterError(e) /\ lock' = ReleasedBySup
    /\ UNCHANGED <<envVars, opPc, stopping, swapped, swapError, loopVars, served>>

\* _attach_source: pipeline.start or swap_source returns or raises, the lock
\* is released, and on success the supervisor reads the generation and parks
\* in wait_closed.
SupAttach ==
    /\ supPc = "attach"
    /\ lock' = ReleasedBySup
    /\ \/ /\ Opened(target)
          /\ supPc' = "wait" /\ workerState' = "running"
          /\ restartAttempts' = 0 /\ swapped' = FALSE
          /\ UNCHANGED retryRequested
       \/ /\ OpenFails
          /\ OpenedNothing
          /\ AfterRecoverable
          /\ UNCHANGED swapped
    /\ UNCHANGED <<envVars, opPc, stopping, swapError, target, served>>

\* Mutant: the swap generation is not compared.
EndedByItselfAlways == TRUE

EndedByItself == stopping \/ ~swapped

\* wait_closed returns: a stop, the loop's own end, or somebody's swap.
SupWake ==
    /\ supPc = "wait" /\ ~Running
    /\ IF EndedByItself
       THEN Conclude /\ UNCHANGED lock
       ELSE /\ supPc' = "relock" /\ lock' = Taken("sup")
            /\ UNCHANGED <<workerState, restartAttempts, retryRequested>>
    /\ UNCHANGED <<envVars, opPc, stopping, swapped, swapError, target,
                   loopVars, served>>

\* The lock was obtained after a swap: report its error, conclude, or go on.
SupRelock ==
    /\ supPc = "relock" /\ lock = "sup"
    /\ lock' = ReleasedBySup
    /\ \/ /\ swapError # "none"
          /\ swapError' = "none"
          /\ AfterError(swapError)
          /\ UNCHANGED swapped
       \/ /\ swapError = "none" /\ ~Running
          /\ Conclude
          /\ UNCHANGED <<swapped, swapError>>
       \/ /\ swapError = "none" /\ Running
          /\ supPc' = "wait" /\ swapped' = FALSE
          /\ UNCHANGED <<workerState, restartAttempts, retryRequested, swapError>>
    /\ UNCHANGED <<envVars, opPc, stopping, target, loopVars, served>>

\* Mutant: the wait for a retry request has no timeout.
WaitsForRequest == stopping \/ retryRequested

\* The delay passes whatever else happens, so a backoff may end at any time.
BackoffMayEnd == TRUE

\* The backoff ends: its delay passed, a stop, or a retry request.
SupBackoff ==
    /\ supPc = "backoff" /\ BackoffMayEnd
    /\ IF stopping
       THEN SupReturns(workerState) /\ UNCHANGED lock
       ELSE /\ supPc' = "lock" /\ lock' = Taken("sup")
            /\ retryRequested' = FALSE
            /\ UNCHANGED <<workerState, restartAttempts>>
    /\ UNCHANGED <<envVars, opPc, stopping, swapped, swapError, target,
                   loopVars, served>>

-----------------------------------------------------------------------------
(* The operator: CameraRuntime.apply, one call at a time, and retry_now,   *)
(* which takes no lock and also runs for the health monitor.               *)

\* retry_now: start supervision again if it ended by itself, else set the
\* event a backoff waits for.
RetryEffect ==
    IF supPc = "done" /\ ~stopping
    THEN /\ supPc' = "lock" /\ workerState' = "starting"
         /\ restartAttempts' = 0 /\ retryRequested' = FALSE
    ELSE /\ retryRequested' = TRUE
         /\ UNCHANGED supVars

RetryNow ==
    /\ RetryEffect
    /\ lock' = IF supPc' = supPc THEN lock ELSE Taken("sup")
    /\ UNCHANGED <<envVars, opPc, stopping, swapped, swapError, target,
                   loopVars, served>>

\* apply() of a definition that enables the camera: worker.start.
Enable(a) ==
    /\ opPc = "idle" /\ ~enabled
    /\ enabled' = TRUE /\ addr' = a
    /\ IF supPc \in {"absent", "done"}
       THEN /\ stopping' = FALSE /\ restartAttempts' = 0
            /\ workerState' = "starting" /\ supPc' = "lock"
            /\ lock' = Taken("sup")
       ELSE UNCHANGED <<stopping, supVars, lock>>
    /\ UNCHANGED <<up, opPc, retryRequested, swapped, swapError, target,
                   loopVars, served>>

\* apply() of an edit to a disabled camera: only the definition changes.
EditDisabled(a) ==
    /\ opPc = "idle" /\ ~enabled /\ a # addr
    /\ addr' = a
    /\ UNCHANGED <<enabled, up, opPc, supVars, syncVars, target, loopVars, served>>

\* apply() of a new address: replace_source is called.
Readdress(a) ==
    /\ opPc = "idle" /\ enabled /\ a # addr
    /\ addr' = a
    /\ opPc' = "replLock" /\ lock' = Taken("op")
    /\ UNCHANGED <<enabled, up, supVars, stopping, retryRequested, swapped,
                   swapError, target, loopVars, served>>

\* Mutant: a running pipeline is left to find the new address by itself.
NeverSwapsInPlace == FALSE

SwapsInPlace == Running

\* replace_source has the lock.
ReplaceBegin ==
    /\ opPc = "replLock" /\ lock = "op"
    /\ \/ /\ ~SwapsInPlace
          /\ RetryEffect
          /\ opPc' = "idle" /\ lock' = ReleasedByOp(supPc')
          /\ UNCHANGED <<swapped, swapError, target>>
       \/ /\ SwapsInPlace
          /\ target' = addr /\ swapped' = TRUE
          /\ \/ /\ opPc' = "replSwap"
                /\ UNCHANGED swapError
             \/ /\ opPc' = "replStop"
                /\ swapError' \in FactoryErrors
          /\ UNCHANGED <<lock, retryRequested, supVars>>
    /\ UNCHANGED <<envVars, stopping, loopVars, served>>

\* The halted loop's completion wakes the supervisor before the thread that
\* closes the source can answer, so the operator goes on after that wake.
WakePending == supPc = "wait"

\* pipeline.swap_source returns or raises; the lock is released.
ReplaceSwap ==
    /\ opPc = "replSwap" /\ ~WakePending
    /\ \/ /\ Opened(target)
          /\ UNCHANGED swapError
       \/ /\ OpenFails
          /\ OpenedNothing
          /\ swapError' = "other"
    /\ opPc' = "idle" /\ lock' = ReleasedByOp(supPc)
    /\ UNCHANGED <<envVars, supVars, stopping, retryRequested, swapped, target,
                   served>>

\* The new address could not even be built: pipeline.stop returns.
ReplaceStop ==
    /\ opPc = "replStop" /\ ~WakePending
    /\ Halted
    /\ opPc' = "idle" /\ lock' = ReleasedByOp(supPc)
    /\ UNCHANGED <<envVars, supVars, stopping, retryRequested, swapped, swapError,
                   target, degraded, failures, ended, served>>

\* apply() of a definition that disables the camera, or shutdown: stop().
Disable(a) ==
    /\ opPc = "idle" /\ enabled
    /\ enabled' = FALSE /\ addr' = a
    /\ stopping' = TRUE
    /\ opPc' = "stopLock" /\ lock' = Taken("op")
    /\ UNCHANGED <<up, supVars, retryRequested, swapped, swapError, target,
                   loopVars, served>>

StopMayHalt == lock = "op"

\* stop() has the lock, has stopped the pipeline and releases the lock.
StopHalt ==
    /\ opPc = "stopLock" /\ StopMayHalt
    /\ Halted
    /\ opPc' = "stopTask" /\ lock' = ReleasedByOp(supPc)
    /\ UNCHANGED <<envVars, supVars, stopping, retryRequested, swapped, swapError,
                   target, degraded, failures, ended, served>>

\* The rest of stop() once _await_task is over: what was served is cleared.
Unwound ==
    /\ opPc = "stopTask" /\ opPc' = "idle"
    /\ supPc' = "absent" /\ workerState' = "stopped" /\ served' = FALSE
    /\ UNCHANGED <<envVars, restartAttempts, stopping, retryRequested, swapped,
                   swapError, target, loopVars>>

StopDone == supPc \in {"absent", "done"} /\ Unwound /\ UNCHANGED lock

\* _SHUTDOWN_TIMEOUT_SECONDS pass first: the supervisor is cancelled, and
\* lets go of the lock if it holds it.
StopTimeout ==
    /\ supPc \notin {"absent", "done"}
    /\ Unwound
    /\ lock' = IF lock = "sup" THEN "free" ELSE lock

-----------------------------------------------------------------------------
(* The frame loop.                                                         *)

\* Mutant: a swap waits for the loop without telling it to stop.
HaltingOnStopOnly == (opPc = "stopLock" /\ lock = "op") \/ supPc = "attach"

Halting ==
    \/ opPc \in {"replSwap", "replStop"}
    \/ opPc = "stopLock" /\ lock = "op"
    \/ supPc = "attach"

\* A frame needs a thread, so it cannot come between replace_source getting
\* the lock and running on, in the same event-loop tick or the next.
Reading == Running /\ ~(opPc = "replLock" /\ lock = "op")

LoopEnds(why) == loop' = "done" /\ ended' = why /\ UNCHANGED source

\* A frame goes through detection and tracking and is delivered.
FrameOk ==
    /\ Reading
    /\ degraded' = FALSE /\ failures' = 0 /\ served' = TRUE
    /\ UNCHANGED <<envVars, opPc, supVars, syncVars, target, loop, source, ended>>

Tolerates(n) == n < MaxFailures

\* Detection or tracking fails on a frame: delivered degraded, until
\* max_consecutive_failures in a row end the loop undelivered.
FrameFails ==
    /\ Reading /\ ~up
    /\ failures' = failures + 1 /\ degraded' = TRUE
    /\ IF Tolerates(failures + 1)
       THEN served' = TRUE /\ UNCHANGED <<loop, source, ended>>
       ELSE LoopEnds("fault") /\ UNCHANGED served
    /\ UNCHANGED <<envVars, opPc, supVars, syncVars, target>>

\* SourceUnavailableError, or any exception that escapes the loop.
SourceLost ==
    /\ Reading /\ ~up
    /\ degraded' = TRUE /\ LoopEnds("fault")
    /\ UNCHANGED <<envVars, opPc, supVars, syncVars, target, failures, served>>

\* SourceEnded: the clip is over.
SourceEnds ==
    /\ Reading /\ Finite
    /\ LoopEnds("source")
    /\ UNCHANGED <<envVars, opPc, supVars, syncVars, target, degraded, failures,
                   served>>

\* The loop sees _stopping after its frame, or is cancelled.
LoopHalts ==
    /\ Running /\ Halting
    /\ LoopEnds("halt")
    /\ UNCHANGED <<envVars, opPc, supVars, syncVars, target, degraded, failures,
                   served>>

\* The camera and its address become usable or stop being so.
Weather ==
    /\ up' = ~up
    /\ UNCHANGED <<enabled, addr, opPc, supVars, syncVars, target, loopVars, served>>

-----------------------------------------------------------------------------
SupNext == SupBegin \/ SupAttach \/ SupWake \/ SupRelock \/ SupBackoff
OpNext == ReplaceBegin \/ ReplaceSwap \/ ReplaceStop \/ StopHalt \/ StopDone
Requests ==
    \/ RetryNow
    \/ \E a \in Addrs : Enable(a) \/ EditDisabled(a) \/ Readdress(a) \/ Disable(a)
LoopNext == FrameOk \/ FrameFails \/ SourceLost \/ SourceEnds \/ LoopHalts

Next == SupNext \/ OpNext \/ StopTimeout \/ Requests \/ LoopNext \/ Weather

\* The event loop runs every ready coroutine, opens, closes and timeouts all
\* return, and a halted loop ends after one frame or by cancellation.
\* Requests, frames, failures and stop()'s timeout need never happen.
Fairness == WF_vars(SupNext) /\ WF_vars(OpNext) /\ WF_vars(LoopHalts)

Spec == Init /\ [][Next]_vars /\ Fairness

-----------------------------------------------------------------------------
(* Safety.                                                                 *)

(* No frame loop runs without its supervisor: whatever the interleaving of *)
(* swap, stop, retry and failure, a running loop has a supervision task    *)
(* parked in wait_closed, or about to look at it after a swap.             *)
LoopIsWatched == Running => supPc \in {"wait", "relock"}

(* The state the worker reports is what its supervision is doing: it never *)
(* says running when nobody watches, recovering when nobody will retry, or *)
(* completed or failed while a supervisor is still at work ("with the      *)
(* worker still reporting whatever state it was last in").                 *)
ReportIsTrue ==
    ~stopping =>
        /\ workerState = "running" <=> supPc \in {"wait", "relock"}
        /\ workerState \in {"completed", "failed"} <=> supPc = "done"
        /\ workerState = "stopped" <=> supPc = "absent"
        /\ workerState = "recovering" => supPc \in {"backoff", "lock", "attach"}

(* A stopped worker has let go of everything: no supervisor, no frame      *)
(* loop, no open source (a camera that admits one client), no served       *)
(* result and no lock, whichever step the stop overtook.                   *)
StoppedReleases ==
    workerState = "stopped" =>
        /\ supPc = "absent" /\ lock # "sup"
        /\ ~Running /\ source = NoSource /\ ~served

(* A camera that was lost, or a loop that was halted for a swap, is never  *)
(* reported as a clip that finished.                                       *)
CompletedMeansEnded == workerState = "completed" => ended = "source"

(* A failed swap is always reported: while _swap_error is set, a swap is   *)
(* in progress or the supervisor that will read it is waiting for the lock.*)
SwapErrorHasReader == swapError # "none" =>
    \/ opPc = "replStop" /\ supPc \in {"wait", "relock"}
    \/ supPc = "relock" /\ lock = "sup"

(* An attempt opens what the operator asked for: a supervisor that is      *)
(* watching, with no edit in progress, watches the current address.        *)
WatchesCurrentAddress ==
    Running /\ opPc = "idle" => source = addr

-----------------------------------------------------------------------------
(* Liveness.                                                               *)

(* Every start, stop and replacement returns to the operator, however the  *)
(* supervisor, the lock and the frame loop wait for one another, and stop  *)
(* never needs its timeout.                                                *)
OperatorReturns == opPc # "idle" ~> opPc = "idle"

(* "Processing resumes automatically once the fault clears": a camera that *)
(* stays enabled and usable, and has not been given up on, ends up running *)
(* on its current address for good.                                        *)
Recovers ==
    <>[](up /\ enabled /\ opPc = "idle" /\ workerState \notin {"failed", "completed"})
        => <>[](workerState = "running" /\ Running /\ source = addr)

(* replace_source: "the new factory is simply what the next attempt uses": *)
(* a new address is tried, unless the camera is stopped or edited again.   *)
NewAddressIsTried ==
    \A a \in Addrs :
        (opPc = "replLock" /\ addr = a) ~> (target = a \/ addr # a \/ stopping)

(* The same for a source that has not ended of its own accord: whichever   *)
(* of starting, running, recovering, failed or halting the edit meets.     *)
NewAddressTriedUnlessEnded ==
    \A a \in Addrs :
        (opPc = "replLock" /\ addr = a)
            ~> (target = a \/ addr # a \/ stopping \/ ended = "source")

(* A camera's frame loop belongs to its worker: whatever swaps, stops,     *)
(* retries and failures overtake one another, it is watched while it runs, *)
(* and a stopped worker holds nothing.                                     *)
LoopIsOwned == TypeOK /\ LoopIsWatched /\ StoppedReleases

(* An edited address is what is watched in the end, or its failure is what *)
(* supervision hears of.                                                   *)
EditIsHeeded == SwapErrorHasReader /\ WatchesCurrentAddress

(* The state an operator is shown is the state the worker is in, and how   *)
(* it came to it.                                                          *)
StateIsTrue == ReportIsTrue /\ CompletedMeansEnded

(* Supervision comes back to a running loop on the address last asked for, *)
(* and tries each address that is asked for.                               *)
FaultsHeal == Recovers /\ NewAddressTriedUnlessEnded
=============================================================================
