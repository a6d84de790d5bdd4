----------------------- MODULE PerceptionWorkerProofs -----------------------
(* Proofs about the supervision of one camera, for every set of addresses, *)
(* restart limit and failure limit.  The type invariant is proved in three *)
(* parts (flags, counters, the rest), because the first part needs no      *)
(* arithmetic and the last no Booleans; the rest is proved together with   *)
(* the inductive strengthening of the safety invariants.                   *)
(* The second part is about the lifespan of the backend that runs such     *)
(* workers: what its shutdown leaves behind, whatever was on its way.      *)
EXTENDS MCPerceptionWorker, FiniteSets, SequenceTheorems, FiniteSetTheorems, TLAPS

OpHolds == {"replSwap", "replStop"}
OpInLock == {"replLock", "stopLock"} \cup OpHolds

\* Who has the lock, and that nobody waits for a free lock.
LockInv ==
    /\ lock = "sup" => supPc \in {"lock", "attach", "relock"}
    /\ lock = "op" => opPc \in OpInLock
    /\ lock = "free" => supPc \notin {"lock", "attach", "relock"} /\ opPc \notin OpInLock
    /\ supPc = "attach" => lock = "sup"
    /\ opPc \in OpHolds => lock = "op"

\* When the worker is stopping, and how far stop() has got.
StopInv ==
    /\ enabled => ~stopping
    /\ ~enabled /\ ~stopping => supPc = "absent" /\ opPc = "idle"
    /\ opPc \in {"stopLock", "stopTask"} => ~enabled
    /\ opPc \in {"replLock"} \cup OpHolds => enabled
    /\ opPc = "stopTask" => ~Running /\ source = NoSource /\ supPc # "attach"
    /\ stopping /\ opPc = "idle" => workerState = "stopped"
    /\ supPc = "absent" /\ ~stopping => workerState = "stopped"

\* Supervision and swap.
SwapInv ==
    /\ opPc \in OpHolds => swapped /\ supPc \in {"wait", "relock"}
    /\ opPc = "replStop" => swapError # "none"
    /\ swapError # "none" /\ lock = "sup" => ~Running
    /\ opPc = "stopTask" => supPc # "relock"
    /\ workerState = "completed" => supPc = "done"
    /\ supPc = "wait" /\ swapped => opPc \in OpHolds
    /\ supPc = "relock" => swapped /\ (lock = "sup" \/ opPc \in OpHolds)

\* A loop that is over and was not halted says how it ended.
EndInv ==
    /\ supPc = "wait" /\ ~Running /\ ~degraded /\ ~swapped /\ ~stopping => ended = "source"
    /\ supPc = "relock" /\ lock = "sup" /\ swapError = "none" /\ ~Running /\ ~degraded
          => ended = "source"

\* Which address a source was built from.
AddrInv ==
    /\ Running => source = addr \/ opPc \in OpInLock
    /\ supPc = "attach" => target = addr \/ opPc \in {"replLock", "stopLock"}
    /\ opPc = "replSwap" => target = addr

IInv ==
    /\ PlacesOK /\ LockInv /\ StopInv /\ SwapInv /\ EndInv /\ AddrInv
    /\ LoopIsWatched /\ ReportIsTrue /\ StoppedReleases /\ CompletedMeansEnded
    /\ SwapErrorHasReader

LEMMA InitIInv == Init => IInv
  BY AddrsAssumption
     DEF Init, IInv, PlacesOK, LockInv, StopInv, SwapInv, EndInv, AddrInv, LoopIsWatched,
         ReportIsTrue, StoppedReleases, CompletedMeansEnded, SwapErrorHasReader,
         Running, OpPcs, SupPcs, States, Errors, OpHolds, OpInLock

\* How a recoverable failure leaves the supervisor: ended, or in backoff.
LEMMA RecoverableOutcome ==
  ASSUME AfterRecoverable
  PROVE \/ stopping /\ supPc' = "done" /\ workerState' = workerState
        \/ ~stopping /\ supPc' = "done" /\ workerState' = "failed"
        \/ ~stopping /\ supPc' = "backoff" /\ workerState' = "recovering"
<1>1. CASE stopping
  BY <1>1 DEF AfterRecoverable, SupReturns
<1>2. CASE ~stopping
  BY <1>2 DEF AfterRecoverable, ScheduleRecovery
<1> QED
  BY <1>1, <1>2

LEMMA NextIInv == IInv /\ [Next]_vars => IInv'
<1> SUFFICES ASSUME IInv, [Next]_vars PROVE IInv'
  OBVIOUS
<1> USE AddrsAssumption
    DEF IInv, PlacesOK, LockInv, StopInv, SwapInv, EndInv, AddrInv, LoopIsWatched,
        ReportIsTrue, StoppedReleases, CompletedMeansEnded, SwapErrorHasReader,
        Running, OpPcs, SupPcs, States, Errors, OpHolds, OpInLock,
        envVars, syncVars, supVars, loopVars
<1>1. CASE SupBegin
  BY <1>1 DEF SupBegin, SupReturns, AfterError, AfterRecoverable, ScheduleRecovery, GivesUp, FactoryErrors, ReleasedBySup
<1>2. CASE SupAttach
  BY <1>2 DEF SupAttach, Opened, OpenedNothing, OpenFails, Halted, SupReturns, AfterRecoverable, ScheduleRecovery, GivesUp, ReleasedBySup
<1>3. CASE SupWake
  BY <1>3 DEF SupWake, EndedByItself, Conclude, AfterCompleted, SupReturns, AfterRecoverable, ScheduleRecovery, GivesUp, Taken
<1>4. CASE SupRelock
  <2>0. /\ supPc = "relock" /\ lock = "sup"
        /\ lock' = ReleasedBySup
        /\ UNCHANGED <<envVars, opPc, stopping, target, loopVars, served>>
    BY <1>4 DEF SupRelock
  <2>1. CASE swapError # "none"
    <3>1. \/ supPc' = "done" /\ stopping /\ workerState' = workerState
          \/ supPc' = "done" /\ workerState' = "failed"
          \/ ~stopping /\ supPc' = "backoff" /\ workerState' = "recovering"
      BY <1>4, <2>1, RecoverableOutcome DEF SupRelock, AfterError, SupReturns
    <3>2. swapError' = "none"
      BY <1>4, <2>1 DEF SupRelock
    <3> QED
      BY <2>0, <2>1, <3>1, <3>2 DEF ReleasedBySup
  <2>2. CASE swapError = "none" /\ ~Running
    <3>1. \/ supPc' = "done" /\ stopping /\ workerState' = workerState
          \/ ~stopping /\ supPc' = "done" /\ workerState' = "failed"
          \/ ~stopping /\ supPc' = "backoff" /\ workerState' = "recovering"
          \/ ~stopping /\ supPc' = "done" /\ workerState' = "completed" /\ ~degraded
      BY <1>4, <2>2, RecoverableOutcome
         DEF SupRelock, Conclude, AfterCompleted, SupReturns
    <3>2. swapError' = "none"
      BY <1>4, <2>2 DEF SupRelock
    <3> QED
      BY <2>0, <2>2, <3>1, <3>2 DEF ReleasedBySup
  <2>3. CASE swapError = "none" /\ Running
    BY <1>4, <2>3 DEF SupRelock, ReleasedBySup
  <2> QED
    BY <2>1, <2>2, <2>3
<1>5. CASE SupBackoff
  BY <1>5 DEF SupBackoff, SupReturns, Taken
<1>6. CASE ReplaceBegin
  BY <1>6 DEF ReplaceBegin, SwapsInPlace, RetryEffect, FactoryErrors, ReleasedByOp
<1>7. CASE ReplaceSwap
  BY <1>7 DEF ReplaceSwap, WakePending, Opened, OpenedNothing, OpenFails, Halted, ReleasedByOp
<1>8. CASE ReplaceStop
  BY <1>8 DEF ReplaceStop, WakePending, Halted, ReleasedByOp
<1>9. CASE StopHalt
  BY <1>9 DEF StopHalt, StopMayHalt, Halted, ReleasedByOp
<1>10. CASE StopDone
  BY <1>10 DEF StopDone, Unwound
<1>11. CASE StopTimeout
  BY <1>11 DEF StopTimeout, Unwound
<1>12. CASE RetryNow
  BY <1>12 DEF RetryNow, RetryEffect, Taken
<1>13. CASE FrameOk
  BY <1>13 DEF FrameOk, Reading
<1>14. CASE FrameFails
  BY <1>14 DEF FrameFails, Reading, LoopEnds, Tolerates
<1>15. CASE SourceLost
  BY <1>15 DEF SourceLost, Reading, LoopEnds
<1>16. CASE SourceEnds
  BY <1>16 DEF SourceEnds, Reading, LoopEnds
<1>17. CASE LoopHalts
  BY <1>17 DEF LoopHalts, Halting, LoopEnds
<1>18. CASE Weather
  BY <1>18 DEF Weather
<1>19. CASE \E a \in Addrs : Enable(a)
  BY <1>19 DEF Enable, Taken
<1>20. CASE \E a \in Addrs : EditDisabled(a)
  BY <1>20 DEF EditDisabled
<1>21. CASE \E a \in Addrs : Readdress(a)
  BY <1>21 DEF Readdress, Taken
<1>22. CASE \E a \in Addrs : Disable(a)
  BY <1>22 DEF Disable, Taken
<1>23. CASE UNCHANGED vars
  BY <1>23 DEF vars
<1> QED
  BY <1>1, <1>2, <1>3, <1>4, <1>5, <1>6, <1>7, <1>8, <1>9, <1>10, <1>11, <1>12, <1>13, <1>14, <1>15, <1>16, <1>17, <1>18, <1>19, <1>20, <1>21, <1>22, <1>23
     DEF Next, SupNext, OpNext, Requests, LoopNext

-----------------------------------------------------------------------------
(* The Boolean-valued variables.                                           *)

LEMMA NextFlags == FlagsOK /\ [Next]_vars => FlagsOK'
<1> SUFFICES ASSUME FlagsOK, [Next]_vars PROVE FlagsOK'
  OBVIOUS
<1> USE DEF FlagsOK, envVars, syncVars, supVars, loopVars
<1>1. CASE SupBegin
  BY <1>1 DEF SupBegin, SupReturns, AfterError, AfterRecoverable, ScheduleRecovery, GivesUp, FactoryErrors, ReleasedBySup
<1>2. CASE SupAttach
  BY <1>2 DEF SupAttach, Opened, OpenedNothing, OpenFails, Halted, SupReturns, AfterRecoverable, ScheduleRecovery, GivesUp, ReleasedBySup
<1>3. CASE SupWake
  BY <1>3 DEF SupWake, EndedByItself, Conclude, AfterCompleted, SupReturns, AfterRecoverable, ScheduleRecovery, GivesUp, Taken
<1>4. CASE SupRelock
  BY <1>4 DEF SupRelock, Conclude, AfterCompleted, AfterError, SupReturns, AfterRecoverable, ScheduleRecovery, GivesUp, ReleasedBySup
<1>5. CASE SupBackoff
  BY <1>5 DEF SupBackoff, SupReturns, Taken
<1>6. CASE ReplaceBegin
  BY <1>6 DEF ReplaceBegin, SwapsInPlace, RetryEffect, FactoryErrors, ReleasedByOp
<1>7. CASE ReplaceSwap
  BY <1>7 DEF ReplaceSwap, WakePending, Opened, OpenedNothing, OpenFails, Halted, ReleasedByOp
<1>8. CASE ReplaceStop
  BY <1>8 DEF ReplaceStop, WakePending, Halted, ReleasedByOp
<1>9. CASE StopHalt
  BY <1>9 DEF StopHalt, StopMayHalt, Halted, ReleasedByOp
<1>10. CASE StopDone
  BY <1>10 DEF StopDone, Unwound
<1>11. CASE StopTimeout
  BY <1>11 DEF StopTimeout, Unwound
<1>12. CASE RetryNow
  BY <1>12 DEF RetryNow, RetryEffect, Taken
<1>13. CASE FrameOk
  BY <1>13 DEF FrameOk, Reading
<1>14. CASE FrameFails
  BY <1>14 DEF FrameFails, Reading, LoopEnds, Tolerates
<1>15. CASE SourceLost
  BY <1>15 DEF SourceLost, Reading, LoopEnds
<1>16. CASE SourceEnds
  BY <1>16 DEF SourceEnds, Reading, LoopEnds
<1>17. CASE LoopHalts
  BY <1>17 DEF LoopHalts, Halting, LoopEnds
<1>18. CASE Weather
  BY <1>18 DEF Weather
<1>19. CASE \E a \in Addrs : Enable(a)
  BY <1>19 DEF Enable, Taken
<1>20. CASE \E a \in Addrs : EditDisabled(a)
  BY <1>20 DEF EditDisabled
<1>21. CASE \E a \in Addrs : Readdress(a)
  BY <1>21 DEF Readdress, Taken
<1>22. CASE \E a \in Addrs : Disable(a)
  BY <1>22 DEF Disable, Taken
<1>23. CASE UNCHANGED vars
  BY <1>23 DEF vars
<1> QED
  BY <1>1, <1>2, <1>3, <1>4, <1>5, <1>6, <1>7, <1>8, <1>9, <1>10, <1>11, <1>12, <1>13, <1>14, <1>15, <1>16, <1>17, <1>18, <1>19, <1>20, <1>21, <1>22, <1>23
     DEF Next, SupNext, OpNext, Requests, LoopNext

-----------------------------------------------------------------------------
(* The counters: failures stays below its limit while the loop runs.       *)

CountersInv == CountersOK /\ (Running => failures < MaxFailures)

LEMMA NextCounters == CountersInv /\ [Next]_vars => CountersInv'
<1> SUFFICES ASSUME CountersInv, [Next]_vars PROVE CountersInv'
  OBVIOUS
<1> USE BoundsAssumption
    DEF CountersInv, CountersOK, Running, envVars, syncVars, supVars, loopVars
<1>1. CASE SupBegin
  BY <1>1 DEF SupBegin, SupReturns, AfterError, AfterRecoverable, ScheduleRecovery, GivesUp, FactoryErrors, ReleasedBySup
<1>2. CASE SupAttach
  BY <1>2 DEF SupAttach, Opened, OpenedNothing, OpenFails, Halted, SupReturns, AfterRecoverable, ScheduleRecovery, GivesUp, ReleasedBySup
<1>3. CASE SupWake
  BY <1>3 DEF SupWake, EndedByItself, Conclude, AfterCompleted, SupReturns, AfterRecoverable, ScheduleRecovery, GivesUp, Taken
<1>4. CASE SupRelock
  BY <1>4 DEF SupRelock, Conclude, AfterCompleted, AfterError, SupReturns, AfterRecoverable, ScheduleRecovery, GivesUp, ReleasedBySup
<1>5. CASE SupBackoff
  BY <1>5 DEF SupBackoff, SupReturns, Taken
<1>6. CASE ReplaceBegin
  BY <1>6 DEF ReplaceBegin, SwapsInPlace, RetryEffect, FactoryErrors, ReleasedByOp
<1>7. CASE ReplaceSwap
  BY <1>7 DEF ReplaceSwap, WakePending, Opened, OpenedNothing, OpenFails, Halted, ReleasedByOp
<1>8. CASE ReplaceStop
  BY <1>8 DEF ReplaceStop, WakePending, Halted, ReleasedByOp
<1>9. CASE StopHalt
  BY <1>9 DEF StopHalt, StopMayHalt, Halted, ReleasedByOp
<1>10. CASE StopDone
  BY <1>10 DEF StopDone, Unwound
<1>11. CASE StopTimeout
  BY <1>11 DEF StopTimeout, Unwound
<1>12. CASE RetryNow
  BY <1>12 DEF RetryNow, RetryEffect, Taken
<1>13. CASE FrameOk
  BY <1>13 DEF FrameOk, Reading
<1>14. CASE FrameFails
  BY <1>14 DEF FrameFails, Reading, LoopEnds, Tolerates
<1>15. CASE SourceLost
  BY <1>15 DEF SourceLost, Reading, LoopEnds
<1>16. CASE SourceEnds
  BY <1>16 DEF SourceEnds, Reading, LoopEnds
<1>17. CASE LoopHalts
  BY <1>17 DEF LoopHalts, Halting, LoopEnds
<1>18. CASE Weather
  BY <1>18 DEF Weather
<1>19. CASE \E a \in Addrs : Enable(a)
  BY <1>19 DEF Enable, Taken
<1>20. CASE \E a \in Addrs : EditDisabled(a)
  BY <1>20 DEF EditDisabled
<1>21. CASE \E a \in Addrs : Readdress(a)
  BY <1>21 DEF Readdress, Taken
<1>22. CASE \E a \in Addrs : Disable(a)
  BY <1>22 DEF Disable, Taken
<1>23. CASE UNCHANGED vars
  BY <1>23 DEF vars
<1> QED
  BY <1>1, <1>2, <1>3, <1>4, <1>5, <1>6, <1>7, <1>8, <1>9, <1>10, <1>11, <1>12, <1>13, <1>14, <1>15, <1>16, <1>17, <1>18, <1>19, <1>20, <1>21, <1>22, <1>23
     DEF Next, SupNext, OpNext, Requests, LoopNext

-----------------------------------------------------------------------------
LEMMA InitFlags == Init => FlagsOK
  BY DEF Init, FlagsOK

LEMMA InitCounters == Init => CountersInv
  BY BoundsAssumption DEF Init, CountersInv, CountersOK, Running

LEMMA Inductive == Init /\ [][Next]_vars => [](IInv /\ FlagsOK /\ CountersInv)
<1>1. Init => IInv /\ FlagsOK /\ CountersInv
  BY InitIInv, InitFlags, InitCounters
<1>2. IInv /\ FlagsOK /\ CountersInv /\ [Next]_vars => (IInv /\ FlagsOK /\ CountersInv)'
  BY NextIInv, NextFlags, NextCounters
<1> QED
  BY <1>1, <1>2, PTL

(* Every variable of the worker, its pipeline and the operator's call has  *)
(* its type in every reachable state.                                      *)
THEOREM TypeCorrect == Spec => []TypeOK
<1>1. IInv /\ FlagsOK /\ CountersInv => TypeOK
  BY DEF IInv, CountersInv, TypeOK
<1> QED
  BY <1>1, Inductive, PTL DEF Spec

(* A running frame loop always has a supervisor that will notice its end,  *)
(* whatever swap, stop, retry, failure or cancelled shutdown comes between.*)
THEOREM LoopAlwaysWatched == Spec => []LoopIsWatched
<1>1. IInv /\ FlagsOK /\ CountersInv => LoopIsWatched
  BY DEF IInv
<1> QED
  BY <1>1, Inductive, PTL DEF Spec

(* The reported worker state always tells what supervision is doing.       *)
THEOREM ReportAlwaysTrue == Spec => []ReportIsTrue
<1>1. IInv /\ FlagsOK /\ CountersInv => ReportIsTrue
  BY DEF IInv
<1> QED
  BY <1>1, Inductive, PTL DEF Spec

(* A stopped worker holds no task, no source, no lock and no result.       *)
THEOREM StopAlwaysReleases == Spec => []StoppedReleases
<1>1. IInv /\ FlagsOK /\ CountersInv => StoppedReleases
  BY DEF IInv
<1> QED
  BY <1>1, Inductive, PTL DEF Spec

(* Only a source that ended of its own accord is reported as completed.    *)
THEOREM CompletedAlwaysEnded == Spec => []CompletedMeansEnded
<1>1. IInv /\ FlagsOK /\ CountersInv => CompletedMeansEnded
  BY DEF IInv
<1> QED
  BY <1>1, Inductive, PTL DEF Spec

(* No error of a swap is ever left without the supervisor to report it.    *)
THEOREM SwapErrorsReported == Spec => []SwapErrorHasReader
<1>1. IInv /\ FlagsOK /\ CountersInv => SwapErrorHasReader
  BY DEF IInv
<1> QED
  BY <1>1, Inductive, PTL DEF Spec

(* A running loop with no edit in progress reads the current address.      *)
THEOREM AlwaysWatchesCurrent == Spec => []WatchesCurrentAddress
<1>1. IInv /\ FlagsOK /\ CountersInv => WatchesCurrentAddress
  BY DEF IInv, AddrInv, WatchesCurrentAddress, OpInLock, OpHolds
<1> QED
  BY <1>1, Inductive, PTL DEF Spec

-----------------------------------------------------------------------------
(* LoopIsOwned: a running loop is watched, a stopped worker holds nothing. *)
THEOREM LoopOwned == Spec => []LoopIsOwned
BY TypeCorrect, LoopAlwaysWatched, StopAlwaysReleases, PTL DEF LoopIsOwned

(* EditIsHeeded: an edit's address is watched, or its failure has a reader. *)
THEOREM EditHeeded == Spec => []EditIsHeeded
BY SwapErrorsReported, AlwaysWatchesCurrent, PTL DEF EditIsHeeded

(* StateIsTrue: what an operator reads of the worker is so.                *)
THEOREM StateTrue == Spec => []StateIsTrue
BY ReportAlwaysTrue, CompletedAlwaysEnded, PTL DEF StateIsTrue

-----------------------------------------------------------------------------
(***************************************************************************)
(* The backend's lifespan, for every fleet, any number of windows, reports *)
(* and turns.                                                              *)
(***************************************************************************)
Cams == Backend!CamerasOf
Keys == Backend!Keys

(* The stages, by what has been started and stopped.                       *)
Starting == {"connect", "wire", "cameras"}
Serving == {"serving", "publisher", "site"}
Over == {"drain", "recorder", "history", "closed"}
Quiet == {"manager", "stopping"} \cup Over
Drained == {"recorder", "history", "closed"}
Stages == Starting \cup Serving \cup Quiet \cup {"failed"}

CameraEvents == {"perception", "analysis"}
HandlersOf == ({"analyse", "draw"} \X Cams) \cup {Backend!Publisher, Backend!Recorder}
EventKeys == (CameraEvents \X Cams) \cup {<<"site", "site">>}

IsLifespan(t) == t = Backend!Lifespan
Published == {Backend!Dispatched(ek[1], ek[2], n) : ek \in EventKeys, n \in Nat}
Handled == {Backend!Handling(h, t) : h \in HandlersOf, t \in Published}
Callbacks == {Backend!Lifespan} \cup Published \cup Handled

LTypes ==
    /\ stage \in Stages /\ turns \in 0 .. Turns /\ site \in {"off", "running"}
    /\ ready \in Seq(Callbacks) /\ handlers \in [Backend!Events -> Seq(HandlersOf)]
    /\ pipeline \in [Cams -> {"off", "running", "ending", "ended", "stopped"}]
    /\ delivered \in [Cams -> Nat] /\ DOMAIN latest = Cams /\ DOMAIN overlay = Cams
    /\ reports \in Seq([Cams -> {"running"}]) /\ DOMAIN bucket = Keys
    /\ database \in {"open", "closed"} /\ lateSend = FALSE

(* Where a camera's stop is.                                               *)
Stopping(i) ==
    /\ pipeline[Fleet[i]] \in {"ending", "ended"}
    /\ \A j \in 1 .. i - 1 : pipeline[Fleet[j]] = "stopped"
    /\ \A j \in i + 1 .. Len(Fleet) : pipeline[Fleet[j]] = "running"

CamerasInv ==
    /\ stage \in Starting \cup {"failed"} => \A c \in Cams : pipeline[c] = "off" /\ delivered[c] = 0
    /\ stage \in Starting \cup {"failed"} => reports = << >> /\ site = "off"
    /\ stage \in Serving => site = "running" /\ \A c \in Cams : pipeline[c] = "running"
    /\ stage \in Quiet => site = "off"
    /\ stage = "manager" => \A c \in Cams : pipeline[c] = "running"
    /\ stage = "stopping" => \E i \in DOMAIN Fleet : Stopping(i)
    /\ stage \in Over => \A c \in Cams : pipeline[c] = "stopped"
    /\ \A c \in Cams : pipeline[c] = "stopped" => latest[c] = Nothing /\ overlay[c] = Nothing
    /\ \A c \in Cams : pipeline[c] = "ending" => turns = Turns

(* The lifespan is in the loop once, unless it awaits something else.      *)
Elsewhere ==
    \/ stage \in {"serving", "closed", "failed"}
    \/ stage = "stopping" /\ \E c \in Cams : pipeline[c] = "ending"
    \/ stage = "history" /\ writing # {}

Once(q) == \A i, j \in DOMAIN q : IsLifespan(q[i]) /\ IsLifespan(q[j]) => i = j
Present(q) == \E i \in DOMAIN q : IsLifespan(q[i])

LoopInv ==
    /\ Once(ready) /\ (Present(ready) <=> ~Elsewhere)
    /\ stage \in Starting \cup {"failed"} \cup Drained => \A i \in DOMAIN ready : IsLifespan(ready[i])

(* Who is subscribed.                                                      *)
Distinct(q) == \A i, j \in DOMAIN q : q[i] = q[j] => i = j
Within(x, q) == \E i \in DOMAIN q : q[i] = x
Has(e, h) == Within(h, handlers[e])
Wired == Stages \ {"connect", "wire", "failed"}

SubscribedInv ==
    /\ \A e \in Backend!Events : Distinct(handlers[e])
    /\ stage \in {"connect", "wire", "failed"} => \A e \in Backend!Events : handlers[e] = << >>
    /\ stage \in Wired \ {"history", "closed"} =>
            Has("analysis", Backend!Recorder) /\ Has("site", Backend!Recorder)
    /\ stage \in Wired => \A c \in Cams : pipeline[c] # "stopped" => Has("perception", <<"analyse", c>>)
    /\ \A c \in Cams : pipeline[c] = "stopped" =>
            ~Has("perception", <<"analyse", c>>) /\ ~Has("analysis", <<"draw", c>>)
    /\ \A c \in Cams : /\ ~Has("analysis", <<"analyse", c>>) /\ ~Has("site", <<"analyse", c>>)
                       /\ ~Has("perception", <<"draw", c>>) /\ ~Has("site", <<"draw", c>>)
    /\ stage \in Quiet \cup {"site"} => \A e \in Backend!Events : ~Has(e, Backend!Publisher)

\* A handler is called with the events it is subscribed to.
CalledInv ==
    \A i \in DOMAIN ready : ready[i].does = "handle" =>
        /\ ready[i].handler[1] = "analyse" => ready[i].event = "perception"
        /\ ready[i].handler[1] = "draw" => ready[i].event = "analysis"

(* How far a window has come, and that what is on its way when its camera's*)
(* frame loop ends comes a step further before the lifespan's next turn.   *)
Rank(t) ==
    IF t.event = "perception" THEN (IF t.does = "publish" THEN 0 ELSE 1)
    ELSE IF t.does = "publish" THEN 2 ELSE 3

IsOf(t, c) == ~IsLifespan(t) /\ t.key = c
Used == Turns - turns

FlightInv ==
    \A c \in Cams : pipeline[c] = "ended" =>
        \A i, j \in DOMAIN ready : IsLifespan(ready[j]) /\ IsOf(ready[i], c) =>
            IF i < j THEN Rank(ready[i]) >= Used ELSE Rank(ready[i]) >= Used + 1

GoneInv ==
    \A c \in Cams : pipeline[c] = "stopped" => \A i \in DOMAIN ready : ~IsOf(ready[i], c)

(* The publisher is told nothing more once its stop was awaited.           *)
TellsClients(t) == t.does = "handle" /\ t.handler = Backend!Publisher
QuietInv ==
    /\ stage \in Quiet => \A i \in DOMAIN ready : ~TellsClients(ready[i])
    /\ stage = "site" =>
            \A i, j \in DOMAIN ready : IsLifespan(ready[j]) /\ j < i => ~TellsClients(ready[i])

(* Each window and each report is stored, on its way to be or still on its *)
(* way to the recorder.                                                    *)
Kept(k, n) == <<k, n>> \in stored \cup (UNION writing) \cup bucket[k]
Carries(t, k, n) ==
    /\ ~IsLifespan(t) /\ t.key = k /\ t.n = n
    /\ \/ t.does = "publish"
       \/ t.does = "handle" /\ t.handler \in {<<"analyse", k>>, Backend!Recorder}
Safe(k, n) == Kept(k, n) \/ \E i \in DOMAIN ready : Carries(ready[i], k, n)

SafeInv ==
    /\ \A c \in Cams : \A n \in 1 .. delivered[c] : Safe(c, n)
    /\ \A n \in 1 .. Len(reports) : Safe("site", n)

HistoryInv ==
    /\ database = "open" <=> stage \notin {"connect", "failed", "closed"}
    /\ stage \in Starting \cup {"failed", "history", "closed"} => \A k \in Keys : bucket[k] = {}
    /\ stage \in Starting \cup {"failed", "closed"} => writing = {}
    /\ stage = "connect" => stored = {}

BoundsInv ==
    /\ \A c \in Cams : delivered[c] <= MaxWindows
    /\ Len(reports) <= MaxReports

LifeInv ==
    /\ LTypes /\ CamerasInv /\ LoopInv /\ SubscribedInv /\ CalledInv
    /\ FlightInv /\ GoneInv /\ QuietInv /\ SafeInv /\ HistoryInv /\ BoundsInv
-----------------------------------------------------------------------------
(* What a callback is.                                                     *)
LEMMA CallbackFacts ==
  /\ Backend!Lifespan \in Callbacks /\ Backend!Lifespan.does = "lifespan"
  /\ \A t \in Callbacks : IsLifespan(t) <=> t.does = "lifespan"
  /\ \A t \in Callbacks : t.does \in {"lifespan", "publish", "handle"}
  /\ \A t \in Callbacks : t.does = "publish" => t \in Published
  /\ \A t \in Callbacks : t.does = "handle" => t \in Handled
  /\ \A t \in Published : t \in Callbacks /\ t.does = "publish"
  /\ \A t \in Published \cup Handled : <<t.event, t.key>> \in EventKeys /\ t.n \in Nat
  /\ \A t \in Handled : t \in Callbacks /\ t.does = "handle" /\ t.handler \in HandlersOf
  <1>1. \A t \in Published : t.does = "publish" /\ <<t.event, t.key>> \in EventKeys /\ t.n \in Nat
    BY DEF Published, EventKeys, CameraEvents, Backend!Dispatched
  <1>2. \A t \in Handled : /\ t.does = "handle" /\ t.handler \in HandlersOf
                           /\ <<t.event, t.key>> \in EventKeys /\ t.n \in Nat
    <2>1. ASSUME NEW h \in HandlersOf, NEW t \in Published, NEW u, u = Backend!Handling(h, t)
          PROVE  /\ u.does = "handle" /\ u.handler \in HandlersOf
                 /\ <<u.event, u.key>> \in EventKeys /\ u.n \in Nat
      <3>1. u.does = "handle" /\ u.handler = h /\ u.event = t.event /\ u.key = t.key /\ u.n = t.n
        BY <2>1 DEF Backend!Handling
      <3> QED BY <1>1, <3>1
    <2>2. \A u \in Handled : \E h \in HandlersOf : \E t \in Published : u = Backend!Handling(h, t)
      BY DEF Handled
    <2> QED BY <2>1, <2>2, Zenon
  <1>3. Backend!Lifespan.does = "lifespan"
    BY DEF Backend!Lifespan
  <1> QED
    BY <1>1, <1>2, <1>3, Zenon DEF Callbacks, IsLifespan

LEMMA DispatchedFacts ==
  ASSUME NEW e, NEW k, <<e, k>> \in EventKeys, NEW n \in Nat
  PROVE  LET t == Backend!Dispatched(e, k, n)
         IN  t \in Published /\ t.event = e /\ t.key = k /\ t.n = n
  BY DEF Published, Backend!Dispatched

LEMMA HandlingFacts ==
  ASSUME NEW h \in HandlersOf, NEW t \in Published
  PROVE  LET u == Backend!Handling(h, t)
         IN  u \in Handled /\ u.handler = h /\ u.event = t.event /\ u.key = t.key /\ u.n = t.n
  BY DEF Handled, Backend!Handling

(* The queue, without its first k entries and with others at its end.      *)
Moved(q, k, s, r) ==
    /\ q \in Seq(Callbacks) /\ s \in Seq(Callbacks) /\ r \in Seq(Callbacks)
    /\ k \in {0, 1} /\ k <= Len(q) /\ Len(r) = Len(q) - k + Len(s)
    /\ \A i \in 1 .. Len(q) - k : r[i] = q[i + k]
    /\ \A i \in 1 .. Len(s) : r[Len(q) - k + i] = s[i]

LEMMA MovedAppend ==
  ASSUME NEW q \in Seq(Callbacks), NEW t \in Callbacks
  PROVE  Moved(q, 0, <<t>>, Append(q, t))
  BY DEF Moved

LEMMA MovedAppendTwo ==
  ASSUME NEW q \in Seq(Callbacks), NEW t \in Callbacks, NEW u \in Callbacks
  PROVE  Moved(q, 0, <<t, u>>, Append(Append(q, t), u))
  BY DEF Moved

LEMMA MovedNot ==
  ASSUME NEW q \in Seq(Callbacks)
  PROVE  Moved(q, 0, << >>, q)
  BY DEF Moved

LEMMA MovedTail ==
  ASSUME NEW q \in Seq(Callbacks), q # << >>
  PROVE  Moved(q, 1, << >>, Tail(q)) /\ Head(q) = q[1] /\ Head(q) \in Callbacks /\ 1 \in DOMAIN q
  BY HeadTailProperties DEF Moved

LEMMA MovedTailAppend ==
  ASSUME NEW q \in Seq(Callbacks), q # << >>, NEW t \in Callbacks
  PROVE  Moved(q, 1, <<t>>, Append(Tail(q), t))
  BY HeadTailProperties DEF Moved

LEMMA MovedTailConcat ==
  ASSUME NEW q \in Seq(Callbacks), q # << >>, NEW s \in Seq(Callbacks)
  PROVE  Moved(q, 1, s, Tail(q) \o s)
  <1>1. Tail(q) \in Seq(Callbacks) /\ Len(Tail(q)) = Len(q) - 1 /\ Len(q) >= 1
        /\ \A i \in 1 .. Len(Tail(q)) : Tail(q)[i] = q[i + 1]
    BY HeadTailProperties
  <1>2. Tail(q) \o s \in Seq(Callbacks) /\ Len(Tail(q) \o s) = Len(Tail(q)) + Len(s)
        /\ \A i \in 1 .. Len(Tail(q)) + Len(s) : (Tail(q) \o s)[i] =
                     IF i <= Len(Tail(q)) THEN Tail(q)[i] ELSE s[i - Len(Tail(q))]
    BY <1>1, ConcatProperties
  <1> HIDE DEF Callbacks
  <1> QED BY <1>1, <1>2 DEF Moved

(* Where an entry comes from, and where it goes to.                        *)
LEMMA MovedPlaces ==
  ASSUME NEW q, NEW k, NEW s, NEW r, Moved(q, k, s, r)
  PROVE  /\ DOMAIN q = 1 .. Len(q) /\ DOMAIN s = 1 .. Len(s) /\ DOMAIN r = 1 .. Len(r)
         /\ Len(q) \in Nat /\ Len(s) \in Nat /\ Len(r) \in Nat
         /\ \A i \in DOMAIN r : \/ i <= Len(q) - k /\ i + k \in DOMAIN q /\ r[i] = q[i + k]
                                \/ /\ i > Len(q) - k /\ i - (Len(q) - k) \in DOMAIN s
                                   /\ r[i] = s[i - (Len(q) - k)]
         /\ \A i \in DOMAIN q : i > k => i - k \in DOMAIN r /\ r[i - k] = q[i]
         /\ \A i \in DOMAIN s : Len(q) - k + i \in DOMAIN r /\ r[Len(q) - k + i] = s[i]
  <1> HIDE DEF Callbacks
  <1>1. /\ DOMAIN q = 1 .. Len(q) /\ DOMAIN s = 1 .. Len(s) /\ DOMAIN r = 1 .. Len(r)
        /\ Len(q) \in Nat /\ Len(s) \in Nat /\ Len(r) \in Nat
    BY LenProperties, Zenon DEF Moved
  <1>2. ASSUME NEW i \in DOMAIN r
        PROVE  \/ i <= Len(q) - k /\ i + k \in DOMAIN q /\ r[i] = q[i + k]
               \/ /\ i > Len(q) - k /\ i - (Len(q) - k) \in DOMAIN s
                  /\ r[i] = s[i - (Len(q) - k)]
    <2> DEFINE m == i - (Len(q) - k)
    <2>1. CASE i <= Len(q) - k
      <3>1. i \in 1 .. Len(q) - k /\ i + k \in DOMAIN q
        BY <1>1, <2>1 DEF Moved
      <3>2. r[i] = q[i + k]
        BY <3>1, Zenon DEF Moved
      <3> QED BY <2>1, <3>1, <3>2
    <2>2. CASE i > Len(q) - k
      <3>1. m \in 1 .. Len(s) /\ Len(q) - k + m = i
        BY <1>1, <2>2 DEF Moved
      <3> HIDE DEF m
      <3>2. r[i] = s[m]
        BY <3>1 DEF Moved
      <3> QED BY <1>1, <2>2, <3>1, <3>2 DEF m
    <2> QED BY <2>1, <2>2, <1>1 DEF Moved
  <1>3. ASSUME NEW i \in DOMAIN q, i > k
        PROVE  i - k \in DOMAIN r /\ r[i - k] = q[i]
    <2> DEFINE m == i - k
    <2>1. m \in 1 .. Len(q) - k /\ m + k = i /\ m \in DOMAIN r
      BY <1>1, <1>3 DEF Moved
    <2> HIDE DEF m
    <2>2. r[m] = q[i]
      BY <2>1 DEF Moved
    <2> QED BY <2>1, <2>2 DEF m
  <1>4. ASSUME NEW i \in DOMAIN s
        PROVE  Len(q) - k + i \in DOMAIN r /\ r[Len(q) - k + i] = s[i]
    BY <1>1 DEF Moved
  <1> QED BY <1>1, <1>2, <1>3, <1>4

(* The lifespan among the callbacks.                                       *)
AtEnd(q) == \A i, j \in DOMAIN q : IsLifespan(q[j]) => i <= j

\* It runs, and goes to the end or away.
LEMMA LifespanMoved ==
  ASSUME NEW q, NEW r, NEW s \in {<< >>, <<Backend!Lifespan>>}, Moved(q, 1, s, r),
         Once(q), IsLifespan(q[1])
  PROVE  /\ \A i \in DOMAIN r : ~IsLifespan(r[i]) => i + 1 \in DOMAIN q /\ r[i] = q[i + 1]
         /\ \A i \in DOMAIN q : ~IsLifespan(q[i]) => \E j \in DOMAIN r : r[j] = q[i]
         /\ Once(r) /\ AtEnd(r)
         /\ s = <<Backend!Lifespan>> => Present(r)
         /\ s = << >> => ~Present(r)
  <1> DEFINE n == Len(q) - 1
  <1>1. /\ DOMAIN q = 1 .. Len(q) /\ DOMAIN s = 1 .. Len(s) /\ DOMAIN r = 1 .. Len(r)
        /\ Len(q) \in Nat /\ Len(s) \in Nat /\ Len(r) \in Nat /\ 1 <= Len(q)
        /\ Len(r) = n + Len(s) /\ n \in Nat
    BY MovedPlaces DEF Moved
  <1>2. \A i \in DOMAIN r : \/ i <= n /\ i + 1 \in DOMAIN q /\ r[i] = q[i + 1]
                            \/ i > n /\ i - n \in DOMAIN s /\ r[i] = s[i - n]
    BY MovedPlaces
  <1>3. \A i \in DOMAIN q : i > 1 => i - 1 \in DOMAIN r /\ r[i - 1] = q[i]
    BY MovedPlaces
  <1>4. \A i \in DOMAIN s : n + i \in DOMAIN r /\ r[n + i] = s[i]
    BY MovedPlaces
  <1>5. s = << >> => DOMAIN s = {}
    OBVIOUS
  <1>6. s = <<Backend!Lifespan>> => DOMAIN s = {1} /\ s[1] = Backend!Lifespan
    OBVIOUS
  <1> HIDE DEF n
  <1>7. \A i \in DOMAIN r : i <= n => ~IsLifespan(r[i])
    <2> SUFFICES ASSUME NEW i \in DOMAIN r, i <= n, IsLifespan(r[i]) PROVE FALSE
      OBVIOUS
    <2>1. i + 1 \in DOMAIN q /\ r[i] = q[i + 1] /\ i \in Nat /\ i >= 1
      BY <1>1, <1>2
    <2>2. i + 1 = 1
      BY <2>1, <1>1 DEF Once
    <2> QED BY <2>1, <2>2
  <1>8. \A i \in DOMAIN r : i > n => s = <<Backend!Lifespan>> /\ i = n + 1 /\ IsLifespan(r[i])
    <2> SUFFICES ASSUME NEW i \in DOMAIN r, i > n
                 PROVE  s = <<Backend!Lifespan>> /\ i = n + 1 /\ IsLifespan(r[i])
      OBVIOUS
    <2>1. i - n \in DOMAIN s /\ r[i] = s[i - n]
      BY <1>1, <1>2
    <2>2. s = <<Backend!Lifespan>>
      BY <2>1, <1>5
    <2>3. i - n = 1
      BY <2>1, <2>2, <1>6
    <2>4. r[i] = Backend!Lifespan
      BY <2>1, <2>2, <2>3, <1>6
    <2> QED BY <2>2, <2>3, <2>4, <1>1 DEF IsLifespan
  <1>9. Once(r) /\ AtEnd(r)
    BY <1>1, <1>7, <1>8 DEF Once, AtEnd
  <1>10. s = <<Backend!Lifespan>> => Present(r)
    BY <1>1, <1>4, <1>6, <1>8 DEF Present, IsLifespan
  <1>11. s = << >> => ~Present(r)
    BY <1>1, <1>2, <1>5, <1>7, <1>8 DEF Present
  <1>12. \A i \in DOMAIN q : ~IsLifespan(q[i]) => \E j \in DOMAIN r : r[j] = q[i]
    <2> SUFFICES ASSUME NEW i \in DOMAIN q, ~IsLifespan(q[i]) PROVE \E j \in DOMAIN r : r[j] = q[i]
      OBVIOUS
    <2>1. i > 1
      BY <1>1
    <2> QED BY <2>1, <1>3
  <1>13. \A i \in DOMAIN r : ~IsLifespan(r[i]) => i + 1 \in DOMAIN q /\ r[i] = q[i + 1]
    BY <1>1, <1>2, <1>8
  <1> QED BY <1>9, <1>10, <1>11, <1>12, <1>13

\* Something else runs or is put into the loop: the lifespan is where it was
\* among what was there, and before what is new.
LEMMA WorkMoved ==
  ASSUME NEW q, NEW k, NEW s, NEW r, Moved(q, k, s, r), Once(q),
         k = 1 => ~IsLifespan(q[1]), \A i \in DOMAIN s : ~IsLifespan(s[i])
  PROVE  /\ Once(r) /\ (Present(q) <=> Present(r))
         /\ \A i, j \in DOMAIN r : IsLifespan(r[j]) =>
                /\ j <= Len(q) - k /\ j + k \in DOMAIN q /\ IsLifespan(q[j + k])
                /\ i <= Len(q) - k => i + k \in DOMAIN q /\ r[i] = q[i + k]
                /\ i > Len(q) - k => i - (Len(q) - k) \in DOMAIN s /\ r[i] = s[i - (Len(q) - k)] /\ j < i
  <1> DEFINE n == Len(q) - k
  <1>1. /\ DOMAIN q = 1 .. Len(q) /\ DOMAIN s = 1 .. Len(s) /\ DOMAIN r = 1 .. Len(r)
        /\ Len(q) \in Nat /\ Len(s) \in Nat /\ Len(r) \in Nat /\ k \in {0, 1} /\ k <= Len(q)
        /\ n \in Nat
    BY MovedPlaces DEF Moved
  <1>2. \A i \in DOMAIN r : \/ i <= n /\ i + k \in DOMAIN q /\ r[i] = q[i + k]
                            \/ i > n /\ i - n \in DOMAIN s /\ r[i] = s[i - n]
    BY MovedPlaces
  <1>3. \A i \in DOMAIN q : i > k => i - k \in DOMAIN r /\ r[i - k] = q[i]
    BY MovedPlaces
  <1> HIDE DEF n
  <1>4. \A j \in DOMAIN r : IsLifespan(r[j]) => j <= n /\ j + k \in DOMAIN q /\ IsLifespan(q[j + k])
    BY <1>2
  <1>5. Once(r)
    <2> SUFFICES ASSUME NEW i \in DOMAIN r, NEW j \in DOMAIN r, IsLifespan(r[i]), IsLifespan(r[j])
                 PROVE  i = j
      BY DEF Once
    <2>1. i + k = j + k
      BY <1>4 DEF Once
    <2> QED BY <2>1, <1>1
  <1>6. Present(r) => Present(q)
    BY <1>4 DEF Present
  <1>7. Present(q) => Present(r)
    <2> SUFFICES ASSUME NEW i \in DOMAIN q, IsLifespan(q[i]) PROVE Present(r)
      BY DEF Present
    <2>1. i > k
      BY <1>1
    <2> QED BY <2>1, <1>3 DEF Present
  <1>8. ASSUME NEW i \in DOMAIN r, NEW j \in DOMAIN r, IsLifespan(r[j])
        PROVE  /\ j <= n /\ j + k \in DOMAIN q /\ IsLifespan(q[j + k])
               /\ i <= n => i + k \in DOMAIN q /\ r[i] = q[i + k]
               /\ i > n => i - n \in DOMAIN s /\ r[i] = s[i - n] /\ j < i
    BY <1>1, <1>2, <1>4, <1>8
  <1> QED BY <1>5, <1>6, <1>7, <1>8 DEF n

\* The lifespan is woken.
LEMMA WakesMoved ==
  ASSUME NEW q, NEW s, NEW r, Moved(q, 0, s, r), ~Present(q), s # << >>,
         \A i \in DOMAIN s : IsLifespan(s[i]) <=> i = Len(s)
  PROVE  Once(r) /\ Present(r) /\ AtEnd(r)
  <1>1. /\ DOMAIN q = 1 .. Len(q) /\ DOMAIN s = 1 .. Len(s) /\ DOMAIN r = 1 .. Len(r)
        /\ Len(q) \in Nat /\ Len(s) \in Nat /\ Len(r) \in Nat /\ Len(r) = Len(q) + Len(s)
    BY MovedPlaces DEF Moved
  <1>2. \A i \in DOMAIN r : \/ i <= Len(q) /\ i \in DOMAIN q /\ r[i] = q[i]
                            \/ i > Len(q) /\ i - Len(q) \in DOMAIN s /\ r[i] = s[i - Len(q)]
    <2>1. Len(q) - 0 = Len(q) /\ \A i \in DOMAIN r : i + 0 = i
      BY <1>1
    <2> QED BY MovedPlaces, <2>1
  <1>3. Len(s) >= 1
    BY <1>1, EmptySeq DEF Moved
  <1>4. \A i \in DOMAIN r : IsLifespan(r[i]) <=> i = Len(r)
    <2> TAKE i \in DOMAIN r
    <2>1. CASE i <= Len(q)
      BY <2>1, <1>1, <1>2, <1>3 DEF Present
    <2>2. CASE i > Len(q)
      <3>1. i - Len(q) \in DOMAIN s /\ r[i] = s[i - Len(q)]
        BY <1>1, <1>2, <2>2
      <3>2. IsLifespan(r[i]) <=> i - Len(q) = Len(s)
        BY <3>1
      <3> QED BY <3>1, <3>2, <1>1
    <2> QED BY <2>1, <2>2, <1>1
  <1> QED BY <1>1, <1>3, <1>4 DEF Once, Present, AtEnd

-----------------------------------------------------------------------------
(* What every step has in common.                                          *)
LEMMA CamsFacts ==
  ASSUME Backend!ConstantsAssumption
  PROVE  /\ Len(Fleet) \in Nat /\ Len(Fleet) >= 1 /\ DOMAIN Fleet = 1 .. Len(Fleet)
         /\ \A i \in DOMAIN Fleet : Fleet[i] \in Cams
         /\ \A c \in Cams : \E i \in DOMAIN Fleet : c = Fleet[i]
         /\ \A i, j \in DOMAIN Fleet : Fleet[i] = Fleet[j] => i = j
         /\ "site" \notin Cams /\ "all" \notin Cams
         /\ MaxWindows \in Nat /\ MaxReports \in Nat /\ Turns \in Nat /\ Turns >= 3
  <1>1. /\ Fleet \in Seq(Cams) /\ Fleet # << >> /\ Backend!IsInjective(Fleet)
        /\ Cams \cap {"site", "all"} = {} /\ Turns >= 3
        /\ MaxWindows \in Nat /\ MaxReports \in Nat /\ Turns \in Nat
    BY DEF Backend!ConstantsAssumption, Cams
  <1>2. Len(Fleet) \in Nat /\ DOMAIN Fleet = 1 .. Len(Fleet)
    BY <1>1, LenProperties
  <1>3. Len(Fleet) >= 1
    BY <1>1, EmptySeq
  <1>4. Cams = {Fleet[i] : i \in DOMAIN Fleet}
    BY DEF Cams, Backend!CamerasOf
  <1>5. \A i, j \in DOMAIN Fleet : Fleet[i] = Fleet[j] => i = j
    BY <1>1 DEF Backend!IsInjective
  <1> QED BY <1>1, <1>2, <1>3, <1>4, <1>5

LEMMA HandlerFacts ==
  /\ Backend!Publisher \in HandlersOf /\ Backend!Recorder \in HandlersOf
  /\ \A c \in Cams : <<"analyse", c>> \in HandlersOf /\ <<"draw", c>> \in HandlersOf
  /\ Backend!Publisher # Backend!Recorder
  /\ \A c : /\ <<"analyse", c>> # Backend!Publisher /\ <<"analyse", c>> # Backend!Recorder
            /\ <<"draw", c>> # Backend!Publisher /\ <<"draw", c>> # Backend!Recorder
  /\ \A c, d : <<"analyse", c>> # <<"draw", d>>
  /\ \A c, d : <<"analyse", c>> = <<"analyse", d>> => c = d
  /\ \A c, d : <<"draw", c>> = <<"draw", d>> => c = d
  BY DEF HandlersOf, Backend!Publisher, Backend!Recorder

(* What is on its way to be kept, and that what is called was subscribed.  *)
Carried(q, k, n) == \E i \in DOMAIN q : Carries(q[i], k, n)
CalledOf(t) ==
    t.does = "handle" => /\ t.handler[1] = "analyse" => t.event = "perception"
                         /\ t.handler[1] = "draw" => t.event = "analysis"

\* The lifespan runs: nothing else is moved.
LEMMA LifespanStep ==
  ASSUME LifeInv, Backend!Resumed,
         ready' = Tail(ready) \/ Backend!Awaits
  PROVE  /\ ready' \in Seq(Callbacks) /\ Once(ready') /\ AtEnd(ready')
         /\ Backend!Awaits => Present(ready')
         /\ ready' = Tail(ready) => ~Present(ready')
         /\ \A i \in DOMAIN ready' : ~IsLifespan(ready'[i]) =>
                i + 1 \in DOMAIN ready /\ ready'[i] = ready[i + 1]
         /\ \A k, n : Carried(ready, k, n) => Carried(ready', k, n)
         /\ 1 \in DOMAIN ready /\ IsLifespan(ready[1]) /\ Present(ready)
  <1>1. ready \in Seq(Callbacks) /\ Once(ready) /\ ready # << >>
    BY DEF LifeInv, LTypes, LoopInv, Backend!Resumed
  <1>2. 1 \in DOMAIN ready /\ IsLifespan(ready[1]) /\ Present(ready)
    BY <1>1, MovedTail DEF Backend!Resumed, Present, IsLifespan
  <1>3. Backend!Awaits => Moved(ready, 1, <<Backend!Lifespan>>, ready')
    BY <1>1, MovedTailAppend, CallbackFacts DEF Backend!Awaits
  <1>4. ready' = Tail(ready) => Moved(ready, 1, << >>, ready')
    BY <1>1, MovedTail
  <1>5. PICK s \in {<< >>, <<Backend!Lifespan>>} : /\ Moved(ready, 1, s, ready')
                                                  /\ \/ s = << >> /\ ready' = Tail(ready)
                                                     \/ s = <<Backend!Lifespan>> /\ Backend!Awaits
    BY <1>3, <1>4
  <1>6. /\ \A i \in DOMAIN ready' : ~IsLifespan(ready'[i]) =>
                i + 1 \in DOMAIN ready /\ ready'[i] = ready[i + 1]
        /\ \A i \in DOMAIN ready : ~IsLifespan(ready[i]) => \E j \in DOMAIN ready' : ready'[j] = ready[i]
        /\ Once(ready') /\ AtEnd(ready')
    BY <1>1, <1>2, <1>5, LifespanMoved
  <1>7. Backend!Awaits => Present(ready')
    BY <1>1, <1>2, <1>3, LifespanMoved
  <1>8. ready' = Tail(ready) => ~Present(ready')
    BY <1>1, <1>2, <1>4, LifespanMoved
  <1>9. \A k, n : Carried(ready, k, n) => Carried(ready', k, n)
    BY <1>6 DEF Carried, Carries
  <1>10. ready' \in Seq(Callbacks)
    BY <1>5 DEF Moved
  <1> QED BY <1>2, <1>6, <1>7, <1>8, <1>9, <1>10

LEMMA LifespanKeepsCalled ==
  ASSUME LifeInv, Backend!Resumed, ready' = Tail(ready) \/ Backend!Awaits
  PROVE  CalledInv'
  <1>1. \A i \in DOMAIN ready' : ~IsLifespan(ready'[i]) =>
                i + 1 \in DOMAIN ready /\ ready'[i] = ready[i + 1]
    BY LifespanStep
  <1>2. \A i \in DOMAIN ready : CalledOf(ready[i])
    BY DEF LifeInv, CalledInv, CalledOf
  <1>3. \A i \in DOMAIN ready' : IsLifespan(ready'[i]) => ready'[i].does # "handle"
    BY CallbackFacts DEF IsLifespan
  <1>4. \A i \in DOMAIN ready' : CalledOf(ready'[i])
    BY <1>1, <1>2, <1>3 DEF CalledOf
  <1> QED BY <1>4 DEF CalledInv, CalledOf

\* What is safe stays safe while nothing is taken out of history.
LEMMA SafeStays ==
  ASSUME SafeInv, UNCHANGED <<delivered, reports>>,
         \A k \in Keys, n \in Nat : Kept(k, n) => Kept(k, n)',
         \A k \in Keys, n \in Nat : Carried(ready, k, n) => Carried(ready', k, n) \/ Kept(k, n)'
  PROVE  SafeInv'
  <1>1. \A k, n : Safe(k, n) <=> Kept(k, n) \/ Carried(ready, k, n)
    BY DEF Safe, Carried
  <1>2. \A k, n : Safe(k, n)' <=> Kept(k, n)' \/ Carried(ready', k, n)
    BY DEF Safe, Carried
  <1>3. \A k \in Keys, n \in Nat : Safe(k, n) => Safe(k, n)'
    BY <1>1, <1>2
  <1>4. "site" \in Keys /\ \A c \in Cams : c \in Keys
    BY DEF Keys, Cams, Backend!Keys
  <1> QED BY <1>3, <1>4 DEF SafeInv

LEMMA HistoryStill ==
  ASSUME UNCHANGED <<bucket, writing, stored>>
  PROVE  \A k, n : Kept(k, n) <=> Kept(k, n)'
  BY DEF Kept

LEMMA LifespanKeepsSafe ==
  ASSUME LifeInv, Backend!Resumed, ready' = Tail(ready) \/ Backend!Awaits,
         UNCHANGED <<delivered, reports, bucket, writing, stored>>
  PROVE  SafeInv'
  <1>1. \A k, n : Carried(ready, k, n) => Carried(ready', k, n)
    BY LifespanStep
  <1>2. \A k, n : Kept(k, n) => Kept(k, n)'
    BY HistoryStill
  <1> QED BY <1>1, <1>2, SafeStays DEF LifeInv

LEMMA LifespanKeepsQuiet ==
  ASSUME LifeInv, Backend!Resumed, ready' = Tail(ready) \/ Backend!Awaits, stage \in Quiet
  PROVE  \A i \in DOMAIN ready' : ~TellsClients(ready'[i])
  <1>1. \A i \in DOMAIN ready' : ~IsLifespan(ready'[i]) =>
                i + 1 \in DOMAIN ready /\ ready'[i] = ready[i + 1]
    BY LifespanStep
  <1>2. \A i \in DOMAIN ready : ~TellsClients(ready[i])
    BY DEF LifeInv, QuietInv
  <1>3. \A i \in DOMAIN ready' : IsLifespan(ready'[i]) => ~TellsClients(ready'[i])
    BY CallbackFacts DEF IsLifespan, TellsClients
  <1> QED BY <1>1, <1>2, <1>3

LEMMA RankBound ==
  \A t : Rank(t) \in 0 .. 3
  BY DEF Rank

-----------------------------------------------------------------------------
(* Subscriptions.                                                          *)
LEMMA SubscribedFacts ==
  ASSUME Backend!ConstantsAssumption, NEW own \in {"analyse", "draw"},
         NEW shared \in {<< >>, <<Backend!Publisher, Backend!Recorder>>}
  PROVE  LET q == Backend!Subscribed(own, shared)
         IN  /\ q \in Seq(HandlersOf) /\ Distinct(q)
             /\ \A c \in Cams : Within(<<own, c>>, q)
             /\ shared # << >> => Within(Backend!Recorder, q)
             /\ \A x : Within(x, q) => \/ \E c \in Cams : x = <<own, c>>
                                       \/ x \in {Backend!Publisher, Backend!Recorder}
  <1> DEFINE f == [i \in DOMAIN Fleet |-> <<own, Fleet[i]>>]
             q == f \o shared
             n == Len(Fleet)
  <1>1. /\ n \in Nat /\ DOMAIN Fleet = 1 .. n /\ \A i \in 1 .. n : Fleet[i] \in Cams
        /\ \A c \in Cams : \E i \in 1 .. n : c = Fleet[i]
        /\ \A i, j \in 1 .. n : Fleet[i] = Fleet[j] => i = j
    BY CamsFacts
  <1>2. \A i \in 1 .. n : <<own, Fleet[i]>> \in HandlersOf
    BY <1>1, HandlerFacts
  <1>3. f \in Seq(HandlersOf) /\ Len(f) = n /\ \A i \in 1 .. n : f[i] = <<own, Fleet[i]>>
    BY <1>1, <1>2
  <1>4. shared \in Seq(HandlersOf)
    <2>1. ASSUME NEW x \in HandlersOf, NEW y \in HandlersOf PROVE <<x, y>> \in Seq(HandlersOf)
      <3> HIDE DEF HandlersOf
      <3> QED OBVIOUS
    <2>2. << >> \in Seq(HandlersOf)
      BY EmptySeq
    <2>3. <<Backend!Publisher, Backend!Recorder>> \in Seq(HandlersOf)
      BY <2>1, HandlerFacts, Zenon
    <2> QED BY <2>2, <2>3, Zenon
  <1> DEFINE more == Len(shared)
  <1>5. /\ more \in {0, 2} /\ (shared = << >> <=> more = 0)
        /\ more = 2 => shared[1] = Backend!Publisher /\ shared[2] = Backend!Recorder
    OBVIOUS
  <1> HIDE DEF f, n
  <1>6. /\ q \in Seq(HandlersOf) /\ Len(q) = n + more
        /\ \A i \in 1 .. n + more : q[i] = IF i <= n THEN f[i] ELSE shared[i - n]
    BY <1>3, <1>4, ConcatProperties
  <1> HIDE DEF q, more
  <1>7. DOMAIN q = 1 .. n + more
    BY <1>6, LenProperties
  <1>8. ASSUME NEW i \in DOMAIN q
        PROVE  \/ i \in 1 .. n /\ q[i] = <<own, Fleet[i]>>
               \/ i = n + 1 /\ q[i] = Backend!Publisher
               \/ i = n + 2 /\ q[i] = Backend!Recorder
    <2>1. CASE i <= n
      BY <1>1, <1>3, <1>6, <1>7, <2>1
    <2>2. CASE i > n
      <3>1. more = 2 /\ i \in {n + 1, n + 2}
        BY <1>1, <1>5, <1>7, <2>2
      <3>2. q[i] = shared[i - n]
        BY <1>1, <1>6, <1>7, <2>2
      <3>3. CASE i = n + 1
        <4>1. i - n = 1
          BY <3>3, <1>1
        <4> QED BY <3>1, <3>2, <3>3, <4>1, <1>5
      <3>4. CASE i = n + 2
        <4>1. i - n = 2
          BY <3>4, <1>1
        <4> QED BY <3>1, <3>2, <3>4, <4>1, <1>5
      <3> QED BY <3>1, <3>3, <3>4
    <2> QED BY <2>1, <2>2, <1>1, <1>7
  <1>9. Distinct(q)
    <2> SUFFICES ASSUME NEW i \in DOMAIN q, NEW j \in DOMAIN q, q[i] = q[j] PROVE i = j
      BY DEF Distinct
    <2>1. \A x : <<own, x>> # Backend!Publisher /\ <<own, x>> # Backend!Recorder
      BY HandlerFacts
    <2>2. \A x, y : <<own, x>> = <<own, y>> => x = y
      BY HandlerFacts
    <2> QED BY <1>1, <1>8, <2>1, <2>2, HandlerFacts
  <1>10. \A c \in Cams : Within(<<own, c>>, q)
    <2> TAKE c \in Cams
    <2>1. PICK i \in 1 .. n : c = Fleet[i]
      BY <1>1
    <2>2. i \in 1 .. n + more /\ i <= n
      BY <1>1, <1>5
    <2>3. i \in DOMAIN q /\ q[i] = f[i]
      BY <2>2, <1>6, <1>7, Zenon
    <2>4. q[i] = <<own, c>>
      BY <2>1, <2>3, <1>3
    <2> QED BY <2>3, <2>4 DEF Within
  <1>11. shared # << >> => Within(Backend!Recorder, q)
    <2> HAVE shared # << >>
    <2>1. n + 2 \in DOMAIN q /\ n + 2 > n /\ (n + 2) - n = 2
      BY <1>1, <1>5, <1>7
    <2>2. n + 2 \in 1 .. n + more /\ ~(n + 2 <= n) /\ more = 2
      BY <1>1, <1>5
    <2>3. q[n + 2] = shared[(n + 2) - n]
      BY <2>2, <1>6, Zenon
    <2>4. q[n + 2] = Backend!Recorder
      BY <2>1, <2>2, <2>3, <1>5
    <2> QED BY <2>1, <2>4 DEF Within
  <1>12. \A x : Within(x, q) => \/ \E c \in Cams : x = <<own, c>>
                               \/ x \in {Backend!Publisher, Backend!Recorder}
    BY <1>1, <1>8 DEF Within
  <1>13. Backend!Subscribed(own, shared) = q
    BY DEF Backend!Subscribed, q, f
  <1> QED BY <1>6, <1>9, <1>10, <1>11, <1>12, <1>13

LEMMA UnsubscribedFacts ==
  ASSUME NEW S, NEW list \in Seq(S), Distinct(list), NEW h
  PROVE  LET q == Backend!Unsubscribed(list, h)
         IN  /\ q \in Seq(S) /\ Distinct(q)
             /\ \A x : Within(x, q) <=> Within(x, list) /\ x # h
  <1> DEFINE here == {i \in DOMAIN list : list[i] = h}
  <1>0. Len(list) \in Nat /\ DOMAIN list = 1 .. Len(list)
    BY LenProperties
  <1>1. CASE here = {}
    <2>1. Backend!Unsubscribed(list, h) = list
      BY <1>1 DEF Backend!Unsubscribed
    <2> QED BY <1>1, <2>1 DEF Within
  <1>2. CASE here # {}
    <2> DEFINE k == CHOOSE i \in here : \A j \in here : i <= j
    <2>1. PICK m \in here : TRUE
      BY <1>2
    <2>2. \A j \in here : j = m
      BY <2>1 DEF Distinct
    <2>3. k = m
      BY <2>1, <2>2, <1>0
    <2>4. Backend!Unsubscribed(list, h) = SubSeq(list, 1, m - 1) \o SubSeq(list, m + 1, Len(list))
      BY <1>2, <2>3 DEF Backend!Unsubscribed, Backend!RemoveAt
    <2> HIDE DEF k
    <2>5. m \in 1 .. Len(list) /\ list[m] = h
      BY <2>1, <1>0
    <2> DEFINE a == SubSeq(list, 1, m - 1)
               b == SubSeq(list, m + 1, Len(list))
               q == a \o b
    <2>6. a \in Seq(S) /\ Len(a) = m - 1 /\ \A i \in 1 .. m - 1 : a[i] = list[i]
      <3>1. 1 \in Int /\ m - 1 \in Int /\ \A i \in 1 .. m - 1 : list[i] \in S
        BY <2>5, <1>0, ElementOfSeq
      <3>2. /\ a \in Seq(S) /\ Len(a) = (IF 1 <= m - 1 THEN (m - 1) - 1 + 1 ELSE 0)
            /\ \A i \in 1 .. (m - 1) - 1 + 1 : a[i] = list[1 + i - 1]
        BY <3>1, SubSeqProperties
      <3> HIDE DEF a
      <3> QED BY <3>2, <2>5, <1>0
    <2>7. /\ b \in Seq(S) /\ Len(b) = Len(list) - m
          /\ \A i \in 1 .. Len(list) - m : b[i] = list[m + i]
      <3>1. m + 1 \in Int /\ Len(list) \in Int /\ \A i \in m + 1 .. Len(list) : list[i] \in S
        BY <2>5, <1>0, ElementOfSeq
      <3>2. /\ b \in Seq(S) /\ Len(b) = (IF m + 1 <= Len(list) THEN Len(list) - (m + 1) + 1 ELSE 0)
            /\ \A i \in 1 .. Len(list) - (m + 1) + 1 : b[i] = list[(m + 1) + i - 1]
        BY <3>1, SubSeqProperties
      <3> HIDE DEF b
      <3>3. Len(list) - (m + 1) + 1 = Len(list) - m /\ Len(b) = Len(list) - m
        BY <3>2, <2>5, <1>0
      <3>4. \A i \in 1 .. Len(list) - m : (m + 1) + i - 1 = m + i
        BY <2>5, <1>0
      <3> QED BY <3>2, <3>3, <3>4
    <2> HIDE DEF a, b
    <2>8. /\ q \in Seq(S) /\ Len(q) = Len(list) - 1
          /\ \A i \in 1 .. Len(list) - 1 : q[i] = IF i <= m - 1 THEN a[i] ELSE b[i - (m - 1)]
      <3>1. Len(a) + Len(b) = Len(list) - 1
        BY <2>5, <2>6, <2>7, <1>0
      <3>2. /\ q \in Seq(S) /\ Len(q) = Len(a) + Len(b)
            /\ \A i \in 1 .. Len(a) + Len(b) : q[i] = IF i <= Len(a) THEN a[i] ELSE b[i - Len(a)]
        BY <2>6, <2>7, ConcatProperties
      <3> HIDE DEF q
      <3> QED BY <2>6, <3>1, <3>2, Zenon
    <2> HIDE DEF q
    <2>9. DOMAIN q = 1 .. Len(list) - 1
      BY <2>8, LenProperties
    <2>10. ASSUME NEW i \in DOMAIN q
           PROVE  \/ i < m /\ i \in DOMAIN list /\ q[i] = list[i]
                  \/ i >= m /\ i + 1 \in DOMAIN list /\ q[i] = list[i + 1]
      <3>1. CASE i < m
        BY <3>1, <2>5, <2>6, <2>8, <2>9, <1>0
      <3>2. CASE i >= m
        <4> DEFINE j == i - (m - 1)
        <4>1. j \in 1 .. Len(list) - m /\ m + j = i + 1 /\ i + 1 \in DOMAIN list
          BY <3>2, <2>5, <2>9, <1>0
        <4>2. q[i] = b[j]
          <5>1. ~(i <= m - 1) /\ i \in 1 .. Len(list) - 1
            BY <3>2, <2>5, <2>9, <1>0
          <5> QED BY <5>1, <2>8, Zenon
        <4> HIDE DEF j
        <4>3. b[j] = list[i + 1]
          BY <4>1, <2>7
        <4> QED BY <3>2, <4>1, <4>2, <4>3
      <3> QED BY <3>1, <3>2, <2>5, <2>9, <1>0
    <2>11. Distinct(q)
      <3> SUFFICES ASSUME NEW i \in DOMAIN q, NEW j \in DOMAIN q, q[i] = q[j] PROVE i = j
        BY DEF Distinct
      <3>1. i \in Int /\ j \in Int
        BY <2>9
      <3> QED BY <2>5, <2>10, <3>1 DEF Distinct
    <2>12. \A x : Within(x, q) => Within(x, list) /\ x # h
      <3> SUFFICES ASSUME NEW i \in DOMAIN q PROVE Within(q[i], list) /\ q[i] # h
        BY DEF Within
      <3>1. i \in Int /\ m \in DOMAIN list
        BY <2>5, <2>9, <1>0
      <3>2. \A j \in DOMAIN list : list[j] = h => j = m
        BY <3>1, <2>5 DEF Distinct
      <3> QED BY <2>5, <2>10, <3>1, <3>2 DEF Within
    <2>13. \A x : Within(x, list) /\ x # h => Within(x, q)
      <3> SUFFICES ASSUME NEW i \in DOMAIN list, list[i] # h PROVE Within(list[i], q)
        BY DEF Within
      <3>1. i \in 1 .. Len(list) /\ i # m
        BY <2>5, <1>0
      <3>2. CASE i < m
        <4>1. i \in DOMAIN q /\ q[i] = list[i]
          BY <3>1, <3>2, <2>5, <2>9, <2>10, <1>0
        <4> QED BY <4>1 DEF Within
      <3>3. CASE i > m
        <4> DEFINE j == i - 1
        <4>1. j \in DOMAIN q /\ j + 1 = i /\ j >= m
          BY <3>1, <3>3, <2>5, <2>9, <1>0
        <4>2. j \in Int
          BY <3>1
        <4> HIDE DEF j
        <4>3. q[j] = list[i]
          BY <4>1, <4>2, <2>5, <2>10
        <4> QED BY <4>1, <4>3 DEF Within
      <3> QED BY <3>1, <3>2, <3>3, <2>5
    <2>14. Backend!Unsubscribed(list, h) = q
      BY <2>4 DEF q, a, b
    <2> QED BY <2>8, <2>11, <2>12, <2>13, <2>14
  <1> QED BY <1>1, <1>2

-----------------------------------------------------------------------------
(* The lifespan's own steps, one by one.                                   *)
LEMMA ConnectKeeps ==
  ASSUME Backend!ConstantsAssumption, LifeInv, Backend!Connect
  PROVE  LifeInv'
  <1>1. /\ Backend!Resumed /\ stage = "connect" /\ stage' = "wire" /\ Backend!Awaits
        /\ database' = "open"
        /\ UNCHANGED <<turns, handlers, pipeline, delivered, latest, overlay, site,
                       reports, bucket, writing, stored, lateSend>>
    BY DEF Backend!Connect, Backend!cameraVars, Backend!historyVars, Backend!loopVars, Cams, Keys
  <1>2. /\ ready' \in Seq(Callbacks) /\ Once(ready') /\ AtEnd(ready') /\ Present(ready)
        /\ Backend!Awaits => Present(ready')
        /\ ready' = Tail(ready) => ~Present(ready')
        /\ \A i \in DOMAIN ready' : ~IsLifespan(ready'[i]) =>
               i + 1 \in DOMAIN ready /\ ready'[i] = ready[i + 1]
    BY <1>1, LifespanStep
  <1>LTypes. LTypes'
    BY <1>1, <1>2 DEF LTypes, LifeInv, Stages, Starting, Serving, Quiet, Over
  <1>CamerasInv. CamerasInv'
    BY <1>1 DEF CamerasInv, LifeInv, Starting, Serving, Quiet, Over
  <1>LoopInv. LoopInv'
    BY <1>1, <1>2 DEF LoopInv, Elsewhere, CamerasInv, HistoryInv, LifeInv, Starting, Serving,
       Quiet, Over, Drained
  <1>SubscribedInv. SubscribedInv'
    BY <1>1 DEF SubscribedInv, Has, Within, LifeInv, Wired, Stages, Starting, Serving, Quiet, Over
  <1>CalledInv. CalledInv'
    BY <1>1, LifespanKeepsCalled
  <1>FlightInv. FlightInv'
    BY <1>1 DEF FlightInv, CamerasInv, LifeInv, Starting, Serving, Quiet, Over
  <1>GoneInv. GoneInv'
    BY <1>1, <1>2 DEF GoneInv, IsOf, LifeInv
  <1>QuietInv. QuietInv'
    BY <1>1 DEF QuietInv, LifeInv, Serving, Quiet, Over
  <1>SafeInv. SafeInv'
    BY <1>1, LifespanKeepsSafe
  <1>HistoryInv. HistoryInv'
    BY <1>1 DEF HistoryInv, LifeInv, Starting, Serving, Quiet, Over
  <1>BoundsInv. BoundsInv'
    BY <1>1 DEF BoundsInv, LifeInv
  <1> QED
    BY <1>LTypes, <1>CamerasInv, <1>LoopInv, <1>SubscribedInv, <1>CalledInv, <1>FlightInv,
       <1>GoneInv, <1>QuietInv, <1>SafeInv, <1>HistoryInv, <1>BoundsInv DEF LifeInv

LEMMA MigrationFailsKeeps ==
  ASSUME Backend!ConstantsAssumption, LifeInv, Backend!MigrationFails
  PROVE  LifeInv'
  <1>1. /\ Backend!Resumed /\ stage = "connect" /\ stage' = "failed" /\ ready' = Tail(ready)
        /\ UNCHANGED <<turns, handlers, pipeline, delivered, latest, overlay, site,
                       reports, database, bucket, writing, stored, lateSend>>
    BY DEF Backend!MigrationFails, Backend!cameraVars, Backend!historyVars, Backend!loopVars,
       Cams, Keys
  <1>2. /\ ready' \in Seq(Callbacks) /\ Once(ready') /\ AtEnd(ready') /\ Present(ready)
        /\ Backend!Awaits => Present(ready')
        /\ ready' = Tail(ready) => ~Present(ready')
        /\ \A i \in DOMAIN ready' : ~IsLifespan(ready'[i]) =>
               i + 1 \in DOMAIN ready /\ ready'[i] = ready[i + 1]
    BY <1>1, LifespanStep
  <1>LTypes. LTypes'
    BY <1>1, <1>2 DEF LTypes, LifeInv, Stages, Starting, Serving, Quiet, Over
  <1>CamerasInv. CamerasInv'
    BY <1>1 DEF CamerasInv, LifeInv, Starting, Serving, Quiet, Over
  <1>LoopInv. LoopInv'
    BY <1>1, <1>2 DEF LoopInv, Elsewhere, CamerasInv, HistoryInv, LifeInv, Starting, Serving,
       Quiet, Over, Drained
  <1>SubscribedInv. SubscribedInv'
    BY <1>1 DEF SubscribedInv, Has, Within, LifeInv, Wired, Stages, Starting, Serving, Quiet, Over
  <1>CalledInv. CalledInv'
    BY <1>1, LifespanKeepsCalled
  <1>FlightInv. FlightInv'
    BY <1>1 DEF FlightInv, CamerasInv, LifeInv, Starting, Serving, Quiet, Over
  <1>GoneInv. GoneInv'
    BY <1>1, <1>2 DEF GoneInv, IsOf, LifeInv
  <1>QuietInv. QuietInv'
    BY <1>1 DEF QuietInv, LifeInv, Serving, Quiet, Over
  <1>SafeInv. SafeInv'
    BY <1>1, LifespanKeepsSafe
  <1>HistoryInv. HistoryInv'
    BY <1>1 DEF HistoryInv, LifeInv, Starting, Serving, Quiet, Over
  <1>BoundsInv. BoundsInv'
    BY <1>1 DEF BoundsInv, LifeInv
  <1> QED
    BY <1>LTypes, <1>CamerasInv, <1>LoopInv, <1>SubscribedInv, <1>CalledInv, <1>FlightInv,
       <1>GoneInv, <1>QuietInv, <1>SafeInv, <1>HistoryInv, <1>BoundsInv DEF LifeInv

LEMMA WireKeeps ==
  ASSUME Backend!ConstantsAssumption, LifeInv, Backend!Wire
  PROVE  LifeInv'
  <1>1. /\ Backend!Resumed /\ stage = "wire" /\ stage' = "cameras" /\ Backend!Awaits
        /\ UNCHANGED <<turns, pipeline, delivered, latest, overlay, site, reports,
                       database, bucket, writing, stored, lateSend>>
    BY DEF Backend!Wire, Backend!cameraVars, Backend!historyVars, Backend!loopVars, Cams, Keys
  <1>2. /\ ready' \in Seq(Callbacks) /\ Once(ready') /\ AtEnd(ready') /\ Present(ready)
        /\ Backend!Awaits => Present(ready')
        /\ ready' = Tail(ready) => ~Present(ready')
        /\ \A i \in DOMAIN ready' : ~IsLifespan(ready'[i]) =>
               i + 1 \in DOMAIN ready /\ ready'[i] = ready[i + 1]
    BY <1>1, LifespanStep
  <1>3. /\ handlers' = [e \in Backend!Events |->
                        IF e = "perception" THEN Backend!Subscribed("analyse", << >>)
                        ELSE IF e = "analysis"
                             THEN Backend!Subscribed("draw", <<Backend!Publisher, Backend!Recorder>>)
                        ELSE <<Backend!Publisher, Backend!Recorder>>]
    BY DEF Backend!Wire
  <1> DEFINE a == Backend!Subscribed("analyse", << >>)
             d == Backend!Subscribed("draw", <<Backend!Publisher, Backend!Recorder>>)
             b == <<Backend!Publisher, Backend!Recorder>>
  <1>4. handlers'["perception"] = a /\ handlers'["analysis"] = d /\ handlers'["site"] = b
    BY <1>3 DEF Backend!Events
  <1>5. /\ a \in Seq(HandlersOf) /\ Distinct(a)
        /\ \A c \in Cams : Within(<<"analyse", c>>, a)
        /\ \A x : Within(x, a) => \/ \E c \in Cams : x = <<"analyse", c>>
                                  \/ x \in {Backend!Publisher, Backend!Recorder}
    BY SubscribedFacts
  <1>6. /\ d \in Seq(HandlersOf) /\ Distinct(d) /\ Within(Backend!Recorder, d)
        /\ \A x : Within(x, d) => \/ \E c \in Cams : x = <<"draw", c>>
                                  \/ x \in {Backend!Publisher, Backend!Recorder}
    BY SubscribedFacts
  <1>7. /\ b \in Seq(HandlersOf) /\ Distinct(b) /\ Within(Backend!Recorder, b)
        /\ \A x : Within(x, b) => x \in {Backend!Publisher, Backend!Recorder}
    <2>1. DOMAIN b = {1, 2} /\ b[1] = Backend!Publisher /\ b[2] = Backend!Recorder
      OBVIOUS
    <2>2. ASSUME NEW x \in HandlersOf, NEW y \in HandlersOf PROVE <<x, y>> \in Seq(HandlersOf)
      <3> HIDE DEF HandlersOf
      <3> QED OBVIOUS
    <2> HIDE DEF b
    <2>3. Distinct(b) /\ Within(Backend!Recorder, b)
          /\ \A x : Within(x, b) => x \in {Backend!Publisher, Backend!Recorder}
      BY <2>1, HandlerFacts DEF Distinct, Within
    <2>4. b \in Seq(HandlersOf)
      BY <2>2, HandlerFacts, Zenon DEF b
    <2> QED BY <2>3, <2>4
  <1> HIDE DEF a, b, d
  <1>8. handlers' \in [Backend!Events -> Seq(HandlersOf)] /\ \A e \in Backend!Events : Distinct(handlers'[e])
    <2>1. DOMAIN handlers' = Backend!Events /\ handlers' = [e \in Backend!Events |-> handlers'[e]]
      BY <1>3, Zenon
    <2>2. \A e \in Backend!Events : handlers'[e] \in Seq(HandlersOf) /\ Distinct(handlers'[e])
      BY <1>4, <1>5, <1>6, <1>7 DEF Backend!Events
    <2> QED BY <2>1, <2>2, Zenon
  <1>LTypes. LTypes'
    BY <1>1, <1>2, <1>8 DEF LTypes, LifeInv, Stages, Starting, Serving, Quiet, Over
  <1>CamerasInv. CamerasInv'
    BY <1>1 DEF CamerasInv, LifeInv, Starting, Serving, Quiet, Over
  <1>LoopInv. LoopInv'
    BY <1>1, <1>2 DEF LoopInv, Elsewhere, CamerasInv, HistoryInv, LifeInv, Starting, Serving,
       Quiet, Over, Drained
  <1>SubscribedInv. SubscribedInv'
    <2>1. \A c \in Cams : pipeline'[c] = "off"
      BY <1>1 DEF CamerasInv, LifeInv, Starting
    <2>2. \A c \in Cams : /\ ~Within(<<"analyse", c>>, d) /\ ~Within(<<"analyse", c>>, b)
                          /\ ~Within(<<"draw", c>>, a) /\ ~Within(<<"draw", c>>, b)
      BY <1>5, <1>6, <1>7, HandlerFacts
    <2> QED BY <1>1, <1>4, <1>5, <1>6, <1>7, <1>8, <2>1, <2>2
            DEF SubscribedInv, Has, Wired, Stages, Starting, Serving, Quiet, Over
  <1>CalledInv. CalledInv'
    BY <1>1, LifespanKeepsCalled
  <1>FlightInv. FlightInv'
    BY <1>1 DEF FlightInv, CamerasInv, LifeInv, Starting, Serving, Quiet, Over
  <1>GoneInv. GoneInv'
    BY <1>1, <1>2 DEF GoneInv, IsOf, LifeInv
  <1>QuietInv. QuietInv'
    BY <1>1 DEF QuietInv, LifeInv, Serving, Quiet, Over
  <1>SafeInv. SafeInv'
    BY <1>1, LifespanKeepsSafe
  <1>HistoryInv. HistoryInv'
    BY <1>1 DEF HistoryInv, LifeInv, Starting, Serving, Quiet, Over
  <1>BoundsInv. BoundsInv'
    BY <1>1 DEF BoundsInv, LifeInv
  <1> QED
    BY <1>LTypes, <1>CamerasInv, <1>LoopInv, <1>SubscribedInv, <1>CalledInv, <1>FlightInv,
       <1>GoneInv, <1>QuietInv, <1>SafeInv, <1>HistoryInv, <1>BoundsInv DEF LifeInv

LEMMA StartCamerasKeeps ==
  ASSUME Backend!ConstantsAssumption, LifeInv, Backend!StartCameras
  PROVE  LifeInv'
  <1>1. /\ Backend!Resumed /\ stage = "cameras" /\ stage' = "serving" /\ ready' = Tail(ready)
        /\ site' = "running" /\ pipeline' = [c \in Cams |-> "running"]
        /\ UNCHANGED <<turns, handlers, delivered, latest, overlay, reports,
                       database, bucket, writing, stored, lateSend>>
    BY DEF Backend!StartCameras, Backend!cameraVars, Backend!historyVars, Backend!loopVars, Cams,
       Keys
  <1>2. /\ ready' \in Seq(Callbacks) /\ Once(ready') /\ AtEnd(ready') /\ Present(ready)
        /\ Backend!Awaits => Present(ready')
        /\ ready' = Tail(ready) => ~Present(ready')
        /\ \A i \in DOMAIN ready' : ~IsLifespan(ready'[i]) =>
               i + 1 \in DOMAIN ready /\ ready'[i] = ready[i + 1]
    BY <1>1, LifespanStep
  <1>3. \A c \in Cams : pipeline[c] = "off" /\ pipeline'[c] = "running"
    BY <1>1 DEF LifeInv, CamerasInv, Starting
  <1>4. handlers' = handlers
    BY <1>1
  <1>LTypes. LTypes'
    BY <1>1, <1>2 DEF LTypes, LifeInv, Stages, Starting, Serving, Quiet, Over
  <1>CamerasInv. CamerasInv'
    BY <1>1 DEF CamerasInv, LifeInv, Starting, Serving, Quiet, Over
  <1>LoopInv. LoopInv'
    BY <1>1, <1>2 DEF LoopInv, Elsewhere, CamerasInv, HistoryInv, LifeInv, Starting, Serving,
       Quiet, Over, Drained
  <1>SubscribedInv. SubscribedInv'
    BY <1>1, <1>3, <1>4 DEF SubscribedInv, Has, LifeInv, Wired, Stages, Starting, Serving, Quiet,
       Over
  <1>CalledInv. CalledInv'
    BY <1>1, LifespanKeepsCalled
  <1>FlightInv. FlightInv'
    BY <1>1 DEF FlightInv, CamerasInv, LifeInv, Starting, Serving, Quiet, Over
  <1>GoneInv. GoneInv'
    BY <1>1 DEF GoneInv
  <1>QuietInv. QuietInv'
    BY <1>1 DEF QuietInv, LifeInv, Serving, Quiet, Over
  <1>SafeInv. SafeInv'
    BY <1>1, LifespanKeepsSafe
  <1>HistoryInv. HistoryInv'
    BY <1>1 DEF HistoryInv, LifeInv, Starting, Serving, Quiet, Over
  <1>BoundsInv. BoundsInv'
    BY <1>1 DEF BoundsInv, LifeInv
  <1> QED
    BY <1>LTypes, <1>CamerasInv, <1>LoopInv, <1>SubscribedInv, <1>CalledInv, <1>FlightInv,
       <1>GoneInv, <1>QuietInv, <1>SafeInv, <1>HistoryInv, <1>BoundsInv DEF LifeInv

LEMMA WithoutFacts ==
  ASSUME NEW h, handlers \in [Backend!Events -> Seq(HandlersOf)],
         \A e \in Backend!Events : Distinct(handlers[e])
  PROVE  LET w == Backend!Without(h)
         IN  /\ w \in [Backend!Events -> Seq(HandlersOf)]
             /\ \A e \in Backend!Events :
                    /\ Distinct(w[e])
                    /\ \A x : Within(x, w[e]) <=> Within(x, handlers[e]) /\ x # h
  <1> DEFINE w == Backend!Without(h)
  <1>1. w = [e \in Backend!Events |-> Backend!Unsubscribed(handlers[e], h)]
    BY DEF Backend!Without
  <1>2. ASSUME NEW e \in Backend!Events
        PROVE  /\ w[e] \in Seq(HandlersOf) /\ Distinct(w[e])
               /\ \A x : Within(x, w[e]) <=> Within(x, handlers[e]) /\ x # h
    <2>1. w[e] = Backend!Unsubscribed(handlers[e], h)
      BY <1>1
    <2>2. handlers[e] \in Seq(HandlersOf) /\ Distinct(handlers[e])
      OBVIOUS
    <2> QED BY <2>1, <2>2, UnsubscribedFacts
  <1> HIDE DEF w
  <1>3. w \in [Backend!Events -> Seq(HandlersOf)]
    BY <1>1, <1>2
  <1> QED BY <1>2, <1>3 DEF w

LEMMA StopPublisherKeeps ==
  ASSUME Backend!ConstantsAssumption, LifeInv, Backend!StopPublisher
  PROVE  LifeInv'
  <1>1. /\ Backend!Resumed /\ stage = "publisher" /\ stage' = "site" /\ Backend!Awaits
        /\ UNCHANGED <<turns, pipeline, delivered, latest, overlay, site, reports,
                       database, bucket, writing, stored, lateSend>>
    BY DEF Backend!StopPublisher, Backend!cameraVars, Backend!historyVars, Backend!loopVars,
       Cams, Keys
  <1>2. /\ ready' \in Seq(Callbacks) /\ Once(ready') /\ AtEnd(ready') /\ Present(ready)
        /\ Backend!Awaits => Present(ready')
        /\ ready' = Tail(ready) => ~Present(ready')
        /\ \A i \in DOMAIN ready' : ~IsLifespan(ready'[i]) =>
               i + 1 \in DOMAIN ready /\ ready'[i] = ready[i + 1]
    BY <1>1, LifespanStep
  <1>3. /\ handlers' \in [Backend!Events -> Seq(HandlersOf)]
        /\ \A e \in Backend!Events : /\ Distinct(handlers'[e])
               /\ \A h : Within(h, handlers'[e]) <=> Within(h, handlers[e]) /\ h # Backend!Publisher
    BY WithoutFacts DEF Backend!StopPublisher, LifeInv, LTypes, SubscribedInv
  <1>LTypes. LTypes'
    BY <1>1, <1>2, <1>3 DEF LTypes, LifeInv, Stages, Starting, Serving, Quiet, Over
  <1>CamerasInv. CamerasInv'
    BY <1>1 DEF CamerasInv, LifeInv, Starting, Serving, Quiet, Over
  <1>LoopInv. LoopInv'
    BY <1>1, <1>2 DEF LoopInv, Elsewhere, CamerasInv, HistoryInv, LifeInv, Starting, Serving,
       Quiet, Over, Drained
  <1>SubscribedInv. SubscribedInv'
    <2>1. \A e \in Backend!Events : \A h : Has(e, h)' <=> Has(e, h) /\ h # Backend!Publisher
      BY <1>3 DEF Has
    <2>2. {"perception", "analysis", "site"} = Backend!Events
      BY DEF Backend!Events
    <2> QED BY <1>1, <1>3, <2>1, <2>2, HandlerFacts
            DEF SubscribedInv, LifeInv, Wired, Stages, Starting, Serving, Quiet, Over
  <1>CalledInv. CalledInv'
    BY <1>1, LifespanKeepsCalled
  <1>FlightInv. FlightInv'
    BY <1>1 DEF FlightInv, CamerasInv, LifeInv, Starting, Serving, Quiet, Over
  <1>GoneInv. GoneInv'
    BY <1>1, <1>2 DEF GoneInv, IsOf, LifeInv
  <1>QuietInv. QuietInv'
    <2>1. \A i, j \in DOMAIN ready' : IsLifespan(ready'[j]) => i <= j
      BY <1>2 DEF AtEnd
    <2>2. DOMAIN ready' = 1 .. Len(ready')
      BY <1>2, LenProperties
    <2>3. \A i, j \in DOMAIN ready' : ~(IsLifespan(ready'[j]) /\ j < i)
      BY <2>1, <2>2
    <2> QED BY <1>1, <2>3 DEF QuietInv, Quiet, Over
  <1>SafeInv. SafeInv'
    BY <1>1, LifespanKeepsSafe
  <1>HistoryInv. HistoryInv'
    BY <1>1 DEF HistoryInv, LifeInv, Starting, Serving, Quiet, Over
  <1>BoundsInv. BoundsInv'
    BY <1>1 DEF BoundsInv, LifeInv
  <1> QED
    BY <1>LTypes, <1>CamerasInv, <1>LoopInv, <1>SubscribedInv, <1>CalledInv, <1>FlightInv,
       <1>GoneInv, <1>QuietInv, <1>SafeInv, <1>HistoryInv, <1>BoundsInv DEF LifeInv

LEMMA StopSiteKeeps ==
  ASSUME Backend!ConstantsAssumption, LifeInv, Backend!StopSite
  PROVE  LifeInv'
  <1>1. /\ Backend!Resumed /\ stage = "site" /\ stage' = "manager" /\ Backend!Awaits
        /\ site' = "off"
        /\ UNCHANGED <<turns, handlers, pipeline, delivered, latest, overlay,
                       reports, database, bucket, writing, stored, lateSend>>
    BY DEF Backend!StopSite, Backend!cameraVars, Backend!historyVars, Backend!loopVars, Cams, Keys
  <1>2. /\ ready' \in Seq(Callbacks) /\ Once(ready') /\ AtEnd(ready') /\ Present(ready)
        /\ Backend!Awaits => Present(ready')
        /\ ready' = Tail(ready) => ~Present(ready')
        /\ \A i \in DOMAIN ready' : ~IsLifespan(ready'[i]) =>
               i + 1 \in DOMAIN ready /\ ready'[i] = ready[i + 1]
    BY <1>1, LifespanStep
  <1>LTypes. LTypes'
    BY <1>1, <1>2 DEF LTypes, LifeInv, Stages, Starting, Serving, Quiet, Over
  <1>CamerasInv. CamerasInv'
    BY <1>1 DEF CamerasInv, LifeInv, Starting, Serving, Quiet, Over
  <1>LoopInv. LoopInv'
    BY <1>1, <1>2 DEF LoopInv, Elsewhere, CamerasInv, HistoryInv, LifeInv, Starting, Serving,
       Quiet, Over, Drained
  <1>SubscribedInv. SubscribedInv'
    BY <1>1 DEF SubscribedInv, Has, Within, LifeInv, Wired, Stages, Starting, Serving, Quiet, Over
  <1>CalledInv. CalledInv'
    BY <1>1, LifespanKeepsCalled
  <1>FlightInv. FlightInv'
    BY <1>1 DEF FlightInv, CamerasInv, LifeInv, Starting, Serving, Quiet, Over
  <1>GoneInv. GoneInv'
    BY <1>1, <1>2 DEF GoneInv, IsOf, LifeInv
  <1>QuietInv. QuietInv'
    <2>1. 1 \in DOMAIN ready /\ IsLifespan(ready[1])
      BY <1>1, LifespanStep
    <2>2. DOMAIN ready = 1 .. Len(ready)
      BY LenProperties DEF LifeInv, LTypes
    <2>3. \A i \in DOMAIN ready : i > 1 => ~TellsClients(ready[i])
      BY <1>1, <2>1 DEF LifeInv, QuietInv
    <2>4. DOMAIN ready' = 1 .. Len(ready')
      BY <1>2, LenProperties
    <2>5. \A i \in DOMAIN ready' : ~TellsClients(ready'[i])
      <3> TAKE i \in DOMAIN ready'
      <3>1. CASE IsLifespan(ready'[i])
        BY <3>1, CallbackFacts DEF TellsClients, IsLifespan
      <3>2. CASE ~IsLifespan(ready'[i])
        BY <3>2, <1>2, <2>3, <2>4
      <3> QED BY <3>1, <3>2
    <2> QED BY <1>1, <2>5 DEF QuietInv, Quiet
  <1>SafeInv. SafeInv'
    BY <1>1, LifespanKeepsSafe
  <1>HistoryInv. HistoryInv'
    BY <1>1 DEF HistoryInv, LifeInv, Starting, Serving, Quiet, Over
  <1>BoundsInv. BoundsInv'
    BY <1>1 DEF BoundsInv, LifeInv
  <1> QED
    BY <1>LTypes, <1>CamerasInv, <1>LoopInv, <1>SubscribedInv, <1>CalledInv, <1>FlightInv,
       <1>GoneInv, <1>QuietInv, <1>SafeInv, <1>HistoryInv, <1>BoundsInv DEF LifeInv

LEMMA StopFirstCameraKeeps ==
  ASSUME Backend!ConstantsAssumption, LifeInv, Backend!StopFirstCamera
  PROVE  LifeInv'
  <1>1. /\ Backend!Resumed /\ stage = "manager" /\ stage' = "stopping" /\ ready' = Tail(ready)
        /\ turns' = Turns /\ pipeline' = [pipeline EXCEPT ![Fleet[1]] = "ending"]
        /\ UNCHANGED <<handlers, delivered, latest, overlay, site, reports,
                       database, bucket, writing, stored, lateSend>>
    BY DEF Backend!StopFirstCamera, Backend!cameraVars, Backend!historyVars, Backend!loopVars,
       Cams, Keys
  <1>2. /\ ready' \in Seq(Callbacks) /\ Once(ready') /\ AtEnd(ready') /\ Present(ready)
        /\ Backend!Awaits => Present(ready')
        /\ ready' = Tail(ready) => ~Present(ready')
        /\ \A i \in DOMAIN ready' : ~IsLifespan(ready'[i]) =>
               i + 1 \in DOMAIN ready /\ ready'[i] = ready[i + 1]
    BY <1>1, LifespanStep
  <1>3. /\ 1 \in DOMAIN Fleet /\ Fleet[1] \in Cams /\ DOMAIN pipeline = Cams
        /\ pipeline' \in [Cams -> {"off", "running", "ending", "ended", "stopped"}]
    <2>1. 1 \in DOMAIN Fleet /\ Fleet[1] \in Cams
      BY CamsFacts
    <2>2. pipeline \in [Cams -> {"off", "running", "ending", "ended", "stopped"}]
      BY DEF LifeInv, LTypes
    <2> QED BY <1>1, <2>1, <2>2
  <1>4. \A c \in Cams : pipeline[c] = "running" /\ (pipeline'[c] = IF c = Fleet[1] THEN "ending" ELSE "running")
    BY <1>1, <1>3 DEF LifeInv, CamerasInv
  <1>5. Turns \in Nat /\ DOMAIN Fleet = 1 .. Len(Fleet) /\ Len(Fleet) \in Nat
    BY CamsFacts
  <1>LTypes. LTypes'
    <2>1. turns' \in 0 .. Turns
      BY <1>1, <1>5
    <2> QED BY <1>1, <1>2, <1>3, <2>1 DEF LTypes, LifeInv, Stages, Starting, Serving, Quiet, Over
  <1>CamerasInv. CamerasInv'
    <2>1. Stopping(1)'
      <3>1. \A j \in 2 .. Len(Fleet) : j \in DOMAIN Fleet /\ j # 1
        BY <1>5
      <3>2. \A j \in 2 .. Len(Fleet) : Fleet[j] # Fleet[1] /\ Fleet[j] \in Cams
        BY <1>3, <3>1, CamsFacts
      <3>3. 1 .. 1 - 1 = {} /\ 1 + 1 = 2
        OBVIOUS
      <3> QED BY <1>1, <1>3, <1>4, <3>2, <3>3 DEF Stopping
    <2> QED BY <1>1, <1>3, <1>4, <2>1 DEF CamerasInv, LifeInv, Starting, Serving, Quiet, Over
  <1>LoopInv. LoopInv'
    <2>1. Elsewhere'
      BY <1>1, <1>3, <1>4 DEF Elsewhere
    <2> QED BY <1>1, <1>2, <2>1 DEF LoopInv, Starting, Drained
  <1>SubscribedInv. SubscribedInv'
    BY <1>1, <1>4 DEF SubscribedInv, Has, LifeInv, Wired, Stages, Starting, Serving, Quiet, Over
  <1>CalledInv. CalledInv'
    BY <1>1, LifespanKeepsCalled
  <1>FlightInv. FlightInv'
    BY <1>4 DEF FlightInv
  <1>GoneInv. GoneInv'
    BY <1>4 DEF GoneInv
  <1>QuietInv. QuietInv'
    <2>1. \A i \in DOMAIN ready' : ~TellsClients(ready'[i])
      BY <1>1, LifespanKeepsQuiet DEF Quiet
    <2> QED BY <1>1, <2>1 DEF QuietInv
  <1>SafeInv. SafeInv'
    BY <1>1, LifespanKeepsSafe
  <1>HistoryInv. HistoryInv'
    BY <1>1 DEF HistoryInv, LifeInv, Starting, Serving, Quiet, Over
  <1>BoundsInv. BoundsInv'
    BY <1>1 DEF BoundsInv, LifeInv
  <1> QED
    BY <1>LTypes, <1>CamerasInv, <1>LoopInv, <1>SubscribedInv, <1>CalledInv, <1>FlightInv,
       <1>GoneInv, <1>QuietInv, <1>SafeInv, <1>HistoryInv, <1>BoundsInv DEF LifeInv

LEMMA UnwindKeeps ==
  ASSUME Backend!ConstantsAssumption, LifeInv, Backend!Unwind
  PROVE  LifeInv'
  <1>1. /\ Backend!Resumed /\ stage = "stopping" /\ stage' = "stopping" /\ Backend!Awaits
        /\ turns > 0 /\ turns' = turns - 1
        /\ UNCHANGED <<handlers, pipeline, delivered, latest, overlay, site,
                       reports, database, bucket, writing, stored, lateSend>>
    BY DEF Backend!Unwind, Backend!cameraVars, Backend!historyVars, Backend!loopVars, Cams, Keys
  <1>2. /\ ready' \in Seq(Callbacks) /\ Once(ready') /\ AtEnd(ready') /\ Present(ready)
        /\ Backend!Awaits => Present(ready')
        /\ ready' = Tail(ready) => ~Present(ready')
        /\ \A i \in DOMAIN ready' : ~IsLifespan(ready'[i]) =>
               i + 1 \in DOMAIN ready /\ ready'[i] = ready[i + 1]
    BY <1>1, LifespanStep
  <1>3. turns \in Nat /\ turns <= Turns /\ Turns \in Nat /\ turns' = turns - 1 /\ turns > 0
    BY <1>1, CamsFacts DEF LifeInv, LTypes
  <1>4. 1 \in DOMAIN ready /\ IsLifespan(ready[1])
    BY <1>1, LifespanStep
  <1>5. \A c \in Cams : pipeline[c] # "ending"
    BY <1>1, <1>2, <1>4 DEF LifeInv, LoopInv, Elsewhere
  <1>6. /\ DOMAIN ready = 1 .. Len(ready) /\ DOMAIN ready' = 1 .. Len(ready')
        /\ Len(ready) \in Nat /\ Len(ready') \in Nat
    BY <1>2, LenProperties DEF LifeInv, LTypes
  <1>LTypes. LTypes'
    <2>1. turns' \in 0 .. Turns
      BY <1>3
    <2> QED BY <1>1, <1>2, <2>1 DEF LTypes, LifeInv, Stages, Starting, Serving, Quiet, Over
  <1>CamerasInv. CamerasInv'
    <2>1. \A i : Stopping(i) <=> Stopping(i)'
      BY <1>1 DEF Stopping
    <2> QED BY <1>1, <1>5, <2>1 DEF CamerasInv, LifeInv, Starting, Serving, Quiet, Over
  <1>LoopInv. LoopInv'
    BY <1>1, <1>2 DEF LoopInv, Elsewhere, CamerasInv, HistoryInv, LifeInv, Starting, Serving,
       Quiet, Over, Drained
  <1>SubscribedInv. SubscribedInv'
    BY <1>1 DEF SubscribedInv, Has, Within, LifeInv, Wired, Stages, Starting, Serving, Quiet, Over
  <1>CalledInv. CalledInv'
    BY <1>1, LifespanKeepsCalled
  <1>FlightInv. FlightInv'
    <2> SUFFICES ASSUME NEW c \in Cams, pipeline'[c] = "ended",
                        NEW i \in DOMAIN ready', NEW j \in DOMAIN ready',
                        IsLifespan(ready'[j]), IsOf(ready'[i], c)
                 PROVE  i < j /\ Rank(ready'[i]) >= Used'
      BY DEF FlightInv
    <2>0. i \in Int /\ j \in Int /\ i >= 1
      BY <1>6
    <2>6. ~IsLifespan(ready'[i])
      BY DEF IsOf
    <2>1. i <= j /\ i # j
      BY <1>2, <2>6 DEF AtEnd
    <2>2. i < j
      BY <2>0, <2>1
    <2>3. i + 1 \in DOMAIN ready /\ ready'[i] = ready[i + 1] /\ ~(i + 1 < 1)
      BY <1>2, <2>0, <2>6
    <2>4. Rank(ready[i + 1]) >= Used + 1
      BY <1>1, <1>4, <2>3 DEF LifeInv, FlightInv
    <2>5. Used' = Used + 1
      BY <1>3 DEF Used
    <2> QED BY <2>2, <2>3, <2>4, <2>5
  <1>GoneInv. GoneInv'
    BY <1>1, <1>2 DEF GoneInv, IsOf, LifeInv
  <1>QuietInv. QuietInv'
    <2>1. \A i \in DOMAIN ready' : ~TellsClients(ready'[i])
      BY <1>1, LifespanKeepsQuiet DEF Quiet
    <2> QED BY <1>1, <2>1 DEF QuietInv
  <1>SafeInv. SafeInv'
    BY <1>1, LifespanKeepsSafe
  <1>HistoryInv. HistoryInv'
    BY <1>1 DEF HistoryInv, LifeInv, Starting, Serving, Quiet, Over
  <1>BoundsInv. BoundsInv'
    BY <1>1 DEF BoundsInv, LifeInv
  <1> QED
    BY <1>LTypes, <1>CamerasInv, <1>LoopInv, <1>SubscribedInv, <1>CalledInv, <1>FlightInv,
       <1>GoneInv, <1>QuietInv, <1>SafeInv, <1>HistoryInv, <1>BoundsInv DEF LifeInv

LEMMA DrainKeeps ==
  ASSUME Backend!ConstantsAssumption, LifeInv, Backend!Drain
  PROVE  LifeInv'
  <1>1. /\ Backend!Resumed /\ stage = "drain" /\ Backend!Awaits
        /\ stage' = IF Backend!Outstanding THEN "drain" ELSE "recorder"
        /\ UNCHANGED <<turns, handlers, pipeline, delivered, latest, overlay, site,
                       reports, database, bucket, writing, stored, lateSend>>
    BY DEF Backend!Drain, Backend!cameraVars, Backend!historyVars, Backend!loopVars, Cams, Keys
  <1>2. /\ ready' \in Seq(Callbacks) /\ Once(ready') /\ AtEnd(ready') /\ Present(ready)
        /\ Backend!Awaits => Present(ready')
        /\ ready' = Tail(ready) => ~Present(ready')
        /\ \A i \in DOMAIN ready' : ~IsLifespan(ready'[i]) =>
               i + 1 \in DOMAIN ready /\ ready'[i] = ready[i + 1]
    BY <1>1, LifespanStep
  <1>3. stage' = "recorder" => \A i \in DOMAIN ready' : IsLifespan(ready'[i])
    <2> HAVE stage' = "recorder"
    <2>1. \A i \in DOMAIN ready : ready[i].does \notin {"publish", "handle"}
      BY <1>1 DEF Backend!Outstanding
    <2>2. \A i \in DOMAIN ready : ready[i] \in Callbacks
      BY ElementOfSeq, LenProperties DEF LifeInv, LTypes
    <2>3. \A i \in DOMAIN ready : IsLifespan(ready[i])
      BY <2>1, <2>2, CallbackFacts
    <2> QED BY <1>2, <2>3
  <1>4. stage' \in {"drain", "recorder"} /\ stage = "drain" /\ ready \in Seq(Callbacks)
    BY <1>1 DEF LifeInv, LTypes
  <1>5. \A c \in Cams : pipeline[c] = "stopped"
    BY <1>4 DEF LifeInv, CamerasInv, Over
  <1>LTypes. LTypes'
    BY <1>1, <1>2, <1>4 DEF LTypes, LifeInv, Stages, Starting, Serving, Quiet, Over
  <1>CamerasInv. CamerasInv'
    BY <1>1, <1>4, <1>5 DEF CamerasInv, LifeInv, Starting, Serving, Quiet, Over
  <1>LoopInv. LoopInv'
    <2>1. ~Elsewhere'
      BY <1>4 DEF Elsewhere
    <2> QED BY <1>1, <1>2, <1>3, <1>4, <2>1 DEF LoopInv, Starting, Drained
  <1>SubscribedInv. SubscribedInv'
    BY <1>1, <1>4, <1>5 DEF SubscribedInv, Has, LifeInv, Wired, Stages, Starting, Serving, Quiet,
       Over
  <1>CalledInv. CalledInv'
    BY <1>1, LifespanKeepsCalled
  <1>FlightInv. FlightInv'
    BY <1>1, <1>5 DEF FlightInv
  <1>GoneInv. GoneInv'
    BY <1>1, <1>2 DEF GoneInv, IsOf, LifeInv
  <1>QuietInv. QuietInv'
    <2>1. \A i \in DOMAIN ready' : ~TellsClients(ready'[i])
      BY <1>1, <1>4, LifespanKeepsQuiet DEF Quiet, Over
    <2> QED BY <1>4, <2>1 DEF QuietInv
  <1>SafeInv. SafeInv'
    BY <1>1, LifespanKeepsSafe
  <1>HistoryInv. HistoryInv'
    BY <1>1, <1>4 DEF HistoryInv, LifeInv, Starting, Serving, Quiet, Over
  <1>BoundsInv. BoundsInv'
    BY <1>1 DEF BoundsInv, LifeInv
  <1> QED
    BY <1>LTypes, <1>CamerasInv, <1>LoopInv, <1>SubscribedInv, <1>CalledInv, <1>FlightInv,
       <1>GoneInv, <1>QuietInv, <1>SafeInv, <1>HistoryInv, <1>BoundsInv DEF LifeInv

LEMMA DisconnectKeeps ==
  ASSUME Backend!ConstantsAssumption, LifeInv, Backend!Disconnect
  PROVE  LifeInv'
  <1>1. /\ Backend!Resumed /\ stage = "history" /\ stage' = "closed" /\ ready' = Tail(ready)
        /\ database' = "closed"
        /\ UNCHANGED <<turns, handlers, pipeline, delivered, latest, overlay, site,
                       reports, bucket, writing, stored, lateSend>>
    BY DEF Backend!Disconnect, Backend!cameraVars, Backend!historyVars, Backend!loopVars, Cams,
       Keys
  <1>2. /\ ready' \in Seq(Callbacks) /\ Once(ready') /\ AtEnd(ready') /\ Present(ready)
        /\ Backend!Awaits => Present(ready')
        /\ ready' = Tail(ready) => ~Present(ready')
        /\ \A i \in DOMAIN ready' : ~IsLifespan(ready'[i]) =>
               i + 1 \in DOMAIN ready /\ ready'[i] = ready[i + 1]
    BY <1>1, LifespanStep
  <1>3. writing = {}
    BY <1>1, <1>2 DEF LifeInv, LoopInv, Elsewhere
  <1>LTypes. LTypes'
    BY <1>1, <1>2 DEF LTypes, LifeInv, Stages, Starting, Serving, Quiet, Over
  <1>CamerasInv. CamerasInv'
    BY <1>1 DEF CamerasInv, LifeInv, Starting, Serving, Quiet, Over
  <1>LoopInv. LoopInv'
    BY <1>1, <1>2 DEF LoopInv, Elsewhere, CamerasInv, HistoryInv, LifeInv, Starting, Serving,
       Quiet, Over, Drained
  <1>SubscribedInv. SubscribedInv'
    BY <1>1 DEF SubscribedInv, Has, Within, LifeInv, Wired, Stages, Starting, Serving, Quiet, Over
  <1>CalledInv. CalledInv'
    BY <1>1, LifespanKeepsCalled
  <1>FlightInv. FlightInv'
    BY <1>1 DEF FlightInv, CamerasInv, LifeInv, Starting, Serving, Quiet, Over
  <1>GoneInv. GoneInv'
    BY <1>1, <1>2 DEF GoneInv, IsOf, LifeInv
  <1>QuietInv. QuietInv'
    BY <1>1 DEF QuietInv, LifeInv, Serving, Quiet, Over
  <1>SafeInv. SafeInv'
    BY <1>1, LifespanKeepsSafe
  <1>HistoryInv. HistoryInv'
    BY <1>1, <1>3 DEF HistoryInv, LifeInv, Starting, Serving, Quiet, Over
  <1>BoundsInv. BoundsInv'
    BY <1>1 DEF BoundsInv, LifeInv
  <1> QED
    BY <1>LTypes, <1>CamerasInv, <1>LoopInv, <1>SubscribedInv, <1>CalledInv, <1>FlightInv,
       <1>GoneInv, <1>QuietInv, <1>SafeInv, <1>HistoryInv, <1>BoundsInv DEF LifeInv

LEMMA CameraStoppedKeeps ==
  ASSUME Backend!ConstantsAssumption, LifeInv, NEW i \in DOMAIN Fleet, Backend!CameraStopped(i)
  PROVE  LifeInv'
  <1> DEFINE c == Fleet[i]
             more == i < Len(Fleet)
  <1>1. /\ Backend!Resumed /\ stage = "stopping" /\ turns = 0 /\ pipeline[c] = "ended"
        /\ latest' = [latest EXCEPT ![c] = Nothing] /\ overlay' = [overlay EXCEPT ![c] = Nothing]
        /\ handlers' = [handlers EXCEPT
                            !["perception"] = Backend!Unsubscribed(@, <<"analyse", c>>),
                            !["analysis"] = Backend!Unsubscribed(@, <<"draw", c>>)]
        /\ more => /\ pipeline' = [pipeline EXCEPT ![c] = "stopped", ![Fleet[i + 1]] = "ending"]
                   /\ turns' = Turns /\ ready' = Tail(ready) /\ stage' = "stopping"
        /\ ~more => /\ pipeline' = [pipeline EXCEPT ![c] = "stopped"]
                    /\ turns' = turns /\ Backend!Awaits /\ stage' = "drain"
        /\ UNCHANGED <<delivered, site, reports, database, bucket, writing, stored, lateSend>>
    BY DEF Backend!CameraStopped, Backend!historyVars
  <1>0. ready' = Tail(ready) \/ Backend!Awaits
    BY <1>1
  <1>2. /\ ready' \in Seq(Callbacks) /\ Once(ready') /\ AtEnd(ready') /\ Present(ready)
        /\ Backend!Awaits => Present(ready')
        /\ ready' = Tail(ready) => ~Present(ready')
        /\ \A j \in DOMAIN ready' : ~IsLifespan(ready'[j]) =>
               j + 1 \in DOMAIN ready /\ ready'[j] = ready[j + 1]
    BY <1>0, <1>1, LifespanStep
  <1>3. /\ Len(Fleet) \in Nat /\ DOMAIN Fleet = 1 .. Len(Fleet) /\ i \in 1 .. Len(Fleet)
        /\ c \in Cams /\ Turns \in Nat /\ Turns >= 3
        /\ pipeline \in [Cams -> {"off", "running", "ending", "ended", "stopped"}]
    BY CamsFacts DEF LifeInv, LTypes
  <1>4. /\ \A j \in 1 .. i - 1 : pipeline[Fleet[j]] = "stopped"
        /\ \A j \in i + 1 .. Len(Fleet) : pipeline[Fleet[j]] = "running"
    <2>1. PICK k \in DOMAIN Fleet : Stopping(k)
      BY <1>1 DEF LifeInv, CamerasInv
    <2>2. ~(i \in 1 .. k - 1) /\ ~(i \in k + 1 .. Len(Fleet))
      BY <1>1, <2>1 DEF Stopping
    <2>3. k = i
      BY <1>3, <2>1, <2>2
    <2> QED BY <2>1, <2>3 DEF Stopping
  <1> HIDE DEF more
  <1>5. more => /\ i + 1 \in DOMAIN Fleet /\ Fleet[i + 1] \in Cams /\ Fleet[i + 1] # c
                /\ pipeline[Fleet[i + 1]] = "running"
    <2> HAVE more
    <2>1. i + 1 \in DOMAIN Fleet /\ i + 1 \in i + 1 .. Len(Fleet) /\ i + 1 # i
      BY <1>3 DEF more
    <2> QED BY <1>4, <2>1, CamsFacts
  <1>6. /\ pipeline' \in [Cams -> {"off", "running", "ending", "ended", "stopped"}]
        /\ pipeline'[c] = "stopped"
        /\ more => pipeline'[Fleet[i + 1]] = "ending"
        /\ \A d \in Cams : d # c /\ (more => d # Fleet[i + 1]) => pipeline'[d] = pipeline[d]
    BY <1>1, <1>3, <1>5
  <1> HIDE DEF c
  <1>7. \A j \in DOMAIN Fleet : /\ j < i => pipeline'[Fleet[j]] = "stopped"
                                /\ more /\ j > i + 1 => pipeline'[Fleet[j]] = "running"
    <2> TAKE j \in DOMAIN Fleet
    <2>1. /\ Fleet[j] \in Cams /\ (j # i => Fleet[j] # c)
          /\ more /\ j # i + 1 => Fleet[j] # Fleet[i + 1]
      BY <1>5, CamsFacts DEF c
    <2>2. ASSUME j < i PROVE pipeline'[Fleet[j]] = "stopped"
      <3>1. j \in 1 .. i - 1 /\ j # i /\ j # i + 1
        BY <1>3, <2>2
      <3> QED BY <1>4, <1>6, <2>1, <3>1
    <2>3. ASSUME more, j > i + 1 PROVE pipeline'[Fleet[j]] = "running"
      <3>1. j \in i + 1 .. Len(Fleet) /\ j # i /\ j # i + 1
        BY <1>3, <2>3
      <3> QED BY <1>4, <1>6, <2>1, <3>1
    <2> QED BY <2>2, <2>3
  <1>8. \A d \in Cams : pipeline'[d] # "ended"
    <2> SUFFICES ASSUME NEW j \in DOMAIN Fleet PROVE pipeline'[Fleet[j]] # "ended"
      BY CamsFacts
    <2>1. CASE j = i
      BY <2>1, <1>6 DEF c
    <2>2. CASE j < i
      BY <2>2, <1>7
    <2>3. CASE j > i
      <3>1. more
        BY <1>3, <2>3 DEF more
      <3>2. CASE j = i + 1
        BY <3>1, <3>2, <1>6
      <3>3. CASE j > i + 1
        BY <3>1, <3>3, <1>7
      <3> QED BY <3>2, <3>3, <2>3, <1>3
    <2> QED BY <2>1, <2>2, <2>3, <1>3
  <1>9. \A d \in Cams : pipeline'[d] = "stopped" => d = c \/ pipeline[d] = "stopped"
    BY <1>5, <1>6
  \* What its pipeline was to deliver has been drawn.
  <1>10. \A j \in DOMAIN ready : ~IsOf(ready[j], c)
    <2> SUFFICES ASSUME NEW j \in DOMAIN ready, IsOf(ready[j], c) PROVE FALSE
      OBVIOUS
    <2>1. 1 \in DOMAIN ready /\ IsLifespan(ready[1]) /\ DOMAIN ready = 1 .. Len(ready)
      BY <1>0, <1>1, LifespanStep, LenProperties DEF LifeInv, LTypes
    <2>2. ~(j < 1)
      BY <2>1
    <2>3. Rank(ready[j]) >= Used + 1
      BY <1>1, <1>3, <2>1, <2>2 DEF LifeInv, FlightInv, c
    <2> QED BY <1>1, <1>3, <2>3, RankBound DEF Used
  <1>11. /\ DOMAIN handlers = Backend!Events /\ Backend!Events = {"perception", "analysis", "site"}
         /\ \A e \in Backend!Events : handlers[e] \in Seq(HandlersOf) /\ Distinct(handlers[e])
    BY DEF LifeInv, LTypes, SubscribedInv, Backend!Events
  <1>12. /\ DOMAIN handlers' = Backend!Events /\ handlers' = [e \in Backend!Events |-> handlers'[e]]
         /\ handlers'["perception"] = Backend!Unsubscribed(handlers["perception"], <<"analyse", c>>)
         /\ handlers'["analysis"] = Backend!Unsubscribed(handlers["analysis"], <<"draw", c>>)
         /\ handlers'["site"] = handlers["site"]
    BY <1>1, <1>11
  <1>17. \A q \in Seq(HandlersOf) : Distinct(q) => \A h :
             /\ Backend!Unsubscribed(q, h) \in Seq(HandlersOf) /\ Distinct(Backend!Unsubscribed(q, h))
             /\ \A x : Within(x, Backend!Unsubscribed(q, h)) <=> Within(x, q) /\ x # h
    BY UnsubscribedFacts
  <1>13. /\ handlers'["perception"] \in Seq(HandlersOf) /\ Distinct(handlers'["perception"])
         /\ \A x : Within(x, handlers'["perception"]) <=>
                      Within(x, handlers["perception"]) /\ x # <<"analyse", c>>
    <2> DEFINE q == handlers["perception"]
    <2>1. q \in Seq(HandlersOf) /\ Distinct(q)
      BY <1>11
    <2> HIDE DEF q
    <2>2. \A h : /\ Backend!Unsubscribed(q, h) \in Seq(HandlersOf) /\ Distinct(Backend!Unsubscribed(q, h))
                 /\ \A x : Within(x, Backend!Unsubscribed(q, h)) <=> Within(x, q) /\ x # h
      BY <2>1, <1>17, Zenon
    <2>3. handlers'["perception"] = Backend!Unsubscribed(q, <<"analyse", c>>)
      BY <1>12 DEF q
    <2>4. /\ handlers'["perception"] \in Seq(HandlersOf) /\ Distinct(handlers'["perception"])
          /\ \A x : Within(x, handlers'["perception"]) <=> Within(x, q) /\ x # <<"analyse", c>>
      BY <2>2, <2>3, Zenon
    <2> QED BY <2>4 DEF q
  <1>14. /\ handlers'["analysis"] \in Seq(HandlersOf) /\ Distinct(handlers'["analysis"])
         /\ \A x : Within(x, handlers'["analysis"]) <=>
                      Within(x, handlers["analysis"]) /\ x # <<"draw", c>>
    <2> DEFINE q == handlers["analysis"]
    <2>1. q \in Seq(HandlersOf) /\ Distinct(q)
      BY <1>11
    <2> HIDE DEF q
    <2>2. \A h : /\ Backend!Unsubscribed(q, h) \in Seq(HandlersOf) /\ Distinct(Backend!Unsubscribed(q, h))
                 /\ \A x : Within(x, Backend!Unsubscribed(q, h)) <=> Within(x, q) /\ x # h
      BY <2>1, <1>17, Zenon
    <2>3. handlers'["analysis"] = Backend!Unsubscribed(q, <<"draw", c>>)
      BY <1>12 DEF q
    <2>4. /\ handlers'["analysis"] \in Seq(HandlersOf) /\ Distinct(handlers'["analysis"])
          /\ \A x : Within(x, handlers'["analysis"]) <=> Within(x, q) /\ x # <<"draw", c>>
      BY <2>2, <2>3, Zenon
    <2> QED BY <2>4 DEF q
  <1>15. handlers' \in [Backend!Events -> Seq(HandlersOf)]
    BY <1>11, <1>12, <1>13, <1>14, Zenon
  <1>16. stage' \in {"stopping", "drain"} /\ (more <=> stage' = "stopping")
    BY <1>1
  <1>LTypes. LTypes'
    <2>1. turns' \in 0 .. Turns
      BY <1>1, <1>3
    <2>2. DOMAIN latest' = Cams /\ DOMAIN overlay' = Cams
      BY <1>1 DEF LifeInv, LTypes
    <2> QED BY <1>1, <1>2, <1>6, <1>15, <1>16, <2>1, <2>2
            DEF LTypes, LifeInv, Stages, Quiet, Over
  <1>CamerasInv. CamerasInv'
    <2>1. more => Stopping(i + 1)'
      <3> HAVE more
      <3>1. \A j \in 1 .. (i + 1) - 1 : j \in DOMAIN Fleet /\ (j < i \/ j = i)
        BY <1>3
      <3>2. \A j \in (i + 1) + 1 .. Len(Fleet) : j \in DOMAIN Fleet /\ j > i + 1
        BY <1>3
      <3>3. \A j \in 1 .. (i + 1) - 1 : pipeline'[Fleet[j]] = "stopped"
        BY <1>6, <1>7, <3>1 DEF c
      <3>4. \A j \in (i + 1) + 1 .. Len(Fleet) : pipeline'[Fleet[j]] = "running"
        BY <1>7, <3>2
      <3> QED BY <1>6, <3>3, <3>4 DEF Stopping
    <2>2. ~more => \A d \in Cams : pipeline'[d] = "stopped"
      <3> SUFFICES ASSUME ~more, NEW j \in DOMAIN Fleet PROVE pipeline'[Fleet[j]] = "stopped"
        BY CamsFacts
      <3>1. j < i \/ j = i
        BY <1>3 DEF more
      <3> QED BY <1>6, <1>7, <3>1 DEF c
    <2>3. \A d \in Cams : pipeline'[d] = "ending" => more
      BY <2>2
    <2>4. \A d \in Cams : pipeline'[d] = "stopped" => latest'[d] = Nothing /\ overlay'[d] = Nothing
      BY <1>1, <1>9 DEF LifeInv, LTypes, CamerasInv
    <2>5. site' = "off"
      BY <1>1 DEF LifeInv, CamerasInv, Quiet
    <2> QED BY <1>1, <1>5, <1>16, <2>1, <2>2, <2>3, <2>4, <2>5
            DEF CamerasInv, Starting, Serving, Quiet, Over
  <1>LoopInv. LoopInv'
    <2>1. more => Elsewhere' /\ ~Present(ready')
      BY <1>1, <1>2, <1>5, <1>6 DEF Elsewhere
    <2>2. ~more => ~Elsewhere' /\ Present(ready')
      BY <1>1, <1>2 DEF Elsewhere
    <2> QED BY <1>2, <1>16, <2>1, <2>2 DEF LoopInv, Starting, Drained
  <1>SubscribedInv. SubscribedInv'
    <2>1. \A h : /\ Has("perception", h)' <=> Has("perception", h) /\ h # <<"analyse", c>>
                 /\ Has("analysis", h)' <=> Has("analysis", h) /\ h # <<"draw", c>>
                 /\ Has("site", h)' <=> Has("site", h)
      BY <1>12, <1>13, <1>14 DEF Has
    <2>2. \A e \in Backend!Events : Distinct(handlers'[e])
      BY <1>11, <1>12, <1>13, <1>14
    <2>3. \A d \in Cams : pipeline'[d] # "stopped" => pipeline[d] # "stopped" /\ d # c
      BY <1>5, <1>6
    <2>4. /\ stage \in Wired \ {"history", "closed"} /\ stage \in Quiet /\ stage' \in Quiet
          /\ stage' \notin {"connect", "wire", "failed"}
      BY <1>1, <1>16 DEF Wired, Stages, Quiet, Over
    <2>5. /\ Has("analysis", Backend!Recorder)' /\ Has("site", Backend!Recorder)'
          /\ \A d \in Cams : pipeline'[d] # "stopped" => Has("perception", <<"analyse", d>>)'
      BY <2>1, <2>3, <2>4, HandlerFacts DEF LifeInv, SubscribedInv
    <2>6. \A d \in Cams : /\ ~Has("analysis", <<"analyse", d>>)' /\ ~Has("site", <<"analyse", d>>)'
                          /\ ~Has("perception", <<"draw", d>>)' /\ ~Has("site", <<"draw", d>>)'
      BY <2>1 DEF LifeInv, SubscribedInv
    <2>7. \A d \in Cams : pipeline'[d] = "stopped" =>
            ~Has("perception", <<"analyse", d>>)' /\ ~Has("analysis", <<"draw", d>>)'
      BY <1>9, <2>1 DEF LifeInv, SubscribedInv
    <2>8. \A e \in Backend!Events : ~Has(e, Backend!Publisher)'
      BY <1>11, <2>1, <2>4 DEF LifeInv, SubscribedInv
    <2> QED BY <2>2, <2>4, <2>5, <2>6, <2>7, <2>8 DEF SubscribedInv
  <1>CalledInv. CalledInv'
    BY <1>0, <1>1, LifespanKeepsCalled
  <1>FlightInv. FlightInv'
    BY <1>8 DEF FlightInv
  <1>GoneInv. GoneInv'
    <2> SUFFICES ASSUME NEW d \in Cams, pipeline'[d] = "stopped", NEW j \in DOMAIN ready'
                 PROVE  ~IsOf(ready'[j], d)
      BY DEF GoneInv
    <2>1. \A k \in DOMAIN ready : ~IsOf(ready[k], d)
      BY <1>9, <1>10 DEF LifeInv, GoneInv
    <2> QED BY <1>2, <2>1 DEF IsOf
  <1>QuietInv. QuietInv'
    <2>1. \A j \in DOMAIN ready' : ~TellsClients(ready'[j])
      BY <1>0, <1>1, LifespanKeepsQuiet DEF Quiet
    <2> QED BY <1>16, <2>1 DEF QuietInv
  <1>SafeInv. SafeInv'
    BY <1>0, <1>1, LifespanKeepsSafe
  <1>HistoryInv. HistoryInv'
    BY <1>1, <1>16 DEF HistoryInv, LifeInv, Starting
  <1>BoundsInv. BoundsInv'
    BY <1>1 DEF BoundsInv, LifeInv
  <1> QED
    BY <1>LTypes, <1>CamerasInv, <1>LoopInv, <1>SubscribedInv, <1>CalledInv, <1>FlightInv,
       <1>GoneInv,
       <1>QuietInv, <1>SafeInv, <1>HistoryInv, <1>BoundsInv DEF LifeInv

LEMMA StopHistoryKeeps ==
  ASSUME Backend!ConstantsAssumption, LifeInv, Backend!StopHistory
  PROVE  LifeInv'
  <1>1. /\ Backend!Resumed /\ stage = "recorder" /\ stage' = "history"
        /\ bucket' = [k \in Keys |-> {}] /\ writing' = writing \cup Backend!Unwritten
        /\ writing' = {} => Backend!Awaits
        /\ writing' # {} => ready' = Tail(ready)
        /\ UNCHANGED <<turns, pipeline, delivered, latest, overlay, site, reports,
                       database, stored, lateSend>>
    BY DEF Backend!StopHistory, Backend!cameraVars, Backend!historyVars, Backend!loopVars, Cams,
       Keys
  <1>0. ready' = Tail(ready) \/ Backend!Awaits
    BY <1>1
  <1>2. /\ ready' \in Seq(Callbacks) /\ Once(ready') /\ AtEnd(ready') /\ Present(ready)
        /\ Backend!Awaits => Present(ready')
        /\ ready' = Tail(ready) => ~Present(ready')
        /\ \A i \in DOMAIN ready' : ~IsLifespan(ready'[i]) =>
               i + 1 \in DOMAIN ready /\ ready'[i] = ready[i + 1]
    BY <1>0, <1>1, LifespanStep
  <1>3. /\ handlers' \in [Backend!Events -> Seq(HandlersOf)]
        /\ \A e \in Backend!Events : /\ Distinct(handlers'[e])
               /\ \A h : Within(h, handlers'[e]) <=> Within(h, handlers[e]) /\ h # Backend!Recorder
    BY WithoutFacts DEF Backend!StopHistory, LifeInv, LTypes, SubscribedInv
  <1>4. stage \in Drained /\ stage \in Wired /\ stage \in Over
    BY <1>1 DEF Drained, Wired, Stages, Over, Quiet
  <1>LTypes. LTypes'
    <2>1. DOMAIN bucket' = Keys
      BY <1>1
    <2> QED BY <1>1, <1>2, <1>3, <2>1 DEF LTypes, LifeInv, Stages, Starting, Serving, Quiet, Over
  <1>CamerasInv. CamerasInv'
    BY <1>1 DEF CamerasInv, LifeInv, Starting, Serving, Quiet, Over
  <1>LoopInv. LoopInv'
    <2>1. Elsewhere' <=> writing' # {}
      BY <1>1 DEF Elsewhere
    <2>2. Present(ready') <=> ~Elsewhere'
      BY <1>1, <1>2, <2>1
    <2>3. \A i \in DOMAIN ready : IsLifespan(ready[i])
      BY <1>4 DEF LifeInv, LoopInv
    <2> QED BY <1>2, <2>2, <2>3 DEF LoopInv
  <1>SubscribedInv. SubscribedInv'
    <2>1. \A e \in Backend!Events : \A h : Has(e, h)' <=> Has(e, h) /\ h # Backend!Recorder
      BY <1>3 DEF Has
    <2>2. {"perception", "analysis", "site"} = Backend!Events
      BY DEF Backend!Events
    <2> QED BY <1>1, <1>3, <2>1, <2>2, HandlerFacts
            DEF SubscribedInv, LifeInv, Wired, Stages, Starting, Serving, Quiet, Over
  <1>CalledInv. CalledInv'
    BY <1>0, <1>1, LifespanKeepsCalled
  <1>FlightInv. FlightInv'
    BY <1>1 DEF FlightInv, CamerasInv, LifeInv, Starting, Serving, Quiet, Over
  <1>GoneInv. GoneInv'
    BY <1>1, <1>2 DEF GoneInv, IsOf, LifeInv
  <1>QuietInv. QuietInv'
    <2>1. \A i \in DOMAIN ready' : ~TellsClients(ready'[i])
      BY <1>0, <1>1, LifespanKeepsQuiet DEF Quiet, Over
    <2> QED BY <1>1, <2>1 DEF QuietInv
  <1>SafeInv. SafeInv'
    <2>1. \A k, n : Carried(ready, k, n) => Carried(ready', k, n)
      BY <1>0, <1>1, LifespanStep
    <2>2. ASSUME NEW k \in Keys, NEW n \in Nat, Kept(k, n) PROVE Kept(k, n)'
      <3>1. CASE <<k, n>> \in bucket[k]
        <4>1. bucket[k] \in Backend!Unwritten
          BY <3>1 DEF Backend!Unwritten, Keys
        <4> QED BY <1>1, <3>1, <4>1 DEF Kept
      <3>2. CASE <<k, n>> \notin bucket[k]
        <4> DEFINE e == <<k, n>>
        <4>2. e \in stored \cup (UNION writing) \cup bucket[k] /\ e \notin bucket[k]
          BY <2>2, <3>2 DEF Kept
        <4> HIDE DEF e
        <4>3. e \in stored \/ \E w \in writing : e \in w
          BY <4>2
        <4>1. <<k, n>> \in stored \/ \E w \in writing : <<k, n>> \in w
          BY <4>3 DEF e
        <4> QED BY <1>1, <4>1 DEF Kept
      <3> QED BY <3>1, <3>2
    <2> QED BY <1>1, <2>1, <2>2, SafeStays DEF LifeInv
  <1>HistoryInv. HistoryInv'
    BY <1>1 DEF HistoryInv, LifeInv, Starting, Serving, Quiet, Over
  <1>BoundsInv. BoundsInv'
    BY <1>1 DEF BoundsInv, LifeInv
  <1> QED
    BY <1>LTypes, <1>CamerasInv, <1>LoopInv, <1>SubscribedInv, <1>CalledInv, <1>FlightInv,
       <1>GoneInv, <1>QuietInv, <1>SafeInv, <1>HistoryInv, <1>BoundsInv DEF LifeInv

-----------------------------------------------------------------------------
(* What wakes the loop.                                                    *)
LEMMA EntriesMoved ==
  ASSUME NEW q, NEW k, NEW s, NEW r, Moved(q, k, s, r)
  PROVE  /\ \A i \in DOMAIN r : \/ \E j \in DOMAIN q : r[i] = q[j]
                                \/ \E j \in DOMAIN s : r[i] = s[j]
         /\ \A i \in DOMAIN s : \E j \in DOMAIN r : r[j] = s[i]
         /\ \A i \in DOMAIN q : (k = 1 => q[i] # q[1]) => \E j \in DOMAIN r : r[j] = q[i]
  <1>1. \A i \in DOMAIN r : \/ \E j \in DOMAIN q : r[i] = q[j]
                            \/ \E j \in DOMAIN s : r[i] = s[j]
    BY MovedPlaces
  <1>2. \A i \in DOMAIN s : \E j \in DOMAIN r : r[j] = s[i]
    BY MovedPlaces
  <1>3. ASSUME NEW i \in DOMAIN q, k = 1 => q[i] # q[1]
        PROVE  \E j \in DOMAIN r : r[j] = q[i]
    <2>1. k \in {0, 1} /\ i \in 1 .. Len(q) /\ (k = 1 => i # 1)
      BY <1>3, MovedPlaces DEF Moved
    <2>2. i > k
      BY <2>1
    <2> QED BY <2>2, MovedPlaces
  <1> QED BY <1>1, <1>2, <1>3

LEMMA KeepsCalled ==
  ASSUME LifeInv, NEW k, NEW s, Moved(ready, k, s, ready'), \A i \in DOMAIN s : CalledOf(s[i])
  PROVE  CalledInv'
  <1>1. \A i \in DOMAIN ready : CalledOf(ready[i])
    BY DEF LifeInv, CalledInv, CalledOf
  <1>2. \A i \in DOMAIN ready' : CalledOf(ready'[i])
    BY <1>1, EntriesMoved
  <1> QED BY <1>2 DEF CalledInv, CalledOf

LEMMA KeepsGone ==
  ASSUME LifeInv, NEW k, NEW s, Moved(ready, k, s, ready'),
         \A c \in Cams : pipeline'[c] = "stopped" => pipeline[c] = "stopped" /\ \A i \in DOMAIN s : ~IsOf(s[i], c)
  PROVE  GoneInv'
  <1> SUFFICES ASSUME NEW c \in Cams, pipeline'[c] = "stopped", NEW i \in DOMAIN ready'
               PROVE  ~IsOf(ready'[i], c)
    BY DEF GoneInv
  <1>1. \A j \in DOMAIN ready : ~IsOf(ready[j], c)
    BY DEF LifeInv, GoneInv
  <1> QED BY <1>1, EntriesMoved

\* Nothing that was to be carried is taken away but what is run.
LEMMA KeepsCarried ==
  ASSUME NEW q, NEW k, NEW s, NEW r, Moved(q, k, s, r), NEW key, NEW n, Carried(q, key, n)
  PROVE  Carried(r, key, n) \/ (k = 1 /\ Carries(q[1], key, n))
  <1>1. PICK i \in DOMAIN q : Carries(q[i], key, n)
    BY DEF Carried
  <1>2. CASE k = 1 => q[i] # q[1]
    <2>0. \A x \in DOMAIN q : (k = 1 => q[x] # q[1]) => \E j \in DOMAIN r : r[j] = q[x]
      BY EntriesMoved
    <2>1. PICK j \in DOMAIN r : r[j] = q[i]
      BY <1>1, <1>2, <2>0, Zenon
    <2> QED BY <1>1, <2>1 DEF Carried
  <1>3. CASE k = 1 /\ q[i] = q[1]
    BY <1>1, <1>3
  <1> QED BY <1>2, <1>3

\* Nobody tells clients more than before.
LEMMA KeepsQuiet ==
  ASSUME LifeInv, NEW k, NEW s, Moved(ready, k, s, ready'), stage' = stage,
         k = 1 => ~IsLifespan(ready[1]), \A i \in DOMAIN s : ~IsLifespan(s[i]),
         stage \in Quiet \cup {"site"} => \A i \in DOMAIN s : ~TellsClients(s[i])
  PROVE  QuietInv'
  <1>1. stage \in Quiet => \A i \in DOMAIN ready' : ~TellsClients(ready'[i])
    BY EntriesMoved DEF LifeInv, QuietInv
  <1>2. ASSUME stage = "site", NEW i \in DOMAIN ready', NEW j \in DOMAIN ready',
               IsLifespan(ready'[j]), j < i
        PROVE  ~TellsClients(ready'[i])
    <2>1. Once(ready)
      BY DEF LifeInv, LoopInv
    <2>2. /\ j + k \in DOMAIN ready /\ IsLifespan(ready[j + k])
          /\ i <= Len(ready) - k => i + k \in DOMAIN ready /\ ready'[i] = ready[i + k]
          /\ i > Len(ready) - k => i - (Len(ready) - k) \in DOMAIN s /\ ready'[i] = s[i - (Len(ready) - k)]
      BY <1>2, <2>1, WorkMoved
    <2>3. /\ DOMAIN ready' = 1 .. Len(ready') /\ Len(ready') \in Nat /\ Len(ready) \in Nat /\ k \in {0, 1}
      BY MovedPlaces DEF Moved
    <2>4. CASE i <= Len(ready) - k
      <3>1. j + k < i + k
        BY <1>2, <2>3
      <3> QED BY <1>2, <2>2, <2>4, <3>1 DEF LifeInv, QuietInv
    <2>5. CASE i > Len(ready) - k
      BY <1>2, <2>2, <2>5
    <2> QED BY <2>3, <2>4, <2>5
  <1> QED BY <1>1, <1>2 DEF QuietInv

\* A window moves on a step for each turn of the lifespan.
LEMMA KeepsFlight ==
  ASSUME Backend!ConstantsAssumption, LifeInv, NEW k, NEW s, Moved(ready, k, s, ready'),
         k = 1 => ~IsLifespan(ready[1]), \A i \in DOMAIN s : ~IsLifespan(s[i]),
         UNCHANGED turns, \A c \in Cams : pipeline'[c] = "ended" => pipeline[c] = "ended",
         \A c \in Cams : pipeline[c] = "ended" => \A i \in DOMAIN s : IsOf(s[i], c) =>
              k = 1 /\ IsOf(ready[1], c) /\ Rank(s[i]) = Rank(ready[1]) + 1
  PROVE  FlightInv'
  <1> SUFFICES ASSUME NEW c \in Cams, pipeline'[c] = "ended",
                      NEW i \in DOMAIN ready', NEW j \in DOMAIN ready',
                      IsLifespan(ready'[j]), IsOf(ready'[i], c)
               PROVE  IF i < j THEN Rank(ready'[i]) >= Used' ELSE Rank(ready'[i]) >= Used' + 1
    BY DEF FlightInv
  <1>1. Once(ready)
    BY DEF LifeInv, LoopInv
  <1>2. /\ j + k \in DOMAIN ready /\ IsLifespan(ready[j + k])
        /\ i <= Len(ready) - k => i + k \in DOMAIN ready /\ ready'[i] = ready[i + k]
        /\ i > Len(ready) - k => /\ i - (Len(ready) - k) \in DOMAIN s
                                 /\ ready'[i] = s[i - (Len(ready) - k)] /\ j < i
    BY <1>1, WorkMoved
  <1>3. /\ DOMAIN ready' = 1 .. Len(ready') /\ Len(ready') \in Nat /\ DOMAIN ready = 1 .. Len(ready)
        /\ Len(ready) \in Nat /\ k \in {0, 1} /\ k <= Len(ready)
    BY MovedPlaces DEF Moved
  <1>4. Used' = Used /\ Used \in Int
    BY CamsFacts DEF Used, LifeInv, LTypes
  <1>5. \A x, y \in DOMAIN ready : IsLifespan(ready[y]) /\ IsOf(ready[x], c) =>
            IF x < y THEN Rank(ready[x]) >= Used ELSE Rank(ready[x]) >= Used + 1
    BY DEF LifeInv, FlightInv
  <1>6. CASE i <= Len(ready) - k
    <2>1. i + k < j + k <=> i < j
      BY <1>3
    <2> QED BY <1>2, <1>4, <1>5, <1>6, <2>1
  <1>7. CASE i > Len(ready) - k
    <2>1. PICK m \in DOMAIN s : ready'[i] = s[m]
      BY <1>2, <1>7
    <2>2. k = 1 /\ IsOf(ready[1], c) /\ Rank(s[m]) = Rank(ready[1]) + 1
      BY <2>1
    <2>3. 1 \in DOMAIN ready /\ 1 < j + k /\ ~(i < j)
      BY <1>2, <1>3, <1>7, <2>2
    <2>4. Rank(ready[1]) >= Used
      BY <1>2, <1>5, <2>2, <2>3
    <2>5. Rank(ready[1]) \in Int /\ Rank(ready'[i]) = Rank(ready[1]) + 1
      BY <2>1, <2>2, RankBound
    <2> QED BY <1>4, <2>3, <2>4, <2>5
  <1> QED BY <1>3, <1>6, <1>7

(* The loop is told that a camera's frame loop is over.                    *)
LEMMA EndingFacts ==
  ASSUME Backend!ConstantsAssumption, LifeInv, NEW c \in Cams, pipeline[c] = "ending",
         pipeline' = [pipeline EXCEPT ![c] = "ended"], stage' = stage, UNCHANGED turns
  PROVE  /\ stage = "stopping" /\ turns = Turns /\ ~Present(ready)
         /\ pipeline' \in [Cams -> {"off", "running", "ending", "ended", "stopped"}]
         /\ \A d \in Cams : pipeline'[d] = IF d = c THEN "ended" ELSE pipeline[d]
         /\ \A d \in Cams : pipeline'[d] # "ending" /\ (pipeline'[d] = "ended" => d = c)
         /\ \E i \in DOMAIN Fleet : Stopping(i)'
  <1>1. stage = "stopping"
    BY DEF LifeInv, LTypes, CamerasInv, Stages, Starting, Serving, Quiet, Over
  <1>2. turns = Turns /\ ~Present(ready)
    BY <1>1 DEF LifeInv, CamerasInv, LoopInv, Elsewhere
  <1>3. /\ pipeline \in [Cams -> {"off", "running", "ending", "ended", "stopped"}]
        /\ pipeline' \in [Cams -> {"off", "running", "ending", "ended", "stopped"}]
        /\ \A d \in Cams : pipeline'[d] = IF d = c THEN "ended" ELSE pipeline[d]
    BY DEF LifeInv, LTypes
  <1>4. PICK k \in DOMAIN Fleet : Stopping(k)
    BY <1>1 DEF LifeInv, CamerasInv
  <1>5. /\ Len(Fleet) \in Nat /\ DOMAIN Fleet = 1 .. Len(Fleet)
        /\ \A i \in DOMAIN Fleet : Fleet[i] \in Cams
        /\ \A d \in Cams : \E i \in DOMAIN Fleet : d = Fleet[i]
    BY CamsFacts
  <1>6. \A i \in DOMAIN Fleet : i # k => pipeline[Fleet[i]] \in {"stopped", "running"}
    <2> SUFFICES ASSUME NEW i \in DOMAIN Fleet, i # k
                 PROVE  pipeline[Fleet[i]] \in {"stopped", "running"}
      OBVIOUS
    <2>1. i \in 1 .. k - 1 \/ i \in k + 1 .. Len(Fleet)
      BY <1>5
    <2> QED BY <1>4, <2>1 DEF Stopping
  <1>7. Fleet[k] = c
    BY <1>5, <1>6
  <1>8. \A d \in Cams : d # c => pipeline[d] \in {"stopped", "running"}
    BY <1>5, <1>6, <1>7
  <1>9. Stopping(k)'
    <2>1. \A j \in 1 .. k - 1 : j \in DOMAIN Fleet /\ pipeline[Fleet[j]] = "stopped"
      BY <1>4, <1>5 DEF Stopping
    <2>2. \A j \in k + 1 .. Len(Fleet) : j \in DOMAIN Fleet /\ pipeline[Fleet[j]] = "running"
      BY <1>4, <1>5 DEF Stopping
    <2>3. \A j \in 1 .. k - 1 : pipeline'[Fleet[j]] = "stopped"
      BY <1>3, <1>5, <2>1
    <2>4. \A j \in k + 1 .. Len(Fleet) : pipeline'[Fleet[j]] = "running"
      BY <1>3, <1>5, <2>2
    <2> QED BY <1>3, <1>7, <2>3, <2>4 DEF Stopping
  <1> QED BY <1>1, <1>2, <1>3, <1>8, <1>9

\* The parts of the invariant that the end of a frame loop changes.
LEMMA EndKeeps ==
  ASSUME Backend!ConstantsAssumption, LifeInv, NEW c \in Cams, pipeline[c] = "ending",
         pipeline' = [pipeline EXCEPT ![c] = "ended"],
         UNCHANGED <<turns, stage, handlers, latest, overlay, site, reports>>,
         \A d \in Cams : d # c => delivered'[d] = delivered[d],
         NEW s, Moved(ready, 0, s, ready'), s # << >>,
         \A i \in DOMAIN s : IsLifespan(s[i]) <=> i = Len(s),
         \A i \in DOMAIN s : ~TellsClients(s[i]) /\ CalledOf(s[i]) /\ \A d \in Cams : IsOf(s[i], d) => d = c
  PROVE  CamerasInv' /\ LoopInv' /\ SubscribedInv' /\ CalledInv' /\ FlightInv' /\ GoneInv' /\ QuietInv'
  <1>1. /\ stage = "stopping" /\ turns = Turns /\ ~Present(ready)
        /\ \A d \in Cams : pipeline'[d] = IF d = c THEN "ended" ELSE pipeline[d]
        /\ \A d \in Cams : pipeline'[d] # "ending" /\ (pipeline'[d] = "ended" => d = c)
        /\ \E i \in DOMAIN Fleet : Stopping(i)'
    BY EndingFacts
  <1>2. Once(ready') /\ Present(ready') /\ AtEnd(ready')
    BY <1>1, WakesMoved
  <1>3. CamerasInv'
    BY <1>1 DEF LifeInv, CamerasInv, Starting, Serving, Quiet, Over
  <1>4. LoopInv'
    BY <1>1, <1>2 DEF LoopInv, Elsewhere, Starting, Drained
  <1>5. SubscribedInv'
    BY <1>1 DEF LifeInv, SubscribedInv, Has
  <1>6. CalledInv'
    BY KeepsCalled
  <1>7. GoneInv'
    <2>1. \A d \in Cams : pipeline'[d] = "stopped" =>
              pipeline[d] = "stopped" /\ \A i \in DOMAIN s : ~IsOf(s[i], d)
      BY <1>1
    <2> QED BY <2>1, KeepsGone
  <1>8. QuietInv'
    <2>1. \A i \in DOMAIN ready' : ~TellsClients(ready'[i])
      BY <1>1, EntriesMoved DEF LifeInv, QuietInv, Quiet
    <2> QED BY <1>1, <2>1 DEF QuietInv
  <1>9. FlightInv'
    <2> SUFFICES ASSUME NEW i \in DOMAIN ready', NEW j \in DOMAIN ready',
                        IsLifespan(ready'[j]), IsOf(ready'[i], c)
                 PROVE  i < j /\ Rank(ready'[i]) >= Used'
      BY <1>1 DEF FlightInv
    <2>1. i <= j
      BY <1>2 DEF AtEnd
    <2>2. i # j
      BY DEF IsOf
    <2>3. i \in Int /\ j \in Int
      BY MovedPlaces
    <2>4. Used' = 0
      BY <1>1, CamsFacts DEF Used
    <2> QED BY <2>1, <2>2, <2>3, <2>4, RankBound
  <1> QED BY <1>3, <1>4, <1>5, <1>6, <1>7, <1>8, <1>9

LEMMA LoopEndsKeeps ==
  ASSUME Backend!ConstantsAssumption, LifeInv, NEW c \in Cams, Backend!LoopEnds(c)
  PROVE  LifeInv'
  <1>1. /\ pipeline[c] = "ending" /\ pipeline' = [pipeline EXCEPT ![c] = "ended"]
        /\ ready' = Append(ready, Backend!Lifespan)
        /\ UNCHANGED <<turns, stage, handlers, delivered, latest, overlay, site, reports, database,
                       bucket, writing, stored, lateSend>>
    BY DEF Backend!LoopEnds, Backend!historyVars
  <1> DEFINE s == <<Backend!Lifespan>>
  <1>2. Moved(ready, 0, s, ready')
    BY <1>1, MovedAppend, CallbackFacts DEF LifeInv, LTypes
  <1>3. s # << >> /\ DOMAIN s = {1} /\ Len(s) = 1 /\ s[1] = Backend!Lifespan
    OBVIOUS
  <1> HIDE DEF s
  <1>4. /\ \A i \in DOMAIN s : IsLifespan(s[i]) <=> i = Len(s)
        /\ \A i \in DOMAIN s : ~TellsClients(s[i]) /\ CalledOf(s[i]) /\ \A d \in Cams : IsOf(s[i], d) => d = c
    BY <1>3, CallbackFacts DEF IsLifespan, TellsClients, CalledOf, IsOf
  <1>5. CamerasInv' /\ LoopInv' /\ SubscribedInv' /\ CalledInv' /\ FlightInv' /\ GoneInv' /\ QuietInv'
    BY <1>1, <1>2, <1>3, <1>4, EndKeeps
  <1>6. LTypes'
    <2>1. pipeline' \in [Cams -> {"off", "running", "ending", "ended", "stopped"}]
      BY <1>1, EndingFacts
    <2>2. ready' \in Seq(Callbacks)
      BY <1>2 DEF Moved
    <2> QED BY <1>1, <2>1, <2>2 DEF LifeInv, LTypes
  <1>7. SafeInv'
    <2>1. \A k, n : Carried(ready, k, n) => Carried(ready', k, n)
      BY <1>2, KeepsCarried
    <2> QED BY <1>1, <2>1, HistoryStill, SafeStays DEF LifeInv
  <1>8. HistoryInv' /\ BoundsInv'
    BY <1>1 DEF LifeInv, HistoryInv, BoundsInv
  <1> QED BY <1>5, <1>6, <1>7, <1>8 DEF LifeInv

LEMMA Handed ==
  ASSUME LifeInv, NEW s, NEW r, Moved(ready, 0, s, r)
  PROVE  \A k, n : Carried(ready, k, n) => Carried(r, k, n)
  BY KeepsCarried

\* The loop is told of something that is not the lifespan.
LEMMA OutsideKeepsLoop ==
  ASSUME LifeInv, NEW k, NEW s, Moved(ready, k, s, ready'), \A i \in DOMAIN s : ~IsLifespan(s[i]),
         k = 1 => ~IsLifespan(ready[1]), UNCHANGED stage, Elsewhere' <=> Elsewhere,
         stage \notin Starting \cup {"failed"} \cup Drained
  PROVE  LoopInv'
  <1>1. Once(ready)
    BY DEF LifeInv, LoopInv
  <1>2. Once(ready') /\ (Present(ready) <=> Present(ready'))
    BY <1>1, WorkMoved
  <1> QED BY <1>2 DEF LifeInv, LoopInv

LEMMA OutsideKeepsFlight ==
  ASSUME Backend!ConstantsAssumption, LifeInv, NEW s, Moved(ready, 0, s, ready'),
         \A i \in DOMAIN s : ~IsLifespan(s[i]), UNCHANGED <<turns, pipeline>>,
         \A c \in Cams : pipeline[c] = "ended" => \A i \in DOMAIN s : ~IsOf(s[i], c)
  PROVE  FlightInv'
  BY KeepsFlight

LEMMA FleetIsFinite ==
  ASSUME Backend!ConstantsAssumption
  PROVE  IsFiniteSet(Cams)
  <1>1. DOMAIN Fleet = 1 .. Len(Fleet) /\ Len(Fleet) \in Nat
    BY CamsFacts
  <1>2. IsFiniteSet(1 .. Len(Fleet))
    BY <1>1, FS_Interval
  <1>3. Fleet \in Surjection(1 .. Len(Fleet), Cams)
    <2>1. Fleet \in [1 .. Len(Fleet) -> Cams]
      BY <1>1, LenProperties DEF Backend!ConstantsAssumption, Cams
    <2>2. \A c \in Cams : \E i \in 1 .. Len(Fleet) : Fleet[i] = c
      BY <1>1, CamsFacts
    <2> QED BY <2>1, <2>2 DEF Surjection
  <1> QED BY <1>2, <1>3, FS_Surjection

LEMMA UpTo ==
  ASSUME NEW m \in Nat
  PROVE  IsFiniteSet(1 .. m) /\ Cardinality(1 .. m) = m
  <1>1. 1 \in Int /\ m \in Int
    OBVIOUS
  <1>2. IsFiniteSet(1 .. m) /\ Cardinality(1 .. m) = (IF 1 > m THEN 0 ELSE m - 1 + 1)
    BY <1>1, FS_Interval
  <1>3. (IF 1 > m THEN 0 ELSE m - 1 + 1) = m
    OBVIOUS
  <1> QED BY <1>2, <1>3

\* A camera delivers no more windows than there are in all.
LEMMA AnnouncedBound ==
  ASSUME Backend!ConstantsAssumption, LTypes, BoundsInv, NEW c \in Cams
  PROVE  /\ Backend!Cardinality(Backend!Announced) \in Nat
         /\ delivered[c] <= Backend!Cardinality(Backend!Announced)
  <1> DEFINE n == delivered[c]
             own == {c} \X (1 .. n)
             all == Cams \X (1 .. MaxWindows)
  <1>1. n \in Nat /\ n <= MaxWindows /\ MaxWindows \in Nat
    BY CamsFacts DEF LTypes, BoundsInv
  <1>2. IsFiniteSet(all)
    <2>1. IsFiniteSet(1 .. MaxWindows) /\ IsFiniteSet(Cams)
      BY <1>1, FleetIsFinite, UpTo
    <2> QED BY <2>1, FS_Product, Zenon
  <1>3. IsFiniteSet(own) /\ Cardinality(own) = n
    <2>1. IsFiniteSet({c}) /\ Cardinality({c}) = 1
      BY FS_Singleton
    <2>2. IsFiniteSet(1 .. n) /\ Cardinality(1 .. n) = n
      BY <1>1, UpTo
    <2>3. IsFiniteSet(own) /\ Cardinality(own) = Cardinality({c}) * Cardinality(1 .. n)
      BY <2>1, <2>2, FS_Product, Zenon
    <2> QED BY <1>1, <2>1, <2>2, <2>3
  <1>4. Backend!Announced \subseteq all /\ own \subseteq Backend!Announced
    BY <1>1 DEF Backend!Announced, Cams
  <1>5. IsFiniteSet(Backend!Announced) /\ Cardinality(Backend!Announced) \in Nat
    BY <1>2, <1>4, FS_Subset, FS_CardinalityType
  <1>6. n <= Cardinality(Backend!Announced)
    BY <1>3, <1>4, <1>5, FS_Subset
  <1>7. Backend!Cardinality(Backend!Announced) = Cardinality(Backend!Announced)
    BY Zenon DEF Backend!Cardinality, Cardinality
  <1> QED BY <1>5, <1>6, <1>7

LEMMA EmitFacts ==
  ASSUME Backend!ConstantsAssumption, LifeInv, NEW c \in Cams, Backend!Emit(c)
  PROVE  LET t == Backend!Dispatched("perception", c, delivered'[c])
         IN  /\ t \in Published /\ t.event = "perception" /\ t.key = c /\ t.n = delivered[c] + 1
             /\ stage \in Serving \cup {"manager", "stopping"}
             /\ delivered' \in [Cams -> Nat]
             /\ \A d \in Cams : delivered'[d] = IF d = c THEN delivered[d] + 1 ELSE delivered[d]
             /\ delivered'[c] <= MaxWindows
             /\ \/ /\ pipeline[c] = "running" /\ UNCHANGED pipeline
                   /\ Moved(ready, 0, <<t>>, ready')
                \/ /\ pipeline[c] = "ending" /\ pipeline' = [pipeline EXCEPT ![c] = "ended"]
                   /\ Moved(ready, 0, <<t, Backend!Lifespan>>, ready')
             /\ UNCHANGED <<turns, stage, handlers, latest, overlay, site, reports, database, bucket,
                            writing, stored, lateSend>>
  <1> DEFINE t == Backend!Dispatched("perception", c, delivered'[c])
  <1>1. /\ pipeline[c] \in {"running", "ending"}
        /\ Backend!Cardinality(Backend!Announced) < MaxWindows
        /\ delivered' = [delivered EXCEPT ![c] = @ + 1]
        /\ UNCHANGED <<turns, stage, handlers, latest, overlay, site, reports, database, bucket,
                       writing, stored, lateSend>>
    BY DEF Backend!Emit, Backend!historyVars
  <1>2. delivered \in [Cams -> Nat] /\ ready \in Seq(Callbacks)
    BY DEF LifeInv, LTypes
  <1>3. /\ delivered' \in [Cams -> Nat] /\ delivered'[c] = delivered[c] + 1
        /\ \A d \in Cams : delivered'[d] = IF d = c THEN delivered[d] + 1 ELSE delivered[d]
    BY <1>1, <1>2
  <1>4. delivered'[c] <= MaxWindows
    <2>1. /\ Backend!Cardinality(Backend!Announced) \in Nat
          /\ delivered[c] <= Backend!Cardinality(Backend!Announced)
      BY AnnouncedBound DEF LifeInv
    <2>2. MaxWindows \in Nat /\ delivered[c] \in Nat
      BY <1>2, CamsFacts
    <2> QED BY <1>1, <1>3, <2>1, <2>2
  <1>5. t \in Published /\ t.event = "perception" /\ t.key = c /\ t.n = delivered'[c] /\ t \in Callbacks
    <2>1. <<"perception", c>> \in EventKeys /\ delivered'[c] \in Nat
      BY <1>3 DEF EventKeys, CameraEvents
    <2> QED BY <2>1, DispatchedFacts, CallbackFacts
  <1>6. stage \in Serving \cup {"manager", "stopping"}
    BY <1>1 DEF LifeInv, LTypes, CamerasInv, Stages, Starting, Serving, Quiet, Over
  <1>7. handlers["perception"] # << >>
    <2>1. Has("perception", <<"analyse", c>>)
      BY <1>1, <1>6 DEF LifeInv, SubscribedInv, Wired, Stages, Serving, Quiet
    <2> QED BY <2>1 DEF Has, Within
  <1> HIDE DEF t
  <1>8. Backend!Dispatch(ready, "perception", c, delivered'[c]) = Append(ready, t)
    BY <1>7 DEF Backend!Dispatch, t
  <1>9. CASE pipeline[c] = "running"
    <2>1. ready' = Append(ready, t) /\ UNCHANGED pipeline
      BY <1>8, <1>9 DEF Backend!Emit
    <2>2. Moved(ready, 0, <<t>>, ready')
      BY <1>2, <1>5, <2>1, MovedAppend
    <2> QED BY <1>1, <1>3, <1>4, <1>5, <1>6, <1>9, <2>1, <2>2 DEF t
  <1>10. CASE pipeline[c] = "ending"
    <2>1. ready' = Append(Append(ready, t), Backend!Lifespan) /\ pipeline' = [pipeline EXCEPT ![c] = "ended"]
      BY <1>8, <1>10 DEF Backend!Emit
    <2>2. Moved(ready, 0, <<t, Backend!Lifespan>>, ready')
      BY <1>2, <1>5, <2>1, MovedAppendTwo, CallbackFacts
    <2> QED BY <1>1, <1>3, <1>4, <1>5, <1>6, <1>10, <2>1, <2>2 DEF t
  <1> QED BY <1>1, <1>9, <1>10

LEMMA EmitKeeps ==
  ASSUME Backend!ConstantsAssumption, LifeInv, NEW c \in Cams, Backend!Emit(c)
  PROVE  LifeInv'
  <1> DEFINE t == Backend!Dispatched("perception", c, delivered'[c])
  <1> HIDE DEF t
  <1>1. /\ t \in Published /\ t.event = "perception" /\ t.key = c /\ t.n = delivered[c] + 1
        /\ stage \in Serving \cup {"manager", "stopping"}
        /\ delivered' \in [Cams -> Nat]
        /\ \A d \in Cams : delivered'[d] = IF d = c THEN delivered[d] + 1 ELSE delivered[d]
        /\ delivered'[c] <= MaxWindows
        /\ UNCHANGED <<turns, stage, handlers, latest, overlay, site, reports, database, bucket,
                       writing, stored, lateSend>>
    BY EmitFacts DEF t
  <1>2. /\ t.does = "publish" /\ ~IsLifespan(t) /\ ~TellsClients(t) /\ CalledOf(t)
        /\ \A d \in Cams : IsOf(t, d) => d = c
        /\ Carries(t, c, delivered[c] + 1)
    BY <1>1, CallbackFacts DEF IsLifespan, TellsClients, CalledOf, IsOf, Carries
  <1>3. PICK s : /\ Moved(ready, 0, s, ready') /\ s[1] = t /\ 1 \in DOMAIN s
                 /\ \/ pipeline[c] = "running" /\ UNCHANGED pipeline /\ DOMAIN s = {1}
                    \/ /\ pipeline[c] = "ending" /\ pipeline' = [pipeline EXCEPT ![c] = "ended"]
                       /\ s # << >> /\ DOMAIN s = {1, 2} /\ Len(s) = 2 /\ s[2] = Backend!Lifespan
    <2>1. ASSUME Moved(ready, 0, <<t>>, ready'), pipeline[c] = "running", UNCHANGED pipeline
          PROVE  \E s : /\ Moved(ready, 0, s, ready') /\ s[1] = t /\ 1 \in DOMAIN s
                       /\ \/ pipeline[c] = "running" /\ UNCHANGED pipeline /\ DOMAIN s = {1}
                          \/ /\ pipeline[c] = "ending" /\ pipeline' = [pipeline EXCEPT ![c] = "ended"]
                             /\ s # << >> /\ DOMAIN s = {1, 2} /\ Len(s) = 2 /\ s[2] = Backend!Lifespan
      <3> DEFINE u == <<t>>
      <3>1. u[1] = t /\ 1 \in DOMAIN u /\ DOMAIN u = {1}
        OBVIOUS
      <3> QED BY <2>1, <3>1
    <2>2. ASSUME Moved(ready, 0, <<t, Backend!Lifespan>>, ready'), pipeline[c] = "ending",
                 pipeline' = [pipeline EXCEPT ![c] = "ended"]
          PROVE  \E s : /\ Moved(ready, 0, s, ready') /\ s[1] = t /\ 1 \in DOMAIN s
                       /\ \/ pipeline[c] = "running" /\ UNCHANGED pipeline /\ DOMAIN s = {1}
                          \/ /\ pipeline[c] = "ending" /\ pipeline' = [pipeline EXCEPT ![c] = "ended"]
                             /\ s # << >> /\ DOMAIN s = {1, 2} /\ Len(s) = 2 /\ s[2] = Backend!Lifespan
      <3> DEFINE u == <<t, Backend!Lifespan>>
      <3>1. u[1] = t /\ 1 \in DOMAIN u /\ u # << >> /\ DOMAIN u = {1, 2} /\ Len(u) = 2
            /\ u[2] = Backend!Lifespan
        OBVIOUS
      <3> QED BY <2>2, <3>1
    <2> QED BY <2>1, <2>2, EmitFacts DEF t
  <1>4. SafeInv'
    <2>1. \A k, n : Carried(ready, k, n) => Carried(ready', k, n)
      BY <1>3, Handed
    <2>2. \A k, n : Safe(k, n) => Safe(k, n)'
      BY <1>1, <2>1, HistoryStill DEF Safe, Carried
    <2>7. PICK m : m = delivered[c] + 1
      OBVIOUS
    <2>3. Safe(c, m)'
      <3>1. \E j \in DOMAIN ready' : ready'[j] = t
        BY <1>3, EntriesMoved
      <3>2. Carries(t, c, m)
        BY <1>2, <2>7
      <3> QED BY <3>1, <3>2 DEF Safe
    <2>4. \A d \in Cams : \A n \in 1 .. delivered'[d] : n \in 1 .. delivered[d] \/ (d = c /\ n = m)
      BY <1>1, <2>7 DEF LifeInv, LTypes
    <2>5. \A d \in Cams : \A n \in 1 .. delivered'[d] : Safe(d, n)'
      BY <2>2, <2>3, <2>4 DEF LifeInv, SafeInv
    <2>6. \A n \in 1 .. Len(reports') : Safe("site", n)'
      BY <1>1, <2>2 DEF LifeInv, SafeInv
    <2> QED BY <2>5, <2>6 DEF SafeInv
  <1>5. HistoryInv' /\ BoundsInv'
    BY <1>1 DEF LifeInv, HistoryInv, BoundsInv, LTypes
  <1>6. ready' \in Seq(Callbacks)
    BY <1>3 DEF Moved
  <1>7. CASE pipeline[c] = "running" /\ UNCHANGED pipeline /\ DOMAIN s = {1}
    <2>1. \A i \in DOMAIN s : s[i] = t
      BY <1>3, <1>7
    <2>2. LTypes'
      BY <1>1, <1>6, <1>7 DEF LifeInv, LTypes
    <2>3. CamerasInv'
      <3>1. \A i : Stopping(i) <=> Stopping(i)'
        BY <1>7 DEF Stopping
      <3> QED BY <1>1, <1>7, <3>1 DEF LifeInv, CamerasInv, Starting, Serving, Quiet, Over
    <2>4. LoopInv'
      <3>1. Elsewhere' <=> Elsewhere
        BY <1>1, <1>7 DEF Elsewhere
      <3>2. stage \notin Starting \cup {"failed"} \cup Drained
        BY <1>1 DEF Serving, Starting, Drained
      <3> QED BY <1>1, <1>2, <1>3, <2>1, <3>1, <3>2, OutsideKeepsLoop
    <2>5. SubscribedInv'
      BY <1>1, <1>7 DEF LifeInv, SubscribedInv, Has
    <2>6. CalledInv'
      BY <1>2, <1>3, <2>1, KeepsCalled
    <2>7. FlightInv'
      <3>1. \A d \in Cams : pipeline[d] = "ended" => \A i \in DOMAIN s : ~IsOf(s[i], d)
        BY <1>2, <1>7, <2>1
      <3> QED BY <1>1, <1>2, <1>3, <1>7, <2>1, <3>1, OutsideKeepsFlight
    <2>8. GoneInv'
      BY <1>2, <1>3, <1>7, <2>1, KeepsGone
    <2>9. QuietInv'
      BY <1>1, <1>2, <1>3, <2>1, KeepsQuiet
    <2> QED BY <1>4, <1>5, <2>2, <2>3, <2>4, <2>5, <2>6, <2>7, <2>8, <2>9 DEF LifeInv
  <1>8. CASE /\ pipeline[c] = "ending" /\ pipeline' = [pipeline EXCEPT ![c] = "ended"]
             /\ s # << >> /\ DOMAIN s = {1, 2} /\ Len(s) = 2 /\ s[2] = Backend!Lifespan
    <2>1. /\ \A i \in DOMAIN s : IsLifespan(s[i]) <=> i = Len(s)
          /\ \A i \in DOMAIN s : ~TellsClients(s[i]) /\ CalledOf(s[i]) /\ \A d \in Cams : IsOf(s[i], d) => d = c
      BY <1>2, <1>3, <1>8, CallbackFacts DEF IsLifespan, TellsClients, CalledOf, IsOf
    <2>2. CamerasInv' /\ LoopInv' /\ SubscribedInv' /\ CalledInv' /\ FlightInv' /\ GoneInv' /\ QuietInv'
      BY <1>1, <1>3, <1>8, <2>1, EndKeeps
    <2>3. LTypes'
      <3>1. pipeline' \in [Cams -> {"off", "running", "ending", "ended", "stopped"}]
        BY <1>1, <1>8, EndingFacts
      <3> QED BY <1>1, <1>6, <3>1 DEF LifeInv, LTypes
    <2> QED BY <1>4, <1>5, <2>2, <2>3 DEF LifeInv
  <1> QED BY <1>3, <1>7, <1>8

LEMMA SiteUpdateKeeps ==
  ASSUME Backend!ConstantsAssumption, LifeInv, Backend!SiteUpdate
  PROVE  LifeInv'
  <1> DEFINE t == Backend!Dispatched("site", "site", Len(reports) + 1)
  <1>1. /\ site = "running" /\ Len(reports) < MaxReports /\ reports' = Append(reports, pipeline)
        /\ ready' = Backend!Dispatch(ready, "site", "site", Len(reports) + 1)
        /\ UNCHANGED <<turns, stage, handlers, pipeline, delivered, latest, overlay, site, database,
                       bucket, writing, stored, lateSend>>
    BY DEF Backend!SiteUpdate, Backend!cameraVars, Backend!historyVars
  <1>2. /\ ready \in Seq(Callbacks) /\ reports \in Seq([Cams -> {"running"}]) /\ Len(reports) \in Nat
        /\ pipeline \in [Cams -> {"off", "running", "ending", "ended", "stopped"}]
    BY DEF LifeInv, LTypes
  <1>3. stage \in Serving /\ \A c \in Cams : pipeline[c] = "running"
    BY <1>1 DEF LifeInv, LTypes, CamerasInv, Stages, Serving
  <1>4. reports' \in Seq([Cams -> {"running"}]) /\ Len(reports') = Len(reports) + 1
    <2>1. pipeline \in [Cams -> {"running"}]
      BY <1>2, <1>3
    <2> QED BY <1>1, <1>2, <2>1
  <1>5. handlers["site"] # << >>
    <2>1. Has("site", Backend!Recorder)
      BY <1>3 DEF LifeInv, SubscribedInv, Wired, Stages, Serving
    <2> QED BY <2>1 DEF Has, Within
  <1>6. /\ t \in Published /\ t \in Callbacks /\ t.event = "site" /\ t.key = "site"
        /\ t.n = Len(reports) + 1
    <2>1. <<"site", "site">> \in EventKeys /\ Len(reports) + 1 \in Nat
      BY <1>2 DEF EventKeys
    <2> QED BY <2>1, DispatchedFacts, CallbackFacts
  <1>7. ready' = Append(ready, t)
    BY <1>1, <1>5 DEF Backend!Dispatch
  <1> HIDE DEF t
  <1>8. Moved(ready, 0, <<t>>, ready')
    BY <1>2, <1>6, <1>7, MovedAppend
  <1> DEFINE s == <<t>>
  <1>9. s[1] = t /\ DOMAIN s = {1}
    OBVIOUS
  <1>10. Moved(ready, 0, s, ready')
    BY <1>8
  <1> HIDE DEF s
  <1>11. PICK m : m = Len(reports) + 1
    OBVIOUS
  <1>12. /\ ~IsLifespan(t) /\ ~TellsClients(t) /\ CalledOf(t) /\ \A c \in Cams : ~IsOf(t, c)
         /\ Carries(t, "site", m)
    BY <1>6, <1>11, CallbackFacts, CamsFacts DEF IsLifespan, TellsClients, CalledOf, IsOf, Carries
  <1>13. \A i \in DOMAIN s : s[i] = t
    BY <1>9
  <1>14. ready' \in Seq(Callbacks)
    BY <1>10 DEF Moved
  <1>LTypes. LTypes'
    BY <1>1, <1>4, <1>14 DEF LifeInv, LTypes
  <1>CamerasInv. CamerasInv'
    <2>1. \A i : Stopping(i) <=> Stopping(i)'
      BY <1>1 DEF Stopping
    <2> QED BY <1>1, <1>3, <2>1 DEF LifeInv, CamerasInv, Starting, Serving, Quiet, Over
  <1>LoopInv. LoopInv'
    <2>1. Elsewhere' <=> Elsewhere
      BY <1>1 DEF Elsewhere
    <2>2. stage \notin Starting \cup {"failed"} \cup Drained
      BY <1>3 DEF Serving, Starting, Drained
    <2> QED BY <1>1, <1>10, <1>12, <1>13, <2>1, <2>2, OutsideKeepsLoop
  <1>SubscribedInv. SubscribedInv'
    BY <1>1 DEF LifeInv, SubscribedInv, Has
  <1>CalledInv. CalledInv'
    BY <1>10, <1>12, <1>13, KeepsCalled
  <1>FlightInv. FlightInv'
    BY <1>1, <1>3 DEF FlightInv
  <1>GoneInv. GoneInv'
    BY <1>1, <1>3 DEF GoneInv
  <1>QuietInv. QuietInv'
    BY <1>1, <1>10, <1>12, <1>13, KeepsQuiet
  <1>SafeInv. SafeInv'
    <2>1. \A k, n : Safe(k, n) => Safe(k, n)'
      BY <1>1, <1>10, Handed, HistoryStill DEF Safe, Carried
    <2>2. Safe("site", m)'
      <3>1. \E j \in DOMAIN ready' : ready'[j] = t
        BY <1>9, <1>10, EntriesMoved
      <3> QED BY <1>12, <3>1 DEF Safe
    <2>3. \A n \in 1 .. Len(reports') : n \in 1 .. Len(reports) \/ n = m
      BY <1>2, <1>4, <1>11
    <2>4. \A n \in 1 .. Len(reports') : Safe("site", n)'
      BY <2>1, <2>2, <2>3 DEF LifeInv, SafeInv
    <2>5. \A c \in Cams : \A n \in 1 .. delivered'[c] : Safe(c, n)'
      BY <1>1, <2>1 DEF LifeInv, SafeInv
    <2> QED BY <2>4, <2>5 DEF SafeInv
  <1>HistoryInv. HistoryInv'
    BY <1>1 DEF LifeInv, HistoryInv
  <1>BoundsInv. BoundsInv'
    <2>1. Len(reports') <= MaxReports
      BY <1>1, <1>2, <1>4, CamsFacts
    <2> QED BY <1>1, <2>1 DEF LifeInv, BoundsInv
  <1> QED
    BY <1>LTypes, <1>CamerasInv, <1>LoopInv, <1>SubscribedInv, <1>CalledInv, <1>FlightInv,
       <1>GoneInv,
       <1>QuietInv, <1>SafeInv, <1>HistoryInv, <1>BoundsInv DEF LifeInv

\* The lifespan is woken by something that leaves the cameras alone.
LEMMA WakeKeeps ==
  ASSUME Backend!ConstantsAssumption, LifeInv, ready' = Append(ready, Backend!Lifespan),
         UNCHANGED <<turns, pipeline>>, ~Present(ready),
         \A c \in Cams : pipeline[c] # "ended"
  PROVE  /\ Once(ready') /\ Present(ready') /\ ready' \in Seq(Callbacks)
         /\ CalledInv' /\ FlightInv' /\ GoneInv'
         /\ \A k, n : Carried(ready, k, n) => Carried(ready', k, n)
         /\ (\A i \in DOMAIN ready : ~TellsClients(ready[i])) =>
                \A i \in DOMAIN ready' : ~TellsClients(ready'[i])
         /\ (\A i \in DOMAIN ready : IsLifespan(ready[i])) =>
                \A i \in DOMAIN ready' : IsLifespan(ready'[i])
  <1> DEFINE s == <<Backend!Lifespan>>
  <1>1. Moved(ready, 0, s, ready')
    BY MovedAppend, CallbackFacts DEF LifeInv, LTypes
  <1>2. s # << >> /\ DOMAIN s = {1} /\ Len(s) = 1 /\ s[1] = Backend!Lifespan
    OBVIOUS
  <1> HIDE DEF s
  <1>3. \A i \in DOMAIN s : /\ IsLifespan(s[i]) /\ i = Len(s) /\ ~TellsClients(s[i])
                            /\ CalledOf(s[i]) /\ \A c \in Cams : ~IsOf(s[i], c)
    BY <1>2, CallbackFacts DEF IsLifespan, TellsClients, CalledOf, IsOf
  <1>4. Once(ready') /\ Present(ready')
    BY <1>1, <1>2, <1>3, WakesMoved
  <1>5. CalledInv'
    BY <1>1, <1>3, KeepsCalled
  <1>6. GoneInv'
    BY <1>1, <1>3, KeepsGone
  <1>7. FlightInv'
    BY DEF FlightInv
  <1>8. \A k, n : Carried(ready, k, n) => Carried(ready', k, n)
    BY <1>1, Handed
  <1>9. ready' \in Seq(Callbacks)
    BY <1>1 DEF Moved
  <1>12. \A i \in DOMAIN ready' : \/ \E j \in DOMAIN ready : ready'[i] = ready[j]
                                 \/ \E j \in DOMAIN s : ready'[i] = s[j]
    <2>1. \A r : Moved(ready, 0, s, r) =>
              \A i \in DOMAIN r : \/ \E j \in DOMAIN ready : r[i] = ready[j]
                                 \/ \E j \in DOMAIN s : r[i] = s[j]
      BY EntriesMoved
    <2> QED BY <1>1, <2>1, Zenon
  <1>10. (\A i \in DOMAIN ready : ~TellsClients(ready[i])) =>
                \A i \in DOMAIN ready' : ~TellsClients(ready'[i])
    BY <1>3, <1>12
  <1>11. (\A i \in DOMAIN ready : IsLifespan(ready[i])) =>
                \A i \in DOMAIN ready' : IsLifespan(ready'[i])
    BY <1>3, <1>12
  <1> QED BY <1>4, <1>5, <1>6, <1>7, <1>8, <1>9, <1>10, <1>11

LEMMA ShutdownKeeps ==
  ASSUME Backend!ConstantsAssumption, LifeInv, Backend!Shutdown
  PROVE  LifeInv'
  <1>1. /\ stage = "serving" /\ stage' = "publisher" /\ ready' = Append(ready, Backend!Lifespan)
        /\ UNCHANGED <<turns, handlers, pipeline, delivered, latest, overlay, site, reports, database,
                       bucket, writing, stored, lateSend>>
    BY DEF Backend!Shutdown, Backend!cameraVars, Backend!historyVars
  <1>2. ~Present(ready) /\ \A c \in Cams : pipeline[c] = "running"
    BY <1>1 DEF LifeInv, LoopInv, Elsewhere, CamerasInv, Serving
  <1>3. /\ Once(ready') /\ Present(ready') /\ ready' \in Seq(Callbacks)
        /\ CalledInv' /\ FlightInv' /\ GoneInv'
        /\ \A k, n : Carried(ready, k, n) => Carried(ready', k, n)
    BY <1>1, <1>2, WakeKeeps
  <1>4. LTypes'
    BY <1>1, <1>3 DEF LifeInv, LTypes, Stages, Serving
  <1>5. CamerasInv'
    BY <1>1 DEF LifeInv, CamerasInv, Starting, Serving, Quiet, Over
  <1>6. LoopInv'
    <2>1. ~Elsewhere'
      BY <1>1 DEF Elsewhere
    <2> QED BY <1>1, <1>3, <2>1 DEF LoopInv, Starting, Drained
  <1>7. SubscribedInv'
    BY <1>1 DEF LifeInv, SubscribedInv, Has, Wired, Stages, Serving, Quiet, Over
  <1>8. QuietInv'
    BY <1>1 DEF QuietInv, Quiet, Over
  <1>9. SafeInv'
    BY <1>1, <1>3, HistoryStill, SafeStays DEF LifeInv
  <1>10. HistoryInv' /\ BoundsInv'
    BY <1>1 DEF LifeInv, HistoryInv, BoundsInv, Starting
  <1> QED BY <1>3, <1>4, <1>5, <1>6, <1>7, <1>8, <1>9, <1>10 DEF LifeInv

LEMMA WriteEndsKeeps ==
  ASSUME Backend!ConstantsAssumption, LifeInv, Backend!WriteEnds
  PROVE  LifeInv'
  <1>1. PICK w \in writing :
            /\ writing' = writing \ {w}
            /\ stored' = (IF database = "open" THEN stored \cup w ELSE stored)
            /\ ready' = (IF stage = "history" /\ writing = {w} THEN Append(ready, Backend!Lifespan) ELSE ready)
            /\ UNCHANGED <<turns, stage, handlers, pipeline, delivered, latest, overlay, site, reports,
                           database, bucket, lateSend>>
    BY DEF Backend!WriteEnds, Backend!cameraVars
  <1>2. stage \notin Starting \cup {"failed", "closed"} /\ database = "open"
    BY <1>1 DEF LifeInv, HistoryInv, Starting
  <1>3. \A k, n : Kept(k, n) => Kept(k, n)'
    <2> SUFFICES ASSUME NEW k, NEW n, Kept(k, n) PROVE Kept(k, n)'
      OBVIOUS
    <2> DEFINE x == <<k, n>>
    <2>1. x \in stored \/ x \in bucket[k] \/ \E u \in writing : x \in u
      BY DEF Kept
    <2>2. stored' = stored \cup w
      BY <1>1, <1>2
    <2> HIDE DEF x
    <2>3. x \in stored' \/ x \in bucket'[k] \/ \E u \in writing' : x \in u
      BY <1>1, <2>1, <2>2
    <2> QED BY <2>3 DEF Kept, x
  <1>4. CASE stage = "history" /\ writing = {w}
    <2>1. /\ ~Present(ready) /\ ready' = Append(ready, Backend!Lifespan)
          /\ \A c \in Cams : pipeline[c] = "stopped"
          /\ writing' = {}
      BY <1>1, <1>4 DEF LifeInv, LoopInv, Elsewhere, CamerasInv, Over
    <2>2. /\ Once(ready') /\ Present(ready') /\ ready' \in Seq(Callbacks)
          /\ CalledInv' /\ FlightInv' /\ GoneInv'
          /\ \A k, n : Carried(ready, k, n) => Carried(ready', k, n)
          /\ (\A i \in DOMAIN ready : ~TellsClients(ready[i])) =>
                \A i \in DOMAIN ready' : ~TellsClients(ready'[i])
          /\ (\A i \in DOMAIN ready : IsLifespan(ready[i])) =>
                \A i \in DOMAIN ready' : IsLifespan(ready'[i])
      BY <1>1, <2>1, WakeKeeps
    <2>3. LTypes'
      BY <1>1, <2>2 DEF LifeInv, LTypes
    <2>4. CamerasInv'
      BY <1>1, <1>4, <2>1 DEF LifeInv, CamerasInv, Starting, Serving, Quiet, Over
    <2>5. LoopInv'
      <3>1. ~Elsewhere'
        BY <1>1, <1>4, <2>1 DEF Elsewhere
      <3> QED BY <1>1, <1>4, <2>2, <3>1 DEF LifeInv, LoopInv, Drained
    <2>6. SubscribedInv'
      BY <1>1 DEF LifeInv, SubscribedInv, Has
    <2>7. QuietInv'
      BY <1>1, <1>4, <2>2 DEF LifeInv, QuietInv, Quiet, Over
    <2>8. SafeInv'
      BY <1>1, <1>3, <2>2, SafeStays DEF LifeInv
    <2>9. HistoryInv' /\ BoundsInv'
      BY <1>1, <1>2 DEF LifeInv, HistoryInv, BoundsInv
    <2> QED BY <2>2, <2>3, <2>4, <2>5, <2>6, <2>7, <2>8, <2>9 DEF LifeInv
  <1>5. CASE ~(stage = "history" /\ writing = {w})
    <2>1. ready' = ready
      BY <1>1, <1>5
    <2>2. LTypes'
      BY <1>1, <2>1 DEF LifeInv, LTypes
    <2>3. CamerasInv'
      <3>1. \A i : Stopping(i) <=> Stopping(i)'
        BY <1>1 DEF Stopping
      <3> QED BY <1>1, <3>1 DEF LifeInv, CamerasInv
    <2>4. LoopInv'
      <3>1. stage = "history" => writing # {} /\ writing' # {}
        BY <1>1, <1>5
      <3>2. Elsewhere' <=> Elsewhere
        BY <1>1, <3>1 DEF Elsewhere
      <3> QED BY <1>1, <2>1, <3>2 DEF LifeInv, LoopInv
    <2>5. SubscribedInv'
      BY <1>1 DEF LifeInv, SubscribedInv, Has
    <2>6. CalledInv' /\ GoneInv' /\ QuietInv'
      BY <1>1, <2>1 DEF LifeInv, CalledInv, GoneInv, QuietInv
    <2>7. FlightInv'
      BY <1>1, <2>1 DEF LifeInv, FlightInv, Used
    <2>8. SafeInv'
      BY <1>1, <1>3, <2>1, SafeStays DEF LifeInv
    <2>9. HistoryInv' /\ BoundsInv'
      BY <1>1, <1>2 DEF LifeInv, HistoryInv, BoundsInv
    <2> QED BY <2>2, <2>3, <2>4, <2>5, <2>6, <2>7, <2>8, <2>9 DEF LifeInv
  <1> QED BY <1>4, <1>5

-----------------------------------------------------------------------------
(* Events on their way.                                                    *)
LEMMA WorkFacts ==
  ASSUME LifeInv, NEW t, ready # << >>, Head(ready) = t, t.does # "lifespan"
  PROVE  /\ ready \in Seq(Callbacks) /\ 1 \in DOMAIN ready /\ t = ready[1] /\ t \in Callbacks
         /\ ~IsLifespan(t)
         /\ stage \notin Starting \cup {"failed"} \cup Drained
         /\ stage \in Wired \ {"history", "closed"}
         /\ \A c \in Cams : IsOf(t, c) => pipeline[c] # "stopped"
         /\ CalledOf(t)
  <1>1. /\ ready \in Seq(Callbacks) /\ 1 \in DOMAIN ready /\ t = ready[1] /\ t \in Callbacks
    BY MovedTail DEF LifeInv, LTypes
  <1>2. ~IsLifespan(t)
    BY <1>1, CallbackFacts
  <1>3. stage \notin Starting \cup {"failed"} \cup Drained /\ stage \in Stages
    BY <1>1, <1>2 DEF LifeInv, LoopInv, LTypes
  <1>4. stage \in Wired \ {"history", "closed"}
    BY <1>3 DEF Wired, Starting, Drained
  <1>5. \A c \in Cams : IsOf(t, c) => pipeline[c] # "stopped"
    BY <1>1 DEF LifeInv, GoneInv
  <1>6. CalledOf(t)
    BY <1>1 DEF LifeInv, CalledInv, CalledOf
  <1> QED BY <1>1, <1>2, <1>3, <1>4, <1>5, <1>6

\* An event is a task's: its key is a camera's, or the site's.
LEMMA KeyFacts ==
  ASSUME Backend!ConstantsAssumption, NEW t \in Published \cup Handled
  PROVE  /\ t.event = "perception" => t.key \in Cams
         /\ t.event = "analysis" => t.key \in Cams
         /\ t.event \in Backend!Events /\ t.key \in Keys /\ t.n \in Nat
         /\ \A c \in Cams : IsOf(t, c) => t.event \in {"perception", "analysis"}
  <1>1. <<t.event, t.key>> \in EventKeys /\ t.n \in Nat
    BY CallbackFacts
  <1>2. \/ t.event \in {"perception", "analysis"} /\ t.key \in Cams
        \/ t.event = "site" /\ t.key = "site"
    BY <1>1 DEF EventKeys, CameraEvents
  <1>3. "site" \notin Cams /\ "site" \in Keys /\ Cams \subseteq Keys
    BY CamsFacts DEF Keys, Cams, Backend!Keys
  <1> QED BY <1>1, <1>2, <1>3 DEF IsOf, Backend!Events

LEMMA PublishKeeps ==
  ASSUME Backend!ConstantsAssumption, LifeInv, Backend!Publish
  PROVE  LifeInv'
  <1> DEFINE t == Head(ready)
             h == handlers[t.event]
             s == [i \in DOMAIN h |-> Backend!Handling(h[i], t)]
  <1>1. /\ ready # << >> /\ t.does = "publish" /\ ready' = Tail(ready) \o s
        /\ UNCHANGED <<turns, stage, handlers, pipeline, delivered, latest, overlay, site, reports,
                       database, bucket, writing, stored, lateSend>>
    BY DEF Backend!Publish, Backend!cameraVars, Backend!historyVars
  <1>s. DOMAIN s = DOMAIN h /\ \A i \in DOMAIN h : s[i] = Backend!Handling(h[i], t)
    OBVIOUS
  <1>sd. s = [i \in DOMAIN h |-> Backend!Handling(h[i], t)]
    OBVIOUS
  <1> HIDE DEF s
  <1> HIDE DEF t
  <1>3. /\ ready \in Seq(Callbacks) /\ 1 \in DOMAIN ready /\ t = ready[1] /\ t \in Callbacks
        /\ ~IsLifespan(t)
        /\ stage \notin Starting \cup {"failed"} \cup Drained
        /\ stage \in Wired \ {"history", "closed"}
        /\ \A c \in Cams : IsOf(t, c) => pipeline[c] # "stopped"
    <2>1. t.does # "lifespan" /\ Head(ready) = t
      BY <1>1 DEF t
    <2> QED BY <1>1, <2>1, WorkFacts
  <1>4. t \in Published
    BY <1>1, <1>3, CallbackFacts
  <1>5. /\ t.event = "perception" => t.key \in Cams
        /\ t.event = "analysis" => t.key \in Cams
        /\ t.event \in Backend!Events /\ t.key \in Keys /\ t.n \in Nat
    BY <1>4, KeyFacts
  <1>6. h \in Seq(HandlersOf) /\ DOMAIN h = 1 .. Len(h) /\ Len(h) \in Nat
    BY <1>5, LenProperties DEF LifeInv, LTypes
  <1>7. \A i \in DOMAIN h : h[i] \in HandlersOf
    BY <1>6, ElementOfSeq
  <1> HIDE DEF h
  <1>8. \A i \in DOMAIN s : /\ s[i] \in Handled /\ s[i].handler = h[i] /\ s[i].event = t.event
                            /\ s[i].key = t.key /\ s[i].n = t.n /\ s[i].does = "handle"
                            /\ s[i] \in Callbacks /\ ~IsLifespan(s[i])
    BY <1>s, <1>4, <1>7, HandlingFacts, CallbackFacts
  <1>9. s \in Seq(Callbacks)
    BY <1>s, <1>sd, <1>6, <1>8
  <1>10. Moved(ready, 1, s, ready')
    BY <1>1, <1>3, <1>9, MovedTailConcat
  <1>11. ~IsLifespan(ready[1]) /\ \A i \in DOMAIN s : ~IsLifespan(s[i])
    BY <1>3, <1>8
  <1>LTypes. LTypes'
    <2>1. ready' \in Seq(Callbacks)
      BY <1>10 DEF Moved
    <2> QED BY <1>1, <2>1 DEF LifeInv, LTypes
  <1>CamerasInv. CamerasInv'
    <2>1. \A i : Stopping(i) <=> Stopping(i)'
      BY <1>1 DEF Stopping
    <2> QED BY <1>1, <2>1 DEF LifeInv, CamerasInv
  <1>LoopInv. LoopInv'
    <2>1. Elsewhere' <=> Elsewhere
      BY <1>1 DEF Elsewhere
    <2> QED BY <1>1, <1>3, <1>10, <1>11, <2>1, OutsideKeepsLoop
  <1>SubscribedInv. SubscribedInv'
    BY <1>1 DEF LifeInv, SubscribedInv, Has
  <1>CalledInv. CalledInv'
    <2>1. ASSUME NEW i \in DOMAIN s PROVE CalledOf(s[i])
      <3>1. Has(t.event, h[i])
        BY <1>s DEF Has, Within, h
      <3>2. h[i] \in HandlersOf
        BY <1>s, <1>7
      <3>3. h[i][1] = "analyse" => t.event = "perception"
        <4> HAVE h[i][1] = "analyse"
        <4>1. PICK c \in Cams : h[i] = <<"analyse", c>>
          BY <3>2 DEF HandlersOf, Backend!Publisher, Backend!Recorder
        <4> QED BY <3>1, <4>1, <1>5 DEF LifeInv, SubscribedInv, Backend!Events
      <3>4. h[i][1] = "draw" => t.event = "analysis"
        <4> HAVE h[i][1] = "draw"
        <4>1. PICK c \in Cams : h[i] = <<"draw", c>>
          BY <3>2 DEF HandlersOf, Backend!Publisher, Backend!Recorder
        <4> QED BY <3>1, <4>1, <1>5 DEF LifeInv, SubscribedInv, Backend!Events
      <3> QED BY <1>8, <3>3, <3>4 DEF CalledOf
    <2> QED BY <1>10, <2>1, KeepsCalled
  <1>FlightInv. FlightInv'
    <2>1. ASSUME NEW c \in Cams, NEW i \in DOMAIN s, IsOf(s[i], c)
          PROVE  IsOf(ready[1], c) /\ Rank(s[i]) = Rank(ready[1]) + 1
      <3>1. IsOf(t, c)
        BY <2>1, <1>3, <1>8 DEF IsOf
      <3>2. t.event \in {"perception", "analysis"}
        BY <3>1, <1>4, KeyFacts
      <3> QED BY <3>1, <3>2, <1>1, <1>3, <1>8 DEF Rank
    <2> QED BY <1>1, <1>10, <1>11, <2>1, KeepsFlight
  <1>GoneInv. GoneInv'
    <2>1. \A c \in Cams : pipeline[c] = "stopped" => \A i \in DOMAIN s : ~IsOf(s[i], c)
      BY <1>3, <1>8 DEF IsOf
    <2> QED BY <1>1, <1>10, <2>1, KeepsGone
  <1>QuietInv. QuietInv'
    <2>1. stage \in Quiet \cup {"site"} => \A i \in DOMAIN s : ~TellsClients(s[i])
      <3> HAVE stage \in Quiet \cup {"site"}
      <3>1. ~Has(t.event, Backend!Publisher)
        BY <1>5 DEF LifeInv, SubscribedInv
      <3>2. \A i \in DOMAIN h : h[i] # Backend!Publisher
        BY <3>1 DEF Has, Within, h
      <3> QED BY <1>s, <1>8, <3>2 DEF TellsClients
    <2> QED BY <1>1, <1>10, <1>11, <2>1, KeepsQuiet
  <1>SafeInv. SafeInv'
    <2>1. ASSUME NEW k, NEW n, Carries(t, k, n) PROVE Carried(ready', k, n)
      <3>1. t.key = k /\ t.n = n
        BY <2>1 DEF Carries
      <3>2. \E g : Has(t.event, g) /\ g \in {<<"analyse", k>>, Backend!Recorder}
        <4>1. CASE t.event = "perception"
          <5>1. k \in Cams /\ IsOf(t, k)
            BY <1>3, <1>5, <3>1, <4>1 DEF IsOf
          <5> QED BY <1>3, <4>1, <5>1 DEF LifeInv, SubscribedInv
        <4>2. CASE t.event \in {"analysis", "site"}
          BY <1>3, <4>2 DEF LifeInv, SubscribedInv
        <4> QED BY <1>5, <4>1, <4>2 DEF Backend!Events
      <3>3. PICK i \in DOMAIN h : h[i] \in {<<"analyse", k>>, Backend!Recorder}
        BY <3>2 DEF Has, Within, h
      <3>4. i \in DOMAIN s /\ Carries(s[i], k, n)
        BY <1>s, <1>8, <3>1, <3>3 DEF Carries
      <3>5. PICK j \in DOMAIN ready' : ready'[j] = s[i]
        BY <1>10, <3>4, EntriesMoved
      <3> QED BY <3>4, <3>5 DEF Carried
    <2>2. \A k, n : Carried(ready, k, n) => Carried(ready', k, n)
      BY <1>3, <1>10, <2>1, KeepsCarried
    <2> QED BY <1>1, <2>2, HistoryStill, SafeStays DEF LifeInv
  <1>HistoryInv. HistoryInv'
    BY <1>1 DEF LifeInv, HistoryInv
  <1>BoundsInv. BoundsInv'
    BY <1>1 DEF LifeInv, BoundsInv
  <1> QED
    BY <1>LTypes, <1>CamerasInv, <1>LoopInv, <1>SubscribedInv, <1>CalledInv, <1>FlightInv,
       <1>GoneInv,
       <1>QuietInv, <1>SafeInv, <1>HistoryInv, <1>BoundsInv DEF LifeInv

\* What a handler leaves behind: an analysis to announce, or nothing.
Leaves(t, s) ==
    /\ Moved(ready, 1, s, ready')
    /\ \/ DOMAIN s = {}
       \/ /\ DOMAIN s = {1} /\ t.handler = <<"analyse", t.key>>
          /\ s[1] = Backend!Dispatched("analysis", t.key, t.n) /\ t.key \in Cams
    /\ UNCHANGED <<turns, stage, handlers, pipeline, delivered, site, reports, database, stored>>
    /\ \A c \in Cams : pipeline[c] = "stopped" => latest'[c] = latest[c] /\ overlay'[c] = overlay[c]
    /\ DOMAIN latest' = Cams /\ DOMAIN overlay' = Cams /\ lateSend' = FALSE
    /\ DOMAIN bucket' = Keys
    /\ \A k \in Keys, n \in Nat : Kept(k, n) => Kept(k, n)'
    /\ \A k \in Keys, n \in Nat : Carries(t, k, n) =>
         Kept(k, n)' \/ (t.handler = <<"analyse", t.key>> /\ DOMAIN s = {1} /\ t.key = k /\ t.n = n)

LEMMA HandleFacts ==
  ASSUME Backend!ConstantsAssumption, LifeInv, Backend!Handle
  PROVE  \E t \in Handled : \E s :
            ready # << >> /\ t = Head(ready) /\ t.does # "lifespan" /\ Leaves(t, s)
  <1> DEFINE t == Head(ready)
  <1>1. /\ ready # << >> /\ t.does = "handle"
        /\ UNCHANGED <<turns, stage, handlers, pipeline, delivered, site, reports>>
    BY DEF Backend!Handle
  <1>2. \/ t.handler = <<"analyse", t.key>> /\ Backend!Analyses(Tail(ready), t.key, t.n)
        \/ t.handler = <<"draw", t.key>> /\ Backend!Draws(Tail(ready), t.key, t.n)
        \/ t.handler = Backend!Publisher /\ Backend!Sends(Tail(ready))
        \/ t.handler = Backend!Recorder /\ Backend!Records(Tail(ready), t.key, t.n)
        \/ /\ t.handler[2] \notin {t.key, "all"} /\ ready' = Tail(ready)
           /\ UNCHANGED <<latest, overlay, database, bucket, writing, stored, lateSend>>
    BY DEF Backend!Handle, Backend!historyVars
  <1> HIDE DEF t
  <1>3. /\ ready \in Seq(Callbacks) /\ 1 \in DOMAIN ready /\ t = ready[1] /\ t \in Callbacks
        /\ ~IsLifespan(t)
        /\ stage \notin Starting \cup {"failed"} \cup Drained
        /\ stage \in Wired \ {"history", "closed"}
        /\ \A c \in Cams : IsOf(t, c) => pipeline[c] # "stopped"
        /\ CalledOf(t)
    <2>1. t.does # "lifespan" /\ Head(ready) = t
      BY <1>1 DEF t
    <2> QED BY <1>1, <2>1, WorkFacts
  <1>4. t \in Handled /\ t.handler \in HandlersOf
    BY <1>1, <1>3, CallbackFacts
  <1>5. /\ t.event = "perception" => t.key \in Cams
        /\ t.event = "analysis" => t.key \in Cams
        /\ t.event \in Backend!Events /\ t.key \in Keys /\ t.n \in Nat
    BY <1>4, KeyFacts
  <1>6. /\ DOMAIN latest = Cams /\ DOMAIN overlay = Cams /\ DOMAIN bucket = Keys /\ lateSend = FALSE
    BY DEF LifeInv, LTypes
  <1>7. Moved(ready, 1, << >>, Tail(ready)) /\ DOMAIN << >> = {}
    BY <1>1, <1>3, MovedTail
  <1>8. \A k, n : Carries(t, k, n) => t.key = k /\ t.n = n /\ t.handler \in {<<"analyse", k>>, Backend!Recorder}
    BY <1>1 DEF Carries
  <1>9. \A k \in Cams : t.key = k => pipeline[k] # "stopped"
    BY <1>3 DEF IsOf
  <1>10. ASSUME t.handler = <<"analyse", t.key>> /\ Backend!Analyses(Tail(ready), t.key, t.n)
          PROVE  \E s : Leaves(t, s)
    <2> DEFINE u == Backend!Dispatched("analysis", t.key, t.n)
               s == <<u>>
    <2>1. /\ latest' = [latest EXCEPT ![t.key] = t.n]
          /\ ready' = Backend!Dispatch(Tail(ready), "analysis", t.key, t.n)
          /\ UNCHANGED <<overlay, database, bucket, writing, stored, lateSend>>
      BY <1>10 DEF Backend!Analyses, Backend!historyVars
    <2>2. t.event = "perception"
      <3>1. t.handler[1] = "analyse"
        BY <1>10
      <3> QED BY <1>1, <1>3, <3>1 DEF CalledOf
    <2>3. t.key \in Cams
      BY <1>5, <2>2
    <2>4. handlers["analysis"] # << >>
      <3>1. Has("analysis", Backend!Recorder)
        BY <1>3 DEF LifeInv, SubscribedInv
      <3> QED BY <3>1 DEF Has, Within
    <2>5. u \in Callbacks
      <3>1. <<"analysis", t.key>> \in EventKeys
        BY <2>3 DEF EventKeys, CameraEvents
      <3> QED BY <1>5, <3>1, DispatchedFacts, CallbackFacts
    <2>6. ready' = Append(Tail(ready), u)
      BY <2>1, <2>4 DEF Backend!Dispatch
    <2>sd. s[1] = u /\ DOMAIN s = {1}
      OBVIOUS
    <2> HIDE DEF u
    <2>7. Moved(ready, 1, s, ready')
      BY <1>1, <1>3, <2>5, <2>6, MovedTailAppend
    <2> HIDE DEF s
    <2>8. \A k, n : Kept(k, n) => Kept(k, n)'
      BY <2>1, HistoryStill
    <2>9. \A c \in Cams : pipeline[c] = "stopped" => latest'[c] = latest[c] /\ overlay'[c] = overlay[c]
      BY <1>6, <1>9, <2>1
    <2>10. Leaves(t, s)
      BY <1>1, <1>6, <1>8, <1>10, <2>1, <2>3, <2>sd, <2>7, <2>8, <2>9 DEF Leaves, u
    <2> QED BY <2>10
  <1>11. ASSUME t.handler = <<"draw", t.key>> /\ Backend!Draws(Tail(ready), t.key, t.n)
          PROVE  \E s : Leaves(t, s)
    <2>1. /\ overlay' = [overlay EXCEPT ![t.key] = t.n] /\ ready' = Tail(ready)
          /\ UNCHANGED <<latest, database, bucket, writing, stored, lateSend>>
      BY <1>11 DEF Backend!Draws, Backend!historyVars
    <2>2. \A k, n : ~Carries(t, k, n)
      BY <1>8, <1>11, HandlerFacts
    <2>3. \A k, n : Kept(k, n) => Kept(k, n)'
      BY <2>1, HistoryStill
    <2>4. \A c \in Cams : pipeline[c] = "stopped" => latest'[c] = latest[c] /\ overlay'[c] = overlay[c]
      BY <1>6, <1>9, <2>1
    <2>20. Leaves(t, << >>)
      BY <1>1, <1>6, <1>7, <2>1, <2>2, <2>3, <2>4 DEF Leaves
    <2> QED BY <2>20
  <1>12. ASSUME t.handler = Backend!Publisher /\ Backend!Sends(Tail(ready))
          PROVE  \E s : Leaves(t, s)
    <2>1. /\ lateSend' = (lateSend \/ Backend!MidStop) /\ ready' = Tail(ready)
          /\ UNCHANGED <<latest, overlay, database, bucket, writing, stored>>
      BY <1>12 DEF Backend!Sends, Backend!historyVars
    <2>2. TellsClients(ready[1])
      BY <1>1, <1>3, <1>12 DEF TellsClients
    <2>3. stage \in Serving
      BY <1>3, <2>2 DEF LifeInv, LTypes, QuietInv, Stages
    <2>4. \A c \in Cams : pipeline[c] = "running"
      BY <2>3 DEF LifeInv, CamerasInv
    <2>5. ~Backend!MidStop
      BY <2>4 DEF Backend!MidStop, Cams
    <2>6. \A k, n : ~Carries(t, k, n)
      BY <1>8, <1>12, HandlerFacts
    <2>7. \A k, n : Kept(k, n) => Kept(k, n)'
      BY <2>1, HistoryStill
    <2>8. lateSend' = FALSE
      BY <1>6, <2>1, <2>5
    <2>20. Leaves(t, << >>)
      BY <1>1, <1>6, <1>7, <2>1, <2>6, <2>7, <2>8 DEF Leaves
    <2> QED BY <2>20
  <1>13. ASSUME t.handler = Backend!Recorder /\ Backend!Records(Tail(ready), t.key, t.n)
          PROVE  \E s : Leaves(t, s)
    <2>1. /\ Backend!Fold(t.key, t.n) /\ ready' = Tail(ready)
          /\ UNCHANGED <<latest, overlay, lateSend, database, stored>>
      BY <1>13 DEF Backend!Records, Backend!Fold
    <2> DEFINE x == <<t.key, t.n>>
    <2>2. \/ bucket' = [bucket EXCEPT ![t.key] = @ \cup {x}] /\ UNCHANGED writing
          \/ /\ writing' = writing \cup {bucket[t.key]}
             /\ bucket' = [bucket EXCEPT ![t.key] = {x}]
      BY <2>1 DEF Backend!Fold
    <2> HIDE DEF x
    <2>3. ASSUME NEW k \in Keys, NEW n, Kept(k, n) PROVE Kept(k, n)'
      <3> DEFINE y == <<k, n>>
      <3>1. y \in stored \/ y \in bucket[k] \/ \E w \in writing : y \in w
        BY <2>3 DEF Kept
      <3> HIDE DEF y
      <3>2. y \in stored' \/ y \in bucket'[k] \/ \E w \in writing' : y \in w
        <4>1. CASE k = t.key
          BY <1>5, <1>6, <2>1, <2>2, <3>1, <4>1
        <4>2. CASE k # t.key
          <5>1. bucket'[k] = bucket[k]
            BY <1>6, <2>2, <4>2
          <5> QED BY <2>1, <2>2, <3>1, <5>1
        <4> QED BY <4>1, <4>2
      <3> QED BY <3>2 DEF Kept, y
    <2>4. x \in bucket'[t.key] /\ DOMAIN bucket' = Keys
      BY <1>5, <1>6, <2>2
    <2>5. \A k, n : Carries(t, k, n) => Kept(k, n)'
      BY <1>8, <2>4 DEF Kept, x
    <2>20. Leaves(t, << >>)
      BY <1>1, <1>6, <1>7, <2>1, <2>3, <2>4, <2>5 DEF Leaves
    <2> QED BY <2>20
  <1>14. ASSUME /\ t.handler[2] \notin {t.key, "all"} /\ ready' = Tail(ready)
                /\ UNCHANGED <<latest, overlay, database, bucket, writing, stored, lateSend>>
         PROVE  \E s : Leaves(t, s)
    <2>1. \A k, n : ~Carries(t, k, n)
      <3> SUFFICES ASSUME NEW k, NEW n, Carries(t, k, n) PROVE FALSE
        OBVIOUS
      <3>1. t.key = k /\ t.handler \in {<<"analyse", k>>, Backend!Recorder}
        BY <1>8
      <3>2. \A x : <<"analyse", x>>[2] = x
        OBVIOUS
      <3>3. Backend!Recorder[2] = "all"
        BY DEF Backend!Recorder
      <3> QED BY <1>14, <3>1, <3>2, <3>3
    <2>2. \A k, n : Kept(k, n) => Kept(k, n)'
      BY <1>14, HistoryStill
    <2>20. Leaves(t, << >>)
      BY <1>1, <1>6, <1>7, <1>14, <2>1, <2>2 DEF Leaves
    <2> QED BY <2>20
  <1>15. \E s : Leaves(t, s)
    BY <1>2, <1>10, <1>11, <1>12, <1>13, <1>14
  <1>17. t = Head(ready) /\ t.does # "lifespan"
    BY <1>1 DEF t
  <1> QED BY <1>1, <1>4, <1>15, <1>17

LEMMA HandleKeeps ==
  ASSUME Backend!ConstantsAssumption, LifeInv, Backend!Handle
  PROVE  LifeInv'
  <1>1. PICK t \in Handled : \E s : ready # << >> /\ t = Head(ready) /\ t.does # "lifespan" /\ Leaves(t, s)
    BY HandleFacts
  <1>0. PICK s : ready # << >> /\ t = Head(ready) /\ t.does # "lifespan" /\ Leaves(t, s)
    BY <1>1
  <1>2. /\ ready # << >> /\ t = Head(ready) /\ t.does # "lifespan" /\ Moved(ready, 1, s, ready')
        /\ \/ DOMAIN s = {}
           \/ /\ DOMAIN s = {1} /\ t.handler = <<"analyse", t.key>>
              /\ s[1] = Backend!Dispatched("analysis", t.key, t.n) /\ t.key \in Cams
        /\ UNCHANGED <<turns, stage, handlers, pipeline, delivered, site, reports, database, stored>>
        /\ \A c \in Cams : pipeline[c] = "stopped" => latest'[c] = latest[c] /\ overlay'[c] = overlay[c]
        /\ DOMAIN latest' = Cams /\ DOMAIN overlay' = Cams /\ lateSend' = FALSE /\ DOMAIN bucket' = Keys
        /\ \A k \in Keys, n \in Nat : Kept(k, n) => Kept(k, n)'
        /\ \A k \in Keys, n \in Nat : Carries(t, k, n) =>
             Kept(k, n)' \/ (DOMAIN s = {1} /\ t.key = k /\ t.n = n)
    BY <1>0 DEF Leaves
  <1>3. /\ ready \in Seq(Callbacks) /\ 1 \in DOMAIN ready /\ t = ready[1] /\ t \in Callbacks
        /\ ~IsLifespan(t)
        /\ stage \notin Starting \cup {"failed"} \cup Drained
        /\ stage \in Wired \ {"history", "closed"}
        /\ \A c \in Cams : IsOf(t, c) => pipeline[c] # "stopped"
        /\ CalledOf(t)
    BY <1>2, WorkFacts
  <1>4. t.does = "handle" /\ t.n \in Nat
    BY CallbackFacts
  \* The announcement is of the window that was analysed, one step further.
  <1>5. \A i \in DOMAIN s :
           /\ i = 1 /\ ~IsLifespan(s[i]) /\ ~TellsClients(s[i]) /\ CalledOf(s[i])
           /\ s[i].does = "publish" /\ s[i].event = "analysis" /\ s[i].key = t.key /\ s[i].n = t.n
           /\ t.event = "perception" /\ t.key \in Cams
    <2> SUFFICES ASSUME NEW i \in DOMAIN s
                 PROVE  /\ i = 1 /\ ~IsLifespan(s[i]) /\ ~TellsClients(s[i]) /\ CalledOf(s[i])
                        /\ s[i].does = "publish" /\ s[i].event = "analysis" /\ s[i].key = t.key
                        /\ s[i].n = t.n /\ t.event = "perception" /\ t.key \in Cams
      OBVIOUS
    <2>1. /\ i = 1 /\ t.handler = <<"analyse", t.key>> /\ t.key \in Cams
          /\ s[1] = Backend!Dispatched("analysis", t.key, t.n)
      BY <1>2
    <2>2. <<"analysis", t.key>> \in EventKeys
      BY <2>1 DEF EventKeys, CameraEvents
    <2>3. s[1] \in Published /\ s[1].event = "analysis" /\ s[1].key = t.key /\ s[1].n = t.n
      BY <1>4, <2>1, <2>2, DispatchedFacts
    <2>4. s[1].does = "publish" /\ ~IsLifespan(s[1])
      BY <2>3, CallbackFacts DEF IsLifespan
    <2>5. t.handler[1] = "analyse"
      BY <2>1
    <2>6. t.event = "perception"
      BY <1>3, <1>4, <2>5 DEF CalledOf
    <2> QED BY <2>1, <2>3, <2>4, <2>6 DEF TellsClients, CalledOf
  <1>6. ~IsLifespan(ready[1]) /\ \A i \in DOMAIN s : ~IsLifespan(s[i])
    BY <1>3, <1>5
  <1>LTypes. LTypes'
    <2>1. ready' \in Seq(Callbacks)
      BY <1>2 DEF Moved
    <2> QED BY <1>2, <2>1 DEF LifeInv, LTypes
  <1>CamerasInv. CamerasInv'
    <2>1. \A i : Stopping(i) <=> Stopping(i)'
      BY <1>2 DEF Stopping
    <2> QED BY <1>2, <2>1 DEF LifeInv, CamerasInv
  <1>LoopInv. LoopInv'
    <2>1. Elsewhere' <=> Elsewhere
      BY <1>2, <1>3 DEF Elsewhere, Drained
    <2> QED BY <1>2, <1>3, <1>6, <2>1, OutsideKeepsLoop
  <1>SubscribedInv. SubscribedInv'
    BY <1>2 DEF LifeInv, SubscribedInv, Has
  <1>CalledInv. CalledInv'
    BY <1>2, <1>5, KeepsCalled
  <1>FlightInv. FlightInv'
    <2>1. ASSUME NEW c \in Cams, NEW i \in DOMAIN s, IsOf(s[i], c)
          PROVE  IsOf(ready[1], c) /\ Rank(s[i]) = Rank(ready[1]) + 1
      <3>1. IsOf(t, c)
        BY <2>1, <1>3, <1>5 DEF IsOf
      <3> QED BY <3>1, <1>3, <1>4, <1>5 DEF Rank
    <2> QED BY <1>2, <1>6, <2>1, KeepsFlight
  <1>GoneInv. GoneInv'
    <2>1. \A c \in Cams : pipeline[c] = "stopped" => \A i \in DOMAIN s : ~IsOf(s[i], c)
      BY <1>3, <1>5 DEF IsOf
    <2> QED BY <1>2, <2>1, KeepsGone
  <1>QuietInv. QuietInv'
    BY <1>2, <1>5, <1>6, KeepsQuiet
  <1>SafeInv. SafeInv'
    <2>1. ASSUME NEW k \in Keys, NEW n \in Nat, Carries(t, k, n)
          PROVE  Carried(ready', k, n) \/ Kept(k, n)'
      <3>1. CASE DOMAIN s = {1} /\ t.key = k /\ t.n = n
        <4>1. Carries(s[1], k, n)
          BY <1>5, <3>1 DEF Carries
        <4>2. \E j \in DOMAIN ready' : ready'[j] = s[1]
          BY <1>2, <3>1, EntriesMoved
        <4> QED BY <4>1, <4>2 DEF Carried
      <3> QED BY <1>2, <2>1, <3>1
    <2>2. ASSUME NEW k \in Keys, NEW n \in Nat, Carried(ready, k, n)
          PROVE  Carried(ready', k, n) \/ Kept(k, n)'
      <3>1. Carried(ready', k, n) \/ Carries(t, k, n)
        BY <1>2, <1>3, <2>2, KeepsCarried
      <3> QED BY <2>1, <3>1
    <2> QED BY <1>2, <2>2, SafeStays DEF LifeInv
  <1>HistoryInv. HistoryInv'
    BY <1>2, <1>3 DEF LifeInv, HistoryInv, Drained
  <1>BoundsInv. BoundsInv'
    BY <1>2 DEF LifeInv, BoundsInv
  <1> QED
    BY <1>LTypes, <1>CamerasInv, <1>LoopInv, <1>SubscribedInv, <1>CalledInv, <1>FlightInv,
       <1>GoneInv,
       <1>QuietInv, <1>SafeInv, <1>HistoryInv, <1>BoundsInv DEF LifeInv

-----------------------------------------------------------------------------
LEMMA LifespanInitial ==
  ASSUME Backend!ConstantsAssumption, Backend!LifespanInit
  PROVE  LifeInv
  <1>1. /\ stage = "connect" /\ turns = 0 /\ ready = <<Backend!Lifespan>>
        /\ handlers = [e \in Backend!Events |-> << >>] /\ database = "closed"
        /\ pipeline = [c \in Cams |-> "off"] /\ delivered = [c \in Cams |-> 0]
        /\ latest = [c \in Cams |-> Nothing] /\ overlay = [c \in Cams |-> Nothing]
        /\ site = "off" /\ reports = << >>
        /\ bucket = [k \in Keys |-> {}] /\ writing = {} /\ stored = {} /\ lateSend = FALSE
    BY DEF Backend!LifespanInit, Cams, Keys
  <1>2. Turns \in Nat /\ MaxWindows \in Nat /\ MaxReports \in Nat
    BY CamsFacts
  <1>3. ready \in Seq(Callbacks) /\ Len(ready) = 1 /\ DOMAIN ready = {1} /\ ready[1] = Backend!Lifespan
    <2>1. ASSUME NEW x \in Callbacks PROVE <<x>> \in Seq(Callbacks)
      <3> HIDE DEF Callbacks
      <3> QED OBVIOUS
    <2>2. <<Backend!Lifespan>> \in Seq(Callbacks)
      BY <2>1, CallbackFacts
    <2> QED BY <1>1, <2>2
  <1>4. IsLifespan(ready[1]) /\ ready[1].does = "lifespan"
    BY <1>3, CallbackFacts DEF IsLifespan
  <1>5. Len(reports) = 0
    BY <1>1
  <1>6. \A e \in Backend!Events : handlers[e] = << >> /\ DOMAIN handlers[e] = {}
    BY <1>1
  <1>LTypes. LTypes
    <2>1. handlers \in [Backend!Events -> Seq(HandlersOf)]
      <3>1. << >> \in Seq(HandlersOf)
        BY EmptySeq
      <3> QED BY <1>1, <3>1
    <2>2. << >> \in Seq([Cams -> {"running"}])
      BY EmptySeq
    <2> QED BY <1>1, <1>2, <1>3, <2>1, <2>2 DEF LTypes, Stages, Starting
  <1>CamerasInv. CamerasInv
    BY <1>1 DEF CamerasInv, Starting, Serving, Quiet, Over
  <1>LoopInv. LoopInv
    BY <1>1, <1>3, <1>4 DEF LoopInv, Once, Present, Elsewhere
  <1>SubscribedInv. SubscribedInv
    <2>1. \A e \in Backend!Events : \A h : ~Has(e, h)
      BY <1>6 DEF Has, Within
    <2>2. \A e \in Backend!Events : Distinct(handlers[e])
      BY <1>6 DEF Distinct
    <2> QED BY <1>1, <1>6, <2>1, <2>2 DEF SubscribedInv, Wired, Quiet, Over, Backend!Events
  <1>rest. CalledInv /\ FlightInv /\ GoneInv /\ QuietInv /\ HistoryInv /\ BoundsInv
    BY <1>1, <1>2, <1>3, <1>4, <1>5
       DEF CalledInv, FlightInv, GoneInv, QuietInv, HistoryInv, BoundsInv, Starting, Quiet, Over
  <1>SafeInv. SafeInv
    BY <1>1, <1>5 DEF SafeInv
  <1> QED BY <1>LTypes, <1>CamerasInv, <1>LoopInv, <1>SubscribedInv, <1>rest, <1>SafeInv
     DEF LifeInv

LEMMA LifespanKept ==
  ASSUME Backend!ConstantsAssumption, LifeInv, [Backend!LifespanNext]_Backend!lifespanVars
  PROVE  LifeInv'
  <1>1. CASE Backend!RunLoop
    BY <1>1, PublishKeeps, HandleKeeps, ConnectKeeps, MigrationFailsKeeps, WireKeeps,
       StartCamerasKeeps,
       StopPublisherKeeps, StopSiteKeeps, StopFirstCameraKeeps, UnwindKeeps, CameraStoppedKeeps,
       DrainKeeps, StopHistoryKeeps, DisconnectKeeps DEF Backend!RunLoop
  <1>2. CASE Backend!LoopsEnd
    BY <1>2, LoopEndsKeeps DEF Backend!LoopsEnd, Cams
  <1>3. CASE Backend!SiteUpdate
    BY <1>3, SiteUpdateKeeps
  <1>4. CASE Backend!WriteEnds
    BY <1>4, WriteEndsKeeps
  <1>5. CASE Backend!Shutdown
    BY <1>5, ShutdownKeeps
  <1>6. CASE \E c \in Backend!CamerasOf : Backend!Emit(c)
    BY <1>6, EmitKeeps DEF Cams
  <1>7. CASE UNCHANGED Backend!lifespanVars
    <2>1. UNCHANGED <<stage, turns, ready, handlers, database, pipeline, delivered, latest, overlay, site,
                      reports, bucket, writing, stored, lateSend>>
      BY <1>7 DEF Backend!lifespanVars, Backend!loopVars, Backend!cameraVars, Backend!historyVars
    <2>2. (\A i : Stopping(i) <=> Stopping(i)') /\ (Elsewhere' <=> Elsewhere)
      BY <2>1 DEF Stopping, Elsewhere
    <2>3. LTypes' /\ CamerasInv' /\ LoopInv' /\ HistoryInv' /\ BoundsInv'
      BY <2>1, <2>2 DEF LifeInv, LTypes, CamerasInv, LoopInv, HistoryInv, BoundsInv
    <2>4. SubscribedInv' /\ CalledInv' /\ GoneInv' /\ QuietInv'
      BY <2>1 DEF LifeInv, SubscribedInv, Has, CalledInv, GoneInv, QuietInv
    <2>5. FlightInv'
      BY <2>1 DEF LifeInv, FlightInv, Used
    <2>6. SafeInv'
      BY <2>1, HistoryStill, SafeStays DEF LifeInv
    <2> QED BY <2>3, <2>4, <2>5, <2>6 DEF LifeInv
  <1> QED BY <1>1, <1>2, <1>3, <1>4, <1>5, <1>6, <1>7 DEF Backend!LifespanNext

LEMMA LifeInvImplies ==
  ASSUME Backend!ConstantsAssumption, LifeInv
  PROVE  Backend!LifespanIsOrderly
  <1>1. Backend!LifespanTypeOK
    <2>1. \A i \in DOMAIN ready : ready[i].does \in {"lifespan", "publish", "handle"}
      <3>1. \A i \in DOMAIN ready : ready[i] \in Callbacks
        BY LenProperties, ElementOfSeq DEF LifeInv, LTypes
      <3> QED BY <3>1, CallbackFacts
    <2>2. delivered \in [Cams -> 0 .. MaxWindows]
      <3>1. MaxWindows \in Nat
        BY CamsFacts
      <3>2. delivered \in [Cams -> Nat] /\ \A c \in Cams : delivered[c] <= MaxWindows
        BY DEF LifeInv, LTypes, BoundsInv
      <3> QED BY <3>1, <3>2
    <2> QED BY <2>1, <2>2 DEF LifeInv, LTypes, BoundsInv, Cams, Backend!LifespanTypeOK
  <1>2. Backend!NothingIsLost
    <2> SUFFICES ASSUME stage = "closed"
                 PROVE  Backend!Announced \cup {<<"site", n>> : n \in 1 .. Len(reports)} \subseteq stored
      BY DEF Backend!NothingIsLost
    <2>1. \A i \in DOMAIN ready : IsLifespan(ready[i])
      BY DEF LifeInv, LoopInv, Drained
    <2>2. ASSUME NEW k \in Keys, NEW n, Safe(k, n) PROVE <<k, n>> \in stored
      <3>1. Kept(k, n)
        BY <2>1, <2>2 DEF Safe, Carries
      <3>2. bucket[k] = {} /\ writing = {}
        BY DEF LifeInv, HistoryInv
      <3> QED BY <3>1, <3>2 DEF Kept
    <2>3. "site" \in Keys /\ \A c \in Cams : c \in Keys
      BY DEF Keys, Cams, Backend!Keys
    <2>4. \A n \in 1 .. Len(reports) : <<"site", n>> \in stored
      BY <2>2, <2>3 DEF LifeInv, SafeInv
    <2>5. ASSUME NEW w \in Backend!Announced PROVE w \in stored
      <3>1. PICK c \in Cams, n \in 1 .. MaxWindows : w = <<c, n>> /\ n <= delivered[c]
        BY <2>5 DEF Backend!Announced, Cams
      <3>2. n \in 1 .. delivered[c]
        BY <3>1, CamsFacts DEF LifeInv, LTypes
      <3> QED BY <2>2, <2>3, <3>1, <3>2 DEF LifeInv, SafeInv
    <2> QED BY <2>4, <2>5
  <1>3. Backend!DatabaseOutlivesHistory
    <2> SUFFICES ASSUME writing # {} \/ Backend!Unwritten # {} PROVE database = "open"
      BY DEF Backend!DatabaseOutlivesHistory
    <2>1. Backend!Unwritten # {} => \E k \in Keys : bucket[k] # {}
      BY DEF Backend!Unwritten, Keys
    <2> QED BY <2>1 DEF LifeInv, HistoryInv, Starting
  <1>4. Backend!StoppedShowsNothing
    BY DEF LifeInv, CamerasInv, Cams, Backend!StoppedShowsNothing
  <1>5. Backend!QuietWhileStopping
    <2>1. \A i \in DOMAIN reports : reports[i] \in [Cams -> {"running"}]
      BY LenProperties, ElementOfSeq DEF LifeInv, LTypes
    <2> QED BY <2>1 DEF LifeInv, LTypes, Cams, Backend!QuietWhileStopping
  <1> QED BY <1>1, <1>2, <1>3, <1>4, <1>5 DEF Backend!LifespanIsOrderly

(* However the frames, the events, the handlers, the writes and the        *)
(* lifespan interleave, and however many cameras there are: what a camera  *)
(* delivered and what the site reported is stored when the database is     *)
(* closed, the database outlives what is to be written, a stopped camera   *)
(* shows nothing, and nobody is told of cameras mid-stop.                  *)
THEOREM LifespanOrderly == Backend!LifespanSpec => []LifespanIsOrderly
<1>1. Backend!LifespanInit => LifeInv
  BY LifespanAssumption, LifespanInitial
<1>2. LifeInv /\ [Backend!LifespanNext]_Backend!lifespanVars => LifeInv'
  BY LifespanAssumption, LifespanKept
<1>3. LifeInv => LifespanIsOrderly
  BY LifespanAssumption, LifeInvImplies DEF LifespanIsOrderly
<1> QED BY <1>1, <1>2, <1>3, PTL DEF Backend!LifespanSpec

(***************************************************************************)
(* The composition: whatever the subject, each component moves as its own  *)
(* specification says, or not at all.                                      *)
(***************************************************************************)
LEMMA SubjectsMove ==
    [MCNext]_<<subject, vars, lifespanVars>>
        => [Next]_vars /\ [Backend!LifespanNext]_Backend!lifespanVars
<1>1. UNCHANGED lifespanVars => UNCHANGED Backend!lifespanVars
  BY DEF lifespanVars, Backend!lifespanVars, Backend!loopVars, Backend!cameraVars,
     Backend!historyVars
<1>2. UNCHANGED <<subject, vars, lifespanVars>> => UNCHANGED vars /\ UNCHANGED lifespanVars
  OBVIOUS
<1> QED BY <1>1, <1>2 DEF MCNext

(* Neither the supervision of one camera nor the lifespan of the backend   *)
(* is ever disturbed by the other's steps: what was proved of each holds   *)
(* throughout.                                                             *)
THEOREM SupervisedThroughout ==
    MCSpec => [](LoopIsOwned /\ EditIsHeeded /\ StateIsTrue /\ LifespanIsOrderly)
<1>1. IInv /\ FlagsOK /\ CountersInv => LoopIsOwned /\ EditIsHeeded /\ StateIsTrue
  <2> SUFFICES ASSUME IInv, FlagsOK, CountersInv PROVE LoopIsOwned /\ EditIsHeeded /\ StateIsTrue
    OBVIOUS
  <2>1. TypeOK
    BY DEF IInv, CountersInv, TypeOK
  <2>2. WatchesCurrentAddress
    BY DEF IInv, AddrInv, WatchesCurrentAddress, OpInLock, OpHolds
  <2> QED BY <2>1, <2>2 DEF IInv, LoopIsOwned, EditIsHeeded, StateIsTrue
<1>2. MCSpec => (Init /\ [][Next]_vars) /\ Backend!LifespanSpec
  BY SubjectsMove, PTL DEF MCSpec, MCInit, Backend!LifespanSpec
<1> QED BY <1>1, <1>2, Inductive, LifespanOrderly, PTL
=============================================================================
