---------------------------- MODULE CameraHealth ----------------------------
(***************************************************************************)
(* CameraHealth: the background checks of one network camera.              *)
(*                                                                         *)
(* A check asks the device and, while the stream is not held, why it does  *)
(* not come; both happen in a thread, and meanwhile the camera may be      *)
(* given another address, be switched off, connect or lose its stream.     *)
(* Time is abstract: a wait may last any time, a diagnosis ages.           *)
(***************************************************************************)
EXTENDS Naturals

CONSTANTS
    Urls,            \* network addresses
    Local,           \* an address that is not one
    MaxMoves         \* bound: changes of address

VARIABLES
    url, enabled,    \* the camera's definition
    worker,          \* the state of its worker
    answering,       \* the addresses at which a device answers
    check, asked,    \* the health task, the address it has in hand
    wake,            \* _wake
    device, reachable,
    diagnosis, recent, \* what was diagnosed; whether lately
    moves

monitorVars == <<check, asked, wake, device, reachable, diagnosis, recent>>
vars == <<url, enabled, worker, answering, monitorVars, moves>>

Addresses == Urls \cup {Local}
None == "none"

\* _DIAGNOSABLE_STATES: the stream is not held.
Diagnosable == {"RECOVERING", "FAILED"}

TypeOK ==
    /\ url \in Addresses /\ enabled \in BOOLEAN
    /\ worker \in {"STARTING", "RUNNING", "RECOVERING", "FAILED", "STOPPED"}
    /\ answering \subseteq Urls
    /\ check \in {"off", "due", "asking", "diagnosing", "waiting"}
    /\ asked \in Addresses \cup {None} /\ wake \in BOOLEAN
    /\ device \in Urls \cup {None} /\ reachable \in {None, "yes", "no"}
    /\ diagnosis \in Urls \cup {None} /\ recent \in BOOLEAN
    /\ moves \in 0 .. MaxMoves

Init ==
    /\ url \in Addresses /\ enabled = TRUE /\ worker = "STARTING"
    /\ answering \in SUBSET Urls
    /\ check = "due" /\ asked = None /\ wake = FALSE
    /\ device = None /\ reachable = None /\ diagnosis = None /\ recent = FALSE
    /\ moves = 0

-----------------------------------------------------------------------------
(* The camera.                                                             *)

WorkerMoves(from, to) ==
    /\ worker \in from /\ worker' = to
    /\ UNCHANGED <<url, enabled, answering, monitorVars, moves>>

Connects == url \in answering \cup {Local} /\ WorkerMoves({"STARTING"}, "RUNNING")
Fails == WorkerMoves({"STARTING", "RUNNING"}, "RECOVERING")
GivesUp == WorkerMoves({"RECOVERING"}, "FAILED")
BackoffEnds == WorkerMoves({"RECOVERING", "FAILED"}, "STARTING")

DeviceAnswers(u) ==
    /\ u \notin answering /\ answering' = answering \cup {u}
    /\ UNCHANGED <<url, enabled, worker, monitorVars, moves>>

DeviceLeaves(u) ==
    /\ u \in answering /\ answering' = answering \ {u}
    /\ UNCHANGED <<url, enabled, worker, monitorVars, moves>>

-----------------------------------------------------------------------------
(* A check.                                                                *)

\* The end of a check: the event is cleared and the interval waited for.
Waits == check' = "waiting" /\ wake' = FALSE /\ asked' = None

NoDiagnosis == diagnosis' = None /\ recent' = FALSE

(* check_once, as far as the question put to the device.                   *)
Begin ==
    /\ check = "due"
    /\ \/ /\ url \in Urls /\ check' = "asking" /\ asked' = url
          /\ UNCHANGED <<wake, device, reachable>>
       \/ /\ url \notin Urls /\ device' = None /\ reachable' = None
          /\ Waits
    /\ UNCHANGED <<url, enabled, worker, answering, diagnosis, recent, moves>>

\* retry_now: a worker that waits or has given up tries at once.
RetryNow == worker' = IF worker \in Diagnosable THEN "STARTING" ELSE worker

Returned(answer) == answer /\ reachable = "no"

\* The stream is held: an earlier failure is forgotten once it runs.
NotDiagnosable ==
    /\ IF worker = "RUNNING" THEN NoDiagnosis ELSE UNCHANGED <<diagnosis, recent>>
    /\ Waits

\* Mutant: what is known of the address is not asked again.
RecordOnce(answer) ==
    /\ device' = IF device = None /\ answer THEN asked ELSE device
    /\ reachable' = IF answer THEN "yes" ELSE "no"

\* The device's answer is recorded, whatever the address is by now.
Record(answer) ==
    /\ device' = IF answer THEN asked ELSE None
    /\ reachable' = IF answer THEN "yes" ELSE "no"

(* check_once, from the device's answer to the end or to a diagnosis of    *)
(* the stream: a device that is back is reconnected to without one.        *)
Answered ==
    LET answer == asked \in answering IN
    /\ check = "asking" /\ Record(answer)
    /\ \/ /\ worker \notin Diagnosable
          /\ NotDiagnosable /\ UNCHANGED worker
       \/ /\ worker = "RECOVERING" /\ Returned(answer)
          /\ NoDiagnosis /\ Waits /\ RetryNow
       \/ /\ worker \in Diagnosable /\ ~(worker = "RECOVERING" /\ Returned(answer))
          /\ UNCHANGED worker
          /\ \/ recent /\ Waits /\ UNCHANGED <<diagnosis, recent>>
             \/ /\ ~recent /\ ~answer
                /\ diagnosis' = asked /\ recent' = TRUE /\ Waits
             \/ /\ ~recent /\ answer /\ check' = "diagnosing"
                /\ UNCHANGED <<asked, wake, diagnosis, recent>>
    /\ UNCHANGED <<url, enabled, answering, moves>>

Diagnosed ==
    /\ check = "diagnosing" /\ diagnosis' = asked /\ recent' = TRUE /\ Waits
    /\ UNCHANGED <<url, enabled, worker, answering, device, reachable, moves>>

\* A check that raises is logged.
CheckFails ==
    /\ check \in {"asking", "diagnosing"} /\ Waits
    /\ UNCHANGED <<url, enabled, worker, answering, device, reachable, diagnosis,
                   recent, moves>>

\* The interval has passed, or the event was set.
NextCheck ==
    /\ check = "waiting" /\ check' = "due"
    /\ UNCHANGED <<url, enabled, worker, answering, asked, wake, device, reachable,
                   diagnosis, recent, moves>>

DiagnosisAges ==
    /\ recent /\ recent' = FALSE
    /\ UNCHANGED <<url, enabled, worker, answering, check, asked, wake, device,
                   reachable, diagnosis, moves>>

-----------------------------------------------------------------------------
(* Operators.                                                              *)

\* reset: everything learned is forgotten; a check in progress is not stopped.
Reset == device' = None /\ reachable' = None /\ NoDiagnosis /\ wake' = TRUE

(* apply, for another address: a camera that is switched off only takes    *)
(* note of it.                                                             *)
Readdress(u) ==
    /\ u # url /\ moves < MaxMoves /\ moves' = moves + 1 /\ url' = u
    /\ \/ /\ enabled /\ Reset
          /\ \/ UNCHANGED worker
             \/ worker = "RUNNING" /\ worker' = "RECOVERING"
             \/ worker \in Diagnosable /\ worker' = "STARTING"
          /\ UNCHANGED <<check, asked>>
       \/ /\ ~enabled /\ UNCHANGED <<worker, monitorVars>>
    /\ UNCHANGED <<enabled, answering>>

\* apply, switching off: the task is cancelled, what it learned is kept.
SwitchOff ==
    /\ enabled /\ enabled' = FALSE /\ worker' = "STOPPED"
    /\ check' = "off" /\ asked' = None
    /\ UNCHANGED <<url, answering, wake, device, reachable, diagnosis, recent, moves>>

SwitchOn ==
    /\ ~enabled /\ moves < MaxMoves /\ moves' = moves + 1
    /\ enabled' = TRUE /\ worker' = "STARTING" /\ check' = "due"
    /\ UNCHANGED <<url, answering, asked, wake, device, reachable, diagnosis, recent>>

\* retry: reconnect and check now.
Retry ==
    /\ enabled /\ RetryNow /\ wake' = TRUE
    /\ UNCHANGED <<url, enabled, answering, check, asked, device, reachable,
                   diagnosis, recent, moves>>

Next ==
    \/ Connects \/ Fails \/ GivesUp \/ BackoffEnds
    \/ \E u \in Urls : DeviceAnswers(u) \/ DeviceLeaves(u)
    \/ Begin \/ Answered \/ Diagnosed \/ CheckFails \/ NextCheck \/ DiagnosisAges
    \/ \E u \in Addresses : Readdress(u)
    \/ SwitchOff \/ SwitchOn \/ Retry

(* The task goes on; a question is answered within its timeout, and not    *)
(* every check raises; time passes.  Nothing is assumed of the worker, of  *)
(* the devices or of the operator.                                         *)
Fairness ==
    /\ WF_vars(Begin) /\ SF_vars(Answered) /\ SF_vars(Diagnosed)
    /\ WF_vars(NextCheck) /\ WF_vars(DiagnosisAges)

Spec == Init /\ [][Next]_vars /\ Fairness

-----------------------------------------------------------------------------
(* Properties.                                                             *)

(* A worker that waits out its backoff for a device that was found silent  *)
(* is made to try again once the device answers, and need not wait for the *)
(* backoff to end; unless its address is changed or the device leaves.     *)
ReturnIsActedOn ==
    (worker = "RECOVERING" /\ reachable = "no" /\ url \in answering)
        ~> (worker # "RECOVERING" \/ url \notin answering \/ reachable = None)

(* What is shown of a device is, once its address stays as it is, about    *)
(* that address: the answer of a check that a change of address overtook,  *)
(* and what was learned before a change made while the camera was off, is  *)
(* replaced.                                                               *)
Settled == check = "off" \/ device \in {None, url}
DeviceIsOfThisAddress == <>[]Settled

(* A camera that runs for good does not keep the reason it once failed.    *)
RecoveryIsForgotten ==
    (<>[](worker = "RUNNING" /\ url \in Urls)) => <>[](diagnosis = None)

(* What is known of a device and of its failure is of the camera as it is  *)
(* now.                                                                    *)
HealthIsOfNow == []TypeOK /\ DeviceIsOfThisAddress /\ RecoveryIsForgotten
=============================================================================
