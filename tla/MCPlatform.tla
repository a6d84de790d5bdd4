----------------------------- MODULE MCPlatform -----------------------------
(***************************************************************************)
(* What outlives a backend, for TLC: the rows of its history, with the     *)
(* recorder that makes them, and the supervisor script, with two backend   *)
(* processes and two cameras.  In each behaviour one of them, the subject, *)
(* moves.                                                                  *)
(***************************************************************************)
EXTENDS HistoryRecorder

CONSTANTS
    Processes, Cameras, UnhealthyRestart, CameraGrace, CameraRetryEvery, MaxMoves

VARIABLES
    subject,
    process, front, status, step, child, unhealthy, offline, rested, signedIn, moves,
    silence, raced

Script == INSTANCE ProcessSupervisor

ASSUME ScriptAssumption == Script!ConstantsAssumption

scriptVars == <<process, front, status, step, child, unhealthy, offline, rested, signedIn,
                moves, silence, raced>>

-----------------------------------------------------------------------------
\* The processes are alike: one of them stands for whichever is alive at first.
First == CHOOSE p \in Processes : TRUE

\* A supervisor that is not the subject has found everything in order.
MCInit ==
    /\ subject \in {"recorder", "supervisor"}
    /\ Init
    /\ Script!Init /\ \A p \in Processes \ {First} : process[p] = "gone"
    /\ subject # "supervisor" =>
           process[First] = "serving" /\ front = "down" /\ status = [c \in Cameras |-> "online"]

MCNext ==
    /\ UNCHANGED subject
    /\ \/ subject = "recorder" /\ Next /\ UNCHANGED scriptVars
       \/ subject = "supervisor" /\ Script!Next /\ UNCHANGED vars

\* Fairness of the recorder and of the supervisor.
MCSpec ==
    /\ MCInit /\ [][MCNext]_<<subject, vars, scriptVars>>
    /\ WF_vars(subject = "recorder" /\ Tick) /\ WF_vars(subject = "recorder" /\ Sweeping)
    /\ WF_vars(subject = "recorder" /\ Stopping) /\ WF_vars(subject = "recorder" /\ Writing)
    /\ WF_scriptVars(subject = "supervisor" /\ Script!CheckBackend)
    /\ WF_scriptVars(subject = "supervisor" /\ Script!CheckFrontend)
    /\ WF_scriptVars(subject = "supervisor" /\ Script!CheckCameras)
    /\ WF_scriptVars(subject = "supervisor" /\ Script!Rest)
    /\ WF_scriptVars(subject = "supervisor" /\ Script!Stop)
    /\ \A p \in Processes : WF_scriptVars(subject = "supervisor" /\ Script!Boots(p))

-----------------------------------------------------------------------------
(* The supervisor ends only a backend that has been silent for its time,   *)
(* and leaves nothing behind when it is stopped.                           *)
ProcessesAreKept == Script!ProcessesAreKept

(* A silent camera's last bucket is written in the end; the backend, and   *)
(* every camera that stays offline, are seen to again and again, as long   *)
(* as there are no more cameras than rounds between two retries of one.    *)
WorkIsResumed == SilenceIsWritten /\ Script!ServiceComesBack
=============================================================================
