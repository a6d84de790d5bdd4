---------------------------- MODULE MCSocketClient ----------------------------
(***************************************************************************)
(* An instance of SocketClient, with few attempts, short delays and        *)
(* thresholds, and of CameraBoard, with two bands and two figures in one.  *)
(* In each behaviour one of them, the subject, moves; the other rests,     *)
(* the board where no fair action of it is enabled.                        *)
(***************************************************************************)
EXTENDS SocketClient

CONSTANTS Analyses, Interval, MaxBacklog

VARIABLES
    subject,
    present, latest, dispatched, sending, outbox, rest, connected, building, polling, poll,
    board, whole

Board == INSTANCE CameraBoard

ASSUME BoardAssumption == Board!ConstantsAssumption

MCAnalyses == {[band |-> "A", figure |-> "f"], [band |-> "A", figure |-> "g"],
               [band |-> "B", figure |-> "f"]}

boardVars == <<present, latest, dispatched, sending, outbox, rest, connected, building,
               polling, poll, board, whole>>

MCInit ==
    /\ subject \in {"client", "board"}
    /\ Init /\ Board!Init
    /\ subject = "client" => ~present
    /\ subject = "board" => online

MCNext ==
    /\ UNCHANGED subject
    /\ \/ subject = "client" /\ Next /\ UNCHANGED boardVars
       \/ subject = "board" /\ Board!Next /\ UNCHANGED vars

MCSpec ==
    /\ MCInit /\ [][MCNext]_<<subject, vars, boardVars>>
    /\ Board!Fairness
    /\ WF_vars(subject = "client" /\ RetryFires) /\ WF_vars(subject = "client" /\ Tick)

BoardIsTrue == Board!BoardIsTrue
BoardCatchesUp == Board!BoardCatchesUp
=============================================================================
