-------------------------- MODULE MCPerceptionWorker --------------------------
(***************************************************************************)
(* One camera's worker, and the lifespan of the backend that runs such     *)
(* workers, for TLC.  In each behaviour one of them, the subject, moves.   *)
(***************************************************************************)
EXTENDS PerceptionWorker, Sequences

CONSTANTS Fleet, MaxWindows, MaxReports, Turns, Nothing

VARIABLES
    subject,
    stage, turns, ready, handlers, database, pipeline, delivered, latest, overlay, site,
    reports, bucket, writing, stored, lateSend

Backend == INSTANCE BackendLifespan

ASSUME LifespanAssumption == Backend!ConstantsAssumption

lifespanVars == <<stage, turns, ready, handlers, database, pipeline, delivered, latest, overlay,
                  site, reports, bucket, writing, stored, lateSend>>

MCFleet == <<"hall", "gate">>

MCInit == subject \in {"worker", "lifespan"} /\ Init /\ Backend!LifespanInit

MCNext ==
    /\ UNCHANGED subject
    /\ \/ subject = "worker" /\ Next /\ UNCHANGED lifespanVars
       \/ subject = "lifespan" /\ Backend!LifespanNext /\ UNCHANGED vars

MCSpec ==
    /\ MCInit /\ [][MCNext]_<<subject, vars, lifespanVars>>
    /\ subject = "worker" => Fairness
    /\ subject = "lifespan" => Backend!LifespanFairness

-----------------------------------------------------------------------------
(* From its start to its end the backend keeps what it measured and shows  *)
(* nothing of a camera it has stopped.                                     *)
LifespanIsOrderly == Backend!LifespanIsOrderly

(* What is told to stop does: a worker's operator hears back, and a        *)
(* backend closes its database.                                            *)
StopsEnd == OperatorReturns /\ Backend!ShutdownEnds
=============================================================================
