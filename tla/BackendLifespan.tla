--------------------------- MODULE BackendLifespan ---------------------------
(***************************************************************************)
(* The backend's lifespan (src/backend/app/main.py) over the event loop it *)
(* runs on: what is wired up before the cameras start, and the order in    *)
(* which everything is stopped while frames in hand, dispatched events and *)
(* database writes are still on their way.                                 *)
(*                                                                         *)
(* The loop runs its ready callbacks first in, first out.  A dispatched    *)
(* event is a task; when it starts it takes the handlers subscribed then,  *)
(* and each of them runs one turn later.  A camera delivers windows 1, 2,  *)
(* ...; together they deliver up to MaxWindows, and the site reports up to *)
(* MaxReports times.  Turns is how often the loop turns, at least, between *)
(* the end of a camera's frame loop and the moment its runtime is cleared: *)
(* the pipeline's task is awaited through a shield, the source is closed   *)
(* by a thread, and the supervision task ends after them.                  *)
(***************************************************************************)
EXTENDS Naturals, Sequences, SequencesExt, FiniteSets

CONSTANTS
    Fleet,          \* the cameras, in display order
    MaxWindows,
    MaxReports,
    Turns,
    Nothing         \* no analysis, and no overlay

VARIABLES
    stage,          \* how far the lifespan is
    turns,          \* how often the loop still turns before a camera is cleared
    ready,          \* the loop's ready callbacks
    handlers,       \* who is subscribed, by event
    database,       \* "open" | "closed"
    pipeline,       \* a camera's frame loop: "off" | "running" | "ending" | "ended" | "stopped"
    delivered,      \* how many windows a camera has delivered
    latest,         \* the analysis a camera's intelligence holds
    overlay,        \* the analysis its live stream draws
    site,           \* the site's loop: "off" | "running"
    reports,        \* the cameras' loops as each site report found them
    bucket,         \* what history has folded and not handed to a write, by key
    writing,        \* the writes on their way to the database
    stored,         \* what the database holds
    lateSend        \* whether a client was told of a camera being stopped

loopVars == <<ready, handlers>>
cameraVars == <<pipeline, delivered, latest, overlay>>
historyVars == <<database, bucket, writing, stored>>
lifespanVars == <<stage, turns, loopVars, cameraVars, site, reports, historyVars, lateSend>>

-----------------------------------------------------------------------------
CamerasOf == {Fleet[i] : i \in DOMAIN Fleet}
Keys == CamerasOf \cup {"site"}
Events == {"perception", "analysis", "site"}

\* There is a camera to stop, and a result in hand is drawn before it is: that
\* takes its handler, the event of the analysis and the handler of that.
ConstantsAssumption ==
    /\ Fleet \in Seq(CamerasOf) /\ Fleet # << >> /\ IsInjective(Fleet)
    /\ CamerasOf \cap {"site", "all"} = {}
    /\ {MaxWindows, MaxReports, Turns} \subseteq Nat /\ Turns >= 3

Lifespan == [does |-> "lifespan"]
Dispatched(event, key, n) == [does |-> "publish", event |-> event, key |-> key, n |-> n]
Handling(handler, task) ==
    [does |-> "handle", handler |-> handler, event |-> task.event, key |-> task.key, n |-> task.n]

Publisher == <<"publisher", "all">>
Recorder == <<"history", "all">>

\* EventBus.dispatch: nothing is dispatched to nobody.
Dispatch(queue, event, key, n) ==
    IF handlers[event] = << >> THEN queue ELSE Append(queue, Dispatched(event, key, n))

LifespanInit ==
    /\ stage = "connect" /\ turns = 0 /\ ready = <<Lifespan>>
    /\ handlers = [e \in Events |-> << >>] /\ database = "closed"
    /\ pipeline = [c \in CamerasOf |-> "off"] /\ delivered = [c \in CamerasOf |-> 0]
    /\ latest = [c \in CamerasOf |-> Nothing] /\ overlay = [c \in CamerasOf |-> Nothing]
    /\ site = "off" /\ reports = << >>
    /\ bucket = [k \in Keys |-> {}] /\ writing = {} /\ stored = {} /\ lateSend = FALSE

-----------------------------------------------------------------------------
(* Event handlers.                                                         *)

\* HistoryRecorder._fold: into the open bucket, or into the next one while the
\* one before is handed to a write.
Fold(key, n) ==
    /\ \/ bucket' = [bucket EXCEPT ![key] = @ \cup {<<key, n>>}] /\ UNCHANGED writing
       \/ /\ bucket[key] # {}
          /\ writing' = writing \cup {bucket[key]}
          /\ bucket' = [bucket EXCEPT ![key] = {<<key, n>>}]
    /\ UNCHANGED <<database, stored>>

\* CrowdIntelligenceService: analysed, and announced.
Analyses(rest, c, n) ==
    /\ latest' = [latest EXCEPT ![c] = n]
    /\ ready' = Dispatch(rest, "analysis", c, n)
    /\ UNCHANGED <<overlay, historyVars, lateSend>>

Draws(rest, c, n) ==
    /\ overlay' = [overlay EXCEPT ![c] = n]
    /\ ready' = rest
    /\ UNCHANGED <<latest, historyVars, lateSend>>

\* A camera is being stopped, or has been.
MidStop == \E c \in CamerasOf : pipeline[c] \in {"ending", "ended", "stopped"}

\* RealtimePublisher: a message to every client.
Sends(rest) ==
    /\ lateSend' = (lateSend \/ MidStop)
    /\ ready' = rest
    /\ UNCHANGED <<latest, overlay, historyVars>>

Records(rest, key, n) ==
    /\ Fold(key, n)
    /\ ready' = rest
    /\ UNCHANGED <<latest, overlay, lateSend>>

\* A handler runs; a camera's own ignore what is another's.
Handle ==
    /\ ready # << >> /\ Head(ready).does = "handle"
    /\ LET task == Head(ready)
           rest == Tail(ready)
       IN  \/ task.handler = <<"analyse", task.key>> /\ Analyses(rest, task.key, task.n)
           \/ task.handler = <<"draw", task.key>> /\ Draws(rest, task.key, task.n)
           \/ task.handler = Publisher /\ Sends(rest)
           \/ task.handler = Recorder /\ Records(rest, task.key, task.n)
           \/ /\ task.handler[2] \notin {task.key, "all"}
              /\ ready' = rest /\ UNCHANGED <<latest, overlay, historyVars, lateSend>>
    /\ UNCHANGED <<turns, stage, handlers, pipeline, delivered, site, reports>>

\* EventBus.publish: every handler subscribed now, in order.
Publish ==
    /\ ready # << >> /\ Head(ready).does = "publish"
    /\ LET task == Head(ready)
           subscribed == handlers[task.event]
       IN  ready' = Tail(ready) \o [i \in DOMAIN subscribed |-> Handling(subscribed[i], task)]
    /\ UNCHANGED <<turns, stage, handlers, cameraVars, site, reports, historyVars, lateSend>>

-----------------------------------------------------------------------------
(* What wakes the loop from outside.                                       *)

Announced == {w \in CamerasOf \X (1 .. MaxWindows) : w[2] <= delivered[w[1]]}

\* The frame in hand is delivered, also after the pipeline was told to stop.
Emit(c) ==
    /\ pipeline[c] \in {"running", "ending"}
    /\ Cardinality(Announced) < MaxWindows
    /\ delivered' = [delivered EXCEPT ![c] = @ + 1]
    /\ IF pipeline[c] = "ending"
       THEN /\ pipeline' = [pipeline EXCEPT ![c] = "ended"]
            /\ ready' = Append(Dispatch(ready, "perception", c, delivered'[c]), Lifespan)
       ELSE /\ ready' = Dispatch(ready, "perception", c, delivered'[c])
            /\ UNCHANGED pipeline
    /\ UNCHANGED <<turns, stage, handlers, latest, overlay, site, reports, historyVars, lateSend>>

\* The frame loop ends with nothing in hand.
LoopEnds(c) ==
    /\ pipeline[c] = "ending"
    /\ pipeline' = [pipeline EXCEPT ![c] = "ended"]
    /\ ready' = Append(ready, Lifespan)
    /\ UNCHANGED <<turns, stage, handlers, delivered, latest, overlay, site, reports, historyVars, lateSend>>

\* SiteIntelligenceService.update_once, each interval.
SiteUpdate ==
    /\ site = "running" /\ Len(reports) < MaxReports
    /\ reports' = Append(reports, pipeline)
    /\ ready' = Dispatch(ready, "site", "site", Len(reports) + 1)
    /\ UNCHANGED <<turns, stage, handlers, cameraVars, site, historyVars, lateSend>>

\* A write ends; the recorder's stop waits for the last of them.
WriteEnds ==
    \E w \in writing :
        /\ writing' = writing \ {w}
        /\ stored' = (IF database = "open" THEN stored \cup w ELSE stored)
        /\ ready' = (IF stage = "history" /\ writing = {w} THEN Append(ready, Lifespan) ELSE ready)
        /\ UNCHANGED <<turns, stage, handlers, cameraVars, site, reports, database, bucket, lateSend>>

\* The server is told to stop: the lifespan resumes after its yield.
Shutdown ==
    /\ stage = "serving"
    /\ stage' = "publisher"
    /\ ready' = Append(ready, Lifespan)
    /\ UNCHANGED <<turns, handlers, cameraVars, site, reports, historyVars, lateSend>>

-----------------------------------------------------------------------------
(* The lifespan's own steps, each up to its next await.                    *)

Resumed == ready # << >> /\ Head(ready) = Lifespan
Awaits == ready' = Append(Tail(ready), Lifespan)

Connect ==
    /\ Resumed /\ stage = "connect"
    /\ database' = "open" /\ stage' = "wire" /\ Awaits
    /\ UNCHANGED <<turns, handlers, cameraVars, site, reports, bucket, writing, stored, lateSend>>

\* The schema could not be brought up to date: nothing is started.
MigrationFails ==
    /\ Resumed /\ stage = "connect"
    /\ stage' = "failed" /\ ready' = Tail(ready)
    /\ UNCHANGED <<turns, handlers, cameraVars, site, reports, historyVars, lateSend>>

Subscribed(own, shared) == [i \in DOMAIN Fleet |-> <<own, Fleet[i]>>] \o shared

\* The cameras' handlers, then the publisher's, then the recorder's: all before
\* any camera starts.
Wire ==
    /\ Resumed /\ stage = "wire"
    /\ handlers' = [e \in Events |->
                        IF e = "perception" THEN Subscribed("analyse", << >>)
                        ELSE IF e = "analysis" THEN Subscribed("draw", <<Publisher, Recorder>>)
                        ELSE <<Publisher, Recorder>>]
    /\ stage' = "cameras" /\ Awaits
    /\ UNCHANGED <<turns, cameraVars, site, reports, historyVars, lateSend>>

StartCameras ==
    /\ Resumed /\ stage = "cameras"
    /\ pipeline' = [c \in CamerasOf |-> "running"] /\ site' = "running"
    /\ stage' = "serving" /\ ready' = Tail(ready)
    /\ UNCHANGED <<turns, handlers, delivered, latest, overlay, reports, historyVars, lateSend>>

\* EventBus.unsubscribe: a list of handlers, without the first that is this one.
Unsubscribed(list, handler) ==
    LET here == {i \in DOMAIN list : list[i] = handler}
    IN  IF here = {} THEN list
        ELSE RemoveAt(list, CHOOSE i \in here : \A j \in here : i <= j)

Without(handler) == [e \in Events |-> Unsubscribed(handlers[e], handler)]

\* Mutant: the publisher's loops end and it stays subscribed.
StopPublisherSubscribed ==
    /\ Resumed /\ stage = "publisher"
    /\ stage' = "site" /\ Awaits
    /\ UNCHANGED <<turns, handlers, cameraVars, site, reports, historyVars, lateSend>>

\* The publisher first, so that nothing is broadcast about cameras mid-stop; the
\* alert hardware, which is AlertHardware's, is stopped with it.
StopPublisher ==
    /\ Resumed /\ stage = "publisher"
    /\ handlers' = Without(Publisher)
    /\ stage' = "site" /\ Awaits
    /\ UNCHANGED <<turns, cameraVars, site, reports, historyVars, lateSend>>

StopSite ==
    /\ Resumed /\ stage = "site"
    /\ site' = "off" /\ stage' = "manager" /\ Awaits
    /\ UNCHANGED <<turns, handlers, cameraVars, reports, historyVars, lateSend>>

\* CameraManager.stop tells the first camera's pipeline to end.
StopFirstCamera ==
    /\ Resumed /\ stage = "manager"
    /\ pipeline' = [pipeline EXCEPT ![Fleet[1]] = "ending"]
    /\ stage' = "stopping" /\ turns' = Turns /\ ready' = Tail(ready)
    /\ UNCHANGED <<handlers, delivered, latest, overlay, site, reports, historyVars, lateSend>>

\* What the camera's stop awaits after its frame loop has ended.
Unwind ==
    /\ Resumed /\ stage = "stopping" /\ turns > 0
    /\ turns' = turns - 1 /\ Awaits
    /\ UNCHANGED <<stage, handlers, cameraVars, site, reports, historyVars, lateSend>>

\* CameraRuntime.stop clears what the camera was showing, the manager detaches
\* its handlers, and the next camera is told to end.
CameraStopped(i) ==
    /\ Resumed /\ stage = "stopping" /\ turns = 0 /\ pipeline[Fleet[i]] = "ended"
    /\ latest' = [latest EXCEPT ![Fleet[i]] = Nothing]
    /\ overlay' = [overlay EXCEPT ![Fleet[i]] = Nothing]
    /\ handlers' = [handlers EXCEPT
                        !["perception"] = Unsubscribed(@, <<"analyse", Fleet[i]>>),
                        !["analysis"] = Unsubscribed(@, <<"draw", Fleet[i]>>)]
    /\ IF i < Len(Fleet)
       THEN /\ pipeline' = [pipeline EXCEPT ![Fleet[i]] = "stopped", ![Fleet[i + 1]] = "ending"]
            /\ turns' = Turns /\ ready' = Tail(ready) /\ UNCHANGED stage
       ELSE /\ pipeline' = [pipeline EXCEPT ![Fleet[i]] = "stopped"]
            /\ stage' = "drain" /\ Awaits /\ UNCHANGED turns
    /\ UNCHANGED <<delivered, site, reports, historyVars, lateSend>>

\* EventBus.drain, after the broadcaster has closed every connection.
Outstanding == \E i \in DOMAIN ready : ready[i].does \in {"publish", "handle"}

Drain ==
    /\ Resumed /\ stage = "drain"
    /\ stage' = (IF Outstanding THEN "drain" ELSE "recorder") /\ Awaits
    /\ UNCHANGED <<turns, handlers, cameraVars, site, reports, historyVars, lateSend>>

Unwritten == {bucket[k] : k \in {k \in Keys : bucket[k] # {}}}

\* HistoryRecorder.stop writes what is still open, and waits for every write.
StopHistory ==
    /\ Resumed /\ stage = "recorder"
    /\ handlers' = Without(Recorder)
    /\ writing' = writing \cup Unwritten /\ bucket' = [k \in Keys |-> {}]
    /\ stage' = "history"
    /\ IF writing' = {} THEN Awaits ELSE ready' = Tail(ready)
    /\ UNCHANGED <<turns, cameraVars, site, reports, database, stored, lateSend>>

Disconnect ==
    /\ Resumed /\ stage = "history"
    /\ database' = "closed" /\ stage' = "closed" /\ ready' = Tail(ready)
    /\ UNCHANGED <<turns, handlers, cameraVars, site, reports, bucket, writing, stored, lateSend>>

-----------------------------------------------------------------------------
RunLoop ==
    \/ Publish \/ Handle
    \/ Connect \/ MigrationFails \/ Wire \/ StartCameras
    \/ StopPublisher \/ StopSite \/ StopFirstCamera \/ Unwind
    \/ \E i \in DOMAIN Fleet : CameraStopped(i)
    \/ Drain \/ StopHistory \/ Disconnect

LoopsEnd == \E c \in CamerasOf : LoopEnds(c)

LifespanNext ==
    \/ RunLoop \/ LoopsEnd \/ SiteUpdate \/ WriteEnds \/ Shutdown
    \/ \E c \in CamerasOf : Emit(c)

\* The loop runs, and frame loops that were told to end and writes do end.
LifespanFairness ==
    WF_lifespanVars(RunLoop) /\ WF_lifespanVars(LoopsEnd) /\ WF_lifespanVars(WriteEnds)

LifespanSpec == LifespanInit /\ [][LifespanNext]_lifespanVars

-----------------------------------------------------------------------------
LifespanTypeOK ==
    /\ \A i \in DOMAIN ready : ready[i].does \in {"lifespan", "publish", "handle"}
    /\ pipeline \in [CamerasOf -> {"off", "running", "ending", "ended", "stopped"}]
    /\ delivered \in [CamerasOf -> 0 .. MaxWindows] /\ Len(reports) <= MaxReports

(* From the first window a camera delivers to the frame that was in hand   *)
(* when it was told to stop, each one, and each site report, is in the     *)
(* database when it is closed.                                             *)
NothingIsLost ==
    stage = "closed" =>
        Announced \cup {<<"site", n>> : n \in 1 .. Len(reports)} \subseteq stored

(* The database is open while anything is still to be written.             *)
DatabaseOutlivesHistory ==
    writing # {} \/ Unwritten # {} => database = "open"

(* A camera that was stopped shows no analysis and no overlay: a result in *)
(* flight is not analysed against state that was discarded.                *)
StoppedShowsNothing ==
    \A c \in CamerasOf :
        pipeline[c] = "stopped" => latest[c] = Nothing /\ overlay[c] = Nothing

(* Nothing is broadcast about a camera, and no site report is made of one, *)
(* while it is stopped by the shutdown.                                    *)
QuietWhileStopping ==
    /\ ~lateSend
    /\ \A i \in DOMAIN reports, c \in CamerasOf : reports[i][c] = "running"

LifespanIsOrderly ==
    /\ LifespanTypeOK /\ NothingIsLost /\ DatabaseOutlivesHistory
    /\ StoppedShowsNothing /\ QuietWhileStopping

(* A backend told to stop closes its database.                             *)
ShutdownEnds == (stage = "publisher") ~> (stage = "closed")
=============================================================================
