----------------------------- MODULE FrameSessions -----------------------------
(***************************************************************************)
(* Which source session the state of each stage comes from.                *)
(*                                                                         *)
(* The event loop runs the frame loop, the operator's start, stop and swap *)
(* (serialised by the worker's lock) and the consumers of a result; the    *)
(* pipeline's only thread reads, detects, tracks and offers frames.  A     *)
(* frame loop that does not end in time is cancelled, but its thread job   *)
(* is not: it runs on, and after a stop on a thread of its own.  Frames    *)
(* are numbered from 0 in every session, and a session begins whenever a   *)
(* source is opened: by the pipeline, by a reconnection, by a clip's loop. *)
(***************************************************************************)
EXTENDS LiveStream, FiniteSets

CONSTANTS
    MaxSources,    \* bound: sources built
    MaxSkip        \* bound: frames a clip discards at once to keep pace

ASSUME SessionsAssumption ==
    {MaxSessions, MaxSeq, MaxSources, MaxSkip} \subseteq Nat /\ NoFrame \notin Nat

VARIABLES
    op, opKind,          \* the operator's call: where it is, what it does
    task, stopping,      \* the frame loop's task, _stopping
    thread,              \* jobs of the executor ("now") and of one shut down
    source, built,       \* the pipeline's open source, sources built so far
    kind, open,          \* of each source: live or clip, its capture is open
    session, seq,        \* of each source: its session, the next frame number
    sessions,            \* sessions begun so far
    lastSeq, tracked,    \* the pipeline's _last_seq, sessions the tracker knows
    result,              \* source of PerceptionStateService.latest
    analysisSeq, analysed,   \* the same for AnalysisPipeline, with their source
    cancelled            \* history: a frame loop has been cancelled

opVars == <<op, opKind, task, stopping>>
sourceVars == <<source, built, kind>>
sessionVars == <<open, session, seq, sessions>>
pipelineVars == <<lastSeq, tracked>>
resultVars == <<result, analysisSeq, analysed>>
vars == <<opVars, thread, sourceVars, sessionVars, pipelineVars, resultVars,
          cancelled, streamVars>>

Sources == 1 .. MaxSources
NoSource == 0
Threads == {"now", "old"}
Steps == {"none", "read", "reopen", "detect", "offer", "offered"}
Idle == [step |-> "none", src |-> NoSource, frame |-> NoFrame, of |-> NoFrame,
         owned |-> FALSE]

TypeOK ==
    /\ StreamTypeOK
    /\ op \in {"idle", "halting", "closing", "opening"} /\ opKind \in {"stop", "swap"}
    /\ task \in {"none", "run", "done"} /\ stopping \in BOOLEAN
    /\ thread \in [Threads -> [step : Steps, src : Sources \cup {NoSource},
                               frame : Seqs \cup {NoFrame},
                               of : Sessions \cup {NoFrame}, owned : BOOLEAN]]
    /\ \A t \in Threads : thread[t].owned <=> (t = "now" /\ task = "run")
    /\ source \in Sources \cup {NoSource} /\ built \in 0 .. MaxSources
    /\ kind \in [Sources -> {"live", "clip"}] /\ open \in [Sources -> BOOLEAN]
    /\ session \in [Sources -> Sessions \cup {NoFrame}]
    /\ seq \in [Sources -> 0 .. MaxSeq + 1] /\ sessions \in 0 .. MaxSessions
    /\ {lastSeq, analysisSeq} \subseteq Seqs \cup {NoFrame}
    /\ tracked \subseteq Sessions /\ analysed \subseteq Sources \X Sessions
    /\ result \in Sources \cup {NoSource} /\ cancelled \in BOOLEAN

Init ==
    /\ StreamInit
    /\ op = "idle" /\ opKind = "stop" /\ task = "none" /\ stopping = FALSE
    /\ thread = [t \in Threads |-> Idle]
    /\ source = NoSource /\ built = 0 /\ kind \in [Sources -> {"live", "clip"}]
    /\ open = [s \in Sources |-> FALSE] /\ session = [s \in Sources |-> NoFrame]
    /\ seq = [s \in Sources |-> 0] /\ sessions = 0
    /\ lastSeq = NoFrame /\ tracked = {} /\ result = NoSource
    /\ analysisSeq = NoFrame /\ analysed = {}
    /\ cancelled = FALSE

-----------------------------------------------------------------------------
(* Sources.                                                                *)

NumberedFrom(s) == 0

\* A capture is opened, or a clip rewound: a session begins at frame 0.
BeginSession(s) ==
    /\ sessions < MaxSessions
    /\ sessions' = sessions + 1
    /\ session' = [session EXCEPT ![s] = sessions + 1]

OpenCapture(s) ==
    /\ BeginSession(s)
    /\ open' = [open EXCEPT ![s] = TRUE]
    /\ seq' = [seq EXCEPT ![s] = NumberedFrom(s)]

CloseCapture(s) ==
    /\ open' = [x \in Sources |-> open[x] /\ x # s]
    /\ UNCHANGED <<session, seq, sessions>>

-----------------------------------------------------------------------------
(* What a stage does with the number of the frame it is given.             *)

\* Mutant: a session whose first frame repeats the last number is missed.
RestartedBelow(previous, n) == previous # NoFrame /\ n < previous

Restarted(previous, n) == previous # NoFrame /\ n <= previous

\* _note_continuity of the pipeline: the tracker is reset at a seam.
NoteContinuity(n) ==
    /\ lastSeq' = n
    /\ tracked' = IF Restarted(lastSeq, n) THEN {} ELSE tracked

\* AnalysisPipeline.process notes the seam before any stage can fail.
Consume(job) ==
    /\ result' = job.src
    /\ analysisSeq' = job.frame
    /\ analysed' = (IF Restarted(analysisSeq, job.frame) THEN {} ELSE analysed)
                       \cup {<<job.src, job.of>>}

-----------------------------------------------------------------------------
(* Thread jobs.  The frame loop submits the next one as soon as it has the *)
(* last one's result, so a step ends where the loop's next await begins.   *)

At(t, job) == thread' = [thread EXCEPT ![t] = job]

\* The job returned nothing to process: _run looks at _stopping.
LoopGoesOn(t) ==
    IF thread[t].owned /\ ~stopping
    THEN At(t, [thread[t] EXCEPT !.step = "read", !.frame = NoFrame, !.of = NoFrame])
         /\ UNCHANGED task
    ELSE At(t, Idle) /\ task' = IF thread[t].owned THEN "done" ELSE task

LoopReturns(t) ==
    At(t, Idle) /\ task' = IF thread[t].owned THEN "done" ELSE task

LoopOnly == UNCHANGED <<op, opKind, stopping, sourceVars, cancelled>>

\* A frame was read; an owned one is submitted to _process.
FrameRead(t, n, of) ==
    /\ IF thread[t].owned
       THEN /\ At(t, [thread[t] EXCEPT !.step = "detect", !.frame = n, !.of = of])
            /\ NoteContinuity(n)
       ELSE At(t, Idle) /\ UNCHANGED pipelineVars
    /\ LoopOnly /\ UNCHANGED <<task, resultVars, streamVars>>

\* read returns the next frame; a clip first discards what it is late for.
ReadFrame(t) ==
    LET s == thread[t].src
    IN  /\ thread[t].step = "read" /\ open[s]
        /\ \E skip \in IF kind[s] = "clip" THEN 0 .. MaxSkip ELSE {0} :
              LET n == seq[s] + skip
              IN  /\ n <= MaxSeq
                  /\ seq' = [seq EXCEPT ![s] = n + 1]
                  /\ FrameRead(t, n, session[s])
        /\ UNCHANGED <<open, session, sessions>>

\* _handle_end_of_file of a looping clip.
LoopClip(t) ==
    LET s == thread[t].src
    IN  /\ thread[t].step = "read" /\ open[s] /\ kind[s] = "clip"
        /\ BeginSession(s)
        /\ seq' = [seq EXCEPT ![s] = NumberedFrom(s) + 1]
        /\ FrameRead(t, NumberedFrom(s), sessions + 1)
        /\ UNCHANGED open

\* read returns None: a failed grab, a damaged frame, a capture closed under it.
ReadGap(t) ==
    LET s == thread[t].src
    IN  /\ thread[t].step = "read"
        /\ LoopGoesOn(t)
        /\ seq' = IF kind[s] = "clip" /\ open[s] /\ seq[s] < MaxSeq
                  THEN [seq EXCEPT ![s] = @ + 1] ELSE seq
        /\ LoopOnly
        /\ UNCHANGED <<open, session, sessions, pipelineVars, resultVars, streamVars>>

\* SourceEnded.
ReadEnds(t) ==
    /\ thread[t].step = "read" /\ kind[thread[t].src] = "clip"
    /\ LoopReturns(t)
    /\ LoopOnly
    /\ UNCHANGED <<sessionVars, pipelineVars, resultVars, streamVars>>

\* The camera is gone, or its capture was closed: _reconnect closes it first.
ReadLost(t) ==
    /\ thread[t].step = "read" /\ kind[thread[t].src] = "live"
    /\ CloseCapture(thread[t].src)
    /\ At(t, [thread[t] EXCEPT !.step = "reopen"])
    /\ LoopOnly
    /\ UNCHANGED <<task, pipelineVars, resultVars, streamVars>>

\* _reconnect returns: open again, or exhausted.
Reconnect(t) ==
    /\ thread[t].step = "reopen"
    /\ \/ OpenCapture(thread[t].src) /\ LoopGoesOn(t)
       \/ UNCHANGED sessionVars /\ LoopReturns(t)
    /\ LoopOnly
    /\ UNCHANGED <<pipelineVars, resultVars, streamVars>>

\* Detection and tracking; a frame they fail on is delivered all the same.
Track(t) ==
    /\ thread[t].step = "detect"
    /\ At(t, [thread[t] EXCEPT !.step = "offer"])
    /\ tracked' \in {tracked, tracked \cup {thread[t].of}}
    /\ LoopOnly
    /\ UNCHANGED <<task, sessionVars, lastSeq, resultVars, streamVars>>

\* Too many frames in a row failed: _process returns nothing, the loop ends.
GiveUp(t) ==
    /\ thread[t].step = "detect"
    /\ LoopReturns(t) /\ LoopOnly
    /\ UNCHANGED <<sessionVars, pipelineVars, resultVars, streamVars>>

\* Mutant: a finished frame is delivered whoever waits for it.
DeliverAnyway(t) == LoopGoesOn(t) /\ Consume(thread[t])

\* _deliver, and what subscribes to the result: all of it is done before a
\* thread can answer again.
Deliver(t) ==
    /\ LoopGoesOn(t)
    /\ IF thread[t].owned THEN Consume(thread[t]) ELSE UNCHANGED resultVars

\* _offer_frame calls handle_frame on this thread.
Offer(t) ==
    /\ thread[t].step = "offer"
    /\ IF Viewed
       THEN /\ TakePicture(thread[t].of, thread[t].frame)
            /\ At(t, [thread[t] EXCEPT !.step = "offered"])
            /\ UNCHANGED <<task, resultVars>>
       ELSE Deliver(t) /\ UNCHANGED streamVars
    /\ LoopOnly
    /\ UNCHANGED <<sessionVars, pipelineVars>>

Offered(t) ==
    /\ thread[t].step = "offered"
    /\ AnnouncePicture /\ Deliver(t)
    /\ LoopOnly
    /\ UNCHANGED <<sessionVars, pipelineVars>>

ThreadStep(t) ==
    \/ ReadFrame(t) \/ LoopClip(t) \/ ReadGap(t) \/ ReadEnds(t) \/ ReadLost(t)
    \/ Reconnect(t) \/ Track(t) \/ GiveUp(t) \/ Offer(t) \/ Offered(t)

-----------------------------------------------------------------------------
(* The operator and the supervisor: halt, then close, then open or clear.  *)

Request(what) ==
    /\ op = "idle" /\ (what = "swap" => built < MaxSources)
    /\ opKind' = what /\ stopping' = TRUE
    /\ op' = IF task = "none" THEN "closing" ELSE "halting"
    /\ UNCHANGED <<task, thread, sourceVars, sessionVars, pipelineVars, resultVars,
                   cancelled, streamVars>>

\* The loop ended by itself or saw _stopping.
Joined ==
    /\ op = "halting" /\ task = "done"
    /\ op' = "closing" /\ task' = "none"
    /\ UNCHANGED <<opKind, stopping, thread, sourceVars, sessionVars, pipelineVars,
                   resultVars, cancelled, streamVars>>

\* stop_timeout_s pass: the task is cancelled, its thread job is not.
\* (Bound: one job of a thread already shut down at a time.)
HaltTimeout ==
    /\ op = "halting" /\ task = "run" /\ thread["old"] = Idle
    /\ op' = "closing" /\ task' = "none" /\ cancelled' = TRUE
    /\ thread' = [thread EXCEPT !["now"].owned = FALSE]
    /\ UNCHANGED <<opKind, stopping, sourceVars, sessionVars, pipelineVars,
                   resultVars, streamVars>>

\* Mutant: the close waits its turn behind the pipeline thread's job.
CloseQueued == thread["now"] = Idle

\* "Closed on a separate thread rather than the pipeline thread."
CloseMayRun == TRUE

ResetState == lastSeq' = NoFrame /\ tracked' = {}

\* The rest of CameraRuntime.stop: perception_state, live_stream, intelligence.
Forget ==
    /\ result' = NoSource /\ analysisSeq' = NoFrame /\ analysed' = {} /\ Clear

\* The source is closed; a stop goes on to give up the thread and clear what
\* was shown, a swap to reset the stages and to open the new source.
Close ==
    /\ op = "closing" /\ CloseMayRun
    /\ CloseCapture(source) /\ source' = NoSource
    /\ \/ /\ opKind = "stop"
          /\ op' = "idle"
          /\ thread' = IF thread["now"] = Idle THEN thread
                       ELSE [now |-> Idle, old |-> thread["now"]]
          /\ Forget /\ UNCHANGED <<built, pipelineVars>>
       \/ /\ opKind = "swap"
          /\ op' = "opening" /\ built' = built + 1
          /\ ResetState /\ UNCHANGED <<thread, resultVars, streamVars>>
    /\ UNCHANGED <<opKind, task, stopping, kind, cancelled>>

\* source.open runs on the pipeline thread, after whatever it was doing.
Open ==
    /\ op = "opening" /\ thread["now"] = Idle
    /\ op' = "idle"
    /\ \/ /\ OpenCapture(built)
          /\ source' = built /\ task' = "run" /\ stopping' = FALSE /\ lastSeq' = NoFrame
          /\ At("now", [Idle EXCEPT !.step = "read", !.src = built, !.owned = TRUE])
       \/ UNCHANGED <<sessionVars, source, task, stopping, lastSeq, thread>>
    /\ UNCHANGED <<opKind, built, kind, tracked, resultVars, cancelled, streamVars>>

OpStep == Joined \/ HaltTimeout \/ Close \/ Open

Next ==
    \/ \E t \in Threads : ThreadStep(t)
    \/ Request("stop") \/ Request("swap") \/ OpStep
    \/ Viewers(\E t \in Threads : thread[t].step = "offered")
       /\ UNCHANGED <<opVars, thread, sourceVars, sessionVars, pipelineVars,
                              resultVars, cancelled>>

\* Everything a thread does ends, except that a read of an open capture may
\* never return.
Finishes(t) ==
    /\ thread[t].step = "read" => ~open[thread[t].src]
    /\ ThreadStep(t)

Fairness == WF_vars(OpStep) /\ \A t \in Threads : WF_vars(Finishes(t))
Spec == Init /\ [][Next]_vars /\ Fairness

-----------------------------------------------------------------------------
(* "Movement history spanning a dropout would be fabricated motion": while *)
(* every halted loop ended in time, the tracker never knows people of two  *)
(* sessions, through reconnections, looping clips, swaps and restarts.     *)
TrackerKnowsOneSession == ~cancelled => Cardinality(tracked) <= 1

(* A seam inside one source, a reconnection or a clip that loops, is       *)
(* noticed by the analysis too: its baselines never span two sessions of   *)
(* the same source.                                                        *)
SeamsAreNoticed ==
    \A x, y \in analysed : x[1] = y[1] => x = y

(* A camera that admits one client: no source is open but the one the      *)
(* pipeline holds, unless a loop had to be cancelled.                      *)
OneSourceIsOpen == ~cancelled => \A s \in Sources : open[s] => s = source

(* A stopped camera shows nothing: no result and no assessment, whatever a *)
(* cancelled loop's thread still does, and no picture unless there is one. *)
StoppedShowsNothing ==
    op = "idle" /\ opKind = "stop" =>
        /\ result = NoSource /\ analysed = {}
        /\ ~cancelled => picture = NoFrame

(* What is delivered comes from the source the pipeline holds, never from  *)
(* the thread of a cancelled loop.                                         *)
DeliveredIsCurrent == [][result' \notin {result, NoSource} => result' = source]_vars

(* "If the loop is wedged inside a blocking read, releasing the capture is *)
(* what unblocks it": every stop and every swap returns.                   *)
OperatorReturns == op # "idle" ~> op = "idle"

(* Nothing that remembers frames remembers those of two sessions.          *)
SessionsStayApart == TypeOK /\ TrackerKnowsOneSession /\ SeamsAreNoticed

(* What is shown is what the pipeline's one open source shows now.         *)
ShowsWhatItHolds ==
    [](OneSourceIsOpen /\ StoppedShowsNothing /\ SnapshotIsFresh) /\ DeliveredIsCurrent
=============================================================================
