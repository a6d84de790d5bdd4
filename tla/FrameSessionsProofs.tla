-------------------------- MODULE FrameSessionsProofs --------------------------
(***************************************************************************)
(* Theorems about FrameSessions, for every number of sources, sessions and *)
(* frames: what remembers frames remembers one session of a source, and    *)
(* what is shown is what the pipeline's one open source shows.             *)
(***************************************************************************)
EXTENDS FrameSessions, FiniteSetTheorems, TLAPS

Jobs == [step : Steps, src : Sources \cup {NoSource}, frame : Seqs \cup {NoFrame},
         of : Sessions \cup {NoFrame}, owned : BOOLEAN]

Running == thread["now"]
Holding(job) == job.step \in {"detect", "offer", "offered"}
JobOK(job) ==
    /\ job.step = "none" => job = Idle
    /\ job.step # "none" => job.src \in Sources
    /\ Holding(job) => job.frame \in Seqs /\ job.of \in Sessions

(* Who runs what.  A source is never used again: a new one is the last     *)
(* built, and a job that outlived its loop works on an earlier one.        *)
ControlInv ==
    /\ op \in {"idle", "halting", "closing", "opening"} /\ opKind \in {"stop", "swap"}
    /\ task \in {"none", "run", "done"} /\ stopping \in BOOLEAN /\ cancelled \in BOOLEAN
    /\ built \in 0 .. MaxSources /\ kind \in [Sources -> {"live", "clip"}]
    /\ source \in {NoSource, built} /\ thread \in [Threads -> Jobs]
    /\ \A t \in Threads :
          /\ JobOK(thread[t]) /\ thread[t].src <= built
          /\ thread[t].step = "reopen" => kind[thread[t].src] = "live"
          /\ thread[t].owned <=> (t = "now" /\ task = "run")
          /\ thread[t].step # "none" => thread[t].owned \/ cancelled
          /\ op = "opening" => thread[t].src < built
    /\ task = "run" =>
          /\ Running.step # "none" /\ Running.src = built /\ source = built
          /\ thread["old"].src < built
    /\ op = "idle" /\ opKind = "stop" => task = "none"
    /\ op = "halting" => task # "none"
    /\ op \in {"closing", "opening"} => task = "none"
    /\ op = "opening" => opKind = "swap" /\ source = NoSource
    /\ op \in {"halting", "closing"} /\ opKind = "swap" => built < MaxSources

(* An open source has a session; no other is open, unless a loop was       *)
(* cancelled.                                                              *)
SessionsInv ==
    /\ open \in [Sources -> BOOLEAN] /\ session \in [Sources -> Sessions \cup {NoFrame}]
    /\ seq \in [Sources -> 0 .. MaxSeq + 1] /\ sessions \in 0 .. MaxSessions
    /\ \A s \in Sources : open[s] => session[s] \in Sessions
    /\ OneSourceIsOpen

(* The next frame of the loop's source is of the session x, or is frame 0: *)
(* only a live source begins a session without reading a frame of it.      *)
Continues(x) ==
    x = session[Running.src] \/ (kind[Running.src] = "live" /\ seq[Running.src] = 0)

HeldInv == task = "run" /\ Holding(Running) => Running.of = session[Running.src]

TrackInv ==
    /\ lastSeq \in Seqs \cup {NoFrame} /\ tracked \subseteq Sessions
    /\ ~cancelled =>
          /\ \A x, y \in tracked : x = y
          /\ tracked # {} => lastSeq \in Seqs
          /\ op = "opening" => tracked = {}
          /\ task = "run" /\ Holding(Running) => lastSeq \in Seqs
          /\ task = "run" => \A x \in tracked :
                IF Holding(Running) THEN x = Running.of ELSE Continues(x)

(* What the analysis has of the loop's source is of the session that goes  *)
(* on, or the number of the next frame gives the seam away.                *)
AnalysisInv ==
    /\ result \in Sources \cup {NoSource}
    /\ analysisSeq \in Seqs \cup {NoFrame} /\ analysed \subseteq Sources \X Sessions
    /\ SeamsAreNoticed
    /\ analysed # {} => analysisSeq \in Seqs
    /\ \A p \in analysed : p[1] <= built /\ (op = "opening" => p[1] < built)
    /\ task = "run" => \A p \in analysed : p[1] = Running.src =>
          IF Holding(Running) THEN p[2] = Running.of \/ Running.frame <= analysisSeq
                              ELSE Continues(p[2])

(* A picture announced while a snapshot is waited for was taken since, or  *)
(* was being announced.                                                    *)
Announcing == \E t \in Threads : thread[t].step = "offered"
StreamInv ==
    /\ StreamTypeOK
    /\ moved => snapshot = "waiting" /\ sinceAsked
    /\ snapshot = "waiting" /\ Announcing => sinceAsked

IInv ==
    /\ ControlInv /\ SessionsInv /\ HeldInv /\ TrackInv /\ AnalysisInv /\ StreamInv
    /\ StoppedShowsNothing

-----------------------------------------------------------------------------
(* About the operators.                                                    *)

LEMMA Bounds ==
    /\ MaxSessions \in Nat /\ MaxSeq \in Nat /\ MaxSources \in Nat /\ MaxSkip \in Nat
    /\ NoFrame \notin Seqs /\ Seqs \subseteq Nat
    /\ \A s \in Sources : s \in Nat /\ s # NoSource
BY SessionsAssumption DEF Seqs, Sources, NoSource

LEMMA IdleIs ==
    Idle \in Jobs /\ Idle.step = "none" /\ Idle.src = NoSource /\ Idle.owned = FALSE
    /\ ~Holding(Idle)
BY DEF Idle, Jobs, Steps, Holding

LEMMA JobIs ==
    ASSUME ControlInv, NEW t \in Threads
    PROVE  /\ thread[t] \in Jobs /\ thread[t].src \in Nat /\ JobOK(thread[t])
           /\ thread[t].owned \in BOOLEAN
BY Bounds DEF ControlInv, Jobs, NoSource

(* A job that the loop waits for is the pipeline thread's, on its source.  *)
LEMMA OwnedIs ==
    ASSUME ControlInv, NEW t \in Threads, thread[t].owned
    PROVE  /\ t = "now" /\ task = "run" /\ thread[t] = Running
           /\ Running.src = built /\ source = built /\ source \in Sources
<1>1. t = "now" /\ task = "run"
  BY DEF ControlInv
<1>2. Running.src = built /\ source = built /\ Running.step # "none"
  BY <1>1 DEF ControlInv
<1>3. Running.src \in Sources
  BY <1>1, <1>2, JobIs DEF JobOK, Running
<1> QED BY <1>1, <1>2, <1>3 DEF Running

(* Any other works on an earlier source, and not unless a loop has been    *)
(* cancelled.                                                              *)
LEMMA UnownedIs ==
    ASSUME ControlInv, NEW t \in Threads, thread[t].step # "none", ~thread[t].owned
    PROVE  /\ cancelled /\ thread[t].src \in Sources
           /\ task = "run" => t = "old" /\ thread[t].src < Running.src
<1>1. cancelled /\ thread[t].src \in Sources
  BY JobIs DEF ControlInv, JobOK
<1>2. task = "run" => t = "old"
  BY DEF ControlInv, Threads
<1>3. task = "run" => thread["old"].src < Running.src
  BY DEF ControlInv
<1> QED BY <1>1, <1>2, <1>3

-----------------------------------------------------------------------------
(* Who runs what.                                                          *)

(* A job takes a step, or is over.                                         *)
LEMMA ControlMoves ==
    ASSUME ControlInv, NEW t \in Threads, thread[t].step # "none", NEW j \in Jobs, JobOK(j),
           j.step = "reopen" => kind[j.src] = "live",
           thread' = [thread EXCEPT ![t] = j],
           \/ j = Idle /\ task' = IF thread[t].owned THEN "done" ELSE task
           \/ j.step # "none" /\ j.src = thread[t].src /\ j.owned = thread[t].owned
              /\ task' = task,
           LoopOnly
    PROVE  ControlInv'
<1>1. UNCHANGED <<op, opKind, stopping, source, built, kind, cancelled>>
  BY DEF LoopOnly, sourceVars
<1>2. /\ thread' \in [Threads -> Jobs] /\ thread'[t] = j
      /\ \A u \in Threads : u # t => thread'[u] = thread[u]
  BY DEF ControlInv
<1>3. task' \in {"none", "run", "done"} /\ (thread[t].owned => task = "run" /\ t = "now")
      /\ (task = "none" => task' = "none") /\ (task' = "run" => task = "run")
  BY DEF ControlInv
<1>4. built \in Nat /\ (op = "opening" => built > 0)
  <2>1. built \in Nat /\ thread["now"].src \in Nat
    BY Bounds, JobIs DEF ControlInv, Threads
  <2>2. op = "opening" => thread["now"].src < built
    BY DEF ControlInv, Threads
  <2> QED BY <2>1, <2>2
<1>5. j.src <= built /\ (op = "opening" => j.src < built) /\ j.src \in Nat
  <2>1. CASE j = Idle
    BY <1>4, <2>1, IdleIs DEF NoSource
  <2>2. CASE j # Idle
    BY <2>2, JobIs DEF ControlInv
  <2> QED BY <2>1, <2>2
<1>6. \A u \in Threads :
         JobOK(thread'[u]) /\ (thread'[u].step = "reopen" => kind'[thread'[u].src] = "live")
  BY <1>1, <1>2 DEF ControlInv
<1>7. \A u \in Threads : thread'[u].owned <=> (u = "now" /\ task' = "run")
  <2>1. ASSUME NEW u \in Threads, u # t
        PROVE  thread'[u].owned <=> (u = "now" /\ task' = "run")
    <3>1. thread'[u] = thread[u] /\ (thread[u].owned <=> (u = "now" /\ task = "run"))
      BY <1>2, <2>1 DEF ControlInv
    <3>2. u = "now" => task' = task
      BY <1>3, <2>1
    <3> QED BY <3>1, <3>2
  <2>2. j.owned <=> (t = "now" /\ task' = "run")
    <3>1. CASE j = Idle
      <4>1. ~j.owned
        BY <3>1, IdleIs
      <4>2. thread[t].owned => task' # "run"
        BY <3>1, IdleIs
      <4>3. ~thread[t].owned => ~(t = "now" /\ task' = "run")
        BY <1>3 DEF ControlInv
      <4> QED BY <4>1, <4>2, <4>3
    <3>2. CASE j # Idle
      <4>1. j.owned = thread[t].owned /\ task' = task
        BY <3>2
      <4>2. thread[t].owned <=> (t = "now" /\ task = "run")
        BY DEF ControlInv
      <4> QED BY <4>1, <4>2
    <3> QED BY <3>1, <3>2
  <2> QED BY <1>2, <2>1, <2>2
<1>8. \A u \in Threads : thread'[u].step # "none" => thread'[u].owned \/ cancelled'
  <2>1. \A u \in Threads : thread[u].step # "none" => thread[u].owned \/ cancelled
    BY DEF ControlInv
  <2>2. j.step # "none" => j.owned = thread[t].owned
    BY IdleIs
  <2> QED BY <1>1, <1>2, <2>1, <2>2
<1>9. \A u \in Threads : thread'[u].src <= built' /\ (op' = "opening" => thread'[u].src < built')
  BY <1>1, <1>2, <1>5 DEF ControlInv
<1>10. task' = "run" =>
          /\ Running'.step # "none" /\ Running'.src = built' /\ source' = built'
          /\ thread'["old"].src < built'
  <2>1. ASSUME task' = "run"
        PROVE  /\ Running'.step # "none" /\ Running'.src = built' /\ source' = built'
               /\ thread'["old"].src < built'
    <3>1. /\ Running.step # "none" /\ Running.src = built /\ source = built
          /\ thread["old"].src < built
      BY <1>3, <2>1 DEF ControlInv
    <3>2. CASE t = "now"
      <4>1. thread[t].owned
        BY <1>3, <2>1, <3>2 DEF ControlInv
      <4>2. j # Idle
        BY <2>1, <4>1, IdleIs
      <4> QED BY <1>1, <1>2, <3>1, <3>2, <4>2 DEF Running, Threads
    <3>3. CASE t = "old"
      <4>1. j.src < built
        <5>1. thread["old"].src \in Nat /\ built \in Nat
          BY <1>4, JobIs DEF Threads
        <5> QED BY <3>1, <3>3, <5>1, IdleIs DEF NoSource
      <4> QED BY <1>1, <1>2, <3>1, <3>3, <4>1 DEF Running, Threads
    <3> QED BY <3>2, <3>3 DEF Threads
  <2> QED BY <2>1
<1>11. op' = "halting" => task' # "none"
  BY <1>1, <1>3 DEF ControlInv
<1>12. /\ op' \in {"idle", "halting", "closing", "opening"} /\ opKind' \in {"stop", "swap"}
       /\ stopping' \in BOOLEAN /\ cancelled' \in BOOLEAN
       /\ built' \in 0 .. MaxSources /\ kind' \in [Sources -> {"live", "clip"}]
       /\ source' \in {NoSource, built'}
       /\ op' = "idle" /\ opKind' = "stop" => task' = "none"
       /\ op' \in {"closing", "opening"} => task' = "none"
       /\ op' = "opening" => opKind' = "swap" /\ source' = NoSource
       /\ op' \in {"halting", "closing"} /\ opKind' = "swap" => built' < MaxSources
  BY <1>1, <1>3 DEF ControlInv
<1> QED BY <1>2, <1>3, <1>6, <1>7, <1>8, <1>9, <1>10, <1>11, <1>12 DEF ControlInv

ControlVars == <<op, opKind, task, stopping, thread, source, built, kind, cancelled>>

LEMMA ControlSame ==
    ASSUME ControlInv, UNCHANGED ControlVars PROVE ControlInv'
BY DEF ControlInv, ControlVars, Running

LEMMA RequestControl ==
    ASSUME ControlInv, NEW what \in {"stop", "swap"}, Request(what) PROVE ControlInv'
<1>1. /\ op = "idle" /\ opKind' = what /\ stopping' = TRUE
      /\ op' = (IF task = "none" THEN "closing" ELSE "halting")
      /\ what = "swap" => built < MaxSources
      /\ UNCHANGED <<task, thread, source, built, kind, cancelled>>
  BY DEF Request, sourceVars
<1> QED BY <1>1 DEF ControlInv, Running

LEMMA JoinedControl ==
    ASSUME ControlInv, Joined PROVE ControlInv'
<1>1. /\ op = "halting" /\ task = "done" /\ op' = "closing" /\ task' = "none"
      /\ UNCHANGED <<opKind, stopping, thread, source, built, kind, cancelled>>
  BY DEF Joined, sourceVars
<1> QED BY <1>1 DEF ControlInv, Running

(* The loop is cancelled; its job is no longer anybody's.                  *)
LEMMA TimeoutControl ==
    ASSUME ControlInv, HaltTimeout PROVE ControlInv'
<1>0. PICK j : j = [Running EXCEPT !.owned = FALSE]
  OBVIOUS
<1>1. /\ op = "halting" /\ task = "run" /\ op' = "closing" /\ task' = "none"
      /\ cancelled' = TRUE
      /\ UNCHANGED <<opKind, stopping, source, built, kind>>
  BY DEF HaltTimeout, sourceVars
<1>2. thread' = [thread EXCEPT !["now"] = j] /\ "now" \in Threads
  BY <1>0 DEF HaltTimeout, Running, Threads, ControlInv
<1>3. /\ thread' \in [Threads -> Jobs] /\ thread'["now"] = j
      /\ \A u \in Threads : u # "now" => thread'[u] = thread[u]
      /\ j.src = Running.src /\ j.step = Running.step /\ j.owned = FALSE
      /\ JobOK(j)
  <2>1. Running \in Jobs /\ JobOK(Running)
    BY <1>2 DEF ControlInv, Running
  <2>2. /\ j \in Jobs /\ j.src = Running.src /\ j.step = Running.step
        /\ j.owned = FALSE /\ JobOK(j)
    <3>1. /\ j \in Jobs /\ j.src = Running.src /\ j.step = Running.step
          /\ j.frame = Running.frame /\ j.of = Running.of /\ j.owned = FALSE
      BY <1>0, <2>1 DEF Jobs
    <3>2. Running.step # "none"
      BY <1>1 DEF ControlInv
    <3> HIDE DEF Running
    <3> QED BY <2>1, <3>1, <3>2 DEF JobOK, Holding
  <2> HIDE DEF Running
  <2> QED BY <1>2, <2>2 DEF ControlInv
<1>4. \A u \in Threads :
         /\ JobOK(thread'[u]) /\ thread'[u].src <= built
         /\ thread'[u].step = "reopen" => kind[thread'[u].src] = "live"
         /\ ~thread'[u].owned
  BY <1>1, <1>2, <1>3 DEF ControlInv, Running
<1> QED BY <1>1, <1>3, <1>4 DEF ControlInv

(* A stop gives up the thread, a swap goes on to open the next source.     *)
LEMMA CloseControl ==
    ASSUME ControlInv, Close PROVE ControlInv'
<1>1. /\ op = "closing" /\ source' = NoSource
      /\ UNCHANGED <<opKind, task, stopping, kind, cancelled>>
  BY DEF Close
<1>2. task = "none" /\ built \in Nat /\ \A t \in Threads : thread[t].src \in Nat
  BY <1>1, Bounds, JobIs DEF ControlInv
<1>3. CASE /\ opKind = "stop" /\ op' = "idle" /\ UNCHANGED built
           /\ thread' = IF thread["now"] = Idle THEN thread
                        ELSE [now |-> Idle, old |-> thread["now"]]
  <2>1. CASE thread["now"] = Idle
    BY <1>1, <1>2, <1>3, <2>1 DEF ControlInv
  <2>2. CASE thread["now"] # Idle
    <3>1. thread' = [t \in Threads |-> IF t = "now" THEN Idle ELSE thread["now"]]
      BY <1>3, <2>2 DEF Threads
    <3>2. thread' \in [Threads -> Jobs] /\ \A t \in Threads : thread'[t] \in {Idle, thread["now"]}
      BY <3>1, JobIs, IdleIs DEF Threads
    <3>3. \A t \in Threads :
             /\ JobOK(thread'[t]) /\ thread'[t].src <= built
             /\ thread'[t].step = "reopen" => kind[thread'[t].src] = "live"
             /\ ~thread'[t].owned
             /\ thread'[t].step # "none" => thread'[t].owned \/ cancelled
      <4>1. "now" \in Threads /\ ~thread["now"].owned
        BY <1>2 DEF ControlInv, Threads
      <4>2. JobOK(Idle) /\ Idle.src <= built
        BY <1>2, IdleIs DEF JobOK, NoSource
      <4> QED BY <3>2, <4>1, <4>2, IdleIs DEF ControlInv
    <3> QED BY <1>1, <1>2, <1>3, <3>2, <3>3 DEF ControlInv
  <2> QED BY <2>1, <2>2
<1>4. CASE opKind = "swap" /\ op' = "opening" /\ built' = built + 1 /\ UNCHANGED thread
  <2>1. built' \in 0 .. MaxSources
    BY <1>1, <1>2, <1>4, Bounds DEF ControlInv
  <2> QED BY <1>1, <1>2, <1>4, <2>1 DEF ControlInv
<1> QED BY <1>3, <1>4 DEF Close

LEMMA OpenControl ==
    ASSUME ControlInv, Open PROVE ControlInv'
<1>1. /\ op = "opening" /\ thread["now"] = Idle /\ op' = "idle"
      /\ UNCHANGED <<opKind, built, kind, cancelled>>
  BY DEF Open
<1>2. /\ task = "none" /\ opKind = "swap" /\ built \in Nat
      /\ \A t \in Threads : thread[t].src < built /\ thread[t].src \in Nat
  BY <1>1, Bounds, JobIs DEF ControlInv
<1>3. CASE /\ source' = built /\ task' = "run" /\ stopping' = FALSE
           /\ At("now", [Idle EXCEPT !.step = "read", !.src = built, !.owned = TRUE])
  <2>0. PICK j : j = [Idle EXCEPT !.step = "read", !.src = built, !.owned = TRUE]
    OBVIOUS
  <2>1. built \in Sources
    <3>1. "now" \in Threads
      BY DEF Threads
    <3> QED BY <1>2, <3>1 DEF Sources, ControlInv
  <2>2. j \in Jobs /\ j.step = "read" /\ j.src = built /\ j.owned = TRUE /\ JobOK(j)
    BY <2>0, <2>1 DEF Idle, Jobs, Steps, JobOK, Holding
  <2>3. /\ thread' \in [Threads -> Jobs] /\ thread'["now"] = j
        /\ \A t \in Threads : t # "now" => thread'[t] = thread[t]
    BY <1>3, <2>0, <2>2 DEF At, ControlInv, Threads
  <2>4. \A t \in Threads :
           /\ JobOK(thread'[t]) /\ thread'[t].src <= built
           /\ thread'[t].step = "reopen" => kind[thread'[t].src] = "live"
           /\ thread'[t].owned <=> t = "now"
           /\ thread'[t].step # "none" => thread'[t].owned \/ cancelled
    <3> SUFFICES ASSUME NEW t \in Threads
                 PROVE  /\ JobOK(thread'[t]) /\ thread'[t].src <= built
                        /\ thread'[t].step = "reopen" => kind[thread'[t].src] = "live"
                        /\ thread'[t].owned <=> t = "now"
                        /\ thread'[t].step # "none" => thread'[t].owned \/ cancelled
      OBVIOUS
    <3>1. CASE t = "now"
      BY <2>1, <2>2, <2>3, <3>1 DEF Sources
    <3>2. CASE t # "now"
      BY <1>2, <2>3, <3>2 DEF ControlInv
    <3> QED BY <3>1, <3>2
  <2>5. thread'["old"].src < built
    BY <1>2, <2>3 DEF Threads
  <2>6. Running'.step # "none" /\ Running'.src = source'
    BY <1>3, <2>2, <2>3 DEF Running
  <2> HIDE DEF Running
  <2> QED BY <1>1, <1>2, <1>3, <2>1, <2>3, <2>4, <2>5, <2>6 DEF ControlInv
<1>4. CASE UNCHANGED <<source, task, stopping, thread>>
  BY <1>1, <1>2, <1>4 DEF ControlInv
<1> QED BY <1>3, <1>4 DEF Open

-----------------------------------------------------------------------------
(* What a step of a thread leaves alone.                                   *)

Moves(t, j) ==
    /\ thread[t].step # "none" /\ j \in Jobs /\ JobOK(j)
    /\ j.step = "reopen" => kind[j.src] = "live"
    /\ thread' = [thread EXCEPT ![t] = j]
    /\ \/ j = Idle /\ task' = IF thread[t].owned THEN "done" ELSE task
       \/ /\ j.step # "none" /\ j.src = thread[t].src /\ j.owned = thread[t].owned
          /\ task' = task
    /\ LoopOnly

LEMMA MovesControl ==
    ASSUME ControlInv, NEW t \in Threads, NEW j, Moves(t, j)
    PROVE  /\ ControlInv' /\ UNCHANGED <<op, opKind, source, built, kind, cancelled>>
           /\ task' = "run" => task = "run" /\ Running'.src = Running.src
           /\ thread'[t] = j /\ \A u \in Threads : u # t => thread'[u] = thread[u]
           /\ task' = "run" /\ ~thread[t].owned => t = "old" /\ Running' = Running
           /\ thread[t].owned => t = "now" /\ Running' = j
<1>1. ControlInv'
  BY ControlMoves DEF Moves
<1>2. UNCHANGED <<op, opKind, source, built, kind, cancelled>>
  BY DEF Moves, LoopOnly, sourceVars
<1>3. thread'[t] = j /\ \A u \in Threads : u # t => thread'[u] = thread[u]
  BY DEF Moves, ControlInv
<1>4. task' = "run" => task = "run"
  BY DEF Moves
<1>5. task' = "run" => Running'.src = Running.src
  BY <1>1, <1>2, <1>4 DEF ControlInv
<1>6. task' = "run" /\ ~thread[t].owned => t = "old" /\ Running' = Running
  BY <1>3, <1>4, UnownedIs DEF Moves, Running, Threads
<1>7. thread[t].owned => t = "now" /\ Running' = j
  BY <1>3, OwnedIs DEF Running
<1> QED BY <1>1, <1>2, <1>3, <1>4, <1>5, <1>6, <1>7

(* The loop goes on to the next read, or ends.                             *)
LEMMA GoesOnMoves ==
    ASSUME ControlInv, NEW t \in Threads, thread[t].step # "none", LoopGoesOn(t), LoopOnly
    PROVE  \E j : Moves(t, j) /\ (j = Idle \/ (j.step = "read" /\ thread[t].owned))
<1>1. thread[t] \in Jobs /\ JobOK(thread[t])
  BY JobIs
<1>2. CASE thread[t].owned /\ ~stopping
  <2>0. PICK j : j = [thread[t] EXCEPT !.step = "read", !.frame = NoFrame, !.of = NoFrame]
    OBVIOUS
  <2>1. /\ j \in Jobs /\ j.step = "read" /\ j.src = thread[t].src
        /\ j.owned = thread[t].owned /\ JobOK(j)
    BY <1>1, <2>0 DEF Jobs, Steps, JobOK, Holding
  <2>2. thread' = [thread EXCEPT ![t] = j] /\ task' = task
    BY <1>2, <2>0 DEF LoopGoesOn, At
  <2> QED BY <1>2, <2>1, <2>2 DEF Moves
<1>3. CASE ~(thread[t].owned /\ ~stopping)
  <2>1. thread' = [thread EXCEPT ![t] = Idle]
        /\ task' = IF thread[t].owned THEN "done" ELSE task
    BY <1>3 DEF LoopGoesOn, At
  <2>2. Moves(t, Idle)
    BY <2>1, IdleIs DEF Moves, JobOK
  <2> QED BY <2>2
<1> QED BY <1>2, <1>3

LEMMA ReturnsMoves ==
    ASSUME NEW t \in Threads, thread[t].step # "none", LoopReturns(t), LoopOnly
    PROVE  Moves(t, Idle)
BY IdleIs DEF Moves, JobOK, LoopReturns, At

(* Nothing that remembers frames is told of one.                           *)
LEMMA DataStays ==
    ASSUME HeldInv, TrackInv, AnalysisInv, UNCHANGED <<resultVars, built>>,
           op' = "opening" => op = "opening", cancelled => cancelled',
           task' = "run" =>
               /\ task = "run" /\ Running'.src = Running.src
               /\ \/ /\ Holding(Running) /\ Holding(Running')
                     /\ Running'.of = Running.of /\ Running'.frame = Running.frame
                     /\ session'[Running.src] = session[Running.src]
                  \/ /\ ~Holding(Running) /\ ~Holding(Running')
                     /\ \A x : Continues(x) => Continues(x)'
    PROVE  HeldInv' /\ AnalysisInv' /\ (UNCHANGED pipelineVars => TrackInv')
<1> USE DEF pipelineVars, resultVars
<1>1. HeldInv'
  BY DEF HeldInv
<1>2. UNCHANGED pipelineVars => TrackInv'
  BY DEF TrackInv
<1>3. AnalysisInv'
  <2>1. SeamsAreNoticed' /\ \A p \in analysed : p[1] <= built /\ (op' = "opening" => p[1] < built)
    BY DEF AnalysisInv, SeamsAreNoticed
  <2>2. ASSUME task' = "run", NEW p \in analysed, p[1] = Running'.src
        PROVE  IF Holding(Running') THEN p[2] = Running'.of \/ Running'.frame <= analysisSeq
                                    ELSE Continues(p[2])'
    BY <2>2 DEF AnalysisInv
  <2> QED BY <2>1, <2>2 DEF AnalysisInv
<1> QED BY <1>1, <1>2, <1>3

(* A step of a job that nobody waits for: its source is another.           *)
LEMMA DataAlone ==
    ASSUME ControlInv, HeldInv, TrackInv, AnalysisInv, NEW t \in Threads, ~thread[t].owned,
           NEW j, Moves(t, j), UNCHANGED resultVars,
           \A s \in Sources : s # thread[t].src => session'[s] = session[s] /\ seq'[s] = seq[s]
    PROVE  HeldInv' /\ AnalysisInv' /\ (UNCHANGED pipelineVars => TrackInv')
<1>1. UNCHANGED <<op, built, cancelled, kind>> /\ thread[t].step # "none"
  BY MovesControl DEF Moves
<1>2. ASSUME task' = "run"
      PROVE  /\ task = "run" /\ Running' = Running
             /\ session'[Running.src] = session[Running.src]
             /\ seq'[Running.src] = seq[Running.src]
  <2>1. task = "run" /\ t = "old" /\ Running' = Running
    BY <1>2, MovesControl
  <2>2. thread[t].src < Running.src /\ thread[t].src \in Nat
    BY <1>1, <2>1, UnownedIs, JobIs
  <2>3. Running.src \in Sources /\ Running.src \in Nat
    BY <2>1, JobIs DEF ControlInv, JobOK, Running, Threads
  <2> QED BY <2>1, <2>2, <2>3
<1>3. task' = "run" => \A x : Continues(x) => Continues(x)'
  BY <1>1, <1>2 DEF Continues
<1> QED BY <1>1, <1>2, <1>3, DataStays

(* No picture is taken or announced.                                       *)
LEMMA StreamSame ==
    ASSUME StreamInv, UNCHANGED streamVars, Announcing' => Announcing PROVE StreamInv'
BY DEF StreamInv, streamVars, StreamTypeOK

LEMMA MovesStream ==
    ASSUME ControlInv, StreamInv, NEW t \in Threads, NEW j, Moves(t, j), j.step # "offered",
           UNCHANGED streamVars
    PROVE  StreamInv'
<1>1. Announcing' => Announcing
  BY MovesControl DEF Announcing
<1> QED BY <1>1, StreamSame

(* While stopped only a cancelled loop's job does anything.                *)
LEMMA MovesStopped ==
    ASSUME ControlInv, StoppedShowsNothing, NEW t \in Threads, NEW j, Moves(t, j),
           thread[t].owned \/ UNCHANGED resultVars
    PROVE  StoppedShowsNothing'
<1>1. UNCHANGED <<op, opKind, cancelled>> /\ thread[t].step # "none"
  BY MovesControl DEF Moves
<1>2. ASSUME op = "idle", opKind = "stop" PROVE ~thread[t].owned /\ cancelled
  BY <1>1, <1>2 DEF ControlInv
<1> QED BY <1>1, <1>2 DEF StoppedShowsNothing, resultVars

LEMMA Assembled ==
    ASSUME IInv, NEW t \in Threads, NEW j, Moves(t, j), SessionsInv',
           HeldInv' /\ TrackInv' /\ AnalysisInv', StreamInv',
           thread[t].owned \/ UNCHANGED resultVars
    PROVE  IInv'
BY MovesControl, MovesStopped DEF IInv

(* Sources are opened, closed and read.                                    *)
LEMMA OpensKeeps ==
    ASSUME SessionsInv, NEW s \in Sources, OpenCapture(s),
           ~cancelled' => ~cancelled /\ source' = s /\ source \in {NoSource, s}
    PROVE  /\ SessionsInv' /\ session'[s] \in Sessions /\ seq'[s] = 0
           /\ \A x \in Sources : x # s => session'[x] = session[x] /\ seq'[x] = seq[x]
<1>1. /\ sessions < MaxSessions /\ sessions' = sessions + 1
      /\ session' = [session EXCEPT ![s] = sessions + 1]
      /\ open' = [open EXCEPT ![s] = TRUE] /\ seq' = [seq EXCEPT ![s] = 0]
  BY DEF OpenCapture, BeginSession, NumberedFrom
<1>2. sessions + 1 \in Sessions /\ 0 \in 0 .. MaxSeq + 1 /\ sessions' \in 0 .. MaxSessions
  BY <1>1, Bounds DEF SessionsInv, Sessions
<1>3. /\ session' \in [Sources -> Sessions \cup {NoFrame}] /\ session'[s] \in Sessions
      /\ \A x \in Sources : x # s => session'[x] = session[x]
  BY <1>1, <1>2 DEF SessionsInv
<1>4. /\ seq' \in [Sources -> 0 .. MaxSeq + 1] /\ seq'[s] = 0
      /\ \A x \in Sources : x # s => seq'[x] = seq[x]
  BY <1>1, <1>2 DEF SessionsInv
<1>5. open' \in [Sources -> BOOLEAN] /\ \A x \in Sources : x # s => open'[x] = open[x]
  BY <1>1 DEF SessionsInv
<1>6. \A x \in Sources : open'[x] => session'[x] \in Sessions
  BY <1>3, <1>5 DEF SessionsInv
<1>7. OneSourceIsOpen'
  BY <1>5, Bounds DEF SessionsInv, OneSourceIsOpen
<1> QED BY <1>2, <1>3, <1>4, <1>5, <1>6, <1>7 DEF SessionsInv

LEMMA ClosesKeeps ==
    ASSUME SessionsInv, NEW s, CloseCapture(s), cancelled' = cancelled,
           source' = source \/ (source' = NoSource /\ s = source)
    PROVE  SessionsInv'
<1>1. /\ open' = [x \in Sources |-> open[x] /\ x # s]
      /\ UNCHANGED <<session, seq, sessions>>
  BY DEF CloseCapture
<1>2. open' \in [Sources -> BOOLEAN] /\ \A x \in Sources : open'[x] => open[x] /\ x # s
  BY <1>1
<1>3. OneSourceIsOpen'
  BY <1>2 DEF SessionsInv, OneSourceIsOpen
<1> QED BY <1>1, <1>2, <1>3 DEF SessionsInv

LEMMA ReadsKeeps ==
    ASSUME SessionsInv, seq' \in [Sources -> 0 .. MaxSeq + 1],
           UNCHANGED <<open, session, sessions, source, cancelled>>
    PROVE  SessionsInv'
BY DEF SessionsInv, OneSourceIsOpen

LEMMA SessionsSame ==
    ASSUME SessionsInv, UNCHANGED <<sessionVars, source, cancelled>> PROVE SessionsInv'
BY DEF SessionsInv, OneSourceIsOpen, sessionVars

(* The loop has read a frame: a tracker that knew another session, or an   *)
(* analysis that did, is told by its number.                               *)
LEMMA FrameNoted ==
    ASSUME IInv, NEW t \in Threads, thread[t].owned, thread[t].step = "read",
           NEW n \in Seqs, NEW x \in Sessions, FrameRead(t, n, x),
           session'[thread[t].src] = x, \A y : Continues(y) => y = x \/ n = 0
    PROVE  /\ HeldInv' /\ TrackInv' /\ AnalysisInv'
           /\ \E j : Moves(t, j) /\ j.step = "detect"
<1>0. PICK j : j = [thread[t] EXCEPT !.step = "detect", !.frame = n, !.of = x]
  OBVIOUS
<1>1. /\ At(t, j) /\ NoteContinuity(n) /\ LoopOnly /\ UNCHANGED <<task, resultVars, streamVars>>
  BY <1>0 DEF FrameRead
<1>2. thread[t] \in Jobs /\ JobOK(thread[t]) /\ ControlInv
  BY JobIs DEF IInv
<1>3. /\ j \in Jobs /\ j.step = "detect" /\ j.src = thread[t].src /\ j.owned = thread[t].owned
      /\ j.frame = n /\ j.of = x /\ JobOK(j) /\ Holding(j)
  BY <1>0, <1>2 DEF Jobs, Steps, JobOK, Holding
<1>4. Moves(t, j)
  BY <1>1, <1>3 DEF Moves, At
<1>5. /\ t = "now" /\ task = "run" /\ thread[t] = Running /\ ~Holding(Running)
      /\ Running' = j /\ UNCHANGED <<op, built, cancelled>>
  BY <1>2, <1>4, OwnedIs, MovesControl DEF Holding
<1>6. HeldInv'
  BY <1>3, <1>5 DEF HeldInv
<1>7. lastSeq' = n /\ tracked' = IF Restarted(lastSeq, n) THEN {} ELSE tracked
  BY <1>1 DEF NoteContinuity
<1>8. TrackInv'
  <2>1. lastSeq' \in Seqs /\ tracked' \subseteq tracked /\ tracked' \subseteq Sessions
    BY <1>7 DEF IInv, TrackInv
  <2>2. ASSUME ~cancelled, NEW y \in tracked' PROVE y = x
    <3>1. Continues(y) /\ lastSeq \in Seqs /\ ~Restarted(lastSeq, n)
      BY <1>5, <1>7, <2>1, <2>2 DEF IInv, TrackInv
    <3>2. n # 0
      BY <3>1, Bounds DEF Restarted
    <3> QED BY <3>1, <3>2
  <2>3. op # "opening"
    BY <1>2, <1>5 DEF ControlInv
  <2> QED BY <1>3, <1>5, <2>1, <2>2, <2>3 DEF TrackInv
<1>9. AnalysisInv'
  <2>1. AnalysisInv /\ UNCHANGED <<result, analysisSeq, analysed>>
    BY <1>1 DEF IInv, resultVars
  <2>2. ASSUME NEW p \in analysed, p[1] = Running.src
        PROVE  p[2] = x \/ n <= analysisSeq
    <3>1. Continues(p[2]) /\ analysisSeq \in Seqs
      BY <1>5, <2>1, <2>2 DEF AnalysisInv
    <3> QED BY <3>1, Bounds
  <2>3. \A p \in analysed : p[1] = Running'.src =>
            p[2] = Running'.of \/ Running'.frame <= analysisSeq'
    BY <1>3, <1>5, <2>1, <2>2
  <2>4. SeamsAreNoticed'
    BY <2>1 DEF AnalysisInv, SeamsAreNoticed
  <2> QED BY <1>3, <1>5, <2>1, <2>3, <2>4 DEF AnalysisInv
<1> QED BY <1>3, <1>4, <1>6, <1>8, <1>9

LEMMA ReadFrameKeeps ==
    ASSUME IInv, NEW t \in Threads, ReadFrame(t) PROVE IInv'
<1>0. PICK s \in Sources : s = thread[t].src
  BY JobIs DEF ReadFrame, IInv, JobOK
<1>1. /\ thread[t].step = "read" /\ open[s] /\ UNCHANGED <<open, session, sessions>>
  BY <1>0 DEF ReadFrame
<1>2. PICK skip \in (IF kind[s] = "clip" THEN 0 .. MaxSkip ELSE {0}) :
          /\ seq[s] + skip <= MaxSeq
          /\ seq' = [seq EXCEPT ![s] = seq[s] + skip + 1]
          /\ FrameRead(t, seq[s] + skip, session[s])
  BY <1>0 DEF ReadFrame
<1>3. PICK n \in Seqs : n = seq[s] + skip
  BY <1>2, Bounds DEF IInv, SessionsInv, Seqs
<1>4. /\ ControlInv /\ SessionsInv /\ session[s] \in Sessions
      /\ UNCHANGED <<source, cancelled, streamVars, resultVars>>
  BY <1>1, <1>2 DEF IInv, SessionsInv, FrameRead, LoopOnly, sourceVars
<1>5. /\ seq' \in [Sources -> 0 .. MaxSeq + 1]
      /\ \A x \in Sources : x # s => seq'[x] = seq[x]
  <2>1. n + 1 \in 0 .. MaxSeq + 1
    BY <1>3, Bounds DEF Seqs
  <2> QED BY <1>2, <1>3, <1>4, <2>1 DEF SessionsInv
<1>6. SessionsInv'
  BY <1>1, <1>4, <1>5, ReadsKeeps
<1>7. CASE thread[t].owned
  <2>1. \A y : Continues(y) => y = session[s] \/ n = 0
    <3>1. Running = thread[t]
      BY <1>4, <1>7, OwnedIs
    <3>2. kind[s] = "live" => n = seq[s]
      BY <1>2, <1>3, <1>4 DEF SessionsInv
    <3> QED BY <1>0, <3>1, <3>2 DEF Continues
  <2>2. session'[thread[t].src] = session[s] /\ FrameRead(t, n, session[s])
    BY <1>0, <1>1, <1>2, <1>3
  <2>3. HeldInv' /\ TrackInv' /\ AnalysisInv' /\ \E j : Moves(t, j) /\ j.step = "detect"
    BY <1>1, <1>3, <1>4, <1>7, <2>1, <2>2, FrameNoted
  <2>4. PICK j : Moves(t, j) /\ j.step = "detect"
    BY <2>3
  <2>5. StreamInv'
    BY <1>4, <2>4, MovesStream DEF IInv
  <2> QED BY <1>4, <1>6, <1>7, <2>3, <2>4, <2>5, Assembled
<1>8. CASE ~thread[t].owned
  <2>1. Moves(t, Idle) /\ UNCHANGED pipelineVars
    BY <1>1, <1>2, <1>8, IdleIs DEF FrameRead, At, Moves, JobOK
  <2>2. HeldInv' /\ TrackInv' /\ AnalysisInv'
    BY <1>0, <1>1, <1>4, <1>5, <1>8, <2>1, DataAlone DEF IInv
  <2>3. StreamInv'
    BY <1>4, <2>1, IdleIs, MovesStream DEF IInv
  <2> QED BY <1>4, <1>6, <2>1, <2>2, <2>3, Assembled
<1> QED BY <1>7, <1>8

LEMMA LoopClipKeeps ==
    ASSUME IInv, NEW t \in Threads, LoopClip(t) PROVE IInv'
<1>0. PICK s \in Sources : s = thread[t].src
  BY JobIs DEF LoopClip, IInv, JobOK
<1>1. /\ thread[t].step = "read" /\ open[s] /\ UNCHANGED open
      /\ sessions < MaxSessions /\ sessions' = sessions + 1
      /\ session' = [session EXCEPT ![s] = sessions + 1]
      /\ seq' = [seq EXCEPT ![s] = 1] /\ FrameRead(t, 0, sessions + 1)
  BY <1>0 DEF LoopClip, BeginSession, NumberedFrom
<1>2. PICK x \in Sessions : x = sessions + 1
  BY <1>1, Bounds DEF IInv, SessionsInv, Sessions
<1>3. /\ ControlInv /\ SessionsInv /\ 0 \in Seqs
      /\ UNCHANGED <<source, cancelled, streamVars, resultVars>>
  BY <1>1, Bounds DEF IInv, FrameRead, LoopOnly, sourceVars, Seqs
<1>4. /\ session' \in [Sources -> Sessions \cup {NoFrame}] /\ session'[s] = x
      /\ \A y \in Sources : y # s => session'[y] = session[y]
  BY <1>1, <1>2, <1>3 DEF SessionsInv
<1>5. /\ seq' \in [Sources -> 0 .. MaxSeq + 1]
      /\ \A y \in Sources : y # s => seq'[y] = seq[y]
  <2>1. 1 \in 0 .. MaxSeq + 1
    BY Bounds
  <2> QED BY <1>1, <1>3, <2>1 DEF SessionsInv
<1>6. SessionsInv'
  <2>1. sessions' \in 0 .. MaxSessions
    BY <1>1, <1>3, Bounds DEF SessionsInv
  <2>2. \A y \in Sources : open'[y] => session'[y] \in Sessions
    BY <1>1, <1>3, <1>4 DEF SessionsInv
  <2>3. OneSourceIsOpen'
    BY <1>1, <1>3 DEF SessionsInv, OneSourceIsOpen
  <2> QED BY <1>1, <1>3, <1>4, <1>5, <2>1, <2>2, <2>3 DEF SessionsInv
<1>7. CASE thread[t].owned
  <2>1. session'[thread[t].src] = x /\ FrameRead(t, 0, x)
    BY <1>0, <1>1, <1>2, <1>4
  <2>2. HeldInv' /\ TrackInv' /\ AnalysisInv' /\ \E j : Moves(t, j) /\ j.step = "detect"
    BY <1>1, <1>3, <1>7, <2>1, FrameNoted
  <2>3. PICK j : Moves(t, j) /\ j.step = "detect"
    BY <2>2
  <2>4. StreamInv'
    BY <1>3, <2>3, MovesStream DEF IInv
  <2> QED BY <1>3, <1>6, <1>7, <2>2, <2>3, <2>4, Assembled
<1>8. CASE ~thread[t].owned
  <2>1. Moves(t, Idle) /\ UNCHANGED pipelineVars
    BY <1>1, <1>8, IdleIs DEF FrameRead, At, Moves, JobOK
  <2>2. HeldInv' /\ TrackInv' /\ AnalysisInv'
    BY <1>0, <1>3, <1>4, <1>5, <1>8, <2>1, DataAlone DEF IInv
  <2>3. StreamInv'
    BY <1>3, <2>1, IdleIs, MovesStream DEF IInv
  <2> QED BY <1>3, <1>6, <2>1, <2>2, <2>3, Assembled
<1> QED BY <1>7, <1>8

(* A step that hands no frame on: a gap, an end, a loss, a reconnection.   *)
LEMMA NoFrameKeeps ==
    ASSUME IInv, NEW t \in Threads, NEW j, Moves(t, j), j.step # "offered",
           SessionsInv', UNCHANGED <<pipelineVars, resultVars, streamVars>>,
           \A s \in Sources : s # thread[t].src => session'[s] = session[s] /\ seq'[s] = seq[s],
           j = Idle \/ (~Holding(thread[t]) /\ ~Holding(j)),
           \A x : thread[t].owned /\ j # Idle /\ Continues(x) => Continues(x)'
    PROVE  IInv'
<1>1. StreamInv'
  BY MovesStream DEF IInv
<1>2. HeldInv' /\ TrackInv' /\ AnalysisInv'
  <2>1. CASE ~thread[t].owned
    BY <2>1, DataAlone DEF IInv
  <2>2. CASE thread[t].owned
    <3>1. /\ Running = thread[t] /\ Running' = j /\ UNCHANGED <<op, built, cancelled>>
          /\ task' = "run" => task = "run" /\ Running'.src = Running.src
      BY <2>2, OwnedIs, MovesControl DEF IInv
    <3>2. task' = "run" => j # Idle
      BY <2>2, IdleIs DEF Moves
    <3> QED BY <2>2, <3>1, <3>2, DataStays DEF IInv
  <2> QED BY <2>1, <2>2
<1> QED BY <1>1, <1>2, Assembled

LEMMA ReadGapKeeps ==
    ASSUME IInv, NEW t \in Threads, ReadGap(t) PROVE IInv'
<1>0. PICK s \in Sources : s = thread[t].src
  BY JobIs DEF ReadGap, IInv, JobOK
<1>1. /\ thread[t].step = "read" /\ LoopGoesOn(t) /\ LoopOnly
      /\ seq' = IF kind[s] = "clip" /\ open[s] /\ seq[s] < MaxSeq
                THEN [seq EXCEPT ![s] = @ + 1] ELSE seq
      /\ UNCHANGED <<open, session, sessions, pipelineVars, resultVars, streamVars>>
  BY <1>0 DEF ReadGap
<1>2. ControlInv /\ SessionsInv /\ UNCHANGED <<source, kind, cancelled>>
  BY <1>1 DEF IInv, LoopOnly, sourceVars
<1>3. PICK j : Moves(t, j) /\ (j = Idle \/ (j.step = "read" /\ thread[t].owned))
  BY <1>1, <1>2, GoesOnMoves
<1>4. /\ seq' \in [Sources -> 0 .. MaxSeq + 1]
      /\ \A x \in Sources : x # s => seq'[x] = seq[x]
      /\ kind[s] # "clip" => seq' = seq
  <2>1. seq[s] \in 0 .. MaxSeq + 1 /\ (seq[s] < MaxSeq => seq[s] + 1 \in 0 .. MaxSeq + 1)
    BY <1>2, Bounds DEF SessionsInv
  <2> QED BY <1>1, <1>2, <2>1 DEF SessionsInv
<1>5. SessionsInv'
  BY <1>1, <1>2, <1>4, ReadsKeeps
<1>6. ~Holding(thread[t]) /\ (j = Idle \/ ~Holding(j)) /\ j.step # "offered"
  BY <1>1, <1>3, IdleIs DEF Holding
<1>7. ASSUME NEW x, thread[t].owned, j # Idle, Continues(x) PROVE Continues(x)'
  <2>1. Running = thread[t] /\ Running' = j /\ j.src = s
    BY <1>0, <1>2, <1>3, <1>7, OwnedIs, MovesControl DEF Moves
  <2> QED BY <1>0, <1>1, <1>2, <1>4, <1>7, <2>1 DEF Continues
<1> QED BY <1>0, <1>1, <1>3, <1>4, <1>5, <1>6, <1>7, NoFrameKeeps

(* The loop's thread returns: a clip is over, too many frames failed.      *)
LEMMA ReturnsKeeps ==
    ASSUME IInv, NEW t \in Threads, thread[t].step # "none", LoopReturns(t), LoopOnly,
           UNCHANGED <<sessionVars, pipelineVars, resultVars, streamVars>>
    PROVE  IInv'
<1>1. Moves(t, Idle)
  BY ReturnsMoves
<1>2. SessionsInv'
  BY SessionsSame DEF IInv, LoopOnly, sourceVars
<1> QED BY <1>1, <1>2, IdleIs, NoFrameKeeps DEF sessionVars

LEMMA ReadLostKeeps ==
    ASSUME IInv, NEW t \in Threads, ReadLost(t) PROVE IInv'
<1>0. PICK j : j = [thread[t] EXCEPT !.step = "reopen"]
  OBVIOUS
<1>1. /\ thread[t].step = "read" /\ kind[thread[t].src] = "live" /\ LoopOnly
      /\ CloseCapture(thread[t].src) /\ At(t, j)
      /\ UNCHANGED <<task, pipelineVars, resultVars, streamVars>>
  BY <1>0 DEF ReadLost
<1>2. thread[t] \in Jobs /\ JobOK(thread[t]) /\ ControlInv
      /\ UNCHANGED <<source, kind, cancelled, session, seq>>
  BY <1>1, JobIs DEF IInv, LoopOnly, sourceVars, CloseCapture
<1>3. /\ j \in Jobs /\ j.step = "reopen" /\ j.src = thread[t].src
      /\ j.owned = thread[t].owned /\ JobOK(j) /\ ~Holding(j) /\ ~Holding(thread[t])
  BY <1>0, <1>1, <1>2 DEF Jobs, Steps, JobOK, Holding
<1>4. Moves(t, j)
  BY <1>1, <1>3 DEF Moves, At
<1>5. SessionsInv'
  BY <1>1, <1>2, ClosesKeeps DEF IInv
<1>6. ASSUME NEW x, thread[t].owned, Continues(x) PROVE Continues(x)'
  <2>1. Running = thread[t] /\ Running' = j
    BY <1>2, <1>4, <1>6, OwnedIs, MovesControl
  <2> QED BY <1>2, <1>3, <1>6, <2>1 DEF Continues
<1> QED BY <1>1, <1>2, <1>3, <1>4, <1>5, <1>6, NoFrameKeeps

LEMMA ReconnectKeeps ==
    ASSUME IInv, NEW t \in Threads, Reconnect(t) PROVE IInv'
<1>0. PICK s \in Sources : s = thread[t].src
  BY JobIs DEF Reconnect, IInv, JobOK
<1>1. /\ thread[t].step = "reopen" /\ LoopOnly
      /\ UNCHANGED <<pipelineVars, resultVars, streamVars>>
  BY DEF Reconnect
<1>2. ControlInv /\ SessionsInv /\ UNCHANGED <<source, kind, cancelled>> /\ kind[s] = "live"
  BY <1>0, <1>1 DEF IInv, LoopOnly, sourceVars, ControlInv
<1>3. CASE OpenCapture(s) /\ LoopGoesOn(t)
  <2>1. PICK j : Moves(t, j) /\ (j = Idle \/ (j.step = "read" /\ thread[t].owned))
    BY <1>1, <1>2, <1>3, GoesOnMoves
  <2>2. ~cancelled' => ~cancelled /\ source' = s /\ source \in {NoSource, s}
    <3>1. ASSUME ~cancelled' PROVE thread[t].owned /\ ~cancelled
      BY <1>1, <1>2, <3>1 DEF ControlInv
    <3> QED BY <1>0, <1>2, <3>1, OwnedIs
  <2>3. /\ SessionsInv' /\ session'[s] \in Sessions /\ seq'[s] = 0
        /\ \A x \in Sources : x # s => session'[x] = session[x] /\ seq'[x] = seq[x]
    BY <1>2, <1>3, <2>2, OpensKeeps
  <2>4. ~Holding(thread[t]) /\ (j = Idle \/ ~Holding(j)) /\ j.step # "offered"
    BY <1>1, <2>1, IdleIs DEF Holding
  <2>5. ASSUME NEW x, thread[t].owned, j # Idle, Continues(x) PROVE Continues(x)'
    <3>1. Running' = j /\ j.src = s
      BY <1>0, <1>2, <2>1, <2>5, MovesControl DEF Moves
    <3> QED BY <1>2, <2>3, <3>1 DEF Continues
  <2> QED BY <1>0, <1>1, <2>1, <2>3, <2>4, <2>5, NoFrameKeeps
<1>4. CASE UNCHANGED sessionVars /\ LoopReturns(t)
  BY <1>1, <1>4, ReturnsKeeps
<1> QED BY <1>0, <1>3, <1>4 DEF Reconnect

LEMMA TrackKeeps ==
    ASSUME IInv, NEW t \in Threads, Track(t) PROVE IInv'
<1>0. PICK j : j = [thread[t] EXCEPT !.step = "offer"]
  OBVIOUS
<1>1. /\ thread[t].step = "detect" /\ At(t, j) /\ LoopOnly
      /\ tracked' \in {tracked, tracked \cup {thread[t].of}}
      /\ UNCHANGED <<task, sessionVars, lastSeq, resultVars, streamVars>>
  BY <1>0 DEF Track
<1>2. thread[t] \in Jobs /\ JobOK(thread[t]) /\ ControlInv /\ Holding(thread[t])
      /\ UNCHANGED <<kind, session, seq, built, source, cancelled>>
  BY <1>1, JobIs DEF IInv, LoopOnly, sourceVars, Holding, sessionVars
<1>3. /\ j \in Jobs /\ j.step = "offer" /\ j.src = thread[t].src /\ j.of = thread[t].of
      /\ j.frame = thread[t].frame /\ j.owned = thread[t].owned /\ JobOK(j) /\ Holding(j)
  BY <1>0, <1>1, <1>2 DEF Jobs, Steps, JobOK, Holding
<1>4. Moves(t, j)
  BY <1>1, <1>3 DEF Moves, At
<1>5. thread[t].of \in Sessions /\ tracked' \subseteq Sessions
  BY <1>1, <1>2 DEF JobOK, IInv, TrackInv
<1>6. HeldInv' /\ AnalysisInv' /\ TrackInv'
  <2>1. CASE ~thread[t].owned
    <3>1. HeldInv' /\ AnalysisInv'
      BY <1>1, <1>2, <1>4, <2>1, DataAlone DEF IInv
    <3>2. cancelled'
      BY <1>1, <1>2, <2>1 DEF ControlInv
    <3> QED BY <1>1, <1>5, <3>1, <3>2 DEF IInv, TrackInv
  <2>2. CASE thread[t].owned
    <3>1. /\ Running = thread[t] /\ Running' = j /\ task = "run" /\ op # "opening"
          /\ UNCHANGED <<op, built, cancelled>>
      BY <1>2, <1>4, <2>2, OwnedIs, MovesControl DEF ControlInv
    <3>2. HeldInv' /\ AnalysisInv'
      BY <1>1, <1>2, <1>3, <3>1, DataStays DEF IInv
    <3>3. ASSUME ~cancelled
          PROVE  lastSeq \in Seqs /\ \A x \in tracked' : x = thread[t].of
      BY <1>1, <1>2, <3>1, <3>3 DEF IInv, TrackInv
    <3>4. TrackInv'
      BY <1>1, <1>3, <1>5, <3>1, <3>3 DEF IInv, TrackInv
    <3> QED BY <3>2, <3>4
  <2> QED BY <2>1, <2>2
<1>7. SessionsInv'
  BY <1>1, <1>2, SessionsSame DEF IInv
<1>8. StreamInv'
  BY <1>1, <1>3, <1>4, MovesStream DEF IInv
<1> QED BY <1>1, <1>4, <1>6, <1>7, <1>8, Assembled

(* A result is delivered: what the analysis keeps of another session of    *)
(* the same source is dropped first.                                       *)
LEMMA DeliverKeeps ==
    ASSUME IInv, NEW t \in Threads, Holding(thread[t]), Deliver(t), LoopOnly,
           UNCHANGED <<sessionVars, pipelineVars>>,
           UNCHANGED streamVars \/ (thread[t].step = "offered" /\ AnnouncePicture)
    PROVE  IInv'
<1>0. PICK s, x, n : s = thread[t].src /\ x = thread[t].of /\ n = thread[t].frame
  OBVIOUS
<1>1. /\ LoopGoesOn(t) /\ thread[t].step # "none" /\ ControlInv
      /\ UNCHANGED <<source, kind, built, cancelled, session, seq>>
  BY DEF Deliver, Holding, IInv, LoopOnly, sourceVars, sessionVars
<1>2. PICK j : Moves(t, j) /\ (j = Idle \/ (j.step = "read" /\ thread[t].owned))
  BY <1>1, GoesOnMoves
<1>3. n \in Seqs /\ x \in Sessions /\ s \in Sources /\ ~Holding(j) /\ j.step # "offered"
  BY <1>0, <1>1, <1>2, JobIs, IdleIs DEF JobOK, Holding
<1>4. HeldInv' /\ TrackInv' /\ AnalysisInv' /\ (thread[t].owned \/ UNCHANGED resultVars)
  <2>1. CASE ~thread[t].owned
    <3>1. UNCHANGED resultVars
      BY <2>1 DEF Deliver
    <3> QED BY <1>1, <1>2, <2>1, <3>1, DataAlone DEF IInv
  <2>2. CASE thread[t].owned
    <3>1. /\ Running = thread[t] /\ Running' = j /\ task = "run" /\ op # "opening"
          /\ s = built /\ UNCHANGED <<op, built, cancelled>>
          /\ task' = "run" => Running'.src = s
      BY <1>0, <1>1, <1>2, <2>2, OwnedIs, MovesControl DEF ControlInv
    <3>2. x = session[s]
      BY <1>0, <3>1 DEF IInv, HeldInv
    <3>3. HeldInv'
      BY <1>3, <3>1 DEF HeldInv
    <3>4. task' = "run" => Continues(x)'
      BY <1>1, <3>1, <3>2 DEF Continues
    <3>5. TrackInv'
      <4>1. ASSUME ~cancelled, NEW y \in tracked PROVE y = x
        BY <1>0, <3>1, <4>1 DEF IInv, TrackInv
      <4> QED BY <1>3, <3>1, <3>4, <4>1 DEF IInv, TrackInv, pipelineVars
    <3>6. /\ result' = s /\ analysisSeq' = n
          /\ analysed' = (IF Restarted(analysisSeq, n) THEN {} ELSE analysed) \cup {<<s, x>>}
      BY <1>0, <2>2 DEF Deliver, Consume
    <3>7. ASSUME NEW p \in analysed', p[1] = s PROVE p[2] = x
      <4>1. CASE p \in analysed /\ ~Restarted(analysisSeq, n)
        <5>1. p[2] = x \/ n <= analysisSeq
          BY <1>0, <3>1, <3>7, <4>1 DEF IInv, AnalysisInv
        <5>2. analysisSeq # NoFrame
          BY <4>1, Bounds DEF IInv, AnalysisInv
        <5> QED BY <4>1, <5>1, <5>2 DEF Restarted
      <4>2. CASE p = <<s, x>>
        BY <4>2
      <4> QED BY <3>6, <4>1, <4>2
    <3>8. analysed' \subseteq Sources \X Sessions
      BY <1>3, <3>6 DEF IInv, AnalysisInv
    <3>9. \A p \in analysed' : p \in analysed \/ p[1] = s
      BY <3>6
    <3>10. SeamsAreNoticed'
      <4>1. ASSUME NEW p \in analysed', NEW q \in analysed', p[1] = q[1] PROVE p = q
        <5>1. p = <<p[1], p[2]>> /\ q = <<q[1], q[2]>>
          BY <3>8
        <5>2. CASE p[1] = s
          BY <3>7, <4>1, <5>1, <5>2
        <5>3. CASE p[1] # s
          BY <3>9, <4>1, <5>3 DEF IInv, AnalysisInv, SeamsAreNoticed
        <5> QED BY <5>2, <5>3
      <4> QED BY <4>1 DEF SeamsAreNoticed
    <3>11. \A p \in analysed' : p[1] <= built
      <4>1. built <= built
        BY Bounds DEF IInv, ControlInv
      <4> QED BY <3>1, <3>9, <4>1 DEF IInv, AnalysisInv
    <3>12. task' = "run" => \A p \in analysed' : p[1] = Running'.src => Continues(p[2])'
      BY <3>1, <3>4, <3>7
    <3>13. AnalysisInv'
      BY <1>3, <3>1, <3>6, <3>8, <3>10, <3>11, <3>12 DEF AnalysisInv
    <3> QED BY <2>2, <3>3, <3>5, <3>13
  <2> QED BY <2>1, <2>2
<1>5. SessionsInv'
  BY <1>1, SessionsSame DEF IInv
<1>6. StreamInv'
  <2>1. CASE UNCHANGED streamVars
    BY <1>1, <1>2, <1>3, <2>1, MovesStream DEF IInv
  <2>2. CASE thread[t].step = "offered" /\ AnnouncePicture
    <3>1. Announcing
      BY <2>2 DEF Announcing
    <3> QED BY <2>2, <3>1 DEF AnnouncePicture, IInv, StreamInv, StreamTypeOK
  <2> QED BY <2>1, <2>2
<1> QED BY <1>2, <1>4, <1>5, <1>6, Assembled

LEMMA OfferKeeps ==
    ASSUME IInv, NEW t \in Threads, Offer(t) PROVE IInv'
<1>1. /\ thread[t].step = "offer" /\ LoopOnly /\ UNCHANGED <<sessionVars, pipelineVars>>
  BY DEF Offer
<1>2. thread[t] \in Jobs /\ JobOK(thread[t]) /\ ControlInv /\ Holding(thread[t])
      /\ UNCHANGED <<kind, session, seq, built, source, cancelled>>
  BY <1>1, JobIs DEF IInv, LoopOnly, sourceVars, Holding, sessionVars
<1>3. CASE ~Viewed
  <2>1. Deliver(t) /\ UNCHANGED streamVars
    BY <1>3 DEF Offer
  <2> QED BY <1>1, <1>2, <2>1, DeliverKeeps
<1>4. CASE Viewed
  <2>0. PICK j : j = [thread[t] EXCEPT !.step = "offered"]
    OBVIOUS
  <2>1. TakePicture(thread[t].of, thread[t].frame) /\ At(t, j) /\ UNCHANGED <<task, resultVars>>
    BY <1>4, <2>0 DEF Offer
  <2>2. /\ j \in Jobs /\ j.step = "offered" /\ j.src = thread[t].src /\ j.of = thread[t].of
        /\ j.frame = thread[t].frame /\ j.owned = thread[t].owned /\ JobOK(j) /\ Holding(j)
    BY <1>1, <1>2, <2>0 DEF Jobs, Steps, JobOK, Holding
  <2>3. Moves(t, j)
    BY <1>1, <2>1, <2>2 DEF Moves, At
  <2>4. HeldInv' /\ AnalysisInv' /\ TrackInv'
    <3>1. CASE ~thread[t].owned
      BY <1>1, <1>2, <2>1, <2>3, <3>1, DataAlone DEF IInv
    <3>2. CASE thread[t].owned
      <4>1. /\ Running = thread[t] /\ Running' = j /\ task = "run"
            /\ UNCHANGED <<op, built, cancelled>>
        BY <1>2, <2>3, <3>2, OwnedIs, MovesControl
      <4> QED BY <1>1, <1>2, <2>1, <2>2, <4>1, DataStays DEF IInv
    <3> QED BY <3>1, <3>2
  <2>5. SessionsInv'
    BY <1>1, <1>2, SessionsSame DEF IInv
  <2>6. StreamInv'
    <3>1. thread[t].of \in Sessions /\ thread[t].frame \in Seqs
      BY <1>2 DEF JobOK
    <3>2. /\ picture' = thread[t].of /\ sinceAsked' = (snapshot = "waiting")
          /\ trailSeq' = thread[t].frame /\ trails' \subseteq trails \cup {thread[t].of}
          /\ UNCHANGED <<watching, snapshot, moved>>
      BY <2>1 DEF TakePicture, AdvanceTrails
    <3> QED BY <3>1, <3>2 DEF IInv, StreamInv, StreamTypeOK
  <2> QED BY <2>1, <2>3, <2>4, <2>5, <2>6, Assembled
<1> QED BY <1>3, <1>4

LEMMA ThreadKeeps ==
    ASSUME IInv, NEW t \in Threads, ThreadStep(t) PROVE IInv'
<1>1. CASE ReadEnds(t)
  BY <1>1, ReturnsKeeps DEF ReadEnds
<1>2. CASE GiveUp(t)
  BY <1>2, ReturnsKeeps DEF GiveUp
<1>3. CASE Offered(t)
  BY <1>3, DeliverKeeps DEF Offered, Holding
<1> QED
  BY <1>1, <1>2, <1>3, ReadFrameKeeps, LoopClipKeeps, ReadGapKeeps, ReadLostKeeps,
     ReconnectKeeps, TrackKeeps, OfferKeeps DEF ThreadStep

-----------------------------------------------------------------------------
(* The operator and the viewers.                                           *)

LEMMA RequestKeeps ==
    ASSUME IInv, NEW what \in {"stop", "swap"}, Request(what) PROVE IInv'
<1>1. /\ op' \in {"closing", "halting"}
      /\ UNCHANGED <<task, thread, source, built, kind, cancelled, session, seq>>
      /\ UNCHANGED <<sessionVars, pipelineVars, resultVars, streamVars>>
  BY DEF Request, sourceVars, sessionVars
<1>2. ControlInv' /\ SessionsInv'
  BY <1>1, RequestControl, SessionsSame DEF IInv
<1>3. HeldInv' /\ TrackInv' /\ AnalysisInv'
  <2>1. Running' = Running /\ \A x : Continues(x) => Continues(x)'
    BY <1>1 DEF Running, Continues
  <2> QED BY <1>1, <2>1, DataStays DEF IInv
<1>4. StreamInv'
  BY <1>1, StreamSame DEF IInv, Announcing
<1>5. StoppedShowsNothing'
  BY <1>1 DEF StoppedShowsNothing
<1> QED BY <1>2, <1>3, <1>4, <1>5 DEF IInv

LEMMA HaltKeeps ==
    ASSUME IInv, Joined \/ HaltTimeout PROVE IInv'
<1>1. /\ op' = "closing" /\ task' = "none"
      /\ UNCHANGED <<source, built, kind>>
      /\ UNCHANGED <<sessionVars, pipelineVars, resultVars, streamVars>>
  BY DEF Joined, HaltTimeout, sourceVars
<1>2. cancelled' = cancelled \/ cancelled'
  BY DEF Joined, HaltTimeout
<1>3. ControlInv'
  BY JoinedControl, TimeoutControl DEF IInv
<1>4. SessionsInv'
  BY <1>1, <1>2 DEF IInv, SessionsInv, OneSourceIsOpen, sessionVars
<1>5. HeldInv' /\ TrackInv' /\ AnalysisInv'
  <2>1. cancelled => cancelled'
    BY DEF Joined, HaltTimeout
  <2> QED BY <1>1, <2>1, DataStays DEF IInv
<1>6. StreamInv'
  <2>1. Announcing' => Announcing
    BY DEF Joined, HaltTimeout, Announcing, IInv, ControlInv, Jobs
  <2> QED BY <1>1, <2>1, StreamSame DEF IInv
<1>7. StoppedShowsNothing'
  BY <1>1 DEF StoppedShowsNothing
<1> QED BY <1>3, <1>4, <1>5, <1>6, <1>7 DEF IInv

LEMMA CloseKeeps ==
    ASSUME IInv, Close PROVE IInv'
<1>1. /\ op = "closing" /\ CloseCapture(source) /\ source' = NoSource
      /\ UNCHANGED <<opKind, task, kind, cancelled>>
  BY DEF Close
<1>2. ControlInv' /\ SessionsInv' /\ task' = "none"
  BY <1>1, CloseControl, ClosesKeeps DEF IInv, ControlInv
<1>3. HeldInv'
  BY <1>2 DEF HeldInv
<1>4. CASE /\ opKind = "stop" /\ op' = "idle" /\ Forget /\ UNCHANGED <<built, pipelineVars>>
           /\ thread' = IF thread["now"] = Idle THEN thread
                        ELSE [now |-> Idle, old |-> thread["now"]]
  <2>1. TrackInv'
    BY <1>1, <1>2, <1>4 DEF IInv, TrackInv, pipelineVars
  <2>2. AnalysisInv' /\ StoppedShowsNothing'
    BY <1>2, <1>4 DEF Forget, Clear, AnalysisInv, StoppedShowsNothing, SeamsAreNoticed
  <2>3. Announcing' => Announcing
    BY <1>4, IdleIs DEF Announcing, Threads
  <2>4. StreamInv'
    BY <1>4, <2>3 DEF Forget, Clear, IInv, StreamInv, StreamTypeOK
  <2> QED BY <1>2, <1>3, <2>1, <2>2, <2>4 DEF IInv
<1>5. CASE /\ opKind = "swap" /\ op' = "opening" /\ built' = built + 1 /\ ResetState
           /\ UNCHANGED <<thread, resultVars, streamVars>>
  <2>1. TrackInv'
    BY <1>2, <1>5 DEF ResetState, TrackInv
  <2>2. AnalysisInv'
    <3>1. built \in Nat
      BY Bounds DEF IInv, ControlInv
    <3>2. \A p \in analysed : p[1] <= built /\ p[1] \in Nat
      BY Bounds DEF IInv, AnalysisInv
    <3>3. \A p \in analysed : p[1] <= built' /\ p[1] < built'
      BY <1>5, <3>1, <3>2
    <3> QED BY <1>2, <1>5, <3>3 DEF IInv, AnalysisInv, SeamsAreNoticed, resultVars
  <2>3. StreamInv'
    BY <1>5, StreamSame DEF IInv, Announcing
  <2>4. StoppedShowsNothing'
    BY <1>5 DEF StoppedShowsNothing
  <2> QED BY <1>2, <1>3, <2>1, <2>2, <2>3, <2>4 DEF IInv
<1> QED BY <1>4, <1>5 DEF Close

(* A new source has nothing in the tracker or the analysis.                *)
LEMMA OpenKeeps ==
    ASSUME IInv, Open PROVE IInv'
<1>1. /\ op = "opening" /\ op' = "idle" /\ thread["now"] = Idle
      /\ UNCHANGED <<opKind, built, kind, tracked, resultVars, cancelled, streamVars>>
  BY DEF Open
<1>2. ControlInv' /\ opKind = "swap" /\ source = NoSource /\ task = "none"
  BY <1>1, OpenControl DEF IInv, ControlInv
<1>3. StoppedShowsNothing'
  BY <1>1, <1>2 DEF StoppedShowsNothing
<1>4. CASE /\ OpenCapture(built)
           /\ source' = built /\ task' = "run" /\ stopping' = FALSE /\ lastSeq' = NoFrame
           /\ At("now", [Idle EXCEPT !.step = "read", !.src = built, !.owned = TRUE])
  <2>0. PICK j : j = [Idle EXCEPT !.step = "read", !.src = built, !.owned = TRUE]
    OBVIOUS
  <2>1. built \in Sources
    <3>1. "now" \in Threads
      BY DEF Threads
    <3> QED BY <1>1, <1>2, <3>1, Bounds DEF IInv, ControlInv, Sources, Idle, NoSource
  <2>2. j.step = "read" /\ j.src = built /\ ~Holding(j)
    BY <2>0 DEF Idle, Holding
  <2>3. Running' = j /\ \A t \in Threads : thread'[t] = j \/ thread'[t] = thread[t]
    BY <1>4, <2>0 DEF At, Running, Threads, IInv, ControlInv
  <2>4. SessionsInv'
    BY <1>1, <1>2, <1>4, <2>1, OpensKeeps DEF IInv
  <2>5. HeldInv'
    BY <2>2, <2>3 DEF HeldInv
  <2>6. TrackInv'
    BY <1>1, <1>4, <2>2, <2>3 DEF IInv, TrackInv
  <2>7. AnalysisInv'
    <3>1. \A p \in analysed : p[1] <= built /\ p[1] < built /\ p[1] \in Nat
      BY <1>1, Bounds DEF IInv, AnalysisInv
    <3>2. \A p \in analysed : p[1] # built
      BY <2>1, <3>1, Bounds
    <3> QED BY <1>1, <2>2, <2>3, <3>1, <3>2
            DEF IInv, AnalysisInv, SeamsAreNoticed, resultVars
  <2>8. StreamInv'
    BY <1>1, <2>2, <2>3, StreamSame DEF IInv, Announcing
  <2> QED BY <1>2, <1>3, <2>4, <2>5, <2>6, <2>7, <2>8 DEF IInv
<1>5. CASE UNCHANGED <<sessionVars, source, task, stopping, lastSeq, thread>>
  <2>1. SessionsInv'
    BY <1>1, <1>5, SessionsSame DEF IInv
  <2>2. HeldInv' /\ TrackInv' /\ AnalysisInv'
    BY <1>1, <1>2, <1>5, DataStays DEF IInv, pipelineVars
  <2>3. StreamInv'
    BY <1>1, <1>5, StreamSame DEF IInv, Announcing
  <2> QED BY <1>2, <1>3, <2>1, <2>2, <2>3 DEF IInv
<1> QED BY <1>4, <1>5 DEF Open

(* Viewers come and go; a snapshot asked for between a picture and its     *)
(* announcement is answered by that picture.                               *)
LEMMA ViewersKeep ==
    ASSUME IInv, Viewers(Announcing),
           UNCHANGED <<opVars, thread, sourceVars, sessionVars, pipelineVars,
                       resultVars, cancelled>>
    PROVE  IInv'
<1>1. ControlInv'
  BY ControlSame DEF IInv, ControlVars, opVars, sourceVars
<1>2. SessionsInv'
  BY SessionsSame DEF IInv, sourceVars
<1>3. HeldInv' /\ TrackInv' /\ AnalysisInv'
  <2>1. Running' = Running /\ \A x : Continues(x) => Continues(x)'
    BY DEF Running, Continues, sourceVars, sessionVars
  <2> QED BY <2>1, DataStays DEF IInv, opVars, sourceVars, sessionVars
<1>4. Announcing' <=> Announcing
  BY DEF Announcing
<1>5. Announcing \in BOOLEAN
  BY DEF Announcing
<1>6. StreamInv'
  <2>1. CASE Watch
    BY <1>4, <2>1 DEF Watch, IInv, StreamInv, StreamTypeOK
  <2>2. CASE Ask(Announcing)
    BY <1>4, <1>5, <2>2 DEF Ask, IInv, StreamInv, StreamTypeOK
  <2>3. CASE Answered
    BY <2>3 DEF Answered, IInv, StreamInv, StreamTypeOK
  <2> QED BY <2>1, <2>2, <2>3 DEF Viewers, Serve, TimesOut
<1>7. StoppedShowsNothing'
  <2>1. picture' = picture
    BY DEF Viewers, Watch, Ask, Serve, TimesOut, Answered
  <2> QED BY <2>1 DEF IInv, StoppedShowsNothing, opVars, resultVars
<1> QED BY <1>1, <1>2, <1>3, <1>6, <1>7 DEF IInv

LEMMA Initially ==
    ASSUME Init PROVE IInv
<1>1. /\ op = "idle" /\ opKind = "stop" /\ task = "none" /\ stopping = FALSE
      /\ source = NoSource /\ built = 0 /\ kind \in [Sources -> {"live", "clip"}]
      /\ sessions = 0 /\ lastSeq = NoFrame /\ tracked = {} /\ result = NoSource
      /\ analysisSeq = NoFrame /\ analysed = {} /\ cancelled = FALSE
  BY DEF Init
<1>2. thread \in [Threads -> Jobs] /\ \A t \in Threads : thread[t] = Idle
  BY IdleIs DEF Init
<1>3. ControlInv
  <2>1. \A t \in Threads :
           /\ JobOK(thread[t]) /\ thread[t].src <= built /\ ~thread[t].owned
           /\ thread[t].step = "none"
    BY <1>1, <1>2, IdleIs DEF JobOK, NoSource
  <2>2. built \in 0 .. MaxSources
    BY <1>1, Bounds
  <2>3. \A t \in Threads :
           /\ JobOK(thread[t]) /\ thread[t].src <= built
           /\ thread[t].step = "reopen" => kind[thread[t].src] = "live"
           /\ thread[t].owned <=> (t = "now" /\ task = "run")
           /\ thread[t].step # "none" => thread[t].owned \/ cancelled
           /\ op = "opening" => thread[t].src < built
    BY <1>1, <2>1
  <2> QED BY <1>1, <1>2, <2>2, <2>3 DEF ControlInv
<1>4. SessionsInv
  <2>1. /\ open = [s \in Sources |-> FALSE] /\ session = [s \in Sources |-> NoFrame]
        /\ seq = [s \in Sources |-> 0]
    BY DEF Init
  <2> QED BY <1>1, <2>1, Bounds DEF SessionsInv, OneSourceIsOpen
<1>5. HeldInv /\ TrackInv /\ AnalysisInv
  BY <1>1 DEF HeldInv, TrackInv, AnalysisInv, SeamsAreNoticed
<1>6. StreamInv /\ StoppedShowsNothing
  BY <1>1 DEF Init, StreamInit, StreamInv, StreamTypeOK, StoppedShowsNothing
<1> QED BY <1>3, <1>4, <1>5, <1>6 DEF IInv

LEMMA Preserved ==
    ASSUME IInv, [Next]_vars PROVE IInv'
<1>1. CASE UNCHANGED vars
  <2> USE DEF vars, opVars, sourceVars, sessionVars, pipelineVars, resultVars
  <2>1. ControlInv'
    BY <1>1, ControlSame DEF IInv, ControlVars
  <2>2. SessionsInv'
    BY <1>1, SessionsSame DEF IInv
  <2>3. HeldInv' /\ TrackInv' /\ AnalysisInv'
    <3>1. Running' = Running /\ \A x : Continues(x) => Continues(x)'
      BY <1>1 DEF Running, Continues
    <3> QED BY <1>1, <3>1, DataStays DEF IInv
  <2>4. StreamInv'
    BY <1>1, StreamSame DEF IInv, Announcing
  <2>5. StoppedShowsNothing'
    BY <1>1 DEF IInv, StoppedShowsNothing, streamVars
  <2> QED BY <2>1, <2>2, <2>3, <2>4, <2>5 DEF IInv
<1>2. CASE Next
  BY <1>2, ThreadKeeps, RequestKeeps, HaltKeeps, CloseKeeps, OpenKeeps, ViewersKeep
     DEF Next, OpStep, Announcing
<1> QED BY <1>1, <1>2

(* Where every job is, and what the tracker, the analysis and the stream   *)
(* remember of the source it reads: the inductive invariant.               *)
THEOREM SessionsInvariant == Spec => []IInv
<1>1. Init => IInv
  BY Initially
<1>2. IInv /\ [Next]_vars => IInv'
  BY Preserved
<1> QED BY <1>1, <1>2, PTL DEF Spec

(* Nothing that remembers frames remembers two sessions                    *)
(* (FramePipeline._note_continuity and _reset_state, AnalysisPipeline,     *)
(* the sources' numbering): the tracker of no two sessions unless a loop   *)
(* was cancelled, the analysis of no two sessions of one source.           *)
THEOREM SessionsApart == Spec => []SessionsStayApart
<1>1. ASSUME IInv PROVE SessionsStayApart
  <2>1. TypeOK
    <3>1. thread \in [Threads -> [step : Steps, src : Sources \cup {NoSource},
                                  frame : Seqs \cup {NoFrame},
                                  of : Sessions \cup {NoFrame}, owned : BOOLEAN]]
      BY <1>1 DEF IInv, ControlInv, Jobs
    <3>2. source \in Sources \cup {NoSource}
      BY <1>1, Bounds DEF IInv, ControlInv, Sources, NoSource
    <3>3. {lastSeq, analysisSeq} \subseteq Seqs \cup {NoFrame}
      BY <1>1 DEF IInv, TrackInv, AnalysisInv
    <3>4. \A t \in Threads : thread[t].owned <=> (t = "now" /\ task = "run")
      BY <1>1 DEF IInv, ControlInv
    <3> QED BY <1>1, <3>1, <3>2, <3>3, <3>4
            DEF TypeOK, IInv, ControlInv, SessionsInv, TrackInv, AnalysisInv, StreamInv
  <2>2. TrackerKnowsOneSession
    <3>1. ASSUME ~cancelled PROVE Cardinality(tracked) <= 1
      <4>1. CASE tracked = {}
        BY <4>1, FS_EmptySet
      <4>2. CASE tracked # {}
        <5>1. PICK x : tracked = {x}
          BY <1>1, <3>1, <4>2 DEF IInv, TrackInv
        <5> QED BY <5>1, FS_Singleton
      <4> QED BY <4>1, <4>2
    <3> QED BY <3>1 DEF TrackerKnowsOneSession
  <2>3. SeamsAreNoticed
    BY <1>1 DEF IInv, AnalysisInv
  <2> QED BY <2>1, <2>2, <2>3 DEF SessionsStayApart
<1> QED BY <1>1, SessionsInvariant, PTL

(* What is shown is what the pipeline's one open source shows              *)
(* (CameraRuntime.stop, FramePipeline.stop and swap_source,                *)
(* LiveStreamService): one capture open at a time, nothing shown while     *)
(* stopped, snapshots of frames taken since they were asked for, results   *)
(* of the source the pipeline holds.                                       *)
THEOREM ShownIsHeld == Spec => ShowsWhatItHolds
<1>1. IInv => OneSourceIsOpen /\ StoppedShowsNothing /\ SnapshotIsFresh
  BY DEF IInv, SessionsInv, StreamInv, SnapshotIsFresh
<1>2. IInv /\ [Next]_vars => [(result' \notin {result, NoSource} => result' = source)]_vars
  <2>1. ASSUME IInv, Next, result' \notin {result, NoSource} PROVE result' = source
    <3>1. ASSUME NEW t \in Threads, Deliver(t), result' # result PROVE result' = source
      <4>1. thread[t].owned /\ result' = thread[t].src
        BY <3>1 DEF Deliver, Consume, resultVars
      <4> QED BY <2>1, <4>1, OwnedIs DEF IInv
    <3>2. ASSUME NEW t \in Threads, ThreadStep(t) PROVE result' = result \/ Deliver(t)
      BY <3>2 DEF ThreadStep, ReadFrame, LoopClip, FrameRead, ReadGap, ReadEnds, ReadLost,
         Reconnect, Track, GiveUp, Offer, Offered, resultVars
    <3>3. ASSUME OpStep PROVE result' \in {result, NoSource}
      BY <3>3 DEF OpStep, Joined, HaltTimeout, Close, Open, Forget, resultVars
    <3>4. ASSUME NEW what, Request(what) PROVE result' = result
      BY <3>4 DEF Request, resultVars
    <3> QED BY <2>1, <3>1, <3>2, <3>3, <3>4 DEF Next, resultVars
  <2> QED BY <2>1
<1> QED BY <1>1, <1>2, SessionsInvariant, PTL DEF Spec, ShowsWhatItHolds, DeliveredIsCurrent
=============================================================================
