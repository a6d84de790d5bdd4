---------------------------- MODULE HistoryRecorder ----------------------------
(***************************************************************************)
(* HistoryRecorder: the windows of a camera, or of the site, are folded    *)
(* into the bucket of their time and written as one row.                   *)
(*                                                                         *)
(* Folding happens in synchronous handlers; a bucket is written by a task  *)
(* of its own when the next one begins, by the sweeper when nothing came   *)
(* after it, or by stop().  A write reads the row, then inserts or merges  *)
(* it: between the two any other write may commit.                         *)
(***************************************************************************)
EXTENDS Naturals, FiniteSets, FiniteSetsExt

CONSTANTS
    Keys,            \* (camera, source mode) pairs, the site being one
    MaxWindows,      \* bound: windows folded
    LastWindow,      \* bound: instant of the last window
    MaxSetBacks,     \* bound: times the wall clock is set back
    MaxStarts        \* bound: times the backend starts

ASSUME RecorderAssumption ==
    {MaxWindows, LastWindow, MaxSetBacks} \subseteq Nat /\ MaxStarts \in Nat \ {0}

\* An instant is half a bucket; CLOSE_GRACE_SECONDS is one instant.
BucketLength == 2
Grace == 1
Retention == 3       \* in instants; shorter than any real one so that rows expire

VARIABLES
    now, setBacks,   \* the wall clock, how often it was set back
    phase, starts,   \* "running", "stopping", "stopped"; starts so far
    folded,          \* windows folded so far: their names
    open,            \* _open: of every key, the bucket being filled
    writes,          \* writes in progress: _writes, the sweeper's, stop's
    due, toWrite,    \* what flush_due has yet to write, what stop has
    rows,            \* the table: of every place, its row
    failed,          \* windows of writes that failed, counted and logged
    cut,             \* windows whose write was cancelled with the sweeper
    crashed,         \* windows in memory at a crash
    expired,         \* windows of pruned rows
    overwritten      \* windows of a row merged by two writes at once

timeVars == <<now, setBacks>>
memoryVars == <<open, writes, due, toWrite>>
lostVars == <<failed, cut, crashed, expired, overwritten>>
vars == <<timeVars, phase, starts, folded, memoryVars, rows, lostVars>>

Windows == 1 .. MaxWindows
bucket_start_for(moment) == moment - (moment % BucketLength)
MaxTime == bucket_start_for(LastWindow) + BucketLength + Grace
Instants == 0 .. MaxTime
Buckets == {bucket_start_for(t) : t \in Instants}
Places == [key : Keys, start : Buckets]
Rows == [id : Windows \cup {0}, windows : SUBSET Windows, samples : Nat, worst : 0 .. 2]
NoRow == [id |-> 0, windows |-> {}, samples |-> 0, worst |-> 0]

\* The status of a window, as a rank.
Rank(w) == 1 + (w % 2)

WorstOf(windows) == Max({0} \cup {Rank(w) : w \in windows})

Accumulators == [place : Places, windows : SUBSET Windows]

\* A key that _open does not have: no window is held under it.
Closed(k) == [place |-> [key |-> k, start |-> 0], windows |-> {}]

\* to_row: the figures of a bucket are those of its windows.  (The primary key
\* is fresh; one of the windows stands for it.)
RowOf(windows) ==
    [id |-> CHOOSE w \in windows : TRUE, windows |-> windows,
     samples |-> Cardinality(windows), worst |-> WorstOf(windows)]

\* Mutant: the row found is overwritten.
Overwritten(row, new) == [new EXCEPT !.id = IF row = NoRow THEN @ ELSE row.id]

merge_into(row, new) ==
    [id |-> IF row = NoRow THEN new.id ELSE row.id,
     windows |-> row.windows \cup new.windows,
     samples |-> row.samples + new.samples,
     worst |-> Max({row.worst, new.worst})]

IsOpen(k) == open[k].windows # {}

TypeOK ==
    /\ now \in Instants /\ setBacks \in 0 .. MaxSetBacks
    /\ phase \in {"running", "stopping", "stopped"} /\ starts \in 1 .. MaxStarts
    /\ folded \in 0 .. MaxWindows
    /\ open \in [Keys -> Accumulators] /\ \A k \in Keys : open[k].place.key = k
    /\ \A w \in writes :
          /\ w.by \in {"task", "sweeper", "stop"} /\ w.at \in {"select", "commit"}
          /\ w.acc \in Accumulators /\ w.acc.windows # {}
    /\ due \subseteq Keys /\ toWrite \subseteq Accumulators
    /\ rows \in [Places -> Rows]
    /\ failed \cup cut \cup crashed \cup expired \cup overwritten \subseteq Windows

Init ==
    /\ now = 0 /\ setBacks = 0 /\ phase = "running" /\ starts = 1
    /\ folded = 0 /\ writes = {} /\ due = {} /\ toWrite = {}
    /\ open = [k \in Keys |-> Closed(k)] /\ rows = [p \in Places |-> NoRow]
    /\ failed = {} /\ cut = {} /\ crashed = {} /\ expired = {}
    /\ overwritten = {}

-----------------------------------------------------------------------------
(* The clock.                                                              *)

Tick ==
    /\ now < MaxTime /\ now' = now + 1
    /\ UNCHANGED <<setBacks, phase, starts, folded, memoryVars, rows, lostVars>>

\* The wall clock is corrected by a bucket.
SetBack ==
    /\ setBacks < MaxSetBacks /\ now >= BucketLength
    /\ now' = now - BucketLength /\ setBacks' = setBacks + 1
    /\ UNCHANGED <<phase, starts, folded, memoryVars, rows, lostVars>>

-----------------------------------------------------------------------------
(* Folding.                                                                *)

Write(acc, by) == [acc |-> acc, by |-> by, at |-> "select", saw |-> NoRow]

IsLate(start, acc) == start < acc.place.start

Opened(k, windows) ==
    [place |-> [key |-> k, start |-> bucket_start_for(now)], windows |-> windows]

(* _fold: a window joins its key's open bucket, or closes it and opens     *)
(* another; one that is late for the open bucket is ignored.               *)
FoldLate(k) == UNCHANGED <<folded, open, writes>>

Joins(k, w) ==
    /\ folded' = w /\ open' = [open EXCEPT ![k].windows = @ \cup {w}]
    /\ UNCHANGED writes

RollsOver(k, w) ==
    /\ folded' = w /\ open' = [open EXCEPT ![k] = Opened(k, {w})]
    /\ writes' = writes \cup {Write(open[k], "task")}

Opens(k, w) ==
    /\ folded' = w /\ open' = [open EXCEPT ![k] = Opened(k, {w})]
    /\ UNCHANGED writes

Fold(k) ==
    LET w == folded + 1
        start == bucket_start_for(now)
    IN  /\ phase = "running" /\ w \in Windows /\ now <= LastWindow
        /\ \/ IsOpen(k) /\ IsLate(start, open[k]) /\ FoldLate(k)
           \/ IsOpen(k) /\ start = open[k].place.start /\ Joins(k, w)
           \/ IsOpen(k) /\ start > open[k].place.start /\ RollsOver(k, w)
           \/ ~IsOpen(k) /\ Opens(k, w)
        /\ UNCHANGED <<timeVars, phase, starts, due, toWrite, rows, lostVars>>

-----------------------------------------------------------------------------
(* Writing.                                                                *)

Select(w) ==
    /\ w.at = "select"
    /\ writes' = (writes \ {w}) \cup
                    {[w EXCEPT !.at = "commit", !.saw = rows[w.acc.place]]}
    /\ UNCHANGED <<timeVars, phase, starts, folded, open, due, toWrite, rows, lostVars>>

\* The unique key refuses a second insert; a row that was pruned meanwhile
\* cannot be updated.
Refused(w) == w.saw.id # rows[w.acc.place].id

\* The row becomes what was read, merged: what another write has put into it
\* since is lost, what another has taken out of it is back.
Stored(w) ==
    /\ rows' = [rows EXCEPT ![w.acc.place] = merge_into(w.saw, RowOf(w.acc.windows))]
    /\ overwritten' = (overwritten \cup rows[w.acc.place].windows) \ w.saw.windows

Commit(w) ==
    /\ w.at = "commit" /\ ~Refused(w)
    /\ Stored(w)
    /\ writes' = writes \ {w}
    /\ UNCHANGED <<timeVars, phase, starts, folded, open, due, toWrite, failed, cut,
                   crashed, expired>>

\* A write fails; "a lost bucket is a gap, not an outage".
WriteFails(w) ==
    /\ writes' = writes \ {w} /\ failed' = failed \cup w.acc.windows
    /\ UNCHANGED <<timeVars, phase, starts, folded, open, due, toWrite, rows,
                   cut, crashed, expired, overwritten>>

WriteStep(w) == Select(w) \/ Commit(w) \/ (w.at = "commit" /\ WriteFails(w))

SweeperWrites == \E w \in writes : w.by = "sweeper"
StopWrites == \E w \in writes : w.by = "stop"

-----------------------------------------------------------------------------
(* The sweeper.                                                            *)

\* Mutant: only a bucket that others have overtaken has ended.
Overtaken ==
    {k \in Keys : IsOpen(k) /\
        \E x \in Keys : IsOpen(x) /\ open[k].place.start < open[x].place.start}

\* The buckets that have ended, by the clock as it is now.
Ended == {k \in Keys : IsOpen(k) /\ open[k].place.start + BucketLength + Grace <= now}

\* Mutant: the bucket stays open while it is written.
Peeks(k) == writes' = writes \cup {Write(open[k], "sweeper")} /\ UNCHANGED open

\* A key is popped, whatever bucket is open under it by now.
Pops(k) ==
    /\ writes' = writes \cup {Write(open[k], "sweeper")}
    /\ open' = [open EXCEPT ![k] = Closed(k)]

(* flush_due: the keys that are due are listed and the first is popped;    *)
(* each further one when the write before it is over.                      *)
Sweep ==
    /\ phase = "running" /\ due = {} /\ ~SweeperWrites
    /\ \E k \in Ended : due' = Ended \ {k} /\ Pops(k)
    /\ UNCHANGED <<timeVars, phase, starts, folded, toWrite, rows, lostVars>>

FlushNext(k) ==
    /\ phase = "running" /\ k \in due /\ ~SweeperWrites
    /\ due' = due \ {k} /\ Pops(k)
    /\ UNCHANGED <<timeVars, phase, starts, folded, toWrite, rows, lostVars>>

\* prune, between two passes of the sweeper.
Expired(p) == p.start < now - Retention

Prune ==
    /\ phase = "running" /\ due = {} /\ ~SweeperWrites
    /\ \E p \in Places : Expired(p) /\ rows[p] # NoRow
    /\ expired' = expired \cup UNION {rows[p].windows : p \in {q \in Places : Expired(q)}}
    /\ rows' = [p \in Places |-> IF Expired(p) THEN NoRow ELSE rows[p]]
    /\ UNCHANGED <<timeVars, phase, starts, folded, memoryVars, failed, cut, crashed,
                   overwritten>>

-----------------------------------------------------------------------------
(* Stopping, starting, crashing.                                           *)

\* stop: unsubscribe, cancel the sweeper, take over what is open.  The write
\* of a cancelled sweeper is rolled back, or its commit was already under way.
Stop ==
    LET swept == {w \in writes : w.by = "sweeper"}
    IN  /\ phase = "running" /\ phase' = "stopping"
        /\ toWrite' = {open[k] : k \in {x \in Keys : IsOpen(x)}}
        /\ open' = [k \in Keys |-> Closed(k)] /\ due' = {} /\ writes' = writes \ swept
        /\ \/ /\ cut' = cut \cup UNION {w.acc.windows : w \in swept}
              /\ UNCHANGED <<rows, overwritten>>
           \/ \E w \in swept : w.at = "commit" /\ ~Refused(w) /\ Stored(w) /\ UNCHANGED cut
        /\ UNCHANGED <<timeVars, starts, folded, failed, crashed, expired>>

StopWritesNext(acc) ==
    /\ phase = "stopping" /\ acc \in toWrite /\ ~StopWrites
    /\ toWrite' = toWrite \ {acc} /\ writes' = writes \cup {Write(acc, "stop")}
    /\ UNCHANGED <<timeVars, phase, starts, folded, open, due, rows, lostVars>>

WrittenAll == writes = {}

Stopped ==
    /\ phase = "stopping" /\ toWrite = {} /\ WrittenAll
    /\ phase' = "stopped"
    /\ UNCHANGED <<timeVars, starts, folded, memoryVars, rows, lostVars>>

InMemory ==
    {x \in Windows : \/ \E k \in Keys : x \in open[k].windows
                     \/ \E w \in writes : x \in w.acc.windows
                     \/ \E acc \in toWrite : x \in acc.windows}

Starts ==
    /\ starts < MaxStarts /\ starts' = starts + 1 /\ phase' = "running"
    /\ open' = [k \in Keys |-> Closed(k)] /\ writes' = {} /\ due' = {} /\ toWrite' = {}
    /\ crashed' = crashed \cup InMemory
    /\ UNCHANGED <<timeVars, folded, rows, failed, cut, expired, overwritten>>

Restart == phase = "stopped" /\ Starts
Crash == phase # "stopped" /\ Starts

-----------------------------------------------------------------------------
Sweeping == Sweep \/ \E k \in Keys : FlushNext(k)
Stopping == Stopped \/ \E acc \in toWrite : StopWritesNext(acc)
Writing == \E w \in writes : WriteStep(w)

Next ==
    \/ Tick \/ SetBack \/ Prune \/ Sweeping \/ Stop \/ Stopping \/ Restart \/ Crash
    \/ \E k \in Keys : Fold(k)
    \/ \E w \in writes : WriteStep(w)

Fairness == WF_vars(Tick) /\ WF_vars(Sweeping) /\ WF_vars(Stopping) /\ WF_vars(Writing)
Spec == Init /\ [][Next]_vars /\ Fairness

-----------------------------------------------------------------------------
(* "A bucket written twice is merged into the row already stored": the     *)
(* figures of a row are those of its windows, however many writes, in      *)
(* whatever order, before and after a restart, have made it.               *)
RowsAreTheirWindows ==
    \A p \in Places :
        /\ rows[p].samples = Cardinality(rows[p].windows)
        /\ rows[p].worst = WorstOf(rows[p].windows)

Stands == {x \in Windows : \E p \in Places : x \in rows[p].windows}

(* "A lost bucket is a gap", and every gap has its reason: a window that   *)
(* was folded is in memory, in a row, or in a write that was counted as    *)
(* failed, a crash, a pruned row, the write stop() cut short or a merge    *)
(* that another overtook, and only in one of them.                         *)
NoWindowVanishes ==
    LET fates == <<InMemory, Stands, failed, cut, crashed, expired, overwritten>>
    IN  /\ UNION {fates[i] : i \in 1 .. 7} = 1 .. folded
        /\ \A i, j \in 1 .. 7 : i # j => fates[i] \cap fates[j] = {}

(* The writes of one key and bucket that are under way never carry the     *)
(* same window, nor one its row stands for already.                        *)
NoWindowIsWrittenTwice ==
    \A v, w \in writes :
        /\ v # w => v.acc.windows \cap w.acc.windows = {}
        /\ v.acc.windows \cap rows[v.acc.place].windows = {}

(* After stop() returned nothing writes: the database is disconnected next. *)
StoppedIsQuiet == phase = "stopped" => InMemory = {}

(* "A camera that went silent still has its last bucket written": once no  *)
(* window comes any more, memory empties.                                  *)
SilenceIsWritten == <>[](InMemory = {})

Ledger == INSTANCE HistoryLedger WITH
    pending <- InMemory,
    settled <- (1 .. folded) \ InMemory,
    disturbed <- setBacks > 0,
    recorded <- [p \in Places |-> rows[p].windows]

(* Each window stands in one row or is dropped for good, and a row only    *)
(* gains windows until it expires: no two merges overlap unless the clock  *)
(* was set back.                                                           *)
KeepsTheLedger == Ledger!Spec

(* History adds up: each window is in one place, each row is made of its   *)
(* windows, and after stop() nothing is under way.                         *)
RowsAreRight ==
    /\ TypeOK /\ RowsAreTheirWindows /\ NoWindowVanishes
    /\ NoWindowIsWrittenTwice /\ StoppedIsQuiet
=============================================================================
