------------------------- MODULE HistoryRecorderProofs -------------------------
(***************************************************************************)
(* Theorems about HistoryRecorder, for every number of keys, windows,      *)
(* setbacks of the clock and starts: rows are made of their windows, no    *)
(* window vanishes, and the recorder implements HistoryLedger.             *)
(*                                                                         *)
(* And about ProcessSupervisor, which keeps running the backend that does  *)
(* the recording: whom it ends, and what it leaves behind.                 *)
(***************************************************************************)
EXTENDS MCPlatform, FiniteSetTheorems, TLAPS

Writes == [acc : Accumulators, by : {"task", "sweeper", "stop"},
           at : {"select", "commit"}, saw : Rows]

(* What memory holds is apart: no window is in two buckets.                *)
OpenApart == \A j, k \in Keys : j # k => open[j].windows \cap open[k].windows = {}
WritesApart ==
    \A v, w \in writes : v # w => v.acc.windows \cap w.acc.windows = {}
StopApart ==
    \A a, b \in toWrite : a # b => a.windows \cap b.windows = {}
HoldersApart ==
    /\ \A k \in Keys, w \in writes : open[k].windows \cap w.acc.windows = {}
    /\ \A a \in toWrite, w \in writes : a.windows \cap w.acc.windows = {}
MemoryApart ==
    /\ OpenApart /\ WritesApart /\ StopApart /\ HoldersApart
    /\ \A w \in writes : w.acc.windows # {}
    /\ \A a \in toWrite : a.windows # {}

(* A window is in one of seven places.                                     *)
Dropped == failed \cup cut \cup crashed \cup expired \cup overwritten
DroppedApart ==
    /\ failed \cap (cut \cup crashed \cup expired \cup overwritten) = {}
    /\ cut \cap (crashed \cup expired \cup overwritten) = {}
    /\ crashed \cap (expired \cup overwritten) = {}
    /\ expired \cap overwritten = {}
FatesApart ==
    /\ InMemory \cup Stands \cup Dropped = 1 .. folded
    /\ InMemory \cap Stands = {} /\ (InMemory \cup Stands) \cap Dropped = {}
    /\ DroppedApart

(* A row is identified by a window of its own, and shares none.            *)
RowsApart ==
    /\ \A p \in Places : rows[p] # NoRow => rows[p].id \in rows[p].windows
    /\ \A p, q \in Places : p # q => rows[p].windows \cap rows[q].windows = {}

(* What a write has read of its row: nothing, a row that is gone, or that  *)
(* row as it was then.                                                     *)
SawOf(w) ==
    \/ w.saw = NoRow
    \/ w.saw.id \in w.saw.windows \cap expired
    \/ /\ w.saw.id \in w.saw.windows /\ w.saw.id = rows[w.acc.place].id
       /\ w.saw.windows \subseteq rows[w.acc.place].windows \cup overwritten
FiguresOf(row) ==
    row.samples = Cardinality(row.windows) /\ row.worst = WorstOf(row.windows)
WritesRead ==
    \A w \in writes : w.at = "commit" => SawOf(w) /\ FiguresOf(w.saw)

(* The windows it has read have left memory, and stand in no other row.    *)
SawElsewhere(w) ==
    /\ w.saw.windows \subseteq Stands \cup overwritten \cup expired
    /\ \A p \in Places : p # w.acc.place => w.saw.windows \cap rows[p].windows = {}
ReadsApart ==
    /\ \A w \in writes : w.at = "commit" => SawElsewhere(w)
    /\ \A v, w \in writes :
          v.at = "commit" /\ w.at = "commit" /\ v.acc.place # w.acc.place
          => v.saw.windows \cap w.saw.windows = {}

(* The sweeper writes one bucket at a time; what is due is open; stop has  *)
(* taken over what was open.                                               *)
OneSweeper == \A v, w \in writes : v.by = "sweeper" /\ w.by = "sweeper" => v = w
PhasesOK ==
    /\ \A k \in due : IsOpen(k)
    /\ phase = "running" => toWrite = {}
    /\ phase # "running" => due = {} /\ \A k \in Keys : ~IsOpen(k)
    /\ phase = "stopped" => writes = {} /\ toWrite = {}

RowsInv ==
    /\ TypeOK /\ writes \subseteq Writes /\ MemoryApart /\ FatesApart /\ RowsApart
    /\ RowsAreTheirWindows /\ WritesRead /\ ReadsApart /\ OneSweeper /\ PhasesOK

-----------------------------------------------------------------------------
(* While the clock has not been set back:                                  *)

(* Nothing is of a bucket that has not begun, or is later than the one     *)
(* open.                                                                   *)
Began ==
    /\ \A k \in Keys : IsOpen(k) => open[k].place.start <= now
    /\ \A w \in writes : w.acc.place.start <= now
    /\ \A a \in toWrite : a.place.start <= now
    /\ \A p \in Places : rows[p] # NoRow => p.start <= now
NoneLater(k) ==
    /\ \A w \in writes :
          w.acc.place.key = k => w.acc.place.start <= open[k].place.start
    /\ \A p \in Places :
          p.key = k /\ rows[p] # NoRow => p.start <= open[k].place.start

(* A bucket that may still be written has at most one write under way, and *)
(* then no row: that is one the sweeper popped before its time.            *)
Untouched(p) == rows[p] = NoRow /\ \A w \in writes : w.acc.place # p
FirstOnly(p) ==
    \A w \in writes : w.acc.place = p =>
        rows[p] = NoRow /\ \A v \in writes : v.acc.place = p => v = w
PlaceNow(k) ==
    IF IsOpen(k) THEN open[k].place ELSE [key |-> k, start |-> bucket_start_for(now)]
Popped ==
    \A k \in due : \/ open[k].place.start + BucketLength <= now
                   \/ Untouched(open[k].place)

(* So at most two writes share a place, and they share it with no row.     *)
Pairs ==
    \A v, w \in writes : v # w /\ v.acc.place = w.acc.place =>
        /\ rows[v.acc.place] = NoRow
        /\ \A u \in writes : u.acc.place = v.acc.place => u \in {v, w}

(* What a write that is not refused has read is the row as it is.          *)
ReadsLast ==
    \A w \in writes : w.at = "commit" /\ ~Refused(w) => w.saw = rows[w.acc.place]

OrderInv ==
    /\ Began /\ Popped /\ Pairs /\ ReadsLast
    /\ \A k \in Keys : IsOpen(k) => NoneLater(k)
    /\ phase = "running" => \A k \in Keys : FirstOnly(PlaceNow(k))
    /\ \A a \in toWrite : FirstOnly(a.place)

StopPlaces == \A a, b \in toWrite : a.place = b.place => a = b

LedgerInv == StopPlaces /\ (setBacks = 0 => OrderInv)

-----------------------------------------------------------------------------
(* About the operators.                                                    *)

LEMMA Bounds ==
    /\ MaxWindows \in Nat /\ LastWindow \in Nat /\ MaxSetBacks \in Nat
    /\ MaxStarts \in Nat \ {0} /\ MaxTime \in Nat
    /\ Windows \subseteq Nat /\ 0 \notin Windows
BY RecorderAssumption DEF Windows, MaxTime, bucket_start_for, BucketLength, Grace

(* The bucket of an instant began at most a bucket before it, and is the   *)
(* last that has.                                                          *)
LEMMA BucketOf ==
    ASSUME NEW t \in Nat
    PROVE  /\ bucket_start_for(t) \in Nat
           /\ bucket_start_for(t) <= t /\ t < bucket_start_for(t) + BucketLength
           /\ \A b \in Buckets : b <= t => b <= bucket_start_for(t)
           /\ \A b \in Buckets : bucket_start_for(t) < b
                                 => bucket_start_for(t) + BucketLength <= b
<1>1. \A u \in Nat : /\ bucket_start_for(u) \in Nat /\ bucket_start_for(u) <= u
                     /\ u < bucket_start_for(u) + 2 /\ bucket_start_for(u) % 2 = 0
  BY DEF bucket_start_for, BucketLength
<1>2. \A b \in Buckets : b \in Nat /\ b % 2 = 0
  <2>1. \A u \in Instants : u \in Nat
    BY Bounds DEF Instants
  <2> QED BY <1>1, <2>1 DEF Buckets
<1>3. \A a, b \in Nat : a % 2 = 0 /\ b % 2 = 0 /\ a < b => a + 2 <= b
  OBVIOUS
<1>4. \A b \in Buckets : bucket_start_for(t) < b => bucket_start_for(t) + 2 <= b
  BY <1>1, <1>2, <1>3
<1>5. \A b \in Buckets : b <= t => b <= bucket_start_for(t)
  <2>1. TAKE b \in Buckets
  <2>2. b \in Nat /\ bucket_start_for(t) \in Nat /\ t < bucket_start_for(t) + 2
    BY <1>1, <1>2
  <2> QED BY <1>4, <2>2
<1> QED BY <1>1, <1>4, <1>5 DEF BucketLength

LEMMA BucketsNat == \A b \in Buckets : b \in Nat
BY Bounds DEF Buckets, Instants, bucket_start_for, BucketLength

(* The greatest of some ranks is one of them.                              *)
LEMMA MaxIs ==
    ASSUME NEW S \in SUBSET (0 .. 2), S # {}
    PROVE  Max(S) \in S /\ \A x \in S : x <= Max(S)
<1>1. \E x \in S : \A y \in S : x >= y
  <2>1. CASE 2 \in S
    BY <2>1
  <2>2. CASE 2 \notin S /\ 1 \in S
    BY <2>2
  <2>3. CASE 2 \notin S /\ 1 \notin S
    <3>1. \A x \in S : x = 0
      BY <2>3
    <3>2. PICK x : x \in S
      OBVIOUS
    <3> QED BY <3>1, <3>2
  <2> QED BY <2>1, <2>2, <2>3
<1>2. Max(S) \in S /\ \A y \in S : Max(S) >= y
  BY <1>1 DEF Max
<1> QED BY <1>2

LEMMA WorstIs ==
    ASSUME NEW A \in SUBSET Windows
    PROVE  /\ WorstOf(A) \in 0 .. 2 /\ \A w \in A : Rank(w) <= WorstOf(A)
           /\ WorstOf(A) = 0 \/ \E w \in A : Rank(w) = WorstOf(A)
<1> DEFINE S == {0} \cup {Rank(w) : w \in A}
<1>1. S \in SUBSET (0 .. 2) /\ S # {}
  BY Bounds DEF Rank
<1>2. Max(S) \in S /\ \A x \in S : x <= Max(S)
  BY <1>1, MaxIs
<1> QED BY <1>1, <1>2 DEF WorstOf

LEMMA WorstJoins ==
    ASSUME NEW A \in SUBSET Windows, NEW B \in SUBSET Windows
    PROVE  WorstOf(A \cup B) = Max({WorstOf(A), WorstOf(B)})
<1> DEFINE a == WorstOf(A)
           b == WorstOf(B)
           c == WorstOf(A \cup B)
<1>1. a \in 0 .. 2 /\ b \in 0 .. 2 /\ c \in 0 .. 2
  BY WorstIs
<1>2. a <= c /\ b <= c
  <2>1. \A w \in A \cup B : Rank(w) <= c
    BY WorstIs
  <2> QED BY <1>1, <2>1, WorstIs
<1>3. c = a \/ c = b
  <2>1. CASE c = 0
    BY <1>1, <1>2, <2>1
  <2>2. CASE c # 0
    <3>1. PICK w \in A \cup B : Rank(w) = c
      BY <2>2, WorstIs
    <3>2. c <= a \/ c <= b
      BY <3>1, WorstIs
    <3> QED BY <1>1, <1>2, <3>2
  <2> QED BY <2>1, <2>2
<1>4. Max({a, b}) \in {a, b} /\ a <= Max({a, b}) /\ b <= Max({a, b})
  BY <1>1, MaxIs
<1> HIDE DEF a, b, c
<1>5. c = Max({a, b})
  BY <1>1, <1>2, <1>3, <1>4
<1> QED BY <1>5 DEF a, b, c

LEMMA SamplesJoin ==
    ASSUME NEW A \in SUBSET Windows, NEW B \in SUBSET Windows, A \cap B = {}
    PROVE  /\ Cardinality(A) \in Nat
           /\ Cardinality(A \cup B) = Cardinality(A) + Cardinality(B)
<1>1. IsFiniteSet(Windows)
  BY Bounds, FS_Interval DEF Windows
<1>2. IsFiniteSet(A) /\ IsFiniteSet(B)
  BY <1>1, FS_Subset
<1>3. Cardinality(A) \in Nat /\ Cardinality(B) \in Nat
  BY <1>2, FS_CardinalityType
<1>4. Cardinality(A \cup B) = Cardinality(A) + Cardinality(B) - Cardinality({})
  BY <1>2, FS_Union
<1> QED BY <1>3, <1>4, FS_EmptySet

-----------------------------------------------------------------------------
(* A write and its row.                                                    *)

LEMMA WriteHas ==
    ASSUME RowsInv, NEW w \in writes
    PROVE  /\ w \in Writes
           /\ w.acc \in Accumulators /\ w.saw \in Rows /\ w.acc.place \in Places
           /\ w.acc.windows \in SUBSET Windows /\ w.acc.windows # {}
           /\ w.acc.windows \subseteq InMemory
BY DEF RowsInv, Writes, Accumulators, MemoryApart, InMemory

LEMMA RowHas ==
    ASSUME RowsInv, NEW p \in Places
    PROVE  /\ rows[p] \in Rows /\ rows[p].windows \in SUBSET Windows
           /\ rows[p].windows \subseteq Stands
           /\ rows[p].id = 0 <=> rows[p] = NoRow
<1>1. rows[p] \in Rows
  BY DEF RowsInv, TypeOK
<1>2. rows[p].windows \in SUBSET Windows /\ rows[p].windows \subseteq Stands
  BY <1>1 DEF Rows, Stands
<1>3. rows[p] # NoRow => rows[p].id \in Windows
  BY <1>2 DEF RowsInv, RowsApart
<1>4. NoRow.id = 0
  BY DEF NoRow
<1> QED BY <1>1, <1>2, <1>3, <1>4, Bounds

(* What a write that is not refused has read stood in the row or was       *)
(* overwritten there.                                                      *)
LEMMA SawItsRow ==
    ASSUME RowsInv, NEW w \in writes, w.at = "commit", ~Refused(w)
    PROVE  /\ w.saw = NoRow => rows[w.acc.place] = NoRow
           /\ w.saw # NoRow => w.saw.id \in w.saw.windows
           /\ w.saw.windows \subseteq rows[w.acc.place].windows \cup overwritten
<1> DEFINE row == rows[w.acc.place]
<1>1. w.acc.place \in Places /\ w.saw.id = row.id
  BY WriteHas DEF Refused
<1>2. row.windows \subseteq Stands /\ (row.id = 0 <=> row = NoRow)
  BY <1>1, RowHas
<1>3. row # NoRow => row.id \in row.windows
  BY <1>1 DEF RowsInv, RowsApart
<1>4. SawOf(w)
  BY DEF RowsInv, WritesRead
<1>5. Stands \cap expired = {} /\ 0 \notin expired
  BY Bounds DEF RowsInv, FatesApart, Dropped, TypeOK
<1>6. NoRow.id = 0 /\ NoRow.windows = {}
  BY DEF NoRow
<1> QED BY <1>1, <1>2, <1>3, <1>4, <1>5, <1>6 DEF SawOf

(* The row it makes is made of its windows.                                *)
LEMMA Merged ==
    ASSUME RowsInv, NEW w \in writes, w.at = "commit", ~Refused(w),
           NEW row, row = merge_into(w.saw, RowOf(w.acc.windows))
    PROVE  /\ row \in Rows /\ FiguresOf(row)
           /\ row.windows = w.saw.windows \cup w.acc.windows
           /\ row.id \in row.windows
           /\ w.saw # NoRow => row.id = w.saw.id
           /\ w.saw = NoRow => row.id \in w.acc.windows
<1> DEFINE A == w.saw.windows
           B == w.acc.windows
<1>1. A \in SUBSET Windows /\ B \in SUBSET Windows /\ B # {} /\ w.saw \in Rows
  BY WriteHas DEF Rows
<1>2. A \cap B = {}
  <2>1. A \subseteq Stands \cup overwritten
    BY SawItsRow, WriteHas, RowHas
  <2>2. B \subseteq InMemory
    BY WriteHas
  <2>3. InMemory \cap (Stands \cup overwritten) = {}
    BY DEF RowsInv, FatesApart, Dropped
  <2> QED BY <2>1, <2>2, <2>3
<1>3. FiguresOf(w.saw)
  BY DEF RowsInv, WritesRead
<1>4. /\ row.windows = A \cup B
      /\ row.samples = w.saw.samples + Cardinality(B)
      /\ row.worst = Max({w.saw.worst, WorstOf(B)})
      /\ row.id = IF w.saw = NoRow THEN RowOf(B).id ELSE w.saw.id
  <2>1. /\ RowOf(B).windows = B /\ RowOf(B).samples = Cardinality(B)
        /\ RowOf(B).worst = WorstOf(B)
    BY DEF RowOf
  <2> QED BY <2>1 DEF merge_into
<1>5. row.samples = Cardinality(A \cup B) /\ row.samples \in Nat
  <2>1. w.saw.samples = Cardinality(A)
    BY <1>3 DEF FiguresOf
  <2>2. /\ Cardinality(A \cup B) = Cardinality(A) + Cardinality(B)
        /\ Cardinality(A \cup B) \in Nat
    BY <1>1, <1>2, SamplesJoin
  <2>3. row.samples = w.saw.samples + Cardinality(B)
    BY <1>4
  <2> QED BY <2>1, <2>2, <2>3
<1>6. row.worst = WorstOf(A \cup B) /\ row.worst \in 0 .. 2
  <2>1. WorstOf(A \cup B) = Max({WorstOf(A), WorstOf(B)})
    BY <1>1, WorstJoins
  <2>2. WorstOf(A \cup B) \in 0 .. 2
    BY <1>1, WorstIs
  <2> QED BY <1>3, <1>4, <2>1, <2>2 DEF FiguresOf
<1>7. RowOf(B).id \in B
  BY <1>1 DEF RowOf
<1>8. w.saw # NoRow => w.saw.id \in A
  BY SawItsRow
<1>9. row.id \in A \cup B
  BY <1>4, <1>7, <1>8
<1>10. \E i, v, m, x : row = [id |-> i, windows |-> v, samples |-> m, worst |-> x]
  BY DEF merge_into
<1>11. row \in Rows
  BY <1>1, <1>4, <1>5, <1>6, <1>9, <1>10 DEF Rows
<1> QED BY <1>4, <1>5, <1>6, <1>7, <1>9, <1>11 DEF FiguresOf

(* Storing it puts the write's windows into the row, and leaves every      *)
(* window that any row stood for in a row or overwritten.                  *)
LEMMA StoredKeeps ==
    ASSUME RowsInv, NEW w \in writes, w.at = "commit", ~Refused(w), Stored(w)
    PROVE  /\ rows' \in [Places -> Rows] /\ RowsAreTheirWindows' /\ RowsApart'
           /\ Stands' \cup overwritten' = Stands \cup overwritten \cup w.acc.windows
           /\ Stands' \cap overwritten' = {}
           /\ expired' = expired =>
                \A v \in writes :
                    v # w /\ v.at = "commit" => SawOf(v)' /\ SawElsewhere(v)'
<1> DEFINE place == w.acc.place
           row == merge_into(w.saw, RowOf(w.acc.windows))
<1>1. place \in Places /\ w.acc.windows \subseteq InMemory
      /\ w.acc.windows \in SUBSET Windows
  BY WriteHas
<1>2. row \in Rows /\ FiguresOf(row) /\ row.id \in row.windows
      /\ row.windows = w.saw.windows \cup w.acc.windows
      /\ (w.saw # NoRow => row.id = w.saw.id)
      /\ (w.saw = NoRow => row.id \in w.acc.windows)
  BY Merged
<1>3. w.saw.windows \subseteq rows[place].windows \cup overwritten
      /\ (w.saw = NoRow => rows[place] = NoRow)
  BY SawItsRow
<1> HIDE DEF row, place
<1>4. rows \in [Places -> Rows] /\ rows' = [rows EXCEPT ![place] = row]
      /\ overwritten' = (overwritten \cup rows[place].windows) \ w.saw.windows
  BY DEF Stored, row, place, RowsInv, TypeOK
<1>5. /\ rows' \in [Places -> Rows] /\ rows'[place] = row
      /\ \A p \in Places : p # place => rows'[p] = rows[p]
  BY <1>1, <1>2, <1>4
<1>6. InMemory \cap (Stands \cup overwritten) = {} /\ Stands \cap overwritten = {}
      /\ overwritten \subseteq Windows
  BY DEF RowsInv, FatesApart, Dropped, TypeOK
<1>7. \A p \in Places : rows[p].windows \subseteq Stands
  BY RowHas
<1>8. \A p, q \in Places : p # q => rows[p].windows \cap rows[q].windows = {}
  BY DEF RowsInv, RowsApart
<1>9. \A p \in Places : p # place => row.windows \cap rows[p].windows = {}
  BY <1>1, <1>2, <1>3, <1>6, <1>7, <1>8
<1>10. RowsAreTheirWindows'
  BY <1>1, <1>2, <1>5 DEF RowsAreTheirWindows, FiguresOf, RowsInv
<1>11. RowsApart'
  <2>1. ASSUME NEW p \in Places, rows'[p] # NoRow PROVE rows'[p].id \in rows'[p].windows
    BY <1>2, <1>5, <2>1 DEF RowsInv, RowsApart
  <2>2. ASSUME NEW p \in Places, NEW q \in Places, p # q
        PROVE  rows'[p].windows \cap rows'[q].windows = {}
    <3>1. CASE p = place
      BY <1>5, <1>9, <2>2, <3>1
    <3>2. CASE q = place
      BY <1>5, <1>9, <2>2, <3>2
    <3>3. CASE p # place /\ q # place
      BY <1>5, <1>8, <2>2, <3>3
    <3> QED BY <3>1, <3>2, <3>3
  <2> QED BY <2>1, <2>2 DEF RowsApart
<1>12. \A x : x \in Stands' <=> x \in row.windows \/ (x \in Stands /\ x \notin rows[place].windows)
  <2>1. row.windows \subseteq Windows
    BY <1>2 DEF Rows
  <2> QED BY <1>1, <1>5, <1>8, <2>1 DEF Stands
<1>13. Stands' \cup overwritten' = Stands \cup overwritten \cup w.acc.windows
  BY <1>1, <1>2, <1>3, <1>4, <1>7, <1>12
<1>14. Stands' \cap overwritten' = {}
  BY <1>1, <1>2, <1>3, <1>4, <1>6, <1>7, <1>12
<1>15. ASSUME expired' = expired, NEW v \in writes, v # w, v.at = "commit"
       PROVE  SawElsewhere(v)'
  <2>1. /\ v.acc.place \in Places
        /\ v.saw.windows \subseteq Stands \cup overwritten \cup expired
        /\ \A p \in Places : p # v.acc.place => v.saw.windows \cap rows[p].windows = {}
    BY <1>15, WriteHas DEF RowsInv, ReadsApart, SawElsewhere
  <2>2. v.acc.place # place => v.saw.windows \cap w.saw.windows = {}
    BY <1>15 DEF RowsInv, ReadsApart, place
  <2>3. v.saw.windows \cap w.acc.windows = {}
    BY <1>1, <2>1 DEF RowsInv, FatesApart, Dropped
  <2>4. v.saw.windows \subseteq Stands' \cup overwritten' \cup expired'
    BY <1>13, <1>15, <2>1
  <2>5. ASSUME NEW p \in Places, p # v.acc.place
        PROVE  v.saw.windows \cap rows'[p].windows = {}
    <3>1. CASE p = place
      BY <1>2, <1>5, <2>2, <2>3, <2>5, <3>1
    <3>2. CASE p # place
      BY <1>5, <2>1, <2>5, <3>2
    <3> QED BY <3>1, <3>2
  <2> QED BY <2>4, <2>5 DEF SawElsewhere
<1>16. ASSUME expired' = expired, NEW v \in writes, v # w, v.at = "commit"
       PROVE  SawOf(v)'
  <2>1. SawOf(v) /\ v.acc.place \in Places /\ v.saw \in Rows
    BY <1>16, WriteHas DEF RowsInv, WritesRead
  <2>2. CASE v.saw = NoRow
    BY <2>2 DEF SawOf
  <2>3. CASE v.saw.id \in v.saw.windows \cap expired
    BY <1>16, <2>3 DEF SawOf
  <2>4. CASE /\ v.saw.id \in v.saw.windows /\ v.saw.id = rows[v.acc.place].id
             /\ v.saw.windows \subseteq rows[v.acc.place].windows \cup overwritten
    <3>1. CASE v.acc.place # place
      <4>1. rows'[v.acc.place] = rows[v.acc.place]
        BY <1>5, <2>1, <3>1
      <4>2. v.saw.windows \cap w.saw.windows = {}
        BY <1>16, <3>1 DEF RowsInv, ReadsApart, place
      <4>3. v.saw.windows \subseteq rows'[v.acc.place].windows \cup overwritten'
        BY <2>4, <4>1, <4>2, <1>4
      <4> QED BY <2>4, <4>1, <4>3 DEF SawOf
    <3>2. CASE v.acc.place = place
      <4>1. v.saw.id # 0
        BY <2>1, <2>4, Bounds DEF Rows
      <4>2. w.saw # NoRow
        BY <1>3, <2>4, <3>2, <4>1 DEF NoRow
      <4>3. rows'[place].id = rows[place].id
        BY <1>2, <1>5, <4>2 DEF Refused, place
      <4>4. v.saw.windows \subseteq rows'[place].windows \cup overwritten'
        BY <1>2, <1>4, <1>5, <2>4, <3>2
      <4> QED BY <2>4, <3>2, <4>3, <4>4 DEF SawOf
    <3> QED BY <3>1, <3>2
  <2> QED BY <2>1, <2>2, <2>3, <2>4 DEF SawOf
<1> QED BY <1>5, <1>10, <1>11, <1>13, <1>14, <1>15, <1>16

-----------------------------------------------------------------------------
(* What steps have in common.                                              *)

(* The types that do not follow from where the windows are.                *)
TypeRest ==
    /\ now \in Instants /\ setBacks \in 0 .. MaxSetBacks
    /\ phase \in {"running", "stopping", "stopped"} /\ starts \in 1 .. MaxStarts
    /\ folded \in 0 .. MaxWindows
    /\ open \in [Keys -> Accumulators] /\ \A k \in Keys : open[k].place.key = k
    /\ due \subseteq Keys /\ toWrite \subseteq Accumulators
    /\ rows \in [Places -> Rows]
MemoryInv == TypeRest /\ writes \subseteq Writes /\ MemoryApart

LEMMA TypeFromFates ==
    ASSUME MemoryInv', FatesApart' PROVE TypeOK'
<1>1. \A w \in writes' :
         /\ w.by \in {"task", "sweeper", "stop"} /\ w.at \in {"select", "commit"}
         /\ w.acc \in Accumulators /\ w.acc.windows # {}
  BY DEF MemoryInv, Writes, MemoryApart
<1>2. (failed \cup cut \cup crashed \cup expired \cup overwritten)' \subseteq Windows
  BY Bounds DEF FatesApart, Dropped, MemoryInv, TypeRest, Windows
<1> QED BY <1>1, <1>2 DEF MemoryInv, TypeRest, TypeOK

LEMMA TypeOfMemory ==
    ASSUME RowsInv PROVE MemoryInv
BY DEF RowsInv, TypeOK, TypeRest, MemoryInv

(* Windows leave memory for a row or for good.                             *)
LEMMA Leaves ==
    ASSUME FatesApart, NEW X, X \subseteq InMemory,
           InMemory' = InMemory \ X, folded' = folded,
           Stands' \cup Dropped' = Stands \cup Dropped \cup X,
           Stands' \cap Dropped' = {}, DroppedApart'
    PROVE  FatesApart'
BY DEF FatesApart

(* Rows are left alone, and no write reads.                                *)
LEMMA RowsAlone ==
    ASSUME RowsInv, UNCHANGED <<rows, overwritten, expired>>,
           \A w \in writes' : w.at = "commit" => w \in writes
    PROVE  /\ RowsApart' /\ RowsAreTheirWindows' /\ WritesRead' /\ ReadsApart'
           /\ Stands' = Stands
<1>1. RowsApart' /\ RowsAreTheirWindows' /\ Stands' = Stands
  BY DEF RowsInv, RowsApart, RowsAreTheirWindows, Stands
<1>2. WritesRead'
  <2>1. ASSUME NEW w \in writes', w.at = "commit" PROVE SawOf(w)' /\ FiguresOf(w.saw)
    <3>1. SawOf(w) /\ FiguresOf(w.saw)
      BY <2>1 DEF RowsInv, WritesRead
    <3> QED BY <3>1 DEF SawOf
  <2> QED BY <2>1 DEF WritesRead, FiguresOf
<1>3. ReadsApart'
  <2>1. ASSUME NEW w \in writes', w.at = "commit" PROVE SawElsewhere(w)'
    <3>1. SawElsewhere(w)
      BY <2>1 DEF RowsInv, ReadsApart
    <3> QED BY <1>1, <3>1 DEF SawElsewhere
  <2>2. \A v, w \in writes' :
           v.at = "commit" /\ w.at = "commit" /\ v.acc.place # w.acc.place
           => v.saw.windows \cap w.saw.windows = {}
    BY DEF RowsInv, ReadsApart
  <2> QED BY <2>1, <2>2 DEF ReadsApart
<1> QED BY <1>1, <1>2, <1>3

(* The next window is new to memory.                                       *)
LEMMA NextIsNew ==
    ASSUME RowsInv, NEW x, x = folded + 1
    PROVE  /\ \A k \in Keys : x \notin open[k].windows
           /\ \A w \in writes : x \notin w.acc.windows
           /\ \A a \in toWrite : x \notin a.windows
           /\ x \notin InMemory \cup Stands \cup Dropped /\ 1 .. x = (1 .. folded) \cup {x}
<1>1. folded \in Nat
  BY Bounds DEF RowsInv, TypeOK
<1>2. x \notin 1 .. folded /\ 1 .. x = (1 .. folded) \cup {x}
  BY <1>1
<1>3. x \notin InMemory \cup Stands \cup Dropped
  BY <1>2 DEF RowsInv, FatesApart
<1>4. /\ \A k \in Keys : open[k].windows \subseteq InMemory
      /\ \A w \in writes : w.acc.windows \subseteq InMemory
      /\ \A a \in toWrite : a.windows \subseteq InMemory
  BY DEF RowsInv, TypeOK, Accumulators, InMemory
<1> QED BY <1>2, <1>3, <1>4

-----------------------------------------------------------------------------
(* The steps.                                                              *)

(* The clock moves, or nothing.                                            *)
LEMMA ClockKeeps ==
    ASSUME RowsInv, now' \in Instants, setBacks' \in 0 .. MaxSetBacks,
           UNCHANGED <<phase, starts, folded, memoryVars, rows, lostVars>>
    PROVE  RowsInv'
<1> USE DEF memoryVars, lostVars
<1>1. RowsApart' /\ RowsAreTheirWindows' /\ WritesRead' /\ ReadsApart' /\ Stands' = Stands
  BY RowsAlone
<1>2. InMemory' = InMemory
  BY DEF InMemory
<1>3. FatesApart'
  BY <1>1, <1>2 DEF RowsInv, FatesApart, Dropped, DroppedApart
<1>4. MemoryInv'
  BY TypeOfMemory DEF MemoryInv, TypeRest, MemoryApart, OpenApart, WritesApart,
     StopApart, HoldersApart
<1>5. OneSweeper' /\ PhasesOK'
  BY DEF RowsInv, OneSweeper, PhasesOK, IsOpen
<1>6. TypeOK'
  BY <1>3, <1>4, TypeFromFates
<1> QED BY <1>1, <1>3, <1>4, <1>5, <1>6 DEF RowsInv, MemoryInv

(* A window joins a bucket, or opens one.                                  *)
LEMMA JoinsKeeps ==
    ASSUME RowsInv, NEW k \in Keys, NEW x, x = folded + 1, x \in Windows,
           phase = "running", NEW acc \in Accumulators, acc.place.key = k,
           acc.windows = open[k].windows \cup {x},
           folded' = x, open' = [open EXCEPT ![k] = acc],
           UNCHANGED <<timeVars, phase, starts, writes, due, toWrite, rows, lostVars>>
    PROVE  RowsInv'
<1> USE DEF timeVars, lostVars
<1>1. RowsApart' /\ RowsAreTheirWindows' /\ WritesRead' /\ ReadsApart' /\ Stands' = Stands
  BY RowsAlone
<1>2. /\ \A j \in Keys : x \notin open[j].windows
      /\ \A w \in writes : x \notin w.acc.windows
      /\ \A a \in toWrite : x \notin a.windows
      /\ x \notin InMemory \cup Stands \cup Dropped /\ 1 .. x = (1 .. folded) \cup {x}
  BY NextIsNew
<1>3. TypeOK /\ MemoryInv
  BY TypeOfMemory DEF RowsInv
<1>4. /\ open' \in [Keys -> Accumulators] /\ open'[k] = acc
      /\ \A j \in Keys : j # k => open'[j] = open[j]
  BY <1>3 DEF TypeOK
<1>5. InMemory' = InMemory \cup {x}
  BY <1>4 DEF InMemory
<1>6. FatesApart'
  BY <1>1, <1>2, <1>5 DEF RowsInv, FatesApart, Dropped, DroppedApart
<1>7. MemoryApart'
  <2>1. OpenApart'
    BY <1>2, <1>3, <1>4 DEF MemoryInv, MemoryApart, OpenApart
  <2>2. HoldersApart'
    BY <1>2, <1>3, <1>4 DEF MemoryInv, MemoryApart, HoldersApart
  <2> QED BY <1>3, <2>1, <2>2 DEF MemoryInv, MemoryApart, WritesApart, StopApart
<1>8. TypeRest'
  BY <1>3, <1>4 DEF TypeOK, TypeRest, Windows
<1>9. OneSweeper' /\ PhasesOK'
  <2>1. \A j \in Keys : IsOpen(j) => IsOpen(j)'
    BY <1>4 DEF IsOpen
  <2> QED BY <1>3, <2>1 DEF RowsInv, OneSweeper, PhasesOK, TypeOK
<1>10. MemoryInv'
  BY <1>3, <1>7, <1>8 DEF MemoryInv
<1>11. TypeOK'
  BY <1>6, <1>10, TypeFromFates
<1> QED BY <1>1, <1>6, <1>9, <1>10, <1>11 DEF RowsInv, MemoryInv

(* A bucket becomes a write: of a task, of the sweeper, of stop.           *)
LEMMA WriteOf ==
    ASSUME NEW acc \in Accumulators, NEW by \in {"task", "sweeper", "stop"}
    PROVE  /\ Write(acc, by) \in Writes /\ Write(acc, by).acc = acc
           /\ Write(acc, by).at = "select" /\ Write(acc, by).by = by
<1>1. NoRow \in Rows
  BY DEF NoRow, Rows
<1> QED BY <1>1 DEF Write, Writes

LEMMA BucketOfNow ==
    ASSUME TypeOK, NEW k \in Keys
    PROVE  /\ [key |-> k, start |-> bucket_start_for(now)] \in Places
           /\ now \in Nat
<1>1. now \in Instants /\ now \in Nat
  BY Bounds DEF TypeOK, Instants
<1>2. bucket_start_for(now) \in Buckets
  BY <1>1 DEF Buckets
<1> QED BY <1>1, <1>2 DEF Places

LEMMA ClosedIs ==
    ASSUME NEW k \in Keys
    PROVE  Closed(k) \in Accumulators /\ Closed(k).place.key = k /\ Closed(k).windows = {}
<1>1. 0 \in Instants /\ bucket_start_for(0) = 0
  BY Bounds DEF Instants, bucket_start_for, BucketLength
<1>2. 0 \in Buckets
  BY <1>1 DEF Buckets
<1> QED BY <1>2 DEF Closed, Accumulators, Places

(* The write is apart from what stays in memory.                           *)
LEMMA HandedOver ==
    ASSUME MemoryApart, writes \subseteq Writes, NEW w \in Writes, w.acc.windows # {},
           writes' = writes \cup {w}, open' \in [Keys -> Accumulators],
           \A v \in writes : v.acc.windows \cap w.acc.windows = {},
           \A k \in Keys : open'[k].windows \cap w.acc.windows = {},
           \A k \in Keys, v \in writes : open'[k].windows \cap v.acc.windows = {},
           \A a \in toWrite' : a \in toWrite /\ a.windows \cap w.acc.windows = {},
           OpenApart'
    PROVE  MemoryApart' /\ writes' \subseteq Writes
<1>1. WritesApart'
  BY DEF MemoryApart, WritesApart
<1>2. HoldersApart'
  BY DEF MemoryApart, HoldersApart
<1> QED BY <1>1, <1>2 DEF MemoryApart, StopApart

(* A key's bucket is handed to a write, and another takes its place.       *)
LEMMA RollKeeps ==
    ASSUME RowsInv, NEW k \in Keys, IsOpen(k), NEW X \in SUBSET {folded + 1},
           NEW acc \in Accumulators, acc.place.key = k, acc.windows = X,
           NEW by \in {"task", "sweeper"},
           writes' = writes \cup {Write(open[k], by)},
           open' = [open EXCEPT ![k] = acc],
           folded' \in 0 .. MaxWindows, 1 .. folded' = (1 .. folded) \cup X,
           X \subseteq Windows, due' \subseteq Keys,
           \A j \in due' : IsOpen(j) /\ (j = k => X # {}),
           by = "sweeper" => ~SweeperWrites,
           phase = "running",
           UNCHANGED <<timeVars, phase, starts, toWrite, rows, lostVars>>
    PROVE  RowsInv'
<1> DEFINE w == Write(open[k], by)
<1> USE DEF timeVars, lostVars
<1>1. TypeOK /\ MemoryInv /\ open[k] \in Accumulators
  BY TypeOfMemory DEF RowsInv, TypeOK
<1>2. w \in Writes /\ w.acc = open[k] /\ w.at = "select" /\ w.by = by
  BY <1>1, WriteOf
<1>3. \A x \in X : /\ \A j \in Keys : x \notin open[j].windows
                   /\ \A v \in writes : x \notin v.acc.windows
                   /\ x \notin InMemory \cup Stands \cup Dropped
  BY NextIsNew
<1>4. RowsApart' /\ RowsAreTheirWindows' /\ WritesRead' /\ ReadsApart' /\ Stands' = Stands
  <2>1. \A v \in writes' : v.at = "commit" => v \in writes
    BY <1>2
  <2> QED BY <2>1, RowsAlone
<1>5. /\ open' \in [Keys -> Accumulators] /\ open'[k] = acc
      /\ \A j \in Keys : j # k => open'[j] = open[j]
  BY <1>1 DEF TypeOK
<1>6. w.acc.windows # {} /\ toWrite = {}
  BY <1>2 DEF IsOpen, RowsInv, PhasesOK
<1> HIDE DEF w
<1>7. writes' = writes \cup {w}
  BY DEF w
<1>8. MemoryApart' /\ writes' \subseteq Writes
  <2>1. OpenApart'
    BY <1>1, <1>3, <1>5 DEF MemoryInv, MemoryApart, OpenApart
  <2>2. \A v \in writes : v.acc.windows \cap w.acc.windows = {}
    BY <1>1, <1>2 DEF MemoryInv, MemoryApart, HoldersApart
  <2>3. \A j \in Keys : open'[j].windows \cap w.acc.windows = {}
    BY <1>1, <1>2, <1>3, <1>5 DEF MemoryInv, MemoryApart, OpenApart
  <2>4. \A j \in Keys, v \in writes : open'[j].windows \cap v.acc.windows = {}
    BY <1>1, <1>3, <1>5 DEF MemoryInv, MemoryApart, HoldersApart
  <2> QED BY <1>1, <1>2, <1>5, <1>6, <1>7, <2>1, <2>2, <2>3, <2>4, HandedOver
          DEF MemoryInv
<1>9. InMemory' = InMemory \cup X
  <2>1. \A x : (\E v \in writes' : x \in v.acc.windows)
               <=> (\E v \in writes : x \in v.acc.windows) \/ x \in open[k].windows
    BY <1>2, <1>7
  <2>2. \A x : (\E j \in Keys : x \in open'[j].windows) \/ x \in open[k].windows
               <=> (\E j \in Keys : x \in open[j].windows) \/ x \in X
    BY <1>5
  <2> QED BY <1>6, <2>1, <2>2 DEF InMemory
<1>10. FatesApart'
  BY <1>3, <1>4, <1>9 DEF RowsInv, FatesApart, Dropped, DroppedApart
<1>11. MemoryInv'
  BY <1>1, <1>5, <1>8 DEF MemoryInv, TypeRest
<1>12. OneSweeper'
  <2>1. by = "sweeper" => \A v \in writes : v.by # "sweeper"
    BY DEF SweeperWrites
  <2> QED BY <1>2, <1>7, <2>1 DEF RowsInv, OneSweeper
<1>13. PhasesOK'
  <2>1. \A j \in due' : IsOpen(j)'
    BY <1>5 DEF IsOpen
  <2> QED BY <1>6, <2>1 DEF PhasesOK
<1>14. TypeOK'
  BY <1>10, <1>11, TypeFromFates
<1> QED BY <1>4, <1>10, <1>11, <1>12, <1>13, <1>14 DEF RowsInv, MemoryInv

LEMMA FoldKeeps ==
    ASSUME RowsInv, NEW k \in Keys, Fold(k) PROVE RowsInv'
<1> DEFINE x == folded + 1
           start == bucket_start_for(now)
<1>1. TypeOK /\ PhasesOK
  BY DEF RowsInv
<1>2. /\ phase = "running" /\ x \in Windows
      /\ UNCHANGED <<timeVars, phase, starts, due, toWrite, rows, lostVars>>
  BY DEF Fold
<1>3. Opened(k, {x}) \in Accumulators /\ Opened(k, {x}).place.key = k
      /\ Opened(k, {x}).windows = {x}
  BY <1>1, <1>2, BucketOfNow DEF Opened, Accumulators
<1>4. CASE FoldLate(k)
  BY <1>1, <1>2, <1>4, ClockKeeps DEF FoldLate, memoryVars, timeVars, TypeOK
<1>5. CASE Joins(k, x)
  <2> DEFINE acc == [open[k] EXCEPT !.windows = @ \cup {x}]
  <2>1. open[k] \in Accumulators /\ open[k].place.key = k
    BY <1>1 DEF TypeOK
  <2>2. acc \in Accumulators /\ acc.place.key = k /\ acc.windows = open[k].windows \cup {x}
    BY <1>2, <2>1 DEF Accumulators
  <2>3. open' = [open EXCEPT ![k] = acc] /\ folded' = x /\ UNCHANGED writes
    BY <1>5 DEF Joins
  <2> QED BY <1>2, <2>2, <2>3, JoinsKeeps
<1>6. CASE RollsOver(k, x) /\ IsOpen(k)
  <2>1. /\ folded' = x /\ open' = [open EXCEPT ![k] = Opened(k, {x})]
        /\ writes' = writes \cup {Write(open[k], "task")}
    BY <1>6 DEF RollsOver
  <2>2. x \in 0 .. MaxWindows
    BY <1>2, Bounds DEF Windows
  <2>3. 1 .. folded' = (1 .. folded) \cup {x}
    BY <2>1, NextIsNew
  <2>4. due' \subseteq Keys /\ \A j \in due' : IsOpen(j)
    BY <1>1, <1>2 DEF TypeOK, PhasesOK
  <2>5. {x} \in SUBSET {folded + 1} /\ {x} \subseteq Windows /\ {x} # {}
    BY <1>2
  <2>6. folded' \in 0 .. MaxWindows /\ \A j \in due' : IsOpen(j) /\ (j = k => {x} # {})
    BY <2>1, <2>2, <2>4
  <2>7. "task" \in {"task", "sweeper"} /\ ("task" = "sweeper" => ~SweeperWrites)
    OBVIOUS
  <2> HIDE DEF x
  <2> QED BY <1>2, <1>3, <1>6, <2>1, <2>3, <2>4, <2>5, <2>6, <2>7, RollKeeps
<1>7. CASE Opens(k, x) /\ ~IsOpen(k)
  <2>1. open[k].windows = {}
    BY <1>7 DEF IsOpen
  <2>2. folded' = x /\ open' = [open EXCEPT ![k] = Opened(k, {x})] /\ UNCHANGED writes
    BY <1>7 DEF Opens
  <2> QED BY <1>2, <1>3, <2>1, <2>2, JoinsKeeps
<1> QED BY <1>4, <1>5, <1>6, <1>7 DEF Fold

(* The sweeper pops a bucket.                                              *)
LEMMA PopsKeeps ==
    ASSUME RowsInv, NEW k \in Keys, IsOpen(k), Pops(k), ~SweeperWrites,
           phase = "running", due' \subseteq Keys \ {k}, \A j \in due' : IsOpen(j),
           UNCHANGED <<timeVars, phase, starts, folded, toWrite, rows, lostVars>>
    PROVE  RowsInv'
<1>1. Closed(k) \in Accumulators /\ Closed(k).place.key = k /\ Closed(k).windows = {}
  BY ClosedIs
<1>2. /\ writes' = writes \cup {Write(open[k], "sweeper")}
      /\ open' = [open EXCEPT ![k] = Closed(k)]
  BY DEF Pops
<1>3. folded' \in 0 .. MaxWindows /\ 1 .. folded' = (1 .. folded) \cup {}
  BY DEF RowsInv, TypeOK
<1>4. \A j \in due' : IsOpen(j) /\ j # k
  OBVIOUS
<1>5. {} \in SUBSET {folded + 1} /\ {} \subseteq Windows /\ due' \subseteq Keys
  OBVIOUS
<1>6. UNCHANGED <<timeVars, phase, starts, toWrite, rows, lostVars>>
  OBVIOUS
<1> QED BY <1>1, <1>2, <1>3, <1>4, <1>5, <1>6, RollKeeps

LEMMA SweepingKeeps ==
    ASSUME RowsInv, Sweeping PROVE RowsInv'
<1>1. \A j \in Ended : IsOpen(j) /\ j \in Keys
  BY DEF Ended
<1>2. ASSUME Sweep PROVE RowsInv'
  <2>1. /\ phase = "running" /\ ~SweeperWrites
        /\ UNCHANGED <<timeVars, phase, starts, folded, toWrite, rows, lostVars>>
    BY <1>2 DEF Sweep
  <2>2. PICK k \in Ended : due' = Ended \ {k} /\ Pops(k)
    BY <1>2 DEF Sweep
  <2>3. k \in Keys /\ IsOpen(k) /\ due' \subseteq Keys \ {k} /\ \A j \in due' : IsOpen(j)
    BY <1>1, <2>2
  <2> QED BY <2>1, <2>2, <2>3, PopsKeeps
<1>3. ASSUME NEW k \in Keys, FlushNext(k) PROVE RowsInv'
  <2>1. /\ phase = "running" /\ ~SweeperWrites /\ k \in due /\ due' = due \ {k} /\ Pops(k)
        /\ UNCHANGED <<timeVars, phase, starts, folded, toWrite, rows, lostVars>>
    BY <1>3 DEF FlushNext
  <2>2. IsOpen(k) /\ due' \subseteq Keys \ {k} /\ \A j \in due' : IsOpen(j)
    BY <2>1 DEF RowsInv, TypeOK, PhasesOK
  <2> QED BY <2>1, <2>2, PopsKeeps
<1> QED BY <1>2, <1>3 DEF Sweeping

LEMMA StopWritesKeeps ==
    ASSUME RowsInv, NEW acc \in toWrite, StopWritesNext(acc) PROVE RowsInv'
<1> DEFINE w == Write(acc, "stop")
<1>1. TypeOK /\ MemoryInv /\ acc \in Accumulators
  BY TypeOfMemory DEF RowsInv, TypeOK
<1>2. w \in Writes /\ w.acc = acc /\ w.at = "select" /\ w.by = "stop"
  BY <1>1, WriteOf
<1> HIDE DEF w
<1>3. /\ phase = "stopping" /\ toWrite' = toWrite \ {acc} /\ writes' = writes \cup {w}
      /\ UNCHANGED <<timeVars, phase, starts, folded, open, due, rows, lostVars>>
  BY DEF StopWritesNext, w
<1>4. RowsApart' /\ RowsAreTheirWindows' /\ WritesRead' /\ ReadsApart' /\ Stands' = Stands
  <2>1. \A v \in writes' : v.at = "commit" => v \in writes
    BY <1>2, <1>3
  <2> QED BY <1>3, <2>1, RowsAlone DEF lostVars
<1>5. \A k \in Keys : open[k].windows = {}
  BY <1>3 DEF RowsInv, PhasesOK, IsOpen
<1>6. MemoryApart' /\ writes' \subseteq Writes
  <2>1. w.acc.windows # {}
    BY <1>1, <1>2 DEF MemoryInv, MemoryApart
  <2>2. \A v \in writes : v.acc.windows \cap w.acc.windows = {}
    BY <1>1, <1>2 DEF MemoryInv, MemoryApart, HoldersApart
  <2>3. \A a \in toWrite' : a \in toWrite /\ a.windows \cap w.acc.windows = {}
    BY <1>1, <1>2, <1>3 DEF MemoryInv, MemoryApart, StopApart
  <2>4. OpenApart' /\ open' \in [Keys -> Accumulators]
    BY <1>1, <1>3, <1>5 DEF OpenApart, TypeOK
  <2> QED BY <1>1, <1>2, <1>3, <1>5, <2>1, <2>2, <2>3, <2>4, HandedOver DEF MemoryInv
<1>7. InMemory' = InMemory
  BY <1>2, <1>3 DEF InMemory
<1>8. FatesApart'
  BY <1>3, <1>4, <1>7 DEF RowsInv, FatesApart, Dropped, DroppedApart, lostVars
<1>9. MemoryInv'
  BY <1>1, <1>3, <1>6 DEF MemoryInv, TypeRest, timeVars
<1>10. OneSweeper' /\ PhasesOK'
  BY <1>2, <1>3 DEF RowsInv, OneSweeper, PhasesOK, IsOpen
<1>11. TypeOK'
  BY <1>8, <1>9, TypeFromFates
<1> QED BY <1>4, <1>8, <1>9, <1>10, <1>11 DEF RowsInv, MemoryInv

(* A write reads its row.                                                  *)
LEMMA SelectKeeps ==
    ASSUME RowsInv, NEW w \in writes, Select(w) PROVE RowsInv'
<1>0. PICK r : r = [w EXCEPT !.at = "commit", !.saw = rows[w.acc.place]]
  OBVIOUS
<1>1. TypeOK /\ MemoryInv /\ w \in Writes /\ w.acc.place \in Places
  BY TypeOfMemory, WriteHas DEF RowsInv
<1>2. r \in Writes /\ r.acc = w.acc /\ r.at = "commit" /\ r.by = w.by
      /\ r.saw = rows[w.acc.place]
  BY <1>0, <1>1, RowHas DEF Writes
<1>3. /\ writes' = (writes \ {w}) \cup {r}
      /\ UNCHANGED <<timeVars, phase, starts, folded, open, due, toWrite, rows, lostVars>>
  BY <1>0 DEF Select
<1> USE DEF timeVars, lostVars
<1>4. RowsApart' /\ RowsAreTheirWindows' /\ Stands' = Stands
  BY <1>3 DEF RowsInv, RowsApart, RowsAreTheirWindows, Stands
<1>5. WritesRead'
  <2>1. ASSUME NEW v \in writes', v.at = "commit" PROVE SawOf(v)' /\ FiguresOf(v.saw)
    <3>1. CASE v \in writes
      <4>1. SawOf(v) /\ FiguresOf(v.saw)
        BY <2>1, <3>1 DEF RowsInv, WritesRead
      <4> QED BY <1>3, <4>1 DEF SawOf
    <3>2. CASE v = r
      <4>1. FiguresOf(r.saw)
        BY <1>1, <1>2 DEF RowsInv, RowsAreTheirWindows, FiguresOf
      <4>2. r.saw # NoRow => r.saw.id \in r.saw.windows
        BY <1>1, <1>2 DEF RowsInv, RowsApart
      <4> QED BY <1>2, <1>3, <3>2, <4>1, <4>2 DEF SawOf
    <3> QED BY <1>3, <2>1, <3>1, <3>2
  <2> QED BY <2>1 DEF WritesRead, FiguresOf
<1>6. SawElsewhere(r)'
  <2>1. r.saw.windows \subseteq Stands
    BY <1>1, <1>2, RowHas
  <2>2. \A p \in Places : p # r.acc.place => r.saw.windows \cap rows[p].windows = {}
    BY <1>1, <1>2 DEF RowsInv, RowsApart
  <2> QED BY <1>3, <1>4, <2>1, <2>2 DEF SawElsewhere
<1>7. ReadsApart'
  <2>1. ASSUME NEW v \in writes', v.at = "commit" PROVE SawElsewhere(v)'
    <3>1. CASE v \in writes
      <4>1. SawElsewhere(v)
        BY <2>1, <3>1 DEF RowsInv, ReadsApart
      <4> QED BY <1>3, <1>4, <4>1 DEF SawElsewhere
    <3> QED BY <1>3, <1>6, <3>1
  <2>2. ASSUME NEW u \in writes', NEW v \in writes', u.at = "commit", v.at = "commit",
               u.acc.place # v.acc.place
        PROVE  u.saw.windows \cap v.saw.windows = {}
    <3>1. CASE u \in writes /\ v \in writes
      BY <2>2, <3>1 DEF RowsInv, ReadsApart
    <3>2. ASSUME NEW a \in writes, a.at = "commit", a.acc.place # w.acc.place
          PROVE  a.saw.windows \cap r.saw.windows = {}
      BY <1>1, <1>2, <3>2 DEF RowsInv, ReadsApart, SawElsewhere
    <3> QED BY <1>2, <1>3, <2>2, <3>1, <3>2
  <2> QED BY <2>1, <2>2 DEF ReadsApart
<1>8. MemoryApart' /\ InMemory' = InMemory
  <2>1. \A v \in writes' : \E u \in writes : u.acc = v.acc /\ (v # r => u = v /\ u # w)
                                            /\ (v = r => u = w)
    BY <1>2, <1>3
  <2>2. \A v \in writes : \E u \in writes' : u.acc = v.acc
    BY <1>2, <1>3
  <2>3. InMemory' = InMemory
    BY <1>3, <2>1, <2>2 DEF InMemory
  <2>4. WritesApart'
    BY <1>1, <2>1 DEF MemoryInv, MemoryApart, WritesApart
  <2>5. HoldersApart'
    BY <1>1, <1>3, <2>1 DEF MemoryInv, MemoryApart, HoldersApart
  <2> QED BY <1>1, <1>3, <2>1, <2>3, <2>4, <2>5
          DEF MemoryInv, MemoryApart, OpenApart, StopApart
<1>9. FatesApart'
  BY <1>3, <1>4, <1>8 DEF RowsInv, FatesApart, Dropped, DroppedApart
<1>10. MemoryInv'
  BY <1>1, <1>2, <1>3, <1>8 DEF MemoryInv, TypeRest
<1>11. OneSweeper'
  BY <1>2, <1>3 DEF RowsInv, OneSweeper
<1>12. PhasesOK'
  BY <1>3 DEF RowsInv, PhasesOK, IsOpen
<1>13. TypeOK'
  BY <1>9, <1>10, TypeFromFates
<1> QED BY <1>4, <1>5, <1>7, <1>9, <1>10, <1>11, <1>12, <1>13 DEF RowsInv, MemoryInv

(* A write ends: its windows leave memory.                                 *)
LEMMA WriteGone ==
    ASSUME RowsInv, NEW w \in writes, writes' = writes \ {w},
           UNCHANGED <<timeVars, phase, starts, folded, open, due, toWrite>>,
           rows' \in [Places -> Rows]
    PROVE  /\ MemoryInv' /\ InMemory' = InMemory \ w.acc.windows
           /\ w.acc.windows \subseteq InMemory
           /\ OneSweeper' /\ PhasesOK'
<1>1. MemoryInv
  BY TypeOfMemory
<1>2. MemoryInv'
  BY <1>1 DEF timeVars, MemoryInv, TypeRest, MemoryApart, OpenApart, WritesApart, StopApart, HoldersApart
<1>3. InMemory' = InMemory \ w.acc.windows
  <2>1. \A x \in w.acc.windows : /\ \A k \in Keys : x \notin open[k].windows
                                 /\ \A v \in writes' : x \notin v.acc.windows
                                 /\ \A a \in toWrite : x \notin a.windows
    BY <1>1 DEF MemoryInv, MemoryApart, WritesApart, HoldersApart
  <2> QED BY <2>1 DEF InMemory
<1>4. w.acc.windows \subseteq InMemory
  BY WriteHas
<1>5. OneSweeper'
  BY DEF RowsInv, OneSweeper
<1>6. PhasesOK'
  BY DEF RowsInv, PhasesOK, IsOpen
<1> QED BY <1>2, <1>3, <1>4, <1>5, <1>6

LEMMA CommitKeeps ==
    ASSUME RowsInv, NEW w \in writes, Commit(w) PROVE RowsInv'
<1>1. /\ w.at = "commit" /\ ~Refused(w) /\ Stored(w) /\ writes' = writes \ {w}
      /\ UNCHANGED <<timeVars, phase, starts, folded, open, due, toWrite, failed, cut,
                     crashed, expired>>
  BY DEF Commit
<1>2. /\ rows' \in [Places -> Rows] /\ RowsAreTheirWindows' /\ RowsApart'
      /\ Stands' \cup overwritten' = Stands \cup overwritten \cup w.acc.windows
      /\ Stands' \cap overwritten' = {}
      /\ \A v \in writes : v # w /\ v.at = "commit" => SawOf(v)' /\ SawElsewhere(v)'
  BY <1>1, StoredKeeps
<1>3. /\ MemoryInv' /\ InMemory' = InMemory \ w.acc.windows
      /\ w.acc.windows \subseteq InMemory /\ OneSweeper' /\ PhasesOK'
  BY <1>1, <1>2, WriteGone
<1>4. WritesRead'
  BY <1>1, <1>2 DEF RowsInv, WritesRead, FiguresOf
<1>5. ReadsApart'
  BY <1>1, <1>2 DEF RowsInv, ReadsApart
<1>6. FatesApart'
  <2>1. FatesApart
    BY DEF RowsInv
  <2>2. Stands' \cap (failed \cup cut \cup crashed \cup expired) = {}
        /\ overwritten' \cap (failed \cup cut \cup crashed \cup expired) = {}
    BY <1>2, <1>3, <2>1 DEF FatesApart, Dropped, DroppedApart
  <2>3. DroppedApart'
    BY <1>1, <2>1, <2>2 DEF FatesApart, DroppedApart
  <2>4. Stands' \cup Dropped' = Stands \cup Dropped \cup w.acc.windows
    BY <1>1, <1>2 DEF Dropped
  <2>5. Stands' \cap Dropped' = {}
    BY <1>1, <1>2, <2>2 DEF Dropped
  <2> QED BY <1>1, <1>3, <2>1, <2>3, <2>4, <2>5, Leaves
<1>7. TypeOK'
  BY <1>3, <1>6, TypeFromFates
<1> QED BY <1>2, <1>3, <1>4, <1>5, <1>6, <1>7 DEF RowsInv, MemoryInv

LEMMA WriteFailsKeeps ==
    ASSUME RowsInv, NEW w \in writes, WriteFails(w) PROVE RowsInv'
<1>1. /\ writes' = writes \ {w} /\ failed' = failed \cup w.acc.windows
      /\ UNCHANGED <<timeVars, phase, starts, folded, open, due, toWrite, rows,
                     cut, crashed, expired, overwritten>>
  BY DEF WriteFails
<1>2. RowsApart' /\ RowsAreTheirWindows' /\ WritesRead' /\ ReadsApart' /\ Stands' = Stands
  BY <1>1, RowsAlone
<1>3. /\ MemoryInv' /\ InMemory' = InMemory \ w.acc.windows
      /\ w.acc.windows \subseteq InMemory /\ OneSweeper' /\ PhasesOK'
  BY <1>1, WriteGone DEF RowsInv, TypeOK
<1>4. FatesApart'
  BY <1>1, <1>2, <1>3 DEF RowsInv, FatesApart, Dropped, DroppedApart
<1>5. TypeOK'
  BY <1>3, <1>4, TypeFromFates
<1> QED BY <1>2, <1>3, <1>4, <1>5 DEF RowsInv, MemoryInv

LEMMA PruneKeeps ==
    ASSUME RowsInv, Prune PROVE RowsInv'
<1> DEFINE G == UNION {rows[p].windows : p \in {q \in Places : Expired(q)}}
<1>1. /\ expired' = expired \cup G
      /\ rows' = [p \in Places |-> IF Expired(p) THEN NoRow ELSE rows[p]]
      /\ UNCHANGED <<timeVars, phase, starts, folded, memoryVars, failed, cut, crashed,
                     overwritten>>
  BY DEF Prune
<1>2. \A p \in Places : rows[p] \in Rows /\ rows[p].windows \subseteq Stands
  BY RowHas
<1>3. \A p \in Places : Expired(p) => rows[p].windows \subseteq G
  OBVIOUS
<1>4. \A x : x \in G => \E p \in Places : Expired(p) /\ x \in rows[p].windows
  OBVIOUS
<1>5. NoRow \in Rows /\ NoRow.windows = {} /\ NoRow.samples = 0 /\ NoRow.worst = 0
  BY DEF NoRow, Rows
<1> HIDE DEF G
<1>6. rows' \in [Places -> Rows]
      /\ \A p \in Places : rows'[p] = IF Expired(p) THEN NoRow ELSE rows[p]
  BY <1>1, <1>2, <1>5
<1>7. Stands' = Stands \ G
  <2>1. ASSUME NEW x, x \in Stands', x \in G PROVE FALSE
    <3>1. PICK p \in Places : x \in rows'[p].windows
      BY <2>1 DEF Stands
    <3>2. PICK q \in Places : Expired(q) /\ x \in rows[q].windows
      BY <1>4, <2>1
    <3>3. ~Expired(p) /\ x \in rows[p].windows
      BY <1>5, <1>6, <3>1
    <3> QED BY <3>2, <3>3 DEF RowsInv, RowsApart
  <2>2. Stands' \subseteq Stands
    BY <1>5, <1>6 DEF Stands
  <2>3. \A x \in Stands : x \notin G => x \in Stands'
    BY <1>3, <1>6 DEF Stands
  <2> QED BY <2>1, <2>2, <2>3
<1>8. G \subseteq Stands
  BY <1>2, <1>4
<1>9. RowsApart'
  BY <1>5, <1>6 DEF RowsInv, RowsApart
<1>10. RowsAreTheirWindows'
  <2>1. WorstOf({}) = 0
    BY WorstIs
  <2> QED BY <1>5, <1>6, <2>1, FS_EmptySet DEF RowsInv, RowsAreTheirWindows
<1>11. FatesApart'
  BY <1>1, <1>7, <1>8
     DEF RowsInv, FatesApart, Dropped, DroppedApart, memoryVars, InMemory
<1>12. WritesRead'
  <2>1. ASSUME NEW v \in writes, v.at = "commit" PROVE SawOf(v)' /\ FiguresOf(v.saw)
    <3>1. SawOf(v) /\ FiguresOf(v.saw) /\ v.acc.place \in Places
          /\ v.saw.windows \subseteq Windows
      BY <2>1, WriteHas DEF RowsInv, WritesRead, Rows
    <3>2. CASE /\ v.saw.id \in v.saw.windows /\ v.saw.id = rows[v.acc.place].id
               /\ v.saw.windows \subseteq rows[v.acc.place].windows \cup overwritten
      <4>1. CASE Expired(v.acc.place)
        <5>1. rows[v.acc.place] # NoRow
          BY <3>1, <3>2, Bounds DEF NoRow
        <5>2. v.saw.id \in expired'
          BY <1>1, <1>3, <3>1, <3>2, <4>1, <5>1 DEF RowsInv, RowsApart
        <5> QED BY <3>1, <3>2, <5>2 DEF SawOf
      <4>2. CASE ~Expired(v.acc.place)
        BY <1>1, <1>6, <3>1, <3>2, <4>2 DEF SawOf
      <4> QED BY <4>1, <4>2
    <3>3. CASE v.saw = NoRow \/ v.saw.id \in v.saw.windows \cap expired
      BY <1>1, <3>1, <3>3 DEF SawOf
    <3> QED BY <3>1, <3>2, <3>3 DEF SawOf
  <2> QED BY <1>1, <2>1 DEF WritesRead, FiguresOf, memoryVars
<1>13. ReadsApart'
  <2>1. ASSUME NEW v \in writes, v.at = "commit" PROVE SawElsewhere(v)'
    <3>1. SawElsewhere(v)
      BY <2>1 DEF RowsInv, ReadsApart
    <3>2. v.saw.windows \subseteq Stands' \cup overwritten' \cup expired'
      BY <1>1, <1>7, <3>1 DEF SawElsewhere
    <3>3. \A p \in Places : rows'[p].windows \subseteq rows[p].windows
      BY <1>5, <1>6
    <3> QED BY <3>1, <3>2, <3>3 DEF SawElsewhere
  <2> QED BY <1>1, <2>1 DEF RowsInv, ReadsApart, memoryVars
<1>14. MemoryInv'
  BY <1>1, <1>6, TypeOfMemory DEF MemoryInv, TypeRest, MemoryApart, OpenApart, WritesApart,
     StopApart, HoldersApart, memoryVars, timeVars
<1>15. OneSweeper' /\ PhasesOK'
  BY <1>1 DEF RowsInv, OneSweeper, PhasesOK, IsOpen, memoryVars
<1>16. TypeOK'
  BY <1>11, <1>14, TypeFromFates
<1> QED BY <1>9, <1>10, <1>11, <1>12, <1>13, <1>14, <1>15, <1>16 DEF RowsInv, MemoryInv

(* stop takes over the open buckets; the sweeper's write is cut short, or  *)
(* its commit was under way.                                               *)
LEMMA StopMemory ==
    ASSUME RowsInv, Stop, rows' \in [Places -> Rows],
           NEW swept, swept = {w \in writes : w.by = "sweeper"},
           NEW X, X = UNION {w.acc.windows : w \in swept}
    PROVE  /\ MemoryInv' /\ InMemory' = InMemory \ X /\ X \subseteq InMemory
           /\ OneSweeper' /\ PhasesOK'
<1>1. /\ phase = "running" /\ phase' = "stopping" /\ due' = {}
      /\ toWrite' = {open[k] : k \in {x \in Keys : IsOpen(x)}}
      /\ open' = [k \in Keys |-> Closed(k)] /\ writes' = writes \ swept
      /\ UNCHANGED <<timeVars, starts, folded>>
  BY DEF Stop
<1>2. TypeOK /\ MemoryInv /\ toWrite = {}
  BY <1>1, TypeOfMemory DEF RowsInv, PhasesOK
<1>3. /\ open' \in [Keys -> Accumulators]
      /\ \A k \in Keys : open'[k].place.key = k /\ open'[k].windows = {}
  BY <1>1, ClosedIs
<1>4. \A a \in toWrite' : a.windows # {} /\ \E k \in Keys : a = open[k]
  BY <1>1 DEF IsOpen
<1>5. \A k \in Keys : \A x \in open[k].windows : \E a \in toWrite' : x \in a.windows
  BY <1>1 DEF IsOpen
<1>6. MemoryApart'
  <2>1. OpenApart'
    BY <1>3 DEF OpenApart
  <2>2. WritesApart'
    BY <1>1, <1>2 DEF MemoryInv, MemoryApart, WritesApart
  <2>3. StopApart'
    BY <1>2, <1>4 DEF MemoryInv, MemoryApart, OpenApart, StopApart
  <2>4. HoldersApart'
    BY <1>1, <1>2, <1>3, <1>4 DEF MemoryInv, MemoryApart, HoldersApart
  <2> QED BY <1>1, <1>2, <1>4, <2>1, <2>2, <2>3, <2>4 DEF MemoryInv, MemoryApart
<1>7. X \subseteq InMemory
  BY WriteHas
<1>8. InMemory' = InMemory \ X
  <2>1. \A x \in X : \E w \in swept : x \in w.acc.windows
    OBVIOUS
  <2>2. ASSUME NEW w \in swept, NEW x \in w.acc.windows
        PROVE  /\ \A k \in Keys : x \notin open[k].windows
               /\ \A v \in writes' : x \notin v.acc.windows
    BY <1>1, <1>2 DEF MemoryInv, MemoryApart, WritesApart, HoldersApart
  <2>3. \A x \in InMemory' : x \in InMemory /\ x \notin X
    <3>1. ASSUME NEW x \in InMemory' PROVE x \in InMemory /\ x \notin X
      <4>1. (\E v \in writes' : x \in v.acc.windows) \/ (\E k \in Keys : x \in open[k].windows)
        BY <1>3, <1>4 DEF InMemory
      <4>2. x \in InMemory
        BY <1>1, <4>1 DEF InMemory
      <4> QED BY <2>1, <2>2, <4>1, <4>2
    <3> QED BY <3>1
  <2>4. \A x \in InMemory : x \notin X => x \in InMemory'
    <3>1. \A w \in writes : \A x \in w.acc.windows : x \notin X => w \in writes'
      BY <1>1
    <3> QED BY <1>2, <1>5, <3>1 DEF InMemory
  <2> QED BY <2>3, <2>4
<1>9. TypeRest' /\ writes' \subseteq Writes
  <2>1. toWrite' \subseteq Accumulators
    BY <1>2, <1>4 DEF TypeOK
  <2> QED BY <1>1, <1>2, <1>3, <2>1 DEF MemoryInv, TypeRest, timeVars
<1>10. OneSweeper' /\ PhasesOK'
  BY <1>1, <1>3 DEF OneSweeper, PhasesOK, IsOpen
<1> QED BY <1>6, <1>7, <1>8, <1>9, <1>10 DEF MemoryInv

LEMMA StopKeeps ==
    ASSUME RowsInv, Stop PROVE RowsInv'
<1>0. PICK swept : swept = {w \in writes : w.by = "sweeper"}
  OBVIOUS
<1> DEFINE X == UNION {w.acc.windows : w \in swept}
<1>1. /\ writes' = writes \ swept
      /\ UNCHANGED <<timeVars, starts, folded, failed, crashed, expired>>
  BY <1>0 DEF Stop
<1>2. CASE cut' = cut \cup X /\ UNCHANGED <<rows, overwritten>>
  <2>1. RowsApart' /\ RowsAreTheirWindows' /\ WritesRead' /\ ReadsApart' /\ Stands' = Stands
    BY <1>1, <1>2, RowsAlone
  <2>2. /\ MemoryInv' /\ InMemory' = InMemory \ X /\ X \subseteq InMemory
        /\ OneSweeper' /\ PhasesOK'
    BY <1>0, <1>2, StopMemory DEF RowsInv, TypeOK
  <2> HIDE DEF X
  <2>3. FatesApart'
    BY <1>1, <1>2, <2>1, <2>2 DEF RowsInv, FatesApart, Dropped, DroppedApart
  <2>4. TypeOK'
    BY <2>2, <2>3, TypeFromFates
  <2> QED BY <2>1, <2>2, <2>3, <2>4 DEF RowsInv, MemoryInv
<1>3. CASE \E w \in swept : w.at = "commit" /\ ~Refused(w) /\ Stored(w) /\ UNCHANGED cut
  <2>1. PICK w \in swept : w.at = "commit" /\ ~Refused(w) /\ Stored(w) /\ UNCHANGED cut
    BY <1>3
  <2>2. swept = {w} /\ w \in writes
    BY <1>0, <2>1 DEF RowsInv, OneSweeper
  <2>3. /\ rows' \in [Places -> Rows] /\ RowsAreTheirWindows' /\ RowsApart'
        /\ Stands' \cup overwritten' = Stands \cup overwritten \cup w.acc.windows
        /\ Stands' \cap overwritten' = {}
        /\ \A v \in writes : v # w /\ v.at = "commit" => SawOf(v)' /\ SawElsewhere(v)'
    BY <1>1, <2>1, <2>2, StoredKeeps
  <2>4. /\ MemoryInv' /\ InMemory' = InMemory \ X /\ X \subseteq InMemory
        /\ OneSweeper' /\ PhasesOK'
    BY <1>0, <2>3, StopMemory
  <2>5. X = w.acc.windows
    BY <2>2
  <2>6. WritesRead' /\ ReadsApart'
    BY <1>1, <2>2, <2>3 DEF RowsInv, WritesRead, ReadsApart, FiguresOf
  <2> HIDE DEF X
  <2>7. FatesApart'
    <3>1. FatesApart
      BY DEF RowsInv
    <3>2. Stands' \cap (failed \cup cut \cup crashed \cup expired) = {}
          /\ overwritten' \cap (failed \cup cut \cup crashed \cup expired) = {}
      BY <2>3, <2>4, <2>5, <3>1 DEF FatesApart, Dropped, DroppedApart
    <3>3. DroppedApart'
      BY <1>1, <2>1, <3>1, <3>2 DEF FatesApart, DroppedApart
    <3>4. Stands' \cup Dropped' = Stands \cup Dropped \cup X
      BY <1>1, <2>1, <2>3, <2>5 DEF Dropped
    <3>5. Stands' \cap Dropped' = {}
      BY <1>1, <2>1, <2>3, <3>2 DEF Dropped
    <3> QED BY <1>1, <2>4, <3>1, <3>3, <3>4, <3>5, Leaves
  <2>8. TypeOK'
    BY <2>4, <2>7, TypeFromFates
  <2> QED BY <2>3, <2>4, <2>6, <2>7, <2>8 DEF RowsInv, MemoryInv
<1> QED BY <1>0, <1>2, <1>3 DEF Stop

(* The recorder has stopped.                                               *)
LEMMA StoppedKeeps ==
    ASSUME RowsInv, Stopped PROVE RowsInv'
<1>1. /\ phase = "stopping" /\ toWrite = {} /\ writes = {} /\ phase' = "stopped"
      /\ UNCHANGED <<timeVars, starts, folded, memoryVars, rows, lostVars>>
  BY DEF Stopped, WrittenAll
<1> USE DEF timeVars, memoryVars, lostVars
<1>2. RowsApart' /\ RowsAreTheirWindows' /\ WritesRead' /\ ReadsApart' /\ Stands' = Stands
  BY <1>1, RowsAlone
<1>3. FatesApart'
  BY <1>1, <1>2 DEF RowsInv, FatesApart, Dropped, DroppedApart, InMemory
<1>4. MemoryInv'
  BY <1>1, TypeOfMemory DEF MemoryInv, TypeRest, MemoryApart, OpenApart, WritesApart,
     StopApart, HoldersApart
<1>5. OneSweeper' /\ PhasesOK'
  BY <1>1 DEF RowsInv, OneSweeper, PhasesOK, IsOpen
<1>6. TypeOK'
  BY <1>3, <1>4, TypeFromFates
<1> QED BY <1>2, <1>3, <1>4, <1>5, <1>6 DEF RowsInv, MemoryInv

(* The backend starts; what memory held is gone.                           *)
LEMMA StartsKeeps ==
    ASSUME RowsInv, Starts PROVE RowsInv'
<1>1. /\ starts < MaxStarts /\ starts' = starts + 1 /\ phase' = "running"
      /\ open' = [k \in Keys |-> Closed(k)] /\ writes' = {} /\ due' = {} /\ toWrite' = {}
      /\ crashed' = crashed \cup InMemory
      /\ UNCHANGED <<timeVars, folded, rows, failed, cut, expired, overwritten>>
  BY DEF Starts
<1>2. RowsApart' /\ RowsAreTheirWindows' /\ WritesRead' /\ ReadsApart' /\ Stands' = Stands
  BY <1>1, RowsAlone
<1>3. /\ open' \in [Keys -> Accumulators]
      /\ \A k \in Keys : open'[k].place.key = k /\ open'[k].windows = {}
  BY <1>1, ClosedIs
<1>4. InMemory' = {}
  BY <1>1, <1>3 DEF InMemory
<1>5. FatesApart'
  BY <1>1, <1>2, <1>4 DEF RowsInv, FatesApart, Dropped, DroppedApart
<1>6. MemoryInv'
  <2>1. MemoryApart'
    BY <1>1, <1>3 DEF MemoryApart, OpenApart, WritesApart, StopApart, HoldersApart
  <2>2. TypeRest'
    BY <1>1, <1>3, Bounds DEF RowsInv, TypeOK, TypeRest, timeVars
  <2> QED BY <1>1, <2>1, <2>2 DEF MemoryInv
<1>7. OneSweeper' /\ PhasesOK'
  BY <1>1 DEF OneSweeper, PhasesOK
<1>8. TypeOK'
  BY <1>5, <1>6, TypeFromFates
<1> QED BY <1>2, <1>5, <1>6, <1>7, <1>8 DEF RowsInv, MemoryInv

-----------------------------------------------------------------------------
LEMMA Initially ==
    ASSUME Init PROVE RowsInv
<1>1. /\ \A k \in Keys : open[k] \in Accumulators /\ open[k].place.key = k
                         /\ open[k].windows = {}
      /\ open \in [Keys -> Accumulators]
  BY ClosedIs DEF Init
<1>2. NoRow \in Rows /\ NoRow.windows = {} /\ NoRow.samples = 0 /\ NoRow.worst = 0
  BY DEF NoRow, Rows
<1>3. rows \in [Places -> Rows] /\ \A p \in Places : rows[p] = NoRow
  BY <1>2 DEF Init
<1>4. now \in Instants /\ starts \in 1 .. MaxStarts /\ setBacks \in 0 .. MaxSetBacks
      /\ folded \in 0 .. MaxWindows
  BY Bounds DEF Init, Instants
<1>5. TypeOK
  BY <1>1, <1>3, <1>4 DEF Init, TypeOK
<1>6. MemoryApart
  BY <1>1 DEF Init, MemoryApart, OpenApart, WritesApart, StopApart, HoldersApart
<1>7. InMemory = {} /\ Stands = {} /\ 1 .. folded = {}
  BY <1>1, <1>2, <1>3 DEF Init, InMemory, Stands
<1>8. FatesApart
  BY <1>7 DEF Init, FatesApart, Dropped, DroppedApart
<1>9. RowsApart /\ RowsAreTheirWindows
  <2>1. WorstOf({}) = 0
    BY WorstIs
  <2> QED BY <1>2, <1>3, <2>1, FS_EmptySet DEF RowsApart, RowsAreTheirWindows
<1>10. WritesRead /\ ReadsApart /\ OneSweeper /\ PhasesOK /\ writes \subseteq Writes
  BY <1>1 DEF Init, WritesRead, ReadsApart, OneSweeper, PhasesOK, IsOpen
<1> QED BY <1>5, <1>6, <1>8, <1>9, <1>10 DEF RowsInv

(* Every step keeps the invariant.                                         *)
LEMMA Preserved ==
    ASSUME RowsInv, [Next]_vars PROVE RowsInv'
<1>1. CASE Tick \/ SetBack \/ UNCHANGED vars
  <2>1. now' \in Instants /\ setBacks' \in 0 .. MaxSetBacks
    BY <1>1, Bounds
       DEF RowsInv, TypeOK, Tick, SetBack, vars, timeVars, Instants, BucketLength
  <2>2. UNCHANGED <<phase, starts, folded, memoryVars, rows, lostVars>>
    BY <1>1 DEF Tick, SetBack, vars
  <2> QED BY <2>1, <2>2, ClockKeeps
<1>2. ASSUME NEW w \in writes, WriteStep(w) PROVE RowsInv'
  BY <1>2, SelectKeeps, CommitKeeps, WriteFailsKeeps DEF WriteStep
<1>3. CASE Stopping
  BY <1>3, StoppedKeeps, StopWritesKeeps DEF Stopping
<1>4. CASE Restart \/ Crash
  BY <1>4, StartsKeeps DEF Restart, Crash
<1> QED BY <1>1, <1>2, <1>3, <1>4, FoldKeeps, SweepingKeeps, PruneKeeps, StopKeeps DEF Next

(* Where every window is, what rows are made of and what each write has    *)
(* read: the inductive invariant under HistoryAddsUp.                      *)
THEOREM RowsInvariant == Init /\ [][Next]_vars => []RowsInv
<1>1. Init => RowsInv
  BY Initially
<1>2. RowsInv /\ [Next]_vars => RowsInv'
  BY Preserved
<1> QED BY <1>1, <1>2, PTL

(* History adds up (HistoryRecorder._fold, _write, flush_due, prune, stop  *)
(* and merge_into): in every interleaving of folds, writes, sweeps, clocks *)
(* set back, stops and crashes, a window is in one place, a row is the     *)
(* figures of its windows, and nothing writes after stop().                *)
THEOREM HistoryAddsUp == Init /\ [][Next]_vars => []RowsAreRight
<1>1. ASSUME RowsInv PROVE RowsAreRight
  <2>1. TypeOK /\ RowsAreTheirWindows
    BY <1>1 DEF RowsInv
  <2>2. NoWindowVanishes
    <3> DEFINE fates == <<InMemory, Stands, failed, cut, crashed, expired, overwritten>>
    <3>1. InMemory \cup Stands \cup Dropped = 1 .. folded
          /\ InMemory \cap Stands = {} /\ (InMemory \cup Stands) \cap Dropped = {}
          /\ DroppedApart
      BY <1>1 DEF RowsInv, FatesApart
    <3>2. UNION {fates[i] : i \in 1 .. 7} = 1 .. folded
      <4>1. \A x : (\E i \in 1 .. 7 : x \in fates[i])
                   <=> x \in InMemory \cup Stands \cup Dropped
        BY DEF Dropped
      <4> HIDE DEF fates
      <4> QED BY <3>1, <4>1
    <3>3. ASSUME NEW i \in 1 .. 7, NEW j \in 1 .. 7, i # j
          PROVE  fates[i] \cap fates[j] = {}
      BY <3>1, <3>3 DEF Dropped, DroppedApart
    <3> QED BY <3>2, <3>3 DEF NoWindowVanishes
  <2>3. NoWindowIsWrittenTwice
    <3>1. \A v \in writes : v.acc.windows \subseteq InMemory
                            /\ rows[v.acc.place].windows \subseteq Stands
      BY <1>1, WriteHas, RowHas
    <3>2. InMemory \cap Stands = {} /\ WritesApart
      BY <1>1 DEF RowsInv, FatesApart, MemoryApart
    <3> QED BY <3>1, <3>2 DEF NoWindowIsWrittenTwice, WritesApart
  <2>4. StoppedIsQuiet
    BY <1>1 DEF RowsInv, PhasesOK, IsOpen, StoppedIsQuiet, InMemory
  <2> QED BY <2>1, <2>2, <2>3, <2>4 DEF RowsAreRight
<1> QED BY <1>1, RowsInvariant, PTL

-----------------------------------------------------------------------------
(* The order of writes.                                                    *)

\* The parts of OrderInv that are about writes and rows alone.
TableInv == Began /\ Pairs /\ ReadsLast

LEMMA WritesBegan ==
    ASSUME RowsInv, NEW w \in writes
    PROVE  w.acc.place \in Places /\ w.acc.place.start \in Buckets
           /\ w.acc.place.start \in Nat
BY WriteHas, BucketsNat DEF Places

(* Writes end, or are fewer, and no row changes.                           *)
LEMMA FewerWrites ==
    ASSUME OrderInv, writes' \subseteq writes, rows' = rows, now' = now,
           \A k \in Keys : IsOpen(k)' => IsOpen(k) /\ open'[k] = open[k],
           \A a \in toWrite' : a \in toWrite \/ \E k \in Keys : IsOpen(k) /\ a = open[k]
    PROVE  /\ TableInv'
           /\ \A q \in Places : FirstOnly(q) => FirstOnly(q)'
           /\ \A q \in Places : Untouched(q) => Untouched(q)'
           /\ \A k \in Keys : IsOpen(k)' => NoneLater(k)'
<1>1. Began' /\ \A k \in Keys : IsOpen(k)' => NoneLater(k)'
  BY DEF OrderInv, Began, NoneLater
<1>2. Pairs' /\ \A q \in Places : FirstOnly(q) => FirstOnly(q)'
  BY DEF OrderInv, Pairs, FirstOnly
<1>3. ReadsLast' /\ \A q \in Places : Untouched(q) => Untouched(q)'
  BY DEF OrderInv, ReadsLast, Refused, Untouched
<1> QED BY <1>1, <1>2, <1>3 DEF TableInv

(* A write that is stored has no other that read the same row: what the    *)
(* others have read is refused.                                            *)
LEMMA StoredOrder ==
    ASSUME RowsInv, OrderInv, NEW w \in writes, w.at = "commit", ~Refused(w), Stored(w),
           writes' \subseteq writes \ {w}, now' = now,
           \A k \in Keys : IsOpen(k)' => IsOpen(k) /\ open'[k] = open[k],
           \A a \in toWrite' : a \in toWrite \/ \E k \in Keys : IsOpen(k) /\ a = open[k]
    PROVE  /\ TableInv'
           /\ \A q \in Places : FirstOnly(q) => FirstOnly(q)'
           /\ \A q \in Places : Untouched(q) => Untouched(q)'
           /\ \A k \in Keys : IsOpen(k)' => NoneLater(k)'
<1>0. PICK p \in Places : p = w.acc.place
  BY WritesBegan
<1>1. PICK row : row = merge_into(w.saw, RowOf(w.acc.windows))
  OBVIOUS
<1>2. /\ row \in Rows /\ row.id \in row.windows
      /\ w.saw = NoRow => row.id \in w.acc.windows
  BY <1>1, Merged
<1>3. rows'[p] = row /\ \A q \in Places : q # p => rows'[q] = rows[q]
  BY <1>0, <1>1 DEF Stored, RowsInv, TypeOK
<1>4. Began' /\ \A k \in Keys : IsOpen(k)' => NoneLater(k)'
  <2>1. \A q \in Places : rows'[q] # NoRow => rows[q] # NoRow \/ q = p
    BY <1>3
  <2>2. Began'
    BY <1>0, <2>1 DEF OrderInv, Began
  <2>3. ASSUME NEW k \in Keys, IsOpen(k)' PROVE NoneLater(k)'
    <3>1. IsOpen(k) /\ open'[k] = open[k] /\ NoneLater(k)
      BY <2>3 DEF OrderInv
    <3> QED BY <1>0, <2>1, <3>1 DEF NoneLater
  <2> QED BY <2>2, <2>3
<1>5. Pairs'
  <2>1. ASSUME NEW u \in writes', NEW v \in writes', u # v, u.acc.place = v.acc.place
        PROVE  /\ rows'[u.acc.place] = NoRow
               /\ \A x \in writes' : x.acc.place = u.acc.place => x \in {u, v}
    <3>1. /\ rows[u.acc.place] = NoRow
          /\ \A x \in writes : x.acc.place = u.acc.place => x \in {u, v}
      BY <2>1 DEF OrderInv, Pairs
    <3>2. u.acc.place # p /\ u.acc.place \in Places
      BY <1>0, <3>1, WritesBegan
    <3> QED BY <1>3, <3>1, <3>2
  <2> QED BY <2>1 DEF Pairs
<1>6. ASSUME NEW v \in writes', v.at = "commit", ~Refused(v)'
      PROVE  v.saw = rows'[v.acc.place]
  <2>1. CASE v.acc.place # p
    <3>1. rows'[v.acc.place] = rows[v.acc.place]
      BY <1>3, <2>1, WritesBegan
    <3> QED BY <1>6, <3>1 DEF OrderInv, ReadsLast, Refused
  <2>2. CASE v.acc.place = p
    <3>1. rows[p] = NoRow
      BY <1>0, <2>2 DEF OrderInv, Pairs
    <3>2. w.saw = NoRow
      BY <1>0, <3>1 DEF OrderInv, ReadsLast
    <3>3. row.id \in InMemory /\ row.id \in Windows
      BY <1>2, <3>2, WriteHas
    <3>4. v.saw.id = row.id
      BY <1>3, <1>6, <2>2 DEF Refused
    <3>5. v.saw # NoRow /\ v.saw.id # rows[p].id
      BY <3>1, <3>3, <3>4, Bounds DEF NoRow
    <3>6. v.saw.id \in expired
      BY <1>6, <2>2, <3>5 DEF RowsInv, WritesRead, SawOf
    <3>7. InMemory \cap expired = {}
      BY DEF RowsInv, FatesApart, Dropped
    <3> QED BY <3>3, <3>4, <3>6, <3>7
  <2> QED BY <2>1, <2>2
<1>7. ReadsLast'
  BY <1>6 DEF ReadsLast
<1>8. ASSUME NEW q \in Places, FirstOnly(q) PROVE FirstOnly(q)'
  BY <1>0, <1>3, <1>8 DEF FirstOnly
<1>9. ASSUME NEW q \in Places, Untouched(q) PROVE Untouched(q)'
  BY <1>0, <1>3, <1>9 DEF Untouched
<1> QED BY <1>4, <1>5, <1>7, <1>8, <1>9 DEF TableInv

(* A bucket is handed to a write of its own.                               *)
LEMMA OneMoreWrite ==
    ASSUME RowsInv, OrderInv, NEW w \in Writes, w.at = "select", FirstOnly(w.acc.place),
           w.acc.place.start <= now, writes' = writes \cup {w}, rows' = rows, now' = now,
           \A k \in Keys : IsOpen(k)' => open'[k].place.start <= now,
           \A a \in toWrite' : a \in toWrite
    PROVE  /\ TableInv'
           /\ \A q \in Places : FirstOnly(q) /\ q # w.acc.place => FirstOnly(q)'
           /\ \A q \in Places : Untouched(q) /\ q # w.acc.place => Untouched(q)'
<1>1. Began'
  BY DEF OrderInv, Began
<1>2. Pairs'
  BY DEF OrderInv, Pairs, FirstOnly
<1>3. ReadsLast'
  BY DEF OrderInv, ReadsLast, Refused
<1>4. /\ \A q \in Places : FirstOnly(q) /\ q # w.acc.place => FirstOnly(q)'
      /\ \A q \in Places : Untouched(q) /\ q # w.acc.place => Untouched(q)'
  BY DEF FirstOnly, Untouched
<1> QED BY <1>1, <1>2, <1>3, <1>4 DEF TableInv

(* The place a key's windows go to has the bucket of an instant.           *)
LEMMA PlaceNowIs ==
    ASSUME TypeOK, NEW k \in Keys
    PROVE  PlaceNow(k) \in Places /\ PlaceNow(k).key = k
BY BucketOfNow DEF PlaceNow, TypeOK, Accumulators

LEMMA TickOrder ==
    ASSUME RowsInv, RowsInv', OrderInv, Tick PROVE OrderInv'
<1>1. /\ now' = now + 1
      /\ UNCHANGED <<setBacks, phase, starts, folded, memoryVars, rows, lostVars>>
  BY DEF Tick
<1> USE DEF memoryVars
<1>2. now \in Nat /\ now \in Instants /\ now' \in Instants
  BY BucketOfNow, Bounds DEF RowsInv, TypeOK, Instants
<1>3. Began'
  <2>1. /\ \A k \in Keys : open[k].place.start \in Nat
        /\ \A w \in writes : w.acc.place.start \in Nat
        /\ \A a \in toWrite : a.place.start \in Nat
        /\ \A p \in Places : p.start \in Nat
    BY BucketsNat, WritesBegan DEF RowsInv, TypeOK, Accumulators, Places
  <2> QED BY <1>1, <1>2, <2>1 DEF OrderInv, Began, IsOpen
<1>4. Popped'
  <2>1. \A k \in due : k \in Keys /\ open[k].place.start \in Nat
    BY BucketsNat DEF RowsInv, TypeOK, Accumulators, Places
  <2> QED BY <1>1, <1>2, <2>1 DEF OrderInv, Popped, Untouched, BucketLength
<1>5. Pairs' /\ ReadsLast'
  BY <1>1 DEF OrderInv, Pairs, ReadsLast, Refused
<1>6. (\A k \in Keys : IsOpen(k) => NoneLater(k))' /\ (\A a \in toWrite : FirstOnly(a.place))'
  BY <1>1 DEF OrderInv, NoneLater, IsOpen, FirstOnly
<1>7. ASSUME phase = "running", NEW k \in Keys PROVE FirstOnly(PlaceNow(k))'
  <2>1. FirstOnly(PlaceNow(k))
    BY <1>7 DEF OrderInv
  <2>2. CASE PlaceNow(k)' = PlaceNow(k)
    BY <1>1, <2>1, <2>2 DEF FirstOnly
  <2>3. CASE PlaceNow(k)' # PlaceNow(k)
    <3>1. ~IsOpen(k) /\ ~IsOpen(k)'
      BY <1>1, <2>3 DEF PlaceNow, IsOpen
    <3>2. PlaceNow(k)' = [key |-> k, start |-> bucket_start_for(now')]
      BY <3>1 DEF PlaceNow
    <3>3. bucket_start_for(now) # bucket_start_for(now')
      BY <2>3, <3>1, <3>2 DEF PlaceNow
    <3>4. bucket_start_for(now) \in Buckets /\ bucket_start_for(now') \in Buckets
      BY <1>2 DEF Buckets
    <3>5. bucket_start_for(now') > now
      <4>1. now' \in Nat
        BY <1>1, <1>2
      <4>2. bucket_start_for(now') \in Nat /\ bucket_start_for(now) \in Nat
            /\ bucket_start_for(now) <= now
        BY <1>2, <4>1, BucketOf
      <4>3. bucket_start_for(now) <= bucket_start_for(now')
        <5>1. bucket_start_for(now) <= now'
          BY <1>1, <1>2, <4>2
        <5> QED BY <3>4, <4>1, <5>1, BucketOf
      <4>4. bucket_start_for(now') <= now => bucket_start_for(now') <= bucket_start_for(now)
        BY <1>2, <3>4, BucketOf
      <4> QED BY <1>2, <3>3, <4>2, <4>3, <4>4
    <3>6. \A w \in writes : w.acc.place.start <= now /\ w.acc.place.start \in Nat
      BY WritesBegan DEF OrderInv, Began
    <3>7. bucket_start_for(now') \in Nat
      BY <3>4, BucketsNat
    <3>8. \A w \in writes : w.acc.place # PlaceNow(k)'
      BY <1>2, <3>2, <3>5, <3>6, <3>7
    <3> QED BY <1>1, <3>8 DEF FirstOnly
  <2> QED BY <2>2, <2>3
<1> QED BY <1>1, <1>3, <1>4, <1>5, <1>6, <1>7 DEF OrderInv

LEMMA SelectOrder ==
    ASSUME RowsInv, OrderInv, NEW w \in writes, Select(w) PROVE OrderInv'
<1>0. PICK r : r = [w EXCEPT !.at = "commit", !.saw = rows[w.acc.place]]
  OBVIOUS
<1>1. /\ writes' = (writes \ {w}) \cup {r}
      /\ UNCHANGED <<timeVars, phase, starts, folded, open, due, toWrite, rows, lostVars>>
  BY <1>0 DEF Select
<1>2. r.acc = w.acc /\ r.saw = rows[w.acc.place]
  BY <1>0, WriteHas DEF Writes
<1>3. \A v \in writes' : \E u \in writes : u.acc = v.acc /\ (v # r => u = v /\ u # w)
                                          /\ (v = r => u = w)
  BY <1>1, <1>2
<1> USE DEF timeVars
<1>4. Began' /\ \A k \in Keys : IsOpen(k)' => NoneLater(k)'
  BY <1>1, <1>3 DEF OrderInv, Began, NoneLater, IsOpen
<1>5. \A q : (FirstOnly(q) => FirstOnly(q)') /\ (Untouched(q) => Untouched(q)')
  BY <1>1, <1>3 DEF FirstOnly, Untouched
<1>6. Pairs'
  BY <1>1, <1>3 DEF OrderInv, Pairs
<1>7. ReadsLast'
  BY <1>1, <1>2 DEF OrderInv, ReadsLast, Refused
<1>8. \A k \in Keys : PlaceNow(k)' = PlaceNow(k)
  BY <1>1 DEF PlaceNow, IsOpen
<1>9. phase = "running" => \A k \in Keys : FirstOnly(PlaceNow(k))'
  BY <1>1, <1>3, <1>8 DEF OrderInv, FirstOnly
<1>10. Popped' /\ \A a \in toWrite' : FirstOnly(a.place)'
  BY <1>1, <1>5 DEF OrderInv, Popped
<1> QED BY <1>1, <1>4, <1>6, <1>7, <1>9, <1>10 DEF OrderInv

(* A write that ends by its commit or its failure.                         *)
LEMMA EndOrder ==
    ASSUME RowsInv, OrderInv, TableInv',
           \A q \in Places : FirstOnly(q) => FirstOnly(q)',
           \A q \in Places : Untouched(q) => Untouched(q)',
           \A k \in Keys : IsOpen(k)' => NoneLater(k)',
           UNCHANGED <<now, phase, open, due, toWrite>>
    PROVE  OrderInv'
<1>1. /\ \A k \in Keys : PlaceNow(k)' = PlaceNow(k) /\ PlaceNow(k) \in Places
      /\ \A a \in toWrite : a.place \in Places
      /\ \A k \in due : k \in Keys /\ open[k].place \in Places
  BY PlaceNowIs DEF PlaceNow, IsOpen, RowsInv, TypeOK, Accumulators
<1>2. phase = "running" => \A k \in Keys : FirstOnly(PlaceNow(k))'
  <2>1. ASSUME phase = "running", NEW k \in Keys PROVE FirstOnly(PlaceNow(k))'
    <3>1. PICK q \in Places : q = PlaceNow(k)
      BY <1>1
    <3>2. FirstOnly(q)'
      BY <2>1, <3>1 DEF OrderInv
    <3> QED BY <1>1, <3>1, <3>2
  <2> QED BY <2>1
<1>3. \A a \in toWrite' : FirstOnly(a.place)'
  BY <1>1 DEF OrderInv
<1>4. Popped'
  <2>1. ASSUME NEW k \in due', Untouched(open[k].place) PROVE Untouched(open[k].place)'
    <3>1. PICK q \in Places : q = open[k].place
      BY <1>1, <2>1
    <3> QED BY <2>1, <3>1
  <2> QED BY <2>1 DEF OrderInv, Popped
<1> QED BY <1>2, <1>3, <1>4 DEF OrderInv, TableInv

LEMMA CommitOrder ==
    ASSUME RowsInv, OrderInv, NEW w \in writes, Commit(w) PROVE OrderInv'
<1>1. /\ w.at = "commit" /\ ~Refused(w) /\ Stored(w) /\ writes' = writes \ {w}
      /\ UNCHANGED <<now, phase, open, due, toWrite>>
  BY DEF Commit, timeVars
<1>2. \A k \in Keys : IsOpen(k)' => IsOpen(k) /\ open'[k] = open[k]
  BY <1>1 DEF IsOpen
<1> QED BY <1>1, <1>2, StoredOrder, EndOrder

LEMMA FailsOrder ==
    ASSUME RowsInv, OrderInv, NEW w \in writes, WriteFails(w) PROVE OrderInv'
<1>1. /\ writes' = writes \ {w} /\ rows' = rows
      /\ UNCHANGED <<now, phase, open, due, toWrite>>
  BY DEF WriteFails, timeVars
<1>2. \A k \in Keys : IsOpen(k)' => IsOpen(k) /\ open'[k] = open[k]
  BY <1>1 DEF IsOpen
<1> QED BY <1>1, <1>2, FewerWrites, EndOrder

LEMMA PruneOrder ==
    ASSUME RowsInv, OrderInv, Prune PROVE OrderInv'
<1>1. /\ rows' = [p \in Places |-> IF Expired(p) THEN NoRow ELSE rows[p]]
      /\ UNCHANGED <<now, phase, open, writes, due, toWrite>>
  BY DEF Prune, timeVars, memoryVars
<1>2. \A p \in Places : rows'[p] = rows[p] \/ rows'[p] = NoRow
  BY <1>1
<1>3. Began' /\ \A k \in Keys : IsOpen(k)' => NoneLater(k)'
  BY <1>1, <1>2 DEF OrderInv, Began, NoneLater, IsOpen
<1>4. Pairs'
  <2>1. \A w \in writes : w.acc.place \in Places
    BY WritesBegan
  <2> QED BY <1>1, <1>2, <2>1 DEF OrderInv, Pairs
<1>5. ASSUME NEW v \in writes', v.at = "commit", ~Refused(v)'
      PROVE  v.saw = rows'[v.acc.place]
  <2>1. v \in writes /\ v.acc.place \in Places /\ v.saw \in Rows
    BY <1>1, WriteHas
  <2>2. CASE rows'[v.acc.place] = rows[v.acc.place]
    BY <1>5, <2>1, <2>2 DEF OrderInv, ReadsLast, Refused
  <2>3. CASE rows'[v.acc.place] = NoRow
    <3>1. v.saw.id = 0
      BY <1>5, <2>3 DEF Refused, NoRow
    <3>2. v.saw.id \notin v.saw.windows
      BY <2>1, <3>1, Bounds DEF Rows
    <3>3. v.saw = NoRow
      BY <1>5, <2>1, <3>2 DEF RowsInv, WritesRead, SawOf
    <3> QED BY <2>3, <3>3
  <2> QED BY <1>2, <2>1, <2>2, <2>3
<1>6. \A q \in Places : (FirstOnly(q) => FirstOnly(q)') /\ (Untouched(q) => Untouched(q)')
  BY <1>1, <1>2 DEF FirstOnly, Untouched
<1>7. TableInv'
  BY <1>3, <1>4, <1>5 DEF TableInv, ReadsLast
<1> QED BY <1>1, <1>3, <1>6, <1>7, EndOrder

(* Nothing that the order is about changes.                                *)
LEMMA SameOrder ==
    ASSUME OrderInv, UNCHANGED <<now, open, writes, due, toWrite, rows>>,
           phase' = "running" => phase = "running"
    PROVE  OrderInv'
<1>1. Began' /\ Popped' /\ \A k \in Keys : IsOpen(k)' => NoneLater(k)'
  BY DEF OrderInv, Began, Popped, NoneLater, IsOpen, Untouched
<1>2. Pairs' /\ ReadsLast'
  BY DEF OrderInv, Pairs, ReadsLast, Refused
<1>3. \A k \in Keys : PlaceNow(k)' = PlaceNow(k)
  BY DEF PlaceNow, IsOpen
<1>4. phase' = "running" => \A k \in Keys : FirstOnly(PlaceNow(k))'
  BY <1>3 DEF OrderInv, FirstOnly
<1>5. \A a \in toWrite' : FirstOnly(a.place)'
  BY DEF OrderInv, FirstOnly
<1> QED BY <1>1, <1>2, <1>4, <1>5 DEF OrderInv

(* What has begun has begun by the bucket of now.                          *)
LEMMA BegunByNow ==
    ASSUME TypeOK, NEW b \in Buckets, b <= now
    PROVE  b <= bucket_start_for(now)
<1>1. now \in Nat
  BY Bounds DEF TypeOK, Instants
<1> QED BY <1>1, BucketOf

(* A window goes to its key's bucket.                                      *)
LEMMA PlaceOrder ==
    ASSUME RowsInv, OrderInv, phase = "running", NEW k \in Keys, NEW acc \in Accumulators,
           acc.place = PlaceNow(k), acc.windows # {},
           open' = [open EXCEPT ![k] = acc],
           UNCHANGED <<now, phase, writes, due, toWrite, rows>>
    PROVE  OrderInv'
<1>1. TypeOK /\ PhasesOK /\ toWrite = {}
  BY DEF RowsInv, PhasesOK
<1>2. open'[k] = acc /\ \A j \in Keys : j # k => open'[j] = open[j]
  BY <1>1 DEF TypeOK
<1>3. acc.place = IF IsOpen(k) THEN open[k].place
                  ELSE [key |-> k, start |-> bucket_start_for(now)]
  BY DEF PlaceNow
<1>4. now \in Nat /\ bucket_start_for(now) <= now
  BY <1>1, BucketOfNow, BucketOf
<1>5. Began'
  <2>1. acc.place.start <= now
    BY <1>3, <1>4 DEF OrderInv, Began
  <2> QED BY <1>2, <2>1 DEF OrderInv, Began, IsOpen
<1>6. Popped'
  <2>1. \A j \in due : j \in Keys /\ open'[j].place = open[j].place
    BY <1>1, <1>2, <1>3 DEF TypeOK, PhasesOK
  <2> QED BY <2>1 DEF OrderInv, Popped, Untouched
<1>7. Pairs' /\ ReadsLast'
  BY DEF OrderInv, Pairs, ReadsLast, Refused
<1>8. ASSUME NEW j \in Keys, IsOpen(j)' PROVE NoneLater(j)'
  <2>1. CASE IsOpen(j)
    <3>1. open'[j].place = open[j].place
      BY <1>2, <1>3, <2>1
    <3> QED BY <2>1, <3>1 DEF OrderInv, NoneLater
  <2>2. CASE ~IsOpen(j)
    <3>1. j = k /\ open'[j].place.start = bucket_start_for(now)
      BY <1>2, <1>3, <1>8, <2>2 DEF IsOpen
    <3>2. \A w \in writes : w.acc.place.start <= bucket_start_for(now)
      BY <1>1, WritesBegan, BegunByNow DEF OrderInv, Began
    <3>3. \A p \in Places : rows[p] # NoRow => p.start <= bucket_start_for(now)
      BY <1>1, BegunByNow DEF OrderInv, Began, Places
    <3> QED BY <3>1, <3>2, <3>3 DEF NoneLater
  <2> QED BY <2>1, <2>2
<1>9. ASSUME NEW j \in Keys PROVE FirstOnly(PlaceNow(j))'
  <2>1. PlaceNow(j)' = PlaceNow(j)
    <3>1. CASE j = k
      BY <1>2, <3>1 DEF PlaceNow, IsOpen
    <3>2. CASE j # k
      BY <1>2, <3>2 DEF PlaceNow, IsOpen
    <3> QED BY <3>1, <3>2
  <2> QED BY <2>1 DEF OrderInv, FirstOnly
<1> QED BY <1>1, <1>5, <1>6, <1>7, <1>8, <1>9 DEF OrderInv

(* A key's bucket is handed to a write; what comes next under the key      *)
(* belongs to the bucket of now.                                           *)
LEMMA HandOrder ==
    ASSUME RowsInv, OrderInv, phase = "running", NEW k \in Keys, IsOpen(k),
           NEW here, here = [key |-> k, start |-> bucket_start_for(now)],
           NEW acc \in Accumulators, acc.place.key = k,
           acc.windows = {} \/ acc.place = here,
           NEW by \in {"task", "sweeper"},
           writes' = writes \cup {Write(open[k], by)}, open' = [open EXCEPT ![k] = acc],
           due' \subseteq Keys, \A j \in due' : IsOpen(j)',
           \A j \in due' : j # k => \/ open[j].place.start + BucketLength <= now
                                    \/ Untouched(open[j].place),
           k \in due' => open[k].place # here,
           open[k].place # here \/ Untouched(open[k].place),
           UNCHANGED <<now, phase, toWrite, rows>>
    PROVE  OrderInv'
<1>0. PICK w : w = Write(open[k], by)
  OBVIOUS
<1>1. TypeOK /\ toWrite = {} /\ open[k] \in Accumulators /\ open[k].place.key = k
      /\ open[k].place \in Places /\ open[k].place.start \in Buckets
  BY DEF RowsInv, PhasesOK, TypeOK, Accumulators, Places
<1>2. w \in Writes /\ w.acc = open[k] /\ w.at = "select" /\ writes' = writes \cup {w}
  BY <1>0, <1>1, WriteOf
<1>3. open'[k] = acc /\ \A j \in Keys : j # k => open'[j] = open[j]
  BY <1>1 DEF TypeOK
<1>4. now \in Nat /\ here.start <= now /\ here \in Places /\ here.start \in Nat
      /\ here.key = k
  BY <1>1, BucketOfNow, BucketOf
<1>5. open[k].place.start <= now /\ open[k].place.start \in Nat
      /\ open[k].place.start <= here.start
  BY <1>1, BucketsNat, BegunByNow DEF OrderInv, Began
<1>6. FirstOnly(open[k].place) /\ NoneLater(k)
  BY DEF OrderInv, PlaceNow
<1>7. \A j \in Keys : IsOpen(j)' => open'[j].place.start <= now
  BY <1>3, <1>4 DEF OrderInv, Began, IsOpen
<1>8. /\ TableInv'
      /\ \A q \in Places : FirstOnly(q) /\ q # open[k].place => FirstOnly(q)'
      /\ \A q \in Places : Untouched(q) /\ q # open[k].place => Untouched(q)'
  BY <1>1, <1>2, <1>5, <1>6, <1>7, OneMoreWrite
<1>9. ASSUME open[k].place # here PROVE Untouched(here)'
  <2>1. open[k].place.start # here.start
    <3>1. open[k].place = [key |-> open[k].place.key, start |-> open[k].place.start]
      BY <1>1 DEF Places
    <3> QED BY <1>1, <1>9, <3>1
  <2>2. open[k].place.start < here.start
    BY <1>4, <1>5, <2>1
  <2>3. Untouched(here)
    <3>1. \A v \in writes : v.acc.place # here
      BY <1>4, <1>5, <1>6, <2>2 DEF NoneLater
    <3>2. rows[here] = NoRow
      BY <1>4, <1>5, <1>6, <2>2 DEF NoneLater
    <3> QED BY <3>1, <3>2 DEF Untouched
  <2> QED BY <1>4, <1>8, <1>9, <2>3
<1>10. FirstOnly(here)'
  <2>1. CASE open[k].place # here
    BY <1>9, <2>1 DEF Untouched, FirstOnly
  <2>2. CASE open[k].place = here
    BY <1>2, <2>2 DEF Untouched, FirstOnly
  <2> QED BY <2>1, <2>2
<1>11. ASSUME NEW j \in Keys PROVE FirstOnly(PlaceNow(j))'
  <2>1. CASE j = k
    <3>1. PlaceNow(k)' = here
      BY <1>3 DEF PlaceNow, IsOpen
    <3> QED BY <1>10, <2>1, <3>1
  <2>2. CASE j # k
    <3>1. PICK q : q = PlaceNow(j)
      OBVIOUS
    <3>2. q \in Places /\ q # open[k].place /\ FirstOnly(q)
      BY <1>1, <2>2, <3>1, PlaceNowIs DEF OrderInv
    <3>3. PlaceNow(j)' = q
      BY <1>3, <2>2, <3>1 DEF PlaceNow, IsOpen
    <3> QED BY <1>8, <3>2, <3>3
  <2> QED BY <2>1, <2>2
<1>12. ASSUME NEW j \in Keys, IsOpen(j)' PROVE NoneLater(j)'
  <2>1. CASE j = k
    <3>1. open'[j].place.start = here.start
      BY <1>3, <1>12, <2>1 DEF IsOpen
    <3>2. \A v \in writes' : v.acc.place.start <= here.start
      <4>1. \A v \in writes : v.acc.place.start <= here.start
        BY <1>1, <1>4, WritesBegan, BegunByNow DEF OrderInv, Began
      <4> QED BY <1>2, <1>5, <4>1
    <3>3. \A p \in Places : rows[p] # NoRow => p.start <= here.start
      BY <1>1, <1>4, BegunByNow DEF OrderInv, Began, Places
    <3> QED BY <3>1, <3>2, <3>3 DEF NoneLater
  <2>2. CASE j # k
    <3>1. IsOpen(j) /\ open'[j] = open[j] /\ NoneLater(j)
      BY <1>3, <1>12, <2>2 DEF IsOpen, OrderInv
    <3> QED BY <1>1, <1>2, <2>2, <3>1 DEF NoneLater
  <2> QED BY <2>1, <2>2
<1>13. Popped'
  <2>1. ASSUME NEW j \in due', j # k
        PROVE  \/ open'[j].place.start + BucketLength <= now
               \/ Untouched(open[j].place)'
    <3>1. j \in Keys /\ open'[j] = open[j] /\ open[j].place \in Places
          /\ open[j].place.key = j
      BY <1>1, <1>3, <2>1 DEF TypeOK, Accumulators
    <3>2. PICK q \in Places : q = open[j].place
      BY <3>1
    <3> QED BY <1>1, <1>8, <2>1, <3>1, <3>2
  <2>2. ASSUME k \in due' PROVE Untouched(open[k].place)'
    <3>1. open'[k].place = here
      BY <1>3, <2>2 DEF IsOpen
    <3> QED BY <1>9, <2>2, <3>1
  <2> QED BY <2>1, <2>2 DEF Popped
<1> QED BY <1>1, <1>8, <1>11, <1>12, <1>13 DEF OrderInv, TableInv

LEMMA FoldOrder ==
    ASSUME RowsInv, RowsInv', OrderInv, NEW k \in Keys, Fold(k) PROVE OrderInv'
<1> DEFINE x == folded + 1
           start == bucket_start_for(now)
           here == [key |-> k, start |-> start]
<1>1. TypeOK /\ PhasesOK /\ PhasesOK'
  BY DEF RowsInv
<1>2. /\ phase = "running" /\ x \in Windows
      /\ UNCHANGED <<now, phase, due, toWrite, rows>>
  BY DEF Fold, timeVars
<1>3. Opened(k, {x}) \in Accumulators /\ Opened(k, {x}).place = here
      /\ Opened(k, {x}).windows = {x} /\ here.key = k
  BY <1>1, <1>2, BucketOfNow DEF Opened, Accumulators
<1>4. CASE FoldLate(k)
  BY <1>2, <1>4, SameOrder DEF FoldLate
<1>5. CASE Joins(k, x) /\ IsOpen(k)
  <2> DEFINE acc == [open[k] EXCEPT !.windows = @ \cup {x}]
  <2>1. open[k] \in Accumulators
    BY <1>1 DEF TypeOK
  <2>2. acc \in Accumulators /\ acc.place = open[k].place /\ acc.windows # {}
    BY <1>2, <2>1 DEF Accumulators
  <2>3. open' = [open EXCEPT ![k] = acc] /\ UNCHANGED writes
    BY <1>5 DEF Joins
  <2>4. PlaceNow(k) = open[k].place
    BY <1>5 DEF PlaceNow
  <2> QED BY <1>2, <2>2, <2>3, <2>4, PlaceOrder
<1>6. CASE RollsOver(k, x) /\ IsOpen(k) /\ start > open[k].place.start
  <2>1. /\ open' = [open EXCEPT ![k] = Opened(k, {x})]
        /\ writes' = writes \cup {Write(open[k], "task")}
    BY <1>6 DEF RollsOver
  <2>2. open[k].place # here
    <3>1. open[k].place.start \in Nat /\ start \in Nat
      BY <1>1, BucketsNat, BucketOfNow, BucketOf DEF TypeOK, Accumulators, Places
    <3> QED BY <1>6, <3>1
  <2>3. due' \subseteq Keys /\ \A j \in due' : IsOpen(j)'
    BY <1>1, <1>2 DEF TypeOK, PhasesOK
  <2>4. \A j \in due' : \/ open[j].place.start + BucketLength <= now
                        \/ Untouched(open[j].place)
    BY <1>2 DEF OrderInv, Popped
  <2> HIDE DEF x
  <2> QED BY <1>2, <1>3, <1>6, <2>1, <2>2, <2>3, <2>4, HandOrder
<1>7. CASE Opens(k, x) /\ ~IsOpen(k)
  <2>1. open' = [open EXCEPT ![k] = Opened(k, {x})] /\ UNCHANGED writes
    BY <1>7 DEF Opens
  <2>2. PlaceNow(k) = here
    BY <1>7 DEF PlaceNow
  <2> QED BY <1>2, <1>3, <2>1, <2>2, PlaceOrder
<1> QED BY <1>4, <1>5, <1>6, <1>7 DEF Fold

LEMMA SweepingOrder ==
    ASSUME RowsInv, RowsInv', OrderInv, Sweeping PROVE OrderInv'
<1>1. TypeOK /\ (\A j \in due' : IsOpen(j)') /\ due' \subseteq Keys
  BY DEF RowsInv, PhasesOK, TypeOK
<1>2. ASSUME NEW k \in Keys, IsOpen(k), Pops(k), phase = "running", due' \subseteq Keys \ {k},
             \A j \in due' \cup {k} : \/ open[j].place.start + BucketLength <= now
                                      \/ Untouched(open[j].place),
             UNCHANGED <<now, phase, toWrite, rows>>
      PROVE  OrderInv'
  <2> DEFINE here == [key |-> k, start |-> bucket_start_for(now)]
  <2>1. Closed(k) \in Accumulators /\ Closed(k).place.key = k /\ Closed(k).windows = {}
    BY ClosedIs
  <2>2. /\ writes' = writes \cup {Write(open[k], "sweeper")}
        /\ open' = [open EXCEPT ![k] = Closed(k)]
    BY <1>2 DEF Pops
  <2>3. open[k].place # here \/ Untouched(open[k].place)
    <3>1. now \in Nat /\ now < here.start + BucketLength /\ here.start \in Nat
      BY <1>1, BucketOfNow, BucketOf
    <3> QED BY <1>2, <3>1 DEF BucketLength
  <2> QED BY <1>1, <1>2, <2>1, <2>2, <2>3, HandOrder
<1>3. ASSUME Sweep PROVE OrderInv'
  <2>1. phase = "running" /\ UNCHANGED <<now, phase, toWrite, rows>>
    BY <1>3 DEF Sweep, timeVars
  <2>2. PICK k \in Ended : due' = Ended \ {k} /\ Pops(k)
    BY <1>3 DEF Sweep
  <2>3. \A j \in Ended : /\ j \in Keys /\ IsOpen(j)
                         /\ open[j].place.start + BucketLength <= now
    <3>1. now \in Nat /\ \A j \in Keys : open[j].place.start \in Nat
      BY <1>1, BucketsNat, Bounds DEF TypeOK, Accumulators, Places, Instants
    <3> QED BY <3>1 DEF Ended, BucketLength, Grace
  <2> QED BY <1>1, <1>2, <2>1, <2>2, <2>3
<1>4. ASSUME NEW k \in Keys, FlushNext(k) PROVE OrderInv'
  <2>1. /\ phase = "running" /\ k \in due /\ due' = due \ {k} /\ Pops(k)
        /\ UNCHANGED <<now, phase, toWrite, rows>>
    BY <1>4 DEF FlushNext, timeVars
  <2>2. IsOpen(k) /\ \A j \in due : \/ open[j].place.start + BucketLength <= now
                                    \/ Untouched(open[j].place)
    BY <2>1 DEF RowsInv, PhasesOK, OrderInv, Popped
  <2> QED BY <1>1, <1>2, <2>1, <2>2
<1> QED BY <1>3, <1>4 DEF Sweeping

LEMMA StopOrder ==
    ASSUME RowsInv, OrderInv, Stop PROVE OrderInv'
<1>0. PICK swept : swept = {w \in writes : w.by = "sweeper"}
  OBVIOUS
<1>1. /\ phase = "running" /\ phase' = "stopping" /\ due' = {}
      /\ toWrite' = {open[k] : k \in {x \in Keys : IsOpen(x)}}
      /\ open' = [k \in Keys |-> Closed(k)] /\ writes' = writes \ swept /\ now' = now
  BY <1>0 DEF Stop, timeVars
<1>2. \A k \in Keys : ~IsOpen(k)'
  BY <1>1, ClosedIs DEF IsOpen
<1>3. \A a \in toWrite' : \E k \in Keys : IsOpen(k) /\ a = open[k]
  BY <1>1
<1>4. TableInv' /\ \A q \in Places : FirstOnly(q) => FirstOnly(q)'
  <2>1. CASE UNCHANGED rows
    BY <1>1, <1>2, <1>3, <2>1, FewerWrites
  <2>2. CASE \E w \in swept : w.at = "commit" /\ ~Refused(w) /\ Stored(w)
    <3>1. PICK w \in swept : w.at = "commit" /\ ~Refused(w) /\ Stored(w)
      BY <2>2
    <3>2. w \in writes /\ writes' \subseteq writes \ {w}
      BY <1>0, <1>1, <3>1
    <3> QED BY <1>1, <1>2, <1>3, <3>1, <3>2, StoredOrder
  <2> QED BY <1>0, <2>1, <2>2 DEF Stop
<1>5. \A a \in toWrite' : FirstOnly(a.place)'
  <2>1. ASSUME NEW a \in toWrite' PROVE FirstOnly(a.place)'
    <3>1. PICK k \in Keys : IsOpen(k) /\ a = open[k]
      BY <1>3
    <3>2. PICK q : q = a.place
      OBVIOUS
    <3>3. q = PlaceNow(k) /\ q \in Places
      BY <3>1, <3>2, PlaceNowIs DEF PlaceNow, RowsInv
    <3>4. FirstOnly(q)'
      BY <1>1, <1>4, <3>3 DEF OrderInv
    <3> QED BY <3>2, <3>4
  <2> QED BY <2>1
<1> QED BY <1>1, <1>2, <1>4, <1>5 DEF OrderInv, TableInv, Popped

LEMMA StopWritesOrder ==
    ASSUME RowsInv, OrderInv, StopPlaces, NEW acc \in toWrite, StopWritesNext(acc)
    PROVE  OrderInv'
<1>0. PICK w : w = Write(acc, "stop")
  OBVIOUS
<1>1. /\ phase = "stopping" /\ toWrite' = toWrite \ {acc} /\ writes' = writes \cup {w}
      /\ UNCHANGED <<now, phase, open, due, rows>>
  BY <1>0 DEF StopWritesNext, timeVars
<1>2. TypeOK /\ acc \in Accumulators /\ due = {} /\ \A k \in Keys : ~IsOpen(k)
  BY <1>1 DEF RowsInv, TypeOK, PhasesOK
<1>3. w \in Writes /\ w.acc = acc /\ w.at = "select"
  BY <1>0, <1>2, WriteOf
<1>4. FirstOnly(acc.place) /\ acc.place.start <= now
  BY DEF OrderInv, Began
<1>5. \A k \in Keys : ~IsOpen(k)'
  BY <1>1, <1>2 DEF IsOpen
<1>6. /\ TableInv'
      /\ \A q \in Places : FirstOnly(q) /\ q # acc.place => FirstOnly(q)'
  BY <1>1, <1>3, <1>4, <1>5, OneMoreWrite
<1>7. \A a \in toWrite' : FirstOnly(a.place)'
  <2>1. ASSUME NEW a \in toWrite' PROVE FirstOnly(a.place)'
    <3>1. a \in toWrite /\ a.place # acc.place /\ a.place \in Places
      BY <1>1, <1>2, <2>1 DEF StopPlaces, TypeOK, Accumulators
    <3>2. PICK q \in Places : q = a.place
      BY <3>1
    <3>3. FirstOnly(q)'
      BY <1>6, <3>1, <3>2 DEF OrderInv
    <3> QED BY <3>2, <3>3
  <2> QED BY <2>1
<1> QED BY <1>1, <1>2, <1>5, <1>6, <1>7 DEF OrderInv, TableInv, Popped

LEMMA StartsOrder ==
    ASSUME OrderInv, Starts PROVE OrderInv'
<1>1. /\ open' = [k \in Keys |-> Closed(k)] /\ writes' = {} /\ due' = {} /\ toWrite' = {}
      /\ now' = now /\ rows' = rows
  BY DEF Starts, timeVars
<1>2. \A k \in Keys : ~IsOpen(k)'
  BY <1>1, ClosedIs DEF IsOpen
<1> QED BY <1>1, <1>2 DEF OrderInv, Began, Popped, Pairs, ReadsLast, FirstOnly

(* What stop has to write are buckets of different keys.                   *)
LEMMA StopPlacesKept ==
    ASSUME RowsInv, StopPlaces, [Next]_vars PROVE StopPlaces'
<1>1. CASE Stop
  <2>1. toWrite' = {open[k] : k \in {x \in Keys : IsOpen(x)}}
    BY <1>1 DEF Stop
  <2>2. \A k \in Keys : open[k].place.key = k
    BY DEF RowsInv, TypeOK
  <2> QED BY <2>1, <2>2 DEF StopPlaces
<1>2. CASE ~Stop
  <2>1. toWrite' \subseteq toWrite
    <3>1. ASSUME NEW k \in Keys, Fold(k) \/ FlushNext(k) PROVE toWrite' = toWrite
      BY <3>1 DEF Fold, FlushNext
    <3>2. ASSUME NEW w \in writes, WriteStep(w) PROVE toWrite' = toWrite
      BY <3>2 DEF WriteStep, Select, Commit, WriteFails
    <3>3. ASSUME Tick \/ SetBack \/ Prune \/ Stopped \/ UNCHANGED vars
          PROVE  toWrite' = toWrite
      BY <3>3 DEF Tick, SetBack, Prune, Stopped, vars, memoryVars
    <3>4. ASSUME Sweep PROVE toWrite' = toWrite
      BY <3>4 DEF Sweep
    <3>5. ASSUME NEW acc \in toWrite, StopWritesNext(acc) PROVE toWrite' \subseteq toWrite
      BY <3>5 DEF StopWritesNext
    <3>6. ASSUME Starts PROVE toWrite' = {}
      BY <3>6 DEF Starts
    <3> QED BY <1>2, <3>1, <3>2, <3>3, <3>4, <3>5, <3>6
            DEF Next, Sweeping, Stopping, Restart, Crash
  <2> QED BY <2>1 DEF StopPlaces
<1> QED BY <1>1, <1>2

(* Once set back, the clock has been set back.                             *)
LEMMA SetBackStays ==
    ASSUME RowsInv, [Next]_vars, setBacks' = 0 PROVE setBacks = 0 /\ ~SetBack
<1>1. setBacks \in Nat
  BY Bounds DEF RowsInv, TypeOK
<1>2. SetBack => setBacks' = setBacks + 1
  BY DEF SetBack
<1>3. ~SetBack => setBacks' = setBacks
  <2>1. ASSUME NEW k \in Keys, Fold(k) \/ FlushNext(k) PROVE setBacks' = setBacks
    BY <2>1 DEF Fold, FlushNext, timeVars
  <2>2. ASSUME NEW w \in writes, WriteStep(w) PROVE setBacks' = setBacks
    BY <2>2 DEF WriteStep, Select, Commit, WriteFails, timeVars
  <2>3. ASSUME Tick \/ Prune \/ Stopped \/ UNCHANGED vars PROVE setBacks' = setBacks
    BY <2>3 DEF Tick, Prune, Stopped, vars, timeVars
  <2>4. ASSUME Sweep \/ Starts \/ Stop PROVE setBacks' = setBacks
    BY <2>4 DEF Sweep, Starts, Stop, timeVars
  <2>5. ASSUME NEW acc \in toWrite, StopWritesNext(acc) PROVE setBacks' = setBacks
    BY <2>5 DEF StopWritesNext, timeVars
  <2> QED BY <2>1, <2>2, <2>3, <2>4, <2>5
          DEF Next, Sweeping, Stopping, Restart, Crash
<1> QED BY <1>1, <1>2, <1>3

LEMMA LedgerKept ==
    ASSUME RowsInv, LedgerInv, [Next]_vars PROVE LedgerInv'
<1>1. RowsInv' /\ StopPlaces /\ StopPlaces'
  BY Preserved, StopPlacesKept DEF LedgerInv
<1>2. ASSUME setBacks' = 0 PROVE OrderInv'
  <2>1. OrderInv /\ ~SetBack
    BY <1>2, SetBackStays DEF LedgerInv
  <2>2. CASE Stopped \/ UNCHANGED vars
    BY <2>1, <2>2, SameOrder DEF Stopped, vars, timeVars, memoryVars
  <2>3. ASSUME NEW w \in writes, WriteStep(w) PROVE OrderInv'
    BY <2>1, <2>3, SelectOrder, CommitOrder, FailsOrder DEF WriteStep
  <2>4. CASE Stopping
    BY <1>1, <2>1, <2>2, <2>4, StopWritesOrder DEF Stopping
  <2>5. CASE Restart \/ Crash
    BY <2>1, <2>5, StartsOrder DEF Restart, Crash
  <2>6. CASE Tick \/ Sweeping \/ Prune \/ Stop \/ \E k \in Keys : Fold(k)
    BY <1>1, <2>1, <2>6, TickOrder, SweepingOrder, PruneOrder, StopOrder, FoldOrder
  <2> QED BY <2>1, <2>2, <2>3, <2>4, <2>5, <2>6 DEF Next
<1> QED BY <1>1, <1>2 DEF LedgerInv

LEMMA LedgerInitially ==
    ASSUME Init PROVE LedgerInv
<1>1. /\ writes = {} /\ due = {} /\ toWrite = {} /\ \A k \in Keys : ~IsOpen(k)
      /\ \A p \in Places : rows[p] = NoRow
  BY ClosedIs DEF Init, IsOpen
<1> QED BY <1>1 DEF LedgerInv, StopPlaces, OrderInv, Began, Popped, Pairs, ReadsLast, FirstOnly

(* Unless the clock was set back, no row is read by two writes that both   *)
(* store it: the inductive invariant under KeepsLedger.                    *)
THEOREM LedgerInvariant == Init /\ [][Next]_vars => []LedgerInv
<1>1. Init => LedgerInv
  BY LedgerInitially
<1>2. RowsInv /\ LedgerInv /\ [Next]_vars => LedgerInv'
  BY LedgerKept
<1> QED BY <1>1, <1>2, RowsInvariant, PTL

-----------------------------------------------------------------------------
(* What the ledger sees.                                                   *)

Settled == (1 .. folded) \ InMemory
Recorded == [p \in Places |-> rows[p].windows]

LEMMA Seen ==
    ASSUME RowsInv
    PROVE  /\ InMemory = (1 .. folded) \ (Stands \cup Dropped)
           /\ Settled = Stands \cup Dropped /\ InMemory \cap Settled = {}
BY DEF RowsInv, FatesApart, Settled

LEMMA SeenNext ==
    ASSUME RowsInv'
    PROVE  /\ InMemory' = (1 .. folded') \ (Stands' \cup Dropped')
           /\ Settled' = Stands' \cup Dropped' /\ InMemory' \cap Settled' = {}
BY DEF RowsInv, FatesApart, Settled

(* No window moves: the ledger sees nothing.                               *)
LEMMA Unseen ==
    ASSUME RowsInv, RowsInv', UNCHANGED <<setBacks, folded, rows, lostVars>>
    PROVE  UNCHANGED Ledger!vars
<1>1. Stands' = Stands /\ Dropped' = Dropped
  BY DEF Stands, Dropped, lostVars
<1>2. InMemory' = InMemory /\ Settled' = Settled
  BY <1>1, Seen, SeenNext
<1> QED BY <1>2 DEF Ledger!vars, Settled

(* Windows leave memory for good.                                          *)
LEMMA Lost ==
    ASSUME RowsInv, RowsInv', NEW X \in SUBSET InMemory,
           Dropped' = Dropped \cup X, UNCHANGED <<setBacks, folded, rows>>
    PROVE  Ledger!Drop \/ UNCHANGED Ledger!vars
<1>1. Stands' = Stands
  BY DEF Stands
<1>2. InMemory' = InMemory \ X /\ Settled' = Settled \cup X
  BY <1>1, Seen, SeenNext
<1>3. CASE X = {}
  BY <1>2, <1>3 DEF Ledger!vars, Settled
<1>4. CASE X # {}
  <2>1. InMemory' # InMemory /\ InMemory' \subseteq InMemory
        /\ InMemory \ InMemory' = X
    BY <1>2, <1>4
  <2> QED BY <1>2, <2>1 DEF Ledger!Drop, Ledger!Settle, Settled
<1> QED BY <1>3, <1>4

(* A write that is stored: its windows leave memory for its row.           *)
LEMMA StoredSeen ==
    ASSUME RowsInv, RowsInv', LedgerInv, NEW w \in writes, w.at = "commit",
           ~Refused(w), Stored(w),
           UNCHANGED <<setBacks, folded, failed, cut, crashed, expired>>
    PROVE  \E p \in Places : Ledger!Record(p)
<1>0. PICK p \in Places : p = w.acc.place
  BY WritesBegan
<1>1. PICK row : row = merge_into(w.saw, RowOf(w.acc.windows))
  OBVIOUS
<1>2. PICK X \in SUBSET InMemory : X = w.acc.windows /\ X # {}
  BY WriteHas
<1>3. row.windows = w.saw.windows \cup X
  BY <1>1, <1>2, Merged
<1>4. rows'[p] = row /\ \A q \in Places : q # p => rows'[q] = rows[q]
  BY <1>0, <1>1 DEF Stored, RowsInv, TypeOK
<1>5. Stands' \cup Dropped' = Stands \cup Dropped \cup X
  <2>1. Stands' \cup overwritten' = Stands \cup overwritten \cup X
    BY <1>2, StoredKeeps
  <2> QED BY <2>1 DEF Dropped
<1>6. InMemory' = InMemory \ X /\ Settled' = Settled \cup X
  BY <1>5, Seen, SeenNext
<1>7. InMemory' # InMemory /\ InMemory' \subseteq InMemory /\ InMemory \ InMemory' = X
  BY <1>2, <1>6
<1>8. Ledger!Settle
  BY <1>6, <1>7 DEF Ledger!Settle, Settled
<1>9. Recorded' = [Recorded EXCEPT ![p] = Recorded'[p]]
  BY <1>4 DEF Recorded
<1>10. X \subseteq Recorded'[p] /\ Recorded'[p] \subseteq Settled'
  <2>1. Recorded'[p] = row.windows /\ row.windows \subseteq Windows
    BY <1>4 DEF Recorded, RowsInv, TypeOK, Rows
  <2>2. row.windows \subseteq Stands'
    BY <1>4, <2>1 DEF Stands
  <2> QED BY <1>3, <2>1, <2>2, SeenNext
<1>11. ~(setBacks > 0) => Recorded'[p] = Recorded[p] \cup X
  <2>1. ASSUME ~(setBacks > 0) PROVE row.windows = rows[p].windows \cup X
    <3>1. setBacks = 0
      BY <2>1, Bounds DEF RowsInv, TypeOK
    <3>2. w.saw = rows[p]
      BY <1>0, <3>1 DEF LedgerInv, OrderInv, ReadsLast
    <3> QED BY <1>3, <3>2
  <2> QED BY <1>4, <2>1 DEF Recorded
<1> QED BY <1>7, <1>8, <1>9, <1>10, <1>11 DEF Ledger!Record, Settled, Recorded

LEMMA PruneSeen ==
    ASSUME RowsInv, RowsInv', Prune PROVE Ledger!Expire
<1>1. /\ expired' = expired \cup UNION {rows[p].windows : p \in {q \in Places : Expired(q)}}
      /\ rows' = [p \in Places |-> IF Expired(p) THEN NoRow ELSE rows[p]]
      /\ UNCHANGED <<setBacks, folded, failed, cut, crashed, overwritten>>
  BY DEF Prune, timeVars
<1>2. \A p \in Places : rows'[p] = rows[p] \/ rows'[p] = NoRow
  BY <1>1
<1>3. \A p \in Places : Recorded'[p] \in {Recorded[p], {}}
  BY <1>2 DEF Recorded, NoRow
<1>4. \A p \in Places : rows[p].windows \subseteq Windows
  BY RowHas
<1>5. Stands' \cup expired' = Stands \cup expired
  <2>1. \A x \in Stands' : x \in Stands
    BY <1>2 DEF Stands, NoRow
  <2>2. \A x \in Stands : x \in Stands' \/ x \in expired'
    <3>1. ASSUME NEW x \in Stands PROVE x \in Stands' \/ x \in expired'
      <4>1. PICK p \in Places : x \in rows[p].windows
        BY DEF Stands
      <4>2. CASE Expired(p)
        BY <1>1, <4>1, <4>2
      <4>3. CASE ~Expired(p)
        <5>1. rows'[p] = rows[p]
          BY <1>1, <4>3
        <5> QED BY <1>4, <4>1, <5>1 DEF Stands
      <4> QED BY <4>2, <4>3
    <3> QED BY <3>1
  <2>3. \A x \in expired' : x \in expired \/ x \in Stands
    BY <1>1, <1>4 DEF Stands
  <2> QED BY <1>1, <2>1, <2>2, <2>3
<1>6. Stands' \cup Dropped' = Stands \cup Dropped
  BY <1>1, <1>5 DEF Dropped
<1>7. InMemory' = InMemory /\ Settled' = Settled
  BY <1>1, <1>6, Seen, SeenNext
<1> QED BY <1>1, <1>3, <1>7 DEF Ledger!Expire, Settled, Recorded

LEMMA FoldSeen ==
    ASSUME RowsInv, RowsInv', NEW k \in Keys, Fold(k)
    PROVE  Ledger!Accept \/ UNCHANGED Ledger!vars
<1>1. /\ folded + 1 \in Windows /\ UNCHANGED <<setBacks, rows, lostVars>>
      /\ folded' = folded \/ folded' = folded + 1
  BY DEF Fold, timeVars, FoldLate, Joins, RollsOver, Opens
<1>2. CASE folded' = folded
  BY <1>1, <1>2, Unseen
<1>3. CASE folded' = folded + 1
  <2>1. PICK x \in Windows : x = folded + 1
    BY <1>1
  <2>2. x \notin InMemory \cup Stands \cup Dropped /\ 1 .. x = (1 .. folded) \cup {x}
    BY <2>1, NextIsNew
  <2>3. Stands' = Stands /\ Dropped' = Dropped
    BY <1>1 DEF Stands, Dropped, lostVars
  <2>4. InMemory' = InMemory \cup {x} /\ Settled' = Settled /\ x \notin InMemory \cup Settled
    <3>1. Settled = Stands \cup Dropped /\ Settled' = Stands \cup Dropped
      BY <2>3, Seen, SeenNext
    <3>2. /\ InMemory = (1 .. folded) \ (Stands \cup Dropped)
          /\ InMemory' = (1 .. x) \ (Stands \cup Dropped)
      BY <1>3, <2>1, <2>3, Seen, SeenNext
    <3> QED BY <2>2, <3>1, <3>2
  <2> QED BY <1>1, <2>4 DEF Ledger!Accept, Settled
<1> QED BY <1>1, <1>2, <1>3

LEMMA StopSeen ==
    ASSUME RowsInv, RowsInv', LedgerInv, Stop
    PROVE  [Ledger!Next]_Ledger!vars
<1>0. PICK swept : swept = {w \in writes : w.by = "sweeper"}
  OBVIOUS
<1>1. UNCHANGED <<setBacks, folded, failed, crashed, expired>>
  BY DEF Stop, timeVars
<1>2. CASE cut' = cut \cup UNION {w.acc.windows : w \in swept} /\ UNCHANGED <<rows, overwritten>>
  <2>1. PICK X : X = UNION {w.acc.windows : w \in swept}
    OBVIOUS
  <2>2. X \in SUBSET InMemory
    BY <1>0, <2>1, WriteHas
  <2>3. Dropped' = Dropped \cup X
    BY <1>1, <1>2, <2>1 DEF Dropped
  <2> QED BY <1>1, <1>2, <2>2, <2>3, Lost DEF Ledger!Next
<1>3. CASE \E w \in swept : w.at = "commit" /\ ~Refused(w) /\ Stored(w) /\ UNCHANGED cut
  <2>1. PICK w \in writes : w.at = "commit" /\ ~Refused(w) /\ Stored(w) /\ UNCHANGED cut
    BY <1>0, <1>3
  <2> QED BY <1>1, <2>1, StoredSeen DEF Ledger!Next
<1> QED BY <1>0, <1>2, <1>3 DEF Stop

LEMMA WriteSeen ==
    ASSUME RowsInv, RowsInv', LedgerInv, NEW w \in writes, WriteStep(w)
    PROVE  [Ledger!Next]_Ledger!vars
<1>1. CASE Select(w)
  BY <1>1, Unseen DEF Select, timeVars
<1>2. CASE Commit(w)
  BY <1>2, StoredSeen DEF Commit, timeVars, Ledger!Next
<1>3. CASE WriteFails(w)
  <2>1. w.acc.windows \in SUBSET InMemory
    BY WriteHas
  <2>2. Dropped' = Dropped \cup w.acc.windows /\ UNCHANGED <<setBacks, folded, rows>>
    BY <1>3 DEF WriteFails, Dropped, timeVars
  <2> QED BY <2>1, <2>2, Lost DEF Ledger!Next
<1> QED BY <1>1, <1>2, <1>3 DEF WriteStep

LEMMA StepSeen ==
    ASSUME RowsInv, RowsInv', LedgerInv, [Next]_vars
    PROVE  [Ledger!Next]_Ledger!vars
<1>1. CASE Tick \/ Stopped \/ Sweep \/ UNCHANGED vars
  BY <1>1, Unseen DEF Tick, Stopped, Sweep, vars, timeVars
<1>2. ASSUME NEW k \in Keys, FlushNext(k) PROVE UNCHANGED Ledger!vars
  BY <1>2, Unseen DEF FlushNext, timeVars
<1>3. ASSUME NEW acc \in toWrite, StopWritesNext(acc) PROVE UNCHANGED Ledger!vars
  BY <1>3, Unseen DEF StopWritesNext, timeVars
<1>4. CASE SetBack
  <2>1. setBacks' > 0
    BY <1>4, Bounds DEF SetBack, RowsInv, TypeOK
  <2>2. Stands' = Stands /\ Dropped' = Dropped /\ UNCHANGED <<folded, rows>>
    BY <1>4 DEF SetBack, Stands, Dropped, lostVars
  <2>3. InMemory' = InMemory /\ Settled' = Settled
    BY <2>2, Seen, SeenNext
  <2>4. Ledger!Disturb
    BY <2>1, <2>2, <2>3 DEF Ledger!Disturb, Settled
  <2> QED BY <2>4 DEF Ledger!Next
<1>5. CASE Restart \/ Crash
  <2>1. /\ crashed' = crashed \cup InMemory
        /\ UNCHANGED <<setBacks, folded, rows, failed, cut, expired, overwritten>>
    BY <1>5 DEF Restart, Crash, Starts, timeVars
  <2>2. Dropped' = Dropped \cup InMemory
    BY <2>1 DEF Dropped
  <2> QED BY <2>1, <2>2, Lost DEF Ledger!Next
<1>6. CASE Prune
  BY <1>6, PruneSeen DEF Ledger!Next
<1>7. ASSUME NEW k \in Keys, Fold(k) PROVE [Ledger!Next]_Ledger!vars
  BY <1>7, FoldSeen DEF Ledger!Next
<1> QED BY <1>1, <1>2, <1>3, <1>4, <1>5, <1>6, <1>7, StopSeen, WriteSeen
        DEF Next, Sweeping, Stopping

(* The recorder implements the ledger: a window is accepted once, and then *)
(* stands in the one row of its bucket or is dropped for good; a row only  *)
(* gains windows until it expires, so no two of the writes that read the   *)
(* same row both store it, as long as the clock was never set back.        *)
THEOREM KeepsLedger == Init /\ [][Next]_vars => KeepsTheLedger
<1>1. Init => Ledger!Init
  <2>1. ASSUME Init PROVE Ledger!Init
    <3>1. RowsInv /\ folded = 0 /\ setBacks = 0 /\ \A p \in Places : rows[p] = NoRow
      BY <2>1, Initially DEF Init
    <3>2. 1 .. folded = {}
      BY <3>1
    <3>3. InMemory = {} /\ (1 .. folded) \ InMemory = {}
      BY <3>1, <3>2, Seen
    <3>4. ~(setBacks > 0)
      BY <3>1
    <3>5. [p \in Places |-> rows[p].windows] = [p \in Places |-> {}]
      BY <3>1 DEF NoRow
    <3> QED BY <3>3, <3>4, <3>5 DEF Ledger!Init
  <2> QED BY <2>1
<1>2. RowsInv /\ RowsInv' /\ LedgerInv /\ [Next]_vars => [Ledger!Next]_Ledger!vars
  BY StepSeen
<1> QED BY <1>1, <1>2, RowsInvariant, LedgerInvariant, PTL
        DEF KeepsTheLedger, Ledger!Spec

-----------------------------------------------------------------------------
(* The supervisor script.                                                  *)

\* Of the values the supervisor keeps, and of what it knows.
ScriptTypes ==
    /\ process \in [Processes -> {"gone", "booting", "serving", "hung"}]
    /\ front \in {"down", "ours", "theirs"}
    /\ status \in [Cameras -> {"online", "offline", "disabled"}]
    /\ step \in Script!Running \cup {"stopping", "stopped", "closed"}
    /\ child \in Processes \cup {Script!NoChild}
    /\ offline \in [Cameras -> 0 .. CameraGrace \cup {Script!None}]
    /\ rested \in [Cameras -> 0 .. CameraRetryEvery]
    /\ raced \in BOOLEAN

(* No backend is suspected for longer than it was silent.                  *)
SuspectedInTime ==
    /\ silence \in 0 .. UnhealthyRestart
    /\ unhealthy \in 0 .. UnhealthyRestart \cup {Script!None}
    /\ unhealthy # Script!None => unhealthy <= silence

OneListens == Script!AtMostOne(Script!Listeners)

(* Unless a second backend was started beside a living one, at most one is *)
(* alive, and it is the child if there ever was one.                       *)
OneLives ==
    ~raced => /\ Script!AtMostOne(Script!Alive)
              /\ child # Script!NoChild => Script!Alive \subseteq {child}

ScriptInv == ScriptTypes /\ SuspectedInTime /\ OneListens /\ OneLives

LEMMA ScriptBounds ==
    /\ Script!NoChild \notin Processes
    /\ UnhealthyRestart \in Nat /\ CameraGrace \in Nat /\ CameraRetryEvery \in Nat
    /\ Script!None \notin Nat
BY ScriptAssumption DEF Script!ConstantsAssumption, Script!None

LEMMA ScriptTyped == ScriptInv => Script!TypeOK
<1> SUFFICES ASSUME ScriptInv PROVE Script!TypeOK
  OBVIOUS
<1> QED BY DEF ScriptInv, ScriptTypes, SuspectedInTime, OneListens, Script!AtMostOne, Script!TypeOK

LEMMA ScriptInitially == Script!Init => ScriptInv
<1> SUFFICES ASSUME Script!Init PROVE ScriptInv
  OBVIOUS
<1>1. PICK p \in Processes, s \in {"gone", "booting", "serving", "hung"} :
          process = [q \in Processes |-> IF q = p THEN s ELSE "gone"]
  BY DEF Script!Init
<1>2. ScriptTypes
  <2>1. process \in [Processes -> {"gone", "booting", "serving", "hung"}]
    BY <1>1
  <2>2. status \in [Cameras -> {"online", "offline", "disabled"}]
    BY DEF Script!Init
  <2>3. offline \in [Cameras -> 0 .. CameraGrace \cup {Script!None}]
        /\ rested \in [Cameras -> 0 .. CameraRetryEvery]
    BY ScriptBounds DEF Script!Init
  <2> QED BY <2>1, <2>2, <2>3 DEF Script!Init, ScriptTypes, Script!Running
<1>3. SuspectedInTime
  BY ScriptBounds DEF Script!Init, SuspectedInTime
<1>4. Script!Alive \subseteq {p} /\ Script!Listeners \subseteq {p}
  BY <1>1 DEF Script!Alive, Script!Listeners
<1>5. OneListens /\ OneLives
  BY <1>4 DEF OneListens, OneLives, Script!AtMostOne, Script!Init
<1> QED BY <1>2, <1>3, <1>5 DEF ScriptInv

(* Processes that stay as they are keep to this.                           *)
LEMMA ProcessesAlone ==
    ASSUME ScriptInv, UNCHANGED <<process, child, raced>>
    PROVE  OneListens' /\ OneLives'
BY DEF ScriptInv, OneListens, OneLives, Script!AtMostOne, Script!Listeners, Script!Alive

LEMMA BootsKeeps ==
    ASSUME ScriptInv, NEW p \in Processes, Script!Boots(p) \/ Script!Falters(p)
    PROVE  ScriptInv'
<1>1. PICK s \in {"gone", "serving", "hung"} : process' = [process EXCEPT ![p] = s]
  BY DEF Script!Boots, Script!Falters, Script!Becomes
<1>2. /\ process[p] # "gone" /\ UNCHANGED <<front, status, step, child, unhealthy, offline,
                                            rested, silence, raced>>
      /\ s # "gone" => p \in Script!Listeners \/ Script!Listeners = {}
  BY <1>1 DEF Script!Boots, Script!Falters, Script!Becomes, Script!Listeners,
     ScriptInv, ScriptTypes
<1>3. Script!Alive' \subseteq Script!Alive
  BY <1>1, <1>2 DEF Script!Alive, ScriptInv, ScriptTypes
<1>4. Script!Listeners' \subseteq Script!Listeners
      \/ (Script!Listeners = {} /\ Script!Listeners' \subseteq {p})
  BY <1>1, <1>2 DEF Script!Listeners, ScriptInv, ScriptTypes
<1>5. OneListens'
  BY <1>4 DEF ScriptInv, OneListens, Script!AtMostOne
<1>6. OneLives'
  BY <1>2, <1>3 DEF ScriptInv, OneLives, Script!AtMostOne
<1>7. ScriptTypes'
  BY <1>1, <1>2 DEF ScriptInv, ScriptTypes
<1> QED BY <1>2, <1>5, <1>6, <1>7 DEF ScriptInv, SuspectedInTime

(* start_backend: of those that stay alive none is new but the child.      *)
LEMMA StartKeeps ==
    ASSUME ScriptInv, NEW living \in SUBSET Script!Alive, Script!Start(living),
           raced' \in BOOLEAN, ~raced' => living = {},
           UNCHANGED <<front, status, offline, rested>>,
           step' \in Script!Running
    PROVE  ScriptInv'
<1>1. PICK p \in Processes \ living :
          /\ process' = [q \in Processes |-> IF q = p THEN "booting"
                             ELSE IF q \in living THEN process[q] ELSE "gone"]
          /\ child' = p /\ unhealthy' = Script!None /\ silence' = 0
  BY DEF Script!Start
<1>2. ScriptTypes'
  BY <1>1 DEF ScriptInv, ScriptTypes
<1>3. SuspectedInTime'
  BY <1>1, ScriptBounds DEF SuspectedInTime
<1>4. Script!Listeners' \subseteq Script!Listeners /\ Script!Alive' \subseteq living \cup {p}
  BY <1>1 DEF Script!Listeners, Script!Alive
<1>5. OneListens'
  BY <1>4 DEF ScriptInv, OneListens, Script!AtMostOne
<1>6. OneLives'
  BY <1>1, <1>4 DEF OneLives, Script!AtMostOne
<1> QED BY <1>2, <1>3, <1>5, <1>6 DEF ScriptInv

LEMMA CheckBackendKeeps ==
    ASSUME ScriptInv, Script!CheckBackend PROVE ScriptInv'
<1>1. /\ step' \in Script!Running /\ UNCHANGED <<front, status, offline, rested>>
  BY DEF Script!CheckBackend, Script!Running
<1>2. ASSUME UNCHANGED <<process, child, raced>>, SuspectedInTime' PROVE ScriptInv'
  BY <1>1, <1>2, ProcessesAlone DEF ScriptInv, ScriptTypes
<1>3. CASE Script!NobodyListens
  <2>1. CASE Script!ChildLives /\ UNCHANGED <<process, child, unhealthy, silence, raced>>
    BY <1>2, <2>1 DEF ScriptInv, SuspectedInTime
  <2>2. CASE Script!Start(Script!Alive) /\ raced' = (raced \/ Script!Alive # {})
    <3>1. raced' \in BOOLEAN /\ (~raced' => Script!Alive = {})
      BY <2>2
    <3> QED BY <1>1, <2>2, <3>1, StartKeeps
  <2> QED BY <1>3, <2>1, <2>2 DEF Script!NobodyListens
<1>4. CASE Script!BackendAnswers
  <2>1. SuspectedInTime'
    BY <1>4, ScriptBounds DEF Script!BackendAnswers, SuspectedInTime
  <2> QED BY <1>2, <1>4, <2>1 DEF Script!BackendAnswers
<1>5. CASE Script!BackendIsSilent
  <2>1. PICK ended : ended = IF child # Script!NoChild THEN {child} ELSE Script!Listeners
    OBVIOUS
  <2>2. CASE Script!Start(Script!Alive \ ended) /\ UNCHANGED raced
    <3>1. ~raced => Script!Alive \ ended = {}
      <4>1. Script!Listeners # {} /\ Script!Listeners \subseteq Script!Alive
        BY <1>5 DEF Script!BackendIsSilent, Script!Listeners, Script!Alive
      <4> QED BY <2>1, <4>1 DEF ScriptInv, OneLives, Script!AtMostOne
    <3>2. raced' \in BOOLEAN /\ Script!Alive \ ended \in SUBSET Script!Alive
      BY <2>2 DEF ScriptInv, ScriptTypes
    <3> QED BY <1>1, <2>2, <3>1, <3>2, StartKeeps
  <2>3. CASE unhealthy' = Script!Age(unhealthy) /\ UNCHANGED <<process, child, silence, raced>>
    <3>1. SuspectedInTime'
      BY <2>3, ScriptBounds DEF ScriptInv, SuspectedInTime, Script!Age
    <3> QED BY <1>2, <2>3, <3>1
  <2> QED BY <1>5, <2>1, <2>2, <2>3 DEF Script!BackendIsSilent
<1> QED BY <1>3, <1>4, <1>5 DEF Script!CheckBackend

(* check_cameras, and the clocks of a round.                               *)
LEMMA ClocksKeep ==
    ASSUME ScriptInv, Script!CheckCameras \/ Script!Rest PROVE ScriptInv'
<1>1. CASE Script!CheckCameras
  <2>1. offline' \in [Cameras -> 0 .. CameraGrace \cup {Script!None}]
        /\ rested' \in [Cameras -> 0 .. CameraRetryEvery]
    <3>1. ASSUME NEW last, Script!Retry(last)
          PROVE  offline' \in [Cameras -> 0 .. CameraGrace \cup {Script!None}]
                 /\ rested' \in [Cameras -> 0 .. CameraRetryEvery]
      BY <3>1, ScriptBounds DEF Script!Retry, Script!Age, ScriptInv, ScriptTypes
    <3> QED BY <1>1, <3>1 DEF Script!CheckCameras, ScriptInv, ScriptTypes
  <2>2. step' \in Script!Running /\ UNCHANGED <<process, front, status, child, unhealthy, silence, raced>>
    BY <1>1 DEF Script!CheckCameras, Script!Running
  <2> QED BY <2>1, <2>2, ProcessesAlone DEF ScriptInv, ScriptTypes, SuspectedInTime
<1>2. CASE Script!Rest
  <2>1. \A cap \in Nat : \A since \in 0 .. cap \cup {Script!None} :
            Script!Older(since, cap) \in 0 .. cap \cup {Script!None}
    BY DEF Script!Older
  <2>2. \A cap \in Nat : \A since \in 0 .. cap : Script!Older(since, cap) \in 0 .. cap
    BY DEF Script!Older, Script!None
  <2>3. offline' \in [Cameras -> 0 .. CameraGrace \cup {Script!None}]
    BY <1>2, <2>1, ScriptBounds DEF Script!Rest, ScriptInv, ScriptTypes
  <2>4. rested' \in [Cameras -> 0 .. CameraRetryEvery]
    BY <1>2, <2>2, ScriptBounds DEF Script!Rest, ScriptInv, ScriptTypes
  <2>5. SuspectedInTime'
    BY <1>2, ScriptBounds DEF Script!Rest, ScriptInv, SuspectedInTime, Script!Older, Script!None
  <2>6. step' \in Script!Running /\ UNCHANGED <<process, front, status, child, raced>>
    BY <1>2 DEF Script!Rest, Script!Running, Script!worldVars
  <2> QED BY <2>3, <2>4, <2>5, <2>6, ProcessesAlone DEF ScriptInv, ScriptTypes
<1> QED BY <1>1, <1>2

LEMMA StopKeepsProcesses ==
    ASSUME ScriptInv, Script!Stop PROVE ScriptInv'
<1>1. /\ step' = "stopped" /\ front' \in {front, "down"}
      /\ UNCHANGED <<status, child, unhealthy, offline, rested, silence, raced>>
      /\ process' \in [Processes -> {"gone", "booting", "serving", "hung"}]
      /\ \A p \in Processes : process'[p] \in {"gone", process[p]}
  BY DEF Script!Stop, ScriptInv, ScriptTypes
<1>2. Script!Listeners' \subseteq Script!Listeners /\ Script!Alive' \subseteq Script!Alive
  BY <1>1 DEF Script!Listeners, Script!Alive
<1>3. OneListens' /\ OneLives'
  BY <1>1, <1>2 DEF ScriptInv, OneListens, OneLives, Script!AtMostOne
<1> QED BY <1>1, <1>3 DEF ScriptInv, ScriptTypes, SuspectedInTime

LEMMA OpensKeeps ==
    ASSUME ScriptInv, Script!Opens PROVE ScriptInv'
<1>1. /\ process' = process /\ status' = status /\ front' \in {front, "theirs"}
      /\ Script!AtMostOne(Script!Alive) /\ Script!Opened
  BY DEF Script!Opens
<1>2. ScriptTypes' /\ SuspectedInTime'
  <2>1. offline' \in [Cameras -> 0 .. CameraGrace \cup {Script!None}]
        /\ rested' \in [Cameras -> 0 .. CameraRetryEvery]
    BY <1>1, ScriptBounds DEF Script!Opened
  <2>2. ScriptTypes'
    BY <1>1, <2>1 DEF ScriptInv, ScriptTypes, Script!Opened, Script!Running
  <2>3. SuspectedInTime'
    BY <1>1, ScriptBounds DEF SuspectedInTime, Script!Opened
  <2> QED BY <2>2, <2>3
<1>3. OneLives'
  BY <1>1 DEF OneLives, Script!AtMostOne, Script!Alive, Script!Opened
<1>4. OneListens'
  BY <1>1 DEF ScriptInv, OneListens, Script!AtMostOne, Script!Listeners
<1> QED BY <1>2, <1>3, <1>4 DEF ScriptInv

LEMMA ScriptKept ==
    ASSUME ScriptInv, [Script!Next]_Script!vars PROVE ScriptInv'
<1>1. ASSUME NEW p \in Processes, Script!Boots(p) \/ Script!Falters(p) PROVE ScriptInv'
  BY <1>1, BootsKeeps
<1>2. ASSUME UNCHANGED <<process, child, raced, unhealthy, silence, offline, rested>>,
             front' \in {front, "ours"},
             status' \in [Cameras -> {"online", "offline", "disabled"}],
             step' \in Script!Running \cup {"stopping", "stopped", "closed"}
      PROVE  ScriptInv'
  BY <1>2, ProcessesAlone DEF ScriptInv, ScriptTypes, SuspectedInTime
<1>3. ASSUME NEW c \in Cameras, Script!CameraMoves(c) PROVE ScriptInv'
  BY <1>2, <1>3 DEF Script!CameraMoves, ScriptInv, ScriptTypes
<1>4. CASE Script!CheckFrontend
  BY <1>2, <1>4 DEF Script!CheckFrontend, Script!Running, ScriptInv, ScriptTypes
<1>5. CASE Script!StopRequested \/ Script!WindowCloses
  BY <1>2, <1>5 DEF Script!StopRequested, Script!WindowCloses, Script!worldVars,
     ScriptInv, ScriptTypes
<1>6. CASE UNCHANGED Script!vars
  BY <1>2, <1>6 DEF Script!vars, Script!worldVars, ScriptInv, ScriptTypes
<1> QED BY <1>1, <1>3, <1>4, <1>5, <1>6, CheckBackendKeeps, ClocksKeep,
           StopKeepsProcesses, OpensKeeps DEF Script!Next

LEMMA PatientStep == ScriptInv => Script!IsPatient
<1> SUFFICES ASSUME ScriptInv, NEW p \in Script!Listeners, Script!CheckBackend,
                    process'[p] # process[p]
             PROVE  silence >= UnhealthyRestart
  BY DEF Script!IsPatient
<1>1. Script!BackendIsSilent /\ process' # process
  BY DEF Script!CheckBackend, Script!NobodyListens, Script!BackendAnswers
<1>2. Script!Age(unhealthy) >= UnhealthyRestart
  BY <1>1 DEF Script!BackendIsSilent
<1> QED BY <1>2, ScriptBounds DEF ScriptInv, SuspectedInTime, Script!Age

LEMMA StopStep == ScriptInv => Script!StopLeavesNothing
<1> SUFFICES ASSUME ScriptInv, Script!Stop
             PROVE  front' # "ours" /\ (raced \/ Script!Listeners' = {})
  BY DEF Script!StopLeavesNothing
<1>1. front' # "ours"
  BY DEF Script!Stop
<1>2. ASSUME ~raced, NEW p \in Script!Listeners' PROVE FALSE
  <2>1. /\ p \in Processes /\ process'[p] # "gone"
        /\ process' = [q \in Processes |->
               IF (Script!ChildLives /\ q = child)
                  \/ (child = Script!NoChild /\ q \in Script!Listeners)
               THEN "gone" ELSE process[q]]
    BY <1>2 DEF Script!Listeners, Script!Stop
  <2>2. ~(Script!ChildLives /\ p = child) /\ p \in Script!Listeners
    BY <1>2, <2>1 DEF Script!Listeners
  <2>3. child # Script!NoChild /\ p \in Script!Alive
    BY <2>1, <2>2 DEF Script!Listeners, Script!Alive
  <2>4. p = child
    BY <1>2, <2>3 DEF ScriptInv, OneLives, Script!AtMostOne
  <2> QED BY <2>2, <2>3, <2>4 DEF Script!ChildLives, Script!Alive
<1> QED BY <1>1, <1>2

(* The supervisor (check_backend, kill_pid, start_backend and the end of   *)
(* main in scripts/surgeguard_supervisor.py) ends only a backend that has  *)
(* been silent for its 45 s, and a stop leaves none listening, unless a    *)
(* second one was started beside a backend that was still booting.         *)
THEOREM ProcessesKept == Script!Init /\ [][Script!Next]_Script!vars => ProcessesAreKept
<1>1. ScriptInv /\ [Script!Next]_Script!vars => ScriptInv'
  BY ScriptKept
<1> QED BY <1>1, ScriptInitially, ScriptTyped, PatientStep, StopStep, PTL
        DEF ProcessesAreKept, Script!ProcessesAreKept

-----------------------------------------------------------------------------
(* The step of one is a stutter of the other.                              *)
LEMMA SubjectsMove ==
    [MCNext]_<<subject, vars, scriptVars>>
        => [Next]_vars /\ [Script!Next]_Script!vars
<1>1. UNCHANGED scriptVars => UNCHANGED Script!vars
  BY DEF scriptVars, Script!vars, Script!worldVars
<1>2. UNCHANGED <<subject, vars, scriptVars>> => UNCHANGED vars /\ UNCHANGED scriptVars
  OBVIOUS
<1> QED BY <1>1, <1>2 DEF MCNext

(* What is recorded and what is supervised never disturb each other: all   *)
(* that was proved of the one and of the other holds throughout.           *)
THEOREM PlatformThroughout ==
    MCSpec => []RowsAreRight /\ KeepsTheLedger /\ ProcessesAreKept
<1>1. MCSpec => (Init /\ [][Next]_vars) /\ (Script!Init /\ [][Script!Next]_Script!vars)
  BY SubjectsMove, PTL DEF MCSpec, MCInit
<1> QED BY <1>1, HistoryAddsUp, KeepsLedger, ProcessesKept, PTL
=============================================================================
