------------------------ MODULE CommandCenterLinkProofs ------------------------
(***************************************************************************)
(* Theorems about CommandCenterLink, for every number of phases, entries   *)
(* and messages on their way: a client with nothing on its way to it       *)
(* agrees with the services; and about the site's report, whose figures    *)
(* and alerts those messages carry.                                        *)
(***************************************************************************)
EXTENDS MCCommandCenterLink, FiniteSetTheorems, SequenceTheorems, TLAPS

(* Messages about the first n entries; only the outbox has snapshots.      *)
Updates(n) ==
    [type : {"state"}, phase : Phases] \cup [type : {"report"}]
    \cup [type : {"entry"}, entry : 1 .. n] \cup [type : {"health"}, health : Healths]
Messages(n) ==
    Updates(n) \cup [type : {"snapshot"}, phase : Phases \cup {None},
                     entries : SUBSET (1 .. n), health : Healths]

(* What a message tells of the phase: nothing, or one; a snapshot whose    *)
(* camera section failed leaves it open.                                   *)
Tells(m) == m.type \in {"state", "snapshot"}
Says(m, p) == m.phase = p \/ (m.type = "snapshot" /\ m.phase = None)
Silent(s) == \A i \in 1 .. Len(s) : ~Tells(s[i])
LastSays(s, p) ==
    \A i \in 1 .. Len(s) :
        Tells(s[i]) /\ (\A j \in i + 1 .. Len(s) : ~Tells(s[j])) => Says(s[i], p)

(* What a message does to an entry shown: it brings it, or a snapshot      *)
(* without it drops it.                                                    *)
Brings(m, e) == (m.type = "entry" /\ m.entry = e) \/ (m.type = "snapshot" /\ e \in m.entries)
Drops(m, e) == m.type = "snapshot" /\ e \notin m.entries
Brought(s, e) == \E i \in 1 .. Len(s) : Brings(s[i], e)
NeverLost(s, e) ==
    \A i \in 1 .. Len(s) : Drops(s[i], e) => \E j \in i + 1 .. Len(s) : Brings(s[j], e)

Recent(e) == Cardinality({o \in entries : o > e}) < SnapshotLimit

QueueInv ==
    /\ phase \in Phases /\ health \in Healths /\ sequence \in 0 .. MaxEntries
    /\ entries \subseteq 1 .. sequence
    /\ dispatched \in Seq(Updates(sequence)) /\ sending \in Seq(Updates(sequence))
    /\ outbox \in Seq(Messages(sequence))
    /\ signature \in Healths \cup {None}
    /\ connected \in BOOLEAN /\ building \in BOOLEAN /\ told \in BOOLEAN
    /\ building => connected
    /\ ~connected => sending = <<>> /\ outbox = <<>>
    /\ shown \in [phase : Phases \cup {None}, entries : SUBSET (1 .. sequence),
                  health : Healths \cup {None}]

(* The last phase told is the phase.                                       *)
SpeaksTruth ==
    /\ LastSays(dispatched, phase)
    /\ Silent(dispatched) => LastSays(sending, phase)

ToldInv ==
    /\ SpeaksTruth
    /\ connected /\ ~building /\ Silent(dispatched) /\ Silent(sending) =>
          /\ LastSays(outbox, phase)
          /\ Silent(outbox) => ShowsPhase

(* A recent entry is on its way, or arrives and is not dropped again.      *)
Arrives(e) == (e \in shown.entries \/ Brought(outbox, e)) /\ NeverLost(outbox, e)
EntryInv ==
    connected /\ ~building =>
        \A e \in entries : Recent(e) =>
            Brought(dispatched, e) \/ Brought(sending, e) \/ Arrives(e)

IInv == QueueInv /\ ToldInv /\ EntryInv

-----------------------------------------------------------------------------
(* About queues of messages.                                               *)

LEMMA MessageIs ==
    ASSUME NEW n \in Nat, NEW m \in Messages(n)
    PROVE  /\ m.type = "state" => m.phase \in Phases
           /\ m.type = "entry" => m.entry \in 1 .. n
           /\ m.type = "health" => m.health \in Healths
           /\ m.type = "snapshot" => m.phase \in Phases \cup {None} /\ m.entries \in SUBSET (1 .. n)
                                     /\ m.health \in Healths
           /\ m \in Updates(n) => m.type # "snapshot"
BY DEF Messages, Updates

LEMMA MoreMessages ==
    ASSUME NEW n \in Nat, NEW k \in Nat, n <= k
    PROVE  /\ Updates(n) \subseteq Updates(k) /\ Updates(n) \subseteq Messages(n)
           /\ Messages(n) \subseteq Messages(k)
           /\ k <= MaxEntries => Messages(k) \subseteq Message
<1>1. 1 .. n \subseteq 1 .. k
  OBVIOUS
<1>2. Updates(n) \subseteq Updates(k)
  BY <1>1 DEF Updates
<1>3. Messages(n) \subseteq Messages(k)
  BY <1>1, <1>2 DEF Messages
<1>4. ASSUME k <= MaxEntries PROVE Messages(k) \subseteq Message
  <2>1. 1 .. k \subseteq 1 .. MaxEntries
    BY <1>4, LinkAssumption
  <2> QED BY <2>1 DEF Messages, Updates, Message
<1> QED BY <1>2, <1>3, <1>4 DEF Messages

LEMMA SeqGrows ==
    ASSUME NEW S, NEW T, S \subseteq T, NEW s \in Seq(S)
    PROVE  s \in Seq(T)
BY SeqDef

LEMMA Parts ==
    ASSUME NEW S, NEW s \in Seq(S), s # <<>>
    PROVE  /\ Tail(s) \in Seq(S) /\ Head(s) \in S /\ Len(s) \in Nat /\ Len(s) > 0
           /\ Len(Tail(s)) = Len(s) - 1 /\ Head(s) = s[1]
           /\ \A i \in 1 .. Len(s) - 1 : Tail(s)[i] = s[i + 1]
BY HeadTailProperties, EmptySeq

LEMMA Added ==
    ASSUME NEW S, NEW s \in Seq(S), NEW m \in S
    PROVE  /\ Append(s, m) \in Seq(S) /\ Len(s) \in Nat /\ Len(Append(s, m)) = Len(s) + 1
           /\ Append(s, m)[Len(s) + 1] = m
           /\ \A i \in 1 .. Len(s) : Append(s, m)[i] = s[i]
BY AppendProperties

LEMMA Joined ==
    ASSUME NEW S, NEW s \in Seq(S), NEW t \in Seq(S)
    PROVE  /\ s \o t \in Seq(S) /\ Len(s) \in Nat /\ Len(t) \in Nat
           /\ Len(s \o t) = Len(s) + Len(t)
           /\ \A i \in 1 .. Len(s) : (s \o t)[i] = s[i]
           /\ \A i \in 1 .. Len(t) : (s \o t)[Len(s) + i] = t[i]
BY ConcatProperties

LEMMA TailTold ==
    ASSUME NEW S, NEW s \in Seq(S), s # <<>>, NEW p, LastSays(s, p)
    PROVE  /\ LastSays(Tail(s), p)
           /\ Silent(Tail(s)) /\ Tells(Head(s)) => Says(Head(s), p)
           /\ Silent(Tail(s)) /\ ~Tells(Head(s)) => Silent(s)
<1> USE Parts
<1>1. LastSays(Tail(s), p)
  <2>1. SUFFICES ASSUME NEW i \in 1 .. Len(s) - 1, Tells(s[i + 1]),
                        \A j \in i + 1 .. Len(s) - 1 : ~Tells(s[j + 1])
                 PROVE  Says(s[i + 1], p)
    BY DEF LastSays
  <2>2. \A k \in i + 2 .. Len(s) : ~Tells(s[k])
    <3>1. SUFFICES ASSUME NEW k \in i + 2 .. Len(s) PROVE ~Tells(s[k])
      OBVIOUS
    <3>2. k - 1 \in i + 1 .. Len(s) - 1 /\ (k - 1) + 1 = k
      OBVIOUS
    <3> QED BY <2>1, <3>2
  <2>3. i + 1 \in 1 .. Len(s) /\ (i + 1) + 1 = i + 2
    OBVIOUS
  <2> QED BY <2>1, <2>2, <2>3 DEF LastSays
<1>2. ASSUME Silent(Tail(s)) PROVE \A k \in 2 .. Len(s) : ~Tells(s[k])
  <2>1. SUFFICES ASSUME NEW k \in 2 .. Len(s) PROVE ~Tells(s[k])
    OBVIOUS
  <2>2. k - 1 \in 1 .. Len(s) - 1 /\ (k - 1) + 1 = k
    OBVIOUS
  <2> QED BY <1>2, <2>2 DEF Silent
<1>3. 1 \in 1 .. Len(s) /\ 1 + 1 = 2
  OBVIOUS
<1>4. Silent(Tail(s)) /\ Tells(Head(s)) => Says(Head(s), p)
  BY <1>2, <1>3 DEF LastSays
<1>5. Silent(Tail(s)) /\ ~Tells(Head(s)) => Silent(s)
  BY <1>2, <1>3 DEF Silent
<1> QED BY <1>1, <1>4, <1>5

LEMMA AddedTold ==
    ASSUME NEW S, NEW s \in Seq(S), NEW m \in S, NEW p
    PROVE  /\ Tells(m) /\ Says(m, p) => LastSays(Append(s, m), p)
           /\ ~Tells(m) /\ LastSays(s, p) => LastSays(Append(s, m), p)
           /\ Silent(Append(s, m)) <=> Silent(s) /\ ~Tells(m)
<1> DEFINE t == Append(s, m)
<1>1. /\ Len(s) \in Nat /\ Len(t) = Len(s) + 1 /\ t[Len(s) + 1] = m
      /\ \A i \in 1 .. Len(s) : t[i] = s[i]
  BY Added
<1> HIDE DEF t
<1>2. 1 .. Len(t) = (1 .. Len(s)) \cup {Len(s) + 1}
  BY <1>1
<1>3. ASSUME Tells(m), Says(m, p) PROVE LastSays(t, p)
  <2>1. ASSUME NEW i \in 1 .. Len(s) PROVE Len(s) + 1 \in i + 1 .. Len(t)
    BY <1>1
  <2> QED BY <1>1, <1>2, <1>3, <2>1 DEF LastSays
<1>4. ASSUME ~Tells(m), LastSays(s, p) PROVE LastSays(t, p)
  <2>1. ASSUME NEW i \in 1 .. Len(s), \A j \in i + 1 .. Len(t) : ~Tells(t[j])
        PROVE  \A j \in i + 1 .. Len(s) : ~Tells(s[j])
    BY <1>1, <2>1
  <2> QED BY <1>1, <1>2, <1>4, <2>1 DEF LastSays
<1>5. Silent(t) <=> Silent(s) /\ ~Tells(m)
  BY <1>1, <1>2 DEF Silent
<1> QED BY <1>3, <1>4, <1>5 DEF t

LEMMA JoinedTold ==
    ASSUME NEW S, NEW s \in Seq(S), NEW t \in Seq(S), NEW p
    PROVE  /\ LastSays(t, p) /\ (Silent(t) => LastSays(s, p)) => LastSays(s \o t, p)
           /\ Silent(s \o t) <=> Silent(s) /\ Silent(t)
<1> DEFINE u == s \o t
<1>1. /\ Len(s) \in Nat /\ Len(t) \in Nat /\ Len(u) = Len(s) + Len(t)
      /\ \A i \in 1 .. Len(s) : u[i] = s[i]
      /\ \A i \in 1 .. Len(t) : u[Len(s) + i] = t[i]
  BY Joined
<1> HIDE DEF u
<1>2. ASSUME NEW k \in 1 .. Len(u), k \notin 1 .. Len(s)
      PROVE  k - Len(s) \in 1 .. Len(t) /\ Len(s) + (k - Len(s)) = k /\ u[k] = t[k - Len(s)]
  <2>1. k - Len(s) \in 1 .. Len(t) /\ Len(s) + (k - Len(s)) = k
    BY <1>1, <1>2
  <2> QED BY <1>1, <2>1
<1>3. ASSUME NEW k \in 1 .. Len(t) PROVE Len(s) + k \in 1 .. Len(u) /\ u[Len(s) + k] = t[k]
  BY <1>1
<1>4. Silent(u) <=> Silent(s) /\ Silent(t)
  <2>1. 1 .. Len(s) \subseteq 1 .. Len(u)
    BY <1>1
  <2>2. Silent(s) /\ Silent(t) => Silent(u)
    BY <1>1, <1>2 DEF Silent
  <2>3. Silent(u) => Silent(s) /\ Silent(t)
    BY <1>1, <1>3, <2>1 DEF Silent
  <2> QED BY <2>2, <2>3
<1>5. ASSUME LastSays(t, p), Silent(t) => LastSays(s, p) PROVE LastSays(u, p)
  <2>1. SUFFICES ASSUME NEW i \in 1 .. Len(u), Tells(u[i]),
                        \A j \in i + 1 .. Len(u) : ~Tells(u[j])
                 PROVE  Says(u[i], p)
    BY DEF LastSays
  <2>2. CASE i \in 1 .. Len(s)
    <3>1. ASSUME NEW k \in 1 .. Len(t) PROVE ~Tells(t[k])
      <4>1. Len(s) + k \in i + 1 .. Len(u)
        BY <1>1, <2>2
      <4> QED BY <1>3, <2>1, <4>1
    <3>2. ASSUME NEW j \in i + 1 .. Len(s) PROVE ~Tells(s[j])
      <4>1. j \in 1 .. Len(s) /\ j \in i + 1 .. Len(u)
        BY <1>1, <2>2
      <4> QED BY <1>1, <2>1, <4>1
    <3>3. LastSays(s, p)
      BY <1>5, <3>1 DEF Silent
    <3> QED BY <1>1, <2>1, <2>2, <3>2, <3>3 DEF LastSays
  <2>3. CASE i \notin 1 .. Len(s)
    <3>1. i - Len(s) \in 1 .. Len(t) /\ u[i] = t[i - Len(s)]
      BY <1>2, <2>3
    <3>2. ASSUME NEW j \in (i - Len(s)) + 1 .. Len(t) PROVE ~Tells(t[j])
      <4>1. j \in 1 .. Len(t) /\ Len(s) + j \in i + 1 .. Len(u)
        BY <1>1, <3>1
      <4> QED BY <1>3, <2>1, <4>1
    <3> QED BY <1>5, <2>1, <3>1, <3>2 DEF LastSays
  <2> QED BY <2>2, <2>3
<1> QED BY <1>4, <1>5 DEF u

LEMMA TailBrings ==
    ASSUME NEW S, NEW s \in Seq(S), s # <<>>, NEW e
    PROVE  /\ Brought(s, e) => Brings(Head(s), e) \/ Brought(Tail(s), e)
           /\ NeverLost(s, e) => NeverLost(Tail(s), e)
           /\ NeverLost(s, e) /\ Drops(Head(s), e) => Brought(Tail(s), e)
<1> USE Parts
<1>1. ASSUME NEW k \in 2 .. Len(s) PROVE k - 1 \in 1 .. Len(Tail(s)) /\ Tail(s)[k - 1] = s[k]
  <2>1. k - 1 \in 1 .. Len(s) - 1 /\ (k - 1) + 1 = k
    OBVIOUS
  <2> QED BY <2>1
<1>2. ASSUME NEW k \in 1 .. Len(s), k # 1 PROVE k \in 2 .. Len(s)
  BY <1>2
<1>3. Brought(s, e) => Brings(Head(s), e) \/ Brought(Tail(s), e)
  BY <1>1, <1>2 DEF Brought
<1>4. ASSUME NeverLost(s, e) PROVE NeverLost(Tail(s), e)
  <2>1. SUFFICES ASSUME NEW i \in 1 .. Len(s) - 1, Drops(s[i + 1], e)
                 PROVE  \E j \in i + 1 .. Len(s) - 1 : Brings(Tail(s)[j], e)
    BY DEF NeverLost
  <2>2. i + 1 \in 1 .. Len(s)
    OBVIOUS
  <2>3. PICK k \in (i + 1) + 1 .. Len(s) : Brings(s[k], e)
    BY <1>4, <2>1, <2>2 DEF NeverLost
  <2>4. k \in 2 .. Len(s) /\ k - 1 \in i + 1 .. Len(s) - 1
    BY <2>3
  <2> QED BY <1>1, <2>3, <2>4
<1>5. ASSUME NeverLost(s, e), Drops(Head(s), e) PROVE Brought(Tail(s), e)
  <2>1. 1 \in 1 .. Len(s) /\ 1 + 1 = 2
    OBVIOUS
  <2>2. PICK k \in 2 .. Len(s) : Brings(s[k], e)
    BY <1>5, <2>1 DEF NeverLost
  <2> QED BY <1>1, <2>2 DEF Brought
<1> QED BY <1>3, <1>4, <1>5

LEMMA AddedBrings ==
    ASSUME NEW S, NEW s \in Seq(S), NEW m \in S, NEW e
    PROVE  /\ Brought(Append(s, m), e) <=> Brought(s, e) \/ Brings(m, e)
           /\ Brings(m, e) => NeverLost(Append(s, m), e)
           /\ NeverLost(s, e) /\ ~Drops(m, e) => NeverLost(Append(s, m), e)
<1> DEFINE t == Append(s, m)
<1>1. /\ Len(s) \in Nat /\ Len(t) = Len(s) + 1 /\ t[Len(s) + 1] = m
      /\ \A i \in 1 .. Len(s) : t[i] = s[i]
  BY Added
<1> HIDE DEF t
<1>2. 1 .. Len(t) = (1 .. Len(s)) \cup {Len(s) + 1}
  BY <1>1
<1>3. Brought(t, e) <=> Brought(s, e) \/ Brings(m, e)
  BY <1>1, <1>2 DEF Brought
<1>4. ASSUME Brings(m, e) PROVE NeverLost(t, e)
  <2>1. ASSUME NEW i \in 1 .. Len(s) PROVE Len(s) + 1 \in i + 1 .. Len(t)
    BY <1>1
  <2>2. ~Drops(m, e)
    BY <1>4 DEF Brings, Drops
  <2> QED BY <1>1, <1>2, <1>4, <2>1, <2>2 DEF NeverLost
<1>5. ASSUME NeverLost(s, e), ~Drops(m, e) PROVE NeverLost(t, e)
  <2>1. ASSUME NEW i \in 1 .. Len(s), Drops(t[i], e)
        PROVE  \E j \in i + 1 .. Len(t) : Brings(t[j], e)
    <3>1. PICK j \in i + 1 .. Len(s) : Brings(s[j], e)
      BY <1>1, <1>5, <2>1 DEF NeverLost
    <3>2. j \in i + 1 .. Len(t) /\ t[j] = s[j]
      BY <1>1
    <3> QED BY <3>1, <3>2
  <2> QED BY <1>1, <1>2, <1>5, <2>1 DEF NeverLost
<1> QED BY <1>3, <1>4, <1>5 DEF t

LEMMA JoinedBrings ==
    ASSUME NEW S, NEW s \in Seq(S), NEW t \in Seq(S), NEW e
    PROVE  Brought(s, e) \/ Brought(t, e) => Brought(s \o t, e)
<1> USE Joined
<1>1. ASSUME NEW i \in 1 .. Len(s), Brings(s[i], e) PROVE Brought(s \o t, e)
  <2>1. i \in 1 .. Len(s \o t) /\ (s \o t)[i] = s[i]
    OBVIOUS
  <2> QED BY <1>1, <2>1 DEF Brought
<1>2. ASSUME NEW i \in 1 .. Len(t), Brings(t[i], e) PROVE Brought(s \o t, e)
  <2>1. Len(s) + i \in 1 .. Len(s \o t) /\ (s \o t)[Len(s) + i] = t[i]
    OBVIOUS
  <2> QED BY <1>2, <2>1 DEF Brought
<1> QED BY <1>1, <1>2 DEF Brought

-----------------------------------------------------------------------------
(* What the services dispatch.  A queue q follows q0 if it says p, and says *)
(* it unless q0 was silent already and p is what the phase was.            *)

Follows(q0, p0, q, p, n) ==
    /\ q \in Seq(Updates(n)) /\ LastSays(q, p)
    /\ Silent(q) => Silent(q0) /\ p = p0
    /\ \A e \in Nat : Brought(q0, e) => Brought(q, e)

LEMMA SilentSaysAll == ASSUME NEW s, NEW p, Silent(s) PROVE LastSays(s, p)
BY DEF Silent, LastSays

LEMMA PhaseFollows ==
    ASSUME NEW q0, NEW p0, NEW q, NEW n \in Nat, NEW from \in Phases, NEW to \in Phases,
           Follows(q0, p0, q, from, n)
    PROVE  Follows(q0, p0, q \o SaysMoved(from, to), to, n)
<1> DEFINE t == SaysMoved(from, to)
<1>1. q \in Seq(Updates(n))
  BY DEF Follows
<1>2. CASE to = from
  <2>1. t = <<>> /\ t \in Seq(Updates(n)) /\ Silent(t)
    BY <1>2, EmptySeq DEF SaysMoved, Silent
  <2>2. LastSays(q \o t, to) /\ (Silent(q \o t) => Silent(q))
    BY <1>1, <1>2, <2>1, SilentSaysAll, JoinedTold DEF Follows
  <2>3. q \o t \in Seq(Updates(n)) /\ \A e \in Nat : Brought(q, e) => Brought(q \o t, e)
    BY <1>1, <2>1, Joined, JoinedBrings
  <2> QED BY <1>2, <2>2, <2>3 DEF Follows
<1>3. CASE to # from
  <2>1. t = <<StateMessage(to)>> /\ StateMessage(to) \in Updates(n)
    BY <1>3 DEF SaysMoved, StateMessage, Updates
  <2>2. q \o t = Append(q, StateMessage(to))
    BY <1>1, <2>1, AppendIsConcat
  <2>3. Tells(StateMessage(to)) /\ Says(StateMessage(to), to)
    BY DEF Tells, Says, StateMessage
  <2>4. LastSays(q \o t, to) /\ ~Silent(q \o t)
    BY <1>1, <2>1, <2>2, <2>3, AddedTold
  <2>5. q \o t \in Seq(Updates(n)) /\ \A e \in Nat : Brought(q, e) => Brought(q \o t, e)
    <3>1. q \o t \in Seq(Updates(n))
      BY <1>1, <2>1, <2>2, Added
    <3> QED BY <1>1, <2>1, <2>2, <3>1, AddedBrings
  <2> QED BY <2>4, <2>5 DEF Follows
<1> QED BY <1>2, <1>3

(* A report tells nothing of the phase.                                    *)
LEMMA ReportFollows ==
    ASSUME NEW q0, NEW p0, NEW q, NEW n \in Nat, NEW p, NEW issued \in BOOLEAN,
           Follows(q0, p0, q, p, n)
    PROVE  /\ Follows(q0, p0, q \o SaysReport(issued), p, n)
           /\ \A x \in Nat : Brought(q, x) => Brought(q \o SaysReport(issued), x)
<1> DEFINE t == SaysReport(issued)
<1>1. q \in Seq(Updates(n)) /\ ReportMessage \in Updates(n) /\ ~Tells(ReportMessage)
  BY DEF Follows, ReportMessage, Updates, Tells
<1>2. CASE ~issued
  <2>1. t = <<>> /\ q \o t = q
    BY <1>1, <1>2, ConcatEmptySeq DEF SaysReport
  <2> QED BY <2>1
<1>3. CASE issued
  <2>1. t = <<ReportMessage>> /\ q \o t = Append(q, ReportMessage)
    BY <1>1, <1>3, AppendIsConcat DEF SaysReport
  <2>2. Append(q, ReportMessage) \in Seq(Updates(n)) /\ LastSays(Append(q, ReportMessage), p)
        /\ (Silent(Append(q, ReportMessage)) => Silent(q))
    BY <1>1, Added, AddedTold DEF Follows
  <2>3. \A x \in Nat : Brought(q, x) => Brought(Append(q, ReportMessage), x)
    BY <1>1, AddedBrings
  <2> QED BY <2>1, <2>2, <2>3 DEF Follows
<1> QED BY <1>2, <1>3

LEMMA EntryFollows ==
    ASSUME NEW q0, NEW p0, NEW q, NEW n \in Nat, NEW p, NEW e \in 1 .. n,
           Follows(q0, p0, q, p, n)
    PROVE  /\ Follows(q0, p0, Append(q, EntryMessage(e)), p, n)
           /\ Brought(Append(q, EntryMessage(e)), e)
           /\ \A x \in Nat : Brought(q, x) => Brought(Append(q, EntryMessage(e)), x)
<1>1. q \in Seq(Updates(n)) /\ EntryMessage(e) \in Updates(n)
  BY DEF Follows, EntryMessage, Updates
<1>2. ~Tells(EntryMessage(e)) /\ Brings(EntryMessage(e), e)
  BY DEF EntryMessage, Tells, Brings
<1> QED BY <1>1, <1>2, Added, AddedTold, AddedBrings DEF Follows

LEMMA EntriesFollow ==
    ASSUME NEW q0, NEW p0, NEW q, NEW n \in Nat, NEW p, NEW a \in Nat, a <= n,
           Follows(q0, p0, q, p, n)
    PROVE  /\ Follows(q0, p0, q \o EntryMessages(a, n), p, n)
           /\ \A e \in a + 1 .. n : Brought(q \o EntryMessages(a, n), e)
           /\ \A x \in Nat : Brought(q, x) => Brought(q \o EntryMessages(a, n), x)
<1> DEFINE t == EntryMessages(a, n)
<1>1. q \in Seq(Updates(n))
  BY DEF Follows
<1>2. /\ t \in Seq(Updates(n)) /\ Len(t) = n - a
      /\ \A i \in 1 .. n - a : t[i] = EntryMessage(a + i)
  <2>1. \A i \in 1 .. n - a : EntryMessage(a + i) \in Updates(n)
    BY DEF EntryMessage, Updates
  <2>2. n - a \in Nat /\ t = [i \in 1 .. n - a |-> EntryMessage(a + i)]
    BY DEF EntryMessages
  <2>3. t \in [1 .. n - a -> Updates(n)]
    BY <2>1, <2>2
  <2>4. t \in Seq(Updates(n))
    BY <2>2, <2>3, SeqDef
  <2>5. Len(t) \in Nat /\ 1 .. Len(t) = 1 .. n - a
    BY <2>3, <2>4, LenProperties
  <2>6. Len(t) = n - a
    BY <2>2, <2>5
  <2> QED BY <2>2, <2>4, <2>6
<1> HIDE DEF t
<1>3. Silent(t)
  <2>1. ASSUME NEW i \in 1 .. Len(t) PROVE t[i].type = "entry"
    <3>1. t[i] = EntryMessage(a + i)
      BY <1>2
    <3> QED BY <3>1 DEF EntryMessage
  <2> QED BY <2>1 DEF Silent, Tells
<1>4. ASSUME NEW e \in a + 1 .. n PROVE Brought(t, e)
  <2>1. e - a \in 1 .. n - a /\ a + (e - a) = e
    OBVIOUS
  <2>2. t[e - a] = EntryMessage(e)
    BY <1>2, <2>1
  <2> QED BY <1>2, <2>1, <2>2 DEF Brought, Brings, EntryMessage
<1>5. LastSays(q \o t, p) /\ (Silent(q \o t) => Silent(q))
  BY <1>1, <1>2, <1>3, SilentSaysAll, JoinedTold DEF Follows
<1>6. \A e \in Nat : Brought(q, e) \/ Brought(t, e) => Brought(q \o t, e)
  BY <1>1, <1>2, JoinedBrings
<1>7. q \o t \in Seq(Updates(n))
  BY <1>1, <1>2, Joined
<1>8. \A e \in a + 1 .. n : Brought(q \o t, e)
  BY <1>4, <1>6
<1> QED BY <1>5, <1>6, <1>7, <1>8 DEF Follows, t

LEMMA Itself == ASSUME IInv, NEW n \in Nat, sequence <= n
                PROVE  Follows(dispatched, phase, dispatched, phase, n)
<1>1. Updates(sequence) \subseteq Updates(n)
  BY MoreMessages DEF IInv, QueueInv
<1>2. dispatched \in Seq(Updates(n))
  BY <1>1, SeqGrows DEF IInv, QueueInv
<1> QED BY <1>2 DEF IInv, ToldInv, SpeaksTruth, Follows

(* A service's change: everything it means for the client is dispatched.   *)
LEMMA ServiceKeeps ==
    ASSUME IInv, UNCHANGED <<health, sending, outbox, signature, connected, building,
                             shown, told>>,
           phase' \in Phases, sequence' \in 0 .. MaxEntries, sequence <= sequence',
           entries' \subseteq 1 .. sequence',
           Follows(dispatched, phase, dispatched', phase', sequence'),
           \A e \in entries' : Brought(dispatched', e) \/ (e \in entries /\ entries \subseteq entries')
    PROVE  IInv'
<1> USE LinkAssumption
<1>1. sequence \in Nat /\ sequence' \in Nat
  BY DEF IInv, QueueInv
<1>2. QueueInv'
  <2>1. /\ Updates(sequence) \subseteq Updates(sequence')
        /\ Messages(sequence) \subseteq Messages(sequence')
    BY <1>1, MoreMessages
  <2>2. /\ sending \in Seq(Updates(sequence)) /\ outbox \in Seq(Messages(sequence))
        /\ dispatched' \in Seq(Updates(sequence'))
    BY DEF IInv, QueueInv, Follows
  <2>3. sending \in Seq(Updates(sequence')) /\ outbox \in Seq(Messages(sequence'))
    BY <2>1, <2>2, SeqGrows
  <2>4. shown' \in [phase : Phases \cup {None}, entries : SUBSET (1 .. sequence'),
                    health : Healths \cup {None}]
    <3>1. 1 .. sequence \subseteq 1 .. sequence'
      BY <1>1
    <3> QED BY <3>1 DEF IInv, QueueInv
  <2> QED BY <2>2, <2>3, <2>4 DEF IInv, QueueInv
<1>3. ToldInv'
  <2>1. LastSays(dispatched', phase') /\ (Silent(dispatched') => Silent(dispatched) /\ phase' = phase)
    BY DEF Follows
  <2>2. SpeaksTruth'
    BY <2>1 DEF SpeaksTruth, IInv, ToldInv
  <2> QED BY <2>1, <2>2 DEF IInv, ToldInv, ShowsPhase
<1>4. EntryInv'
  <2>1. SUFFICES ASSUME connected, ~building, NEW e \in entries', Recent(e)',
                        ~Brought(dispatched', e)
                 PROVE  Brought(sending, e) \/ Arrives(e)
    BY DEF EntryInv, Arrives
  <2>2. e \in entries /\ entries \subseteq entries'
    BY <2>1
  <2>3. e \in Nat
    BY <1>1, <2>1
  <2>4. Recent(e)
    <3> DEFINE A == {o \in entries : o > e}
               B == {o \in entries' : o > e}
    <3>1. A \subseteq B
      BY <2>2
    <3>2. IsFiniteSet(B)
      <4>1. IsFiniteSet(1 .. sequence')
        BY <1>1, FS_Interval
      <4> QED BY <4>1, FS_Subset
    <3>3. Cardinality(A) <= Cardinality(B) /\ Cardinality(A) \in Nat /\ Cardinality(B) \in Nat
      BY <3>1, <3>2, FS_Subset, FS_CardinalityType
    <3>4. Cardinality(B) < SnapshotLimit
      BY <2>1 DEF Recent
    <3>5. Cardinality(A) < SnapshotLimit
      BY <3>3, <3>4
    <3> QED BY <3>5 DEF Recent
  <2>5. ~Brought(dispatched, e)
    BY <2>1, <2>3 DEF Follows
  <2> QED BY <2>1, <2>2, <2>4, <2>5 DEF IInv, EntryInv
<1> QED BY <1>2, <1>3, <1>4 DEF IInv

-----------------------------------------------------------------------------
(* The steps.                                                              *)

LEMMA WindowKeeps ==
    ASSUME IInv, NEW p \in Phases, NEW issued \in BOOLEAN, NEW n \in 0 .. MaxEntries,
           Window(p, issued, n)
    PROVE  IInv'
<1> USE LinkAssumption
<1>1. /\ sequence \in Nat /\ sequence' \in Nat /\ sequence <= sequence'
      /\ sequence' \in 0 .. MaxEntries /\ phase \in Phases /\ phase' = p
      /\ entries \subseteq 1 .. sequence
  BY DEF IInv, QueueInv, Window
<1> DEFINE q1 == dispatched \o SaysMoved(phase, p)
           q == q1 \o SaysReport(issued)
<1>2. Follows(dispatched, phase, q, p, sequence')
  <2>1. Follows(dispatched, phase, q1, p, sequence')
    BY <1>1, Itself, PhaseFollows
  <2> HIDE DEF q1
  <2> QED BY <1>1, <2>1, ReportFollows
<1>3. /\ Follows(dispatched, phase, dispatched', p, sequence')
      /\ \A e \in sequence + 1 .. sequence' : Brought(dispatched', e)
  <2>1. dispatched' = q \o EntryMessages(sequence, sequence')
    BY DEF Window
  <2> HIDE DEF q
  <2> QED BY <1>1, <1>2, <2>1, EntriesFollow
<1>4. entries' = entries \cup (sequence + 1 .. sequence')
  BY DEF Window
<1>5. entries' \subseteq 1 .. sequence' /\ entries \subseteq entries'
  BY <1>1, <1>4
<1> QED BY <1>1, <1>3, <1>4, <1>5, ServiceKeeps DEF Window

LEMMA SessionRestartsKeeps ==
    ASSUME IInv, NEW p \in Phases, NEW issued \in BOOLEAN, NEW n \in 0 .. MaxEntries,
           SessionRestarts(p, issued, n)
    PROVE  IInv'
<1> USE LinkAssumption
<1>1. /\ sequence \in Nat /\ sequence' \in Nat /\ sequence + 1 <= sequence'
      /\ sequence' \in 0 .. MaxEntries /\ phase \in Phases /\ phase' = p
  BY DEF IInv, QueueInv, SessionRestarts
<1> DEFINE q1 == dispatched \o SaysReset(phase)
           q2 == Append(q1, EntryMessage(sequence + 1))
           q2p == q2 \o SaysMoved(Monitoring, p)
           q3 == q2p \o SaysReport(issued)
<1>2. Follows(dispatched, phase, q1, Monitoring, sequence')
  BY <1>1, Itself, PhaseFollows DEF SaysReset
<1> HIDE DEF q1
<1>3. Follows(dispatched, phase, q2, Monitoring, sequence') /\ Brought(q2, sequence + 1)
  BY <1>1, <1>2, EntryFollows
<1>4. dispatched' = q3 \o EntryMessages(sequence + 1, sequence')
  <2>1. q1 \in Seq(Updates(sequence')) /\ EntryMessage(sequence + 1) \in Updates(sequence')
    BY <1>1, <1>2 DEF Follows, EntryMessage, Updates
  <2>2. q1 \o <<EntryMessage(sequence + 1)>> = q2
    BY <2>1, AppendIsConcat
  <2> QED BY <2>2 DEF SessionRestarts, q1
<1> HIDE DEF q2
<1>5. Follows(dispatched, phase, q3, p, sequence') /\ Brought(q3, sequence + 1)
  <2>1. Follows(dispatched, phase, q2p, p, sequence')
    BY <1>1, <1>3, PhaseFollows
  <2>2. Follows(q2, Monitoring, q2p, p, sequence')
    <3>1. Follows(q2, Monitoring, q2, Monitoring, sequence')
      BY <1>3 DEF Follows
    <3> QED BY <1>1, <3>1, PhaseFollows
  <2>3. Brought(q2p, sequence + 1)
    BY <1>1, <1>3, <2>2 DEF Follows
  <2> HIDE DEF q2p
  <2> QED BY <1>1, <2>1, <2>3, ReportFollows
<1> HIDE DEF q3
<1>6. /\ Follows(dispatched, phase, dispatched', p, sequence')
      /\ Brought(dispatched', sequence + 1)
      /\ \A e \in (sequence + 1) + 1 .. sequence' : Brought(dispatched', e)
  <2>1. sequence + 1 \in Nat /\ sequence + 1 \in 0 .. sequence'
    BY <1>1
  <2>2. \A x \in Nat : Brought(q3, x) => Brought(dispatched', x)
    BY <1>1, <1>4, <1>5, <2>1, EntriesFollow
  <2>3. /\ Follows(dispatched, phase, dispatched', p, sequence')
        /\ \A e \in (sequence + 1) + 1 .. sequence' : Brought(dispatched', e)
    BY <1>1, <1>4, <1>5, <2>1, EntriesFollow
  <2> QED BY <1>5, <2>1, <2>2, <2>3
<1>7. entries' = sequence + 1 .. sequence'
  BY DEF SessionRestarts
<1>8. \A e \in entries' : Brought(dispatched', e)
  <2>1. \A e \in entries' : e = sequence + 1 \/ e \in (sequence + 1) + 1 .. sequence'
    BY <1>1, <1>7
  <2> QED BY <1>6, <2>1
<1>9. entries' \subseteq 1 .. sequence'
  BY <1>1, <1>7
<1> QED BY <1>1, <1>6, <1>8, <1>9, ServiceKeeps DEF SessionRestarts

LEMMA OperatorActsKeeps ==
    ASSUME IInv, NEW p \in Phases, OperatorActs(p) PROVE IInv'
<1> USE LinkAssumption
<1>1. /\ sequence \in Nat /\ sequence' \in Nat /\ sequence' = sequence + 1
      /\ sequence' \in 0 .. MaxEntries /\ phase \in Phases /\ phase' = p
      /\ entries \subseteq 1 .. sequence
  BY DEF IInv, QueueInv, OperatorActs
<1> DEFINE q == Append(dispatched, EntryMessage(sequence'))
<1>2. Follows(dispatched, phase, q, phase, sequence') /\ Brought(q, sequence')
  BY <1>1, Itself, EntryFollows
<1>3. dispatched' = q \o SaysMoved(phase, p)
  BY DEF OperatorActs
<1> HIDE DEF q
<1>4. Follows(dispatched, phase, dispatched', p, sequence')
  BY <1>1, <1>2, <1>3, PhaseFollows
<1>5. Brought(dispatched', sequence')
  <2>1. Follows(q, phase, q, phase, sequence')
    BY <1>2 DEF Follows
  <2>2. Follows(q, phase, dispatched', p, sequence')
    BY <1>1, <1>3, <2>1, PhaseFollows
  <2> QED BY <1>1, <1>2, <2>2 DEF Follows
<1>6. entries' = entries \cup {sequence'}
  BY DEF OperatorActs
<1>7. entries' \subseteq 1 .. sequence' /\ entries \subseteq entries'
  BY <1>1, <1>6
<1> QED BY <1>1, <1>4, <1>5, <1>6, <1>7, ServiceKeeps DEF OperatorActs

LEMMA HealthChangesKeeps ==
    ASSUME IInv, NEW h \in Healths, HealthChanges(h) PROVE IInv'
<1>1. UNCHANGED <<phase, sequence, entries, dispatched, sending, outbox, signature,
                  connected, building, shown, told>> /\ health' \in Healths
  BY DEF HealthChanges, queues
<1>2. QueueInv'
  BY <1>1 DEF IInv, QueueInv
<1>3. ToldInv'
  BY <1>1 DEF IInv, ToldInv, SpeaksTruth, ShowsPhase
<1>4. EntryInv'
  BY <1>1 DEF IInv, EntryInv, Recent, Arrives
<1> QED BY <1>2, <1>3, <1>4 DEF IInv

(* A message goes from the bus to the sends, or to nobody.                 *)
LEMMA BroadcastKeeps == ASSUME IInv, Broadcast PROVE IInv'
<1> DEFINE m == Head(dispatched)
           S == Updates(sequence)
<1>1. /\ dispatched \in Seq(S) /\ sending \in Seq(S) /\ dispatched # <<>>
      /\ dispatched' = Tail(dispatched) /\ m \in S
      /\ sequence \in Nat
  BY Parts DEF IInv, QueueInv, Broadcast
<1>2. UNCHANGED <<phase, sequence, entries, health, outbox, signature, connected, building,
                  shown, told>>
  BY DEF Broadcast, services
<1>3. sending' = IF connected THEN Append(sending, m) ELSE sending
  BY DEF Broadcast
<1>4. dispatched' \in Seq(S) /\ sending' \in Seq(S)
  <2>1. Append(sending, m) \in Seq(S) /\ Tail(dispatched) \in Seq(S)
    BY <1>1, Added, Parts
  <2> QED BY <1>1, <1>3, <2>1
<1> HIDE DEF m, S
<1>5. QueueInv'
  <2>1. ~connected => sending' = <<>>
    BY <1>3 DEF IInv, QueueInv
  <2> QED BY <1>2, <1>4, <2>1 DEF IInv, QueueInv, S
<1>6. /\ LastSays(dispatched', phase)
      /\ Silent(dispatched') /\ Tells(m) => Says(m, phase)
      /\ Silent(dispatched') /\ ~Tells(m) => Silent(dispatched)
  BY <1>1, TailTold DEF IInv, ToldInv, SpeaksTruth, m
<1>7. Silent(dispatched') => LastSays(sending', phase)
  <2>1. CASE ~connected
    BY <2>1, <1>3, EmptySeq DEF IInv, QueueInv, LastSays
  <2>2. CASE connected
    BY <2>2, <1>1, <1>3, <1>6, AddedTold DEF IInv, ToldInv, SpeaksTruth
  <2> QED BY <2>1, <2>2
<1>8. connected /\ Silent(dispatched') /\ Silent(sending') => Silent(dispatched) /\ Silent(sending)
  BY <1>1, <1>3, <1>6, AddedTold
<1>9. ToldInv'
  <2>1. SpeaksTruth'
    BY <1>2, <1>6, <1>7 DEF SpeaksTruth
  <2> QED BY <1>2, <1>8, <2>1 DEF IInv, ToldInv, ShowsPhase
<1>10. EntryInv'
  <2>1. SUFFICES ASSUME connected, ~building, NEW e \in entries, Recent(e)
                 PROVE  Brought(dispatched', e) \/ Brought(sending', e) \/ Arrives(e)
    BY <1>2 DEF EntryInv, Recent, Arrives
  <2>2. Brought(dispatched, e) => Brings(m, e) \/ Brought(dispatched', e)
    BY <1>1, TailBrings DEF m
  <2>3. Brought(sending', e) <=> Brought(sending, e) \/ Brings(m, e)
    BY <1>1, <1>3, <2>1, AddedBrings
  <2> QED BY <2>1, <2>2, <2>3 DEF IInv, EntryInv
<1> QED BY <1>5, <1>9, <1>10 DEF IInv

(* A send is written, or waits for the lock.                               *)
LEMMA SendStartsKeeps == ASSUME IInv, SendStarts PROVE IInv'
<1> DEFINE m == Head(sending)
           S == Updates(sequence)
           T == Messages(sequence)
<1>1. /\ sending \in Seq(S) /\ sending # <<>> /\ sending' = Tail(sending) /\ m \in S
      /\ outbox \in Seq(T) /\ outbox' = Append(outbox, m) /\ m \in T /\ sequence \in Nat
  BY Parts, MoreMessages DEF IInv, QueueInv, SendStarts
<1>2. UNCHANGED <<phase, sequence, entries, health, dispatched, signature, connected, building,
                  shown, told>>
  BY DEF SendStarts, services
<1>3. m.type # "snapshot"
  BY <1>1, MessageIs
<1>4. sending' \in Seq(S) /\ outbox' \in Seq(T)
  BY <1>1, Parts, Added
<1>5. connected
  BY <1>1 DEF IInv, QueueInv
<1>6. QueueInv'
  BY <1>2, <1>4, <1>5 DEF IInv, QueueInv
<1> HIDE DEF S, T
<1>7. /\ LastSays(sending, phase) => LastSays(sending', phase)
      /\ LastSays(sending, phase) /\ Silent(sending') /\ Tells(m) => Says(m, phase)
      /\ LastSays(sending, phase) /\ Silent(sending') /\ ~Tells(m) => Silent(sending)
  BY <1>1, TailTold
<1>8. /\ Tells(m) /\ Says(m, phase) => LastSays(outbox', phase)
      /\ ~Tells(m) /\ LastSays(outbox, phase) => LastSays(outbox', phase)
      /\ Silent(outbox') <=> Silent(outbox) /\ ~Tells(m)
  BY <1>1, AddedTold
<1> HIDE DEF m
<1>9. ToldInv'
  <2>1. SpeaksTruth'
    BY <1>2, <1>7 DEF SpeaksTruth, IInv, ToldInv
  <2>2. ASSUME ~building, Silent(dispatched), Silent(sending')
        PROVE  LastSays(outbox', phase) /\ (Silent(outbox') => ShowsPhase)
    <3>1. LastSays(sending, phase)
      BY <2>2 DEF IInv, ToldInv, SpeaksTruth
    <3>2. CASE Tells(m)
      BY <1>7, <1>8, <2>2, <3>1, <3>2
    <3>3. CASE ~Tells(m)
      BY <1>5, <1>7, <1>8, <2>2, <3>1, <3>3 DEF IInv, ToldInv
    <3> QED BY <3>2, <3>3
  <2> QED BY <1>2, <2>1, <2>2 DEF ToldInv, ShowsPhase
<1>10. EntryInv'
  <2>1. SUFFICES ASSUME ~building, NEW e \in entries, Recent(e)
                 PROVE  Brought(dispatched, e) \/ Brought(sending', e)
                        \/ ((e \in shown.entries \/ Brought(outbox', e)) /\ NeverLost(outbox', e))
    BY <1>2 DEF EntryInv, Recent, Arrives
  <2>2. Brought(sending, e) => Brings(m, e) \/ Brought(sending', e)
    BY <1>1, TailBrings DEF m
  <2>3. /\ Brought(outbox', e) <=> Brought(outbox, e) \/ Brings(m, e)
        /\ Brings(m, e) => NeverLost(outbox', e)
        /\ NeverLost(outbox, e) => NeverLost(outbox', e)
    BY <1>1, <1>3, AddedBrings DEF Drops
  <2> QED BY <1>5, <2>1, <2>2, <2>3 DEF IInv, EntryInv, Arrives
<1> QED BY <1>6, <1>9, <1>10 DEF IInv

(* A health check, and a connection or a resync that begins, tell nothing  *)
(* of the phase and of the entries.                                        *)
LEMMA HealthCheckKeeps == ASSUME IInv, HealthCheck PROVE IInv'
<1> DEFINE m == [type |-> "health", health |-> health]
           S == Updates(sequence)
<1>1. /\ sending \in Seq(S) /\ m \in S /\ ~Tells(m) /\ sequence \in Nat
      /\ \A e \in Nat : ~Brings(m, e)
  BY DEF IInv, QueueInv, Updates, Tells, Brings
<1> HIDE DEF m, S
<1>2. UNCHANGED <<phase, sequence, entries, health, dispatched, outbox, connected, building,
                  shown, told>>
  BY DEF HealthCheck, services
<1>3. /\ signature' \in Healths \cup {None}
      /\ sending' = sending \/ (connected /\ sending' = Append(sending, m))
  BY DEF HealthCheck, IInv, QueueInv, m
<1>4. sending' \in Seq(S)
  BY <1>1, <1>3, Added
<1>5. QueueInv'
  BY <1>2, <1>3, <1>4 DEF IInv, QueueInv, S
<1>6. ToldInv'
  <2>1. LastSays(sending, phase) => LastSays(sending', phase)
    BY <1>1, <1>3, AddedTold
  <2>2. Silent(sending') => Silent(sending)
    BY <1>1, <1>3, AddedTold
  <2> QED BY <1>2, <2>1, <2>2 DEF IInv, ToldInv, SpeaksTruth, ShowsPhase
<1>7. EntryInv'
  <2>1. ASSUME NEW e \in entries, Brought(sending, e) PROVE Brought(sending', e)
    <3>1. sending \in Seq(S) /\ m \in S
      BY <1>1
    <3>2. Brought(Append(sending, m), e)
      BY <2>1, <3>1, AddedBrings
    <3> QED BY <1>3, <2>1, <3>2
  <2> QED BY <1>2, <2>1 DEF IInv, EntryInv, Recent, Arrives
<1> QED BY <1>5, <1>6, <1>7 DEF IInv

LEMMA BuildingKeeps == ASSUME IInv, Connect \/ Resync PROVE IInv'
<1>1. /\ UNCHANGED <<phase, sequence, entries, health, dispatched, sending, outbox, signature,
                     shown, told>>
      /\ building' /\ connected' \in BOOLEAN /\ connected'
      /\ building' \in BOOLEAN
  BY DEF Connect, Resync, services, queues, IInv, QueueInv
<1>2. QueueInv'
  BY <1>1 DEF IInv, QueueInv
<1>3. ToldInv' /\ EntryInv'
  BY <1>1 DEF IInv, ToldInv, SpeaksTruth, EntryInv
<1> QED BY <1>2, <1>3 DEF IInv

(* The snapshot is read and queued in one step: it tells the phase, or     *)
(* nothing, and brings every recent entry.                                 *)
LEMMA SnapshotBuiltKeeps == ASSUME IInv, NEW all \in BOOLEAN, SnapshotBuilt(all) PROVE IInv'
<1> DEFINE m == [type |-> "snapshot", phase |-> IF all THEN phase ELSE None,
                 entries |-> LatestEntries(entries), health |-> health]
           T == Messages(sequence)
<1>1. /\ UNCHANGED <<phase, sequence, entries, health, dispatched, sending, signature,
                     connected, shown, told>>
      /\ building /\ ~building' /\ building' \in BOOLEAN /\ outbox' = Append(outbox, m)
  BY DEF SnapshotBuilt, services
<1>2. LatestEntries(entries) \in SUBSET (1 .. sequence)
  BY DEF LatestEntries, IInv, QueueInv
<1>3. m \in T /\ outbox \in Seq(T) /\ sequence \in Nat
  BY <1>2 DEF IInv, QueueInv, Messages
<1>4. Tells(m) /\ Says(m, phase)
  BY DEF Tells, Says
<1>5. \A e \in entries : Recent(e) => Brings(m, e)
  BY DEF Recent, Brings, LatestEntries
<1> HIDE DEF m, T
<1>6. QueueInv'
  <2>1. outbox' \in Seq(T)
    BY <1>1, <1>3, Added
  <2> QED BY <1>1, <2>1 DEF IInv, QueueInv, T
<1>7. ToldInv'
  <2>1. LastSays(outbox', phase) /\ ~Silent(outbox')
    BY <1>1, <1>3, <1>4, AddedTold
  <2> QED BY <1>1, <2>1 DEF IInv, ToldInv, SpeaksTruth
<1>8. EntryInv'
  <2>1. ASSUME NEW e \in entries, Recent(e) PROVE Brought(outbox', e) /\ NeverLost(outbox', e)
    BY <1>1, <1>3, <1>5, <2>1, AddedBrings
  <2> QED BY <1>1, <2>1 DEF EntryInv, Recent, Arrives
<1> QED BY <1>6, <1>7, <1>8 DEF IInv

LEMMA DisconnectKeeps == ASSUME IInv, Disconnect PROVE IInv'
<1>1. /\ UNCHANGED <<phase, sequence, entries, health, dispatched, signature, shown, told>>
      /\ sending' = <<>> /\ outbox' = <<>>
  BY DEF Disconnect, services
<1>2. connected' \in BOOLEAN /\ ~connected' /\ building' \in BOOLEAN /\ ~building'
  BY DEF Disconnect
<1>3. QueueInv'
  BY <1>1, <1>2, EmptySeq DEF IInv, QueueInv
<1>4. ToldInv' /\ EntryInv'
  <2>1. LastSays(sending', phase')
    BY <1>1, EmptySeq DEF LastSays
  <2> QED BY <1>1, <1>2, <2>1 DEF IInv, ToldInv, SpeaksTruth, EntryInv
<1> QED BY <1>3, <1>4 DEF IInv

(* A message arrives and is applied.                                       *)
LEMMA DeliverKeeps == ASSUME IInv, Deliver PROVE IInv'
<1> DEFINE m == Head(outbox)
           T == Messages(sequence)
<1>1. /\ outbox \in Seq(T) /\ outbox # <<>> /\ outbox' = Tail(outbox) /\ m \in T
      /\ sequence \in Nat
  BY Parts DEF IInv, QueueInv, Deliver
<1>2. UNCHANGED <<phase, sequence, entries, health, dispatched, sending, signature, connected,
                  building>>
  BY DEF Deliver, services
<1>3. /\ shown' = Applied(m)
      /\ told' = IF m.type = "snapshot" THEN m.phase # None ELSE told \/ m.type = "state"
  BY DEF Deliver
<1>4. /\ shown.phase \in Phases \cup {None} /\ shown.entries \in SUBSET (1 .. sequence)
      /\ shown.health \in Healths \cup {None} /\ told \in BOOLEAN
  BY DEF IInv, QueueInv
<1> HIDE DEF m, T
<1>5. /\ m.type = "state" => m.phase \in Phases
      /\ m.type = "entry" => m.entry \in 1 .. sequence
      /\ m.type = "health" => m.health \in Healths
      /\ m.type = "snapshot" => /\ m.phase \in Phases \cup {None}
                                /\ m.entries \in SUBSET (1 .. sequence) /\ m.health \in Healths
  BY <1>1, MessageIs DEF T
<1>6. QueueInv'
  <2>1. outbox' \in Seq(T)
    BY <1>1, Parts
  <2>2. shown' \in [phase : Phases \cup {None}, entries : SUBSET (1 .. sequence),
                    health : Healths \cup {None}]
    <3>1. CASE m.type = "snapshot"
      BY <1>3, <1>5, <3>1 DEF Applied, Snapshot
    <3>2. CASE m.type # "snapshot"
      BY <1>3, <1>4, <1>5, <3>2, LinkAssumption DEF Applied, PhaseWith
    <3> QED BY <3>1, <3>2
  <2>3. told' \in BOOLEAN
    BY <1>3, <1>4
  <2>4. ~connected => outbox = <<>>
    BY DEF IInv, QueueInv
  <2> QED BY <1>1, <1>2, <2>1, <2>2, <2>3, <2>4 DEF IInv, QueueInv, T
<1>7. /\ Tells(m) /\ Says(m, phase) => ShowsPhase'
      /\ ~Tells(m) /\ ShowsPhase => ShowsPhase'
  <2>1. CASE m.type = "snapshot"
    BY <1>2, <1>3, <2>1 DEF Applied, Snapshot, Tells, Says, ShowsPhase
  <2>2. CASE m.type = "state"
    BY <1>2, <1>3, <2>2 DEF Applied, PhaseWith, Tells, Says, ShowsPhase
  <2>3. CASE m.type = "report"
    <3>1. told' = told /\ shown'.phase = PhaseWith(m) /\ ~Tells(m)
      BY <1>3, <1>4, <2>3 DEF Applied, Tells
    <3>2. /\ shown.phase = None => PhaseWith(m) = Monitoring
          /\ shown.phase # None => PhaseWith(m) = shown.phase
      BY <2>3 DEF PhaseWith
    <3>3. phase # None
      BY LinkAssumption DEF IInv, QueueInv
    <3> QED BY <1>2, <3>1, <3>2, <3>3 DEF ShowsPhase
  <2>4. CASE m.type \notin {"snapshot", "state", "report"}
    <3>1. told' = told /\ shown'.phase = shown.phase
      BY <1>3, <1>4, <2>4 DEF Applied, PhaseWith
    <3> QED BY <1>2, <2>4, <3>1 DEF Tells, ShowsPhase
  <2> QED BY <2>1, <2>2, <2>3, <2>4
<1>8. ToldInv'
  <2>1. ASSUME connected, ~building, Silent(dispatched), Silent(sending)
        PROVE  /\ LastSays(outbox', phase)
               /\ Silent(outbox') => ShowsPhase'
    <3>1. LastSays(outbox, phase) /\ (Silent(outbox) => ShowsPhase)
      BY <2>1 DEF IInv, ToldInv
    <3>2. /\ LastSays(outbox', phase)
          /\ Silent(outbox') /\ Tells(m) => Says(m, phase)
          /\ Silent(outbox') /\ ~Tells(m) => Silent(outbox)
      BY <1>1, <3>1, TailTold DEF m
    <3> QED BY <1>7, <3>1, <3>2
  <2> QED BY <1>2, <2>1 DEF IInv, ToldInv, SpeaksTruth
<1>9. EntryInv'
  <2>1. SUFFICES ASSUME NEW e \in entries, Arrives(e)
                 PROVE  (e \in shown'.entries \/ Brought(outbox', e)) /\ NeverLost(outbox', e)
    BY <1>2 DEF IInv, EntryInv, Recent, Arrives
  <2>2. /\ Brought(outbox, e) => Brings(m, e) \/ Brought(outbox', e)
        /\ NeverLost(outbox', e)
        /\ Drops(m, e) => Brought(outbox', e)
    BY <1>1, <2>1, TailBrings DEF m, Arrives
  <2>3. /\ Brings(m, e) => e \in shown'.entries
        /\ e \in shown.entries /\ ~Drops(m, e) => e \in shown'.entries
    BY <1>3 DEF Applied, Snapshot, Brings, Drops
  <2> QED BY <2>1, <2>2, <2>3 DEF Arrives
<1> QED BY <1>6, <1>8, <1>9 DEF IInv

LEMMA Initially == ASSUME Init PROVE IInv
<1> USE LinkAssumption
<1>1. QueueInv
  <2>1. /\ phase \in Phases /\ health \in Healths /\ sequence = 0 /\ entries = {}
        /\ signature = None
        /\ shown = [phase |-> None, entries |-> {}, health |-> None]
    BY DEF Init
  <2>2. /\ connected \in BOOLEAN /\ building \in BOOLEAN /\ told \in BOOLEAN
        /\ ~building /\ sending = <<>> /\ outbox = <<>> /\ dispatched = <<>>
    BY DEF Init
  <2>3. /\ sequence \in 0 .. MaxEntries
        /\ shown \in [phase : Phases \cup {None}, entries : SUBSET (1 .. sequence),
                      health : Healths \cup {None}]
    BY <2>1
  <2>4. <<>> \in Seq(Updates(sequence)) /\ <<>> \in Seq(Messages(sequence))
    BY EmptySeq
  <2> QED BY <2>1, <2>2, <2>3, <2>4 DEF QueueInv
<1>2. dispatched = <<>> /\ sending = <<>> /\ ~connected
  BY DEF Init
<1>3. LastSays(<<>>, phase)
  BY EmptySeq DEF LastSays
<1> QED BY <1>1, <1>2, <1>3 DEF IInv, ToldInv, SpeaksTruth, EntryInv

LEMMA Preserved == ASSUME IInv, [Next]_vars PROVE IInv'
<1>1. CASE UNCHANGED vars
  BY <1>1 DEF vars, services, queues, IInv, QueueInv, ToldInv, SpeaksTruth, ShowsPhase, EntryInv,
     Recent, Arrives
<1>2. CASE Next
  BY <1>2, WindowKeeps, SessionRestartsKeeps, OperatorActsKeeps, HealthChangesKeeps,
     HealthCheckKeeps, BuildingKeeps, DisconnectKeeps, BroadcastKeeps, SendStartsKeeps,
     DeliverKeeps, SnapshotBuiltKeeps DEF Next, Delivery
<1> QED BY <1>1, <1>2

(* What is on its way to the client, and what it will show for it: the     *)
(* inductive invariant.                                                    *)
THEOREM LinkInvariant == Spec => []IInv
<1>1. Init => IInv
  BY Initially
<1>2. IInv /\ [Next]_vars => IInv'
  BY Preserved
<1> QED BY <1>1, <1>2, PTL DEF Spec

(* With nothing on its way the client agrees with the services             *)
(* (RealtimePublisher, ConnectionManager.connect and broadcast,            *)
(* SnapshotBuilder.build and the reducers.ts of the client): it shows      *)
(* every recent entry and the phase, or, until it is told one after a      *)
(* snapshot that could not tell, none or the default a report brings.      *)
THEOREM AgreesClient == Spec => []ClientAgrees
<1>1. ASSUME IInv PROVE TypeOK
  <2>1. sequence \in Nat /\ sequence <= MaxEntries /\ MaxEntries \in Nat
    BY <1>1, LinkAssumption DEF IInv, QueueInv
  <2>2. Updates(sequence) \subseteq Message /\ Messages(sequence) \subseteq Message
    BY <2>1, MoreMessages
  <2>3. {dispatched, sending, outbox} \subseteq Seq(Message)
    BY <1>1, <2>2, SeqGrows DEF IInv, QueueInv
  <2> QED BY <1>1, <2>3 DEF IInv, QueueInv, TypeOK
<1>2. ASSUME IInv, Quiet PROVE Silent(dispatched) /\ Silent(sending) /\ Silent(outbox)
                              /\ \A e \in entries : /\ ~Brought(dispatched, e) /\ ~Brought(sending, e)
                                                    /\ ~Brought(outbox, e)
  <2>1. Len(dispatched) \in Nat /\ Len(sending) \in Nat /\ Len(outbox) \in Nat
    BY <1>2, LenProperties DEF IInv, QueueInv
  <2>2. Len(dispatched) = 0 /\ Len(sending) = 0 /\ Len(outbox) = 0
    BY <1>2, <2>1 DEF Quiet, Backlog
  <2> QED BY <2>2 DEF Silent, Brought
<1>3. ASSUME IInv PROVE PhaseConverges
  BY <1>2, <1>3 DEF PhaseConverges, IInv, ToldInv, Quiet
<1>4. ASSUME IInv PROVE NothingIsMissed
  BY <1>2, <1>4 DEF NothingIsMissed, IInv, EntryInv, Quiet, Recent, Arrives
<1> QED BY <1>1, <1>3, <1>4, LinkInvariant, PTL DEF ClientAgrees

-----------------------------------------------------------------------------
(***************************************************************************)
(* SiteReport, for every site: what its cameras add up to, and the         *)
(* timeline its alerts make.                                               *)
(***************************************************************************)
SiteStep == Site!Next \/ UNCHANGED Site!siteVars

(* The cameras' readings, and the operator's settings.                     *)
Readings ==
    [at : 0 .. MaxTime, sees : SUBSET People, waits : {Nothing} \cup SUBSET People]

ReadingsInv ==
    /\ now \in 0 .. MaxTime
    /\ DOMAIN enabled = Site!Cameras /\ DOMAIN status = Site!Cameras
    /\ DOMAIN analysis = Site!Cameras
    /\ area \in [Site!Cameras -> Areas]
    /\ \A c \in Site!Cameras :
          analysis[c] # Nothing =>
              /\ analysis[c] \in Readings /\ analysis[c].at <= now
              /\ analysis[c].waits # Nothing => analysis[c].waits \subseteq analysis[c].sees

(* Who contributed and was let alone has lost its stream since, or its     *)
(* analysis has grown old.                                                 *)
OnceInv ==
    \A c \in once :
        /\ c \in Site!Cameras /\ analysis[c] # Nothing
        /\ status[c] \in {"live", "recovering", "offline"}

(* The samples of a forecaster are of the set it is said to be fitted to.  *)
BasisInv ==
    /\ \A s \in demandHistory : s.cameras = demandBasis
    /\ \A s \in queueHistory : s.cameras = queueBasis

LEMMA ReadingsStart ==
    ASSUME Site!ConstantsAssumption, Site!Init
    PROVE  ReadingsInv /\ OnceInv /\ BasisInv
BY DEF Site!ConstantsAssumption, Site!Init, ReadingsInv, OnceInv, BasisInv

LEMMA ReadingsMove ==
    ASSUME Site!ConstantsAssumption, ReadingsInv, SiteStep
    PROVE  ReadingsInv'
<1> USE DEF ReadingsInv
<1>1. ASSUME NEW d \in 1 .. MaxStep, Site!Wait(d) PROVE ReadingsInv'
  <2>1. d \in Nat /\ MaxTime \in Nat /\ now + d <= MaxTime /\ now' = now + d
        /\ UNCHANGED <<enabled, status, analysis, area>>
    BY <1>1 DEF Site!Wait, Site!operatorVars, Site!cameraVars, Site!ConstantsAssumption
  <2>2. \A c \in Site!Cameras : analysis[c] # Nothing => analysis[c].at \in 0 .. MaxTime
    BY DEF Readings
  <2>3. now' \in 0 .. MaxTime /\ now <= now'
    BY <2>1
  <2>4. \A c \in Site!Cameras : analysis[c] # Nothing => analysis[c].at <= now'
    BY <2>1, <2>2, <2>3
  <2> QED BY <2>1, <2>3, <2>4
<1>2. ASSUME Site!Update PROVE ReadingsInv'
  BY <1>2 DEF Site!Update, Site!operatorVars, Site!cameraVars
<1>3. ASSUME NEW c \in Site!Cameras, NEW s, Site!StatusTurns(c, s) PROVE ReadingsInv'
  BY <1>3 DEF Site!StatusTurns, Site!operatorVars
<1>4. ASSUME NEW c \in Site!Cameras, NEW sees \in SUBSET People,
             NEW waits \in {Nothing} \cup SUBSET sees, Site!Analysed(c, sees, waits)
      PROVE  ReadingsInv'
  <2>1. /\ analysis' = [analysis EXCEPT ![c] = [at |-> now, sees |-> sees, waits |-> waits]]
        /\ UNCHANGED <<enabled, status, area, now>>
    BY <1>4 DEF Site!Analysed, Site!operatorVars
  <2>2. [at |-> now, sees |-> sees, waits |-> waits] \in Readings
    BY <2>1 DEF Readings
  <2> QED BY <2>1, <2>2
<1>5. ASSUME NEW c \in Site!Cameras, Site!Retry(c) \/ Site!Draw(c) PROVE ReadingsInv'
  BY <1>5 DEF Site!Retry, Site!Draw, Site!operatorVars
<1>6. ASSUME NEW c \in Site!Cameras, NEW on \in BOOLEAN, Site!Enable(c, on) PROVE ReadingsInv'
  BY <1>6 DEF Site!Enable
<1>7. ASSUME NEW c \in Site!Cameras, NEW a \in Areas, Site!SetArea(c, a) PROVE ReadingsInv'
  BY <1>7 DEF Site!SetArea, Site!cameraVars
<1>8. ASSUME UNCHANGED Site!siteVars PROVE ReadingsInv'
  BY <1>8 DEF Site!siteVars
<1> QED BY <1>1, <1>2, <1>3, <1>4, <1>5, <1>6, <1>7, <1>8 DEF SiteStep, Site!Next

LEMMA OnceMove ==
    ASSUME Site!ConstantsAssumption, ReadingsInv, OnceInv, SiteStep
    PROVE  OnceInv'
<1> USE DEF OnceInv
<1>1. ASSUME NEW d \in 1 .. MaxStep, Site!Wait(d) PROVE OnceInv'
  BY <1>1 DEF Site!Wait, Site!cameraVars
<1>2. ASSUME Site!Update PROVE OnceInv'
  BY <1>2 DEF Site!Update, Site!cameraVars, Site!Contributing
<1>3. ASSUME NEW c \in Site!Cameras, NEW s, Site!StatusTurns(c, s) PROVE OnceInv'
  <2>1. /\ <<status[c], s>> \in Site!Turns /\ status' = [status EXCEPT ![c] = s]
        /\ UNCHANGED <<analysis, once>> /\ DOMAIN status = Site!Cameras
    BY <1>3 DEF Site!StatusTurns, ReadingsInv
  <2>2. s \in {"live", "recovering", "offline"}
    BY <2>1 DEF Site!Turns
  <2> QED BY <2>1, <2>2
<1>4. ASSUME NEW c \in Site!Cameras, NEW sees \in SUBSET People,
             NEW waits \in {Nothing} \cup SUBSET sees, Site!Analysed(c, sees, waits)
      PROVE  OnceInv'
  <2>1. /\ analysis' = [analysis EXCEPT ![c] = [at |-> now, sees |-> sees, waits |-> waits]]
        /\ UNCHANGED <<status, once>> /\ DOMAIN analysis = Site!Cameras
        /\ status[c] = "live"
    BY <1>4 DEF Site!Analysed, ReadingsInv
  <2>2. [at |-> now, sees |-> sees, waits |-> waits] # Nothing
    <3>1. now \in 0 .. MaxTime /\ waits \in {Nothing} \cup SUBSET People
      BY DEF ReadingsInv
    <3>2. Nothing \notin Readings
      BY DEF Site!ConstantsAssumption, Readings
    <3> QED BY <3>1, <3>2 DEF Readings
  <2> QED BY <2>1, <2>2
<1>5. ASSUME NEW c \in Site!Cameras, Site!Retry(c) \/ Site!Draw(c) PROVE OnceInv'
  BY <1>5 DEF Site!Retry, Site!Draw, ReadingsInv
<1>6. ASSUME NEW c \in Site!Cameras, NEW on \in BOOLEAN, Site!Enable(c, on) PROVE OnceInv'
  BY <1>6 DEF Site!Enable, ReadingsInv
<1>7. ASSUME NEW c \in Site!Cameras, NEW a \in Areas, Site!SetArea(c, a) PROVE OnceInv'
  BY <1>7 DEF Site!SetArea, Site!cameraVars
<1>8. ASSUME UNCHANGED Site!siteVars PROVE OnceInv'
  BY <1>8 DEF Site!siteVars
<1> QED BY <1>1, <1>2, <1>3, <1>4, <1>5, <1>6, <1>7, <1>8 DEF SiteStep, Site!Next

(* Only an update changes the report.                                      *)
LEMMA OnlyUpdates ==
    ASSUME SiteStep, ~Site!Update
    PROVE  UNCHANGED Site!reportVars /\ (now' = now \/ \E d \in 1 .. MaxStep : now' = now + d)
<1>1. CASE UNCHANGED Site!siteVars
  BY <1>1 DEF Site!siteVars, Site!reportVars
<1>2. CASE \E d \in 1 .. MaxStep : Site!Wait(d)
  BY <1>2 DEF Site!Wait
<1>3. CASE \E c \in Site!Cameras :
             \/ \E s \in {"live", "recovering", "offline"} : Site!StatusTurns(c, s)
             \/ \E sees \in SUBSET People : \E waits \in {Nothing} \cup SUBSET sees :
                    Site!Analysed(c, sees, waits)
             \/ Site!Retry(c) \/ Site!Draw(c)
             \/ \E on \in BOOLEAN : Site!Enable(c, on)
             \/ \E a \in Areas : Site!SetArea(c, a)
  BY <1>3 DEF Site!StatusTurns, Site!Analysed, Site!Retry, Site!Draw, Site!Enable, Site!SetArea
<1> QED BY <1>1, <1>2, <1>3 DEF SiteStep, Site!Next

LEMMA ForecastKeeps ==
    ASSUME NEW basis, NEW history, NEW members, NEW available,
           \A s \in history : s.cameras = basis
    PROVE  LET f == Site!Forecast(basis, history, members, available)
           IN  \A s \in f.history : s.cameras = f.basis
BY DEF Site!Forecast, Site!HistoryFor, Site!Sample

LEMMA BasisMove ==
    ASSUME BasisInv, SiteStep
    PROVE  BasisInv'
<1>1. ASSUME Site!Update PROVE BasisInv'
  <2> DEFINE d == Site!Forecast(demandBasis, demandHistory, Site!Contributing, Site!DemandAvailable)
             q == Site!Forecast(queueBasis, queueHistory, Site!Measuring, Site!QueueAvailable)
  <2>1. /\ \A s \in d.history : s.cameras = d.basis
        /\ \A s \in q.history : s.cameras = q.basis
    BY ForecastKeeps DEF BasisInv
  <2>2. /\ demandBasis' = d.basis /\ demandHistory' = d.history
        /\ queueBasis' = q.basis /\ queueHistory' = q.history
    BY <1>1 DEF Site!Update
  <2> HIDE DEF d, q
  <2> QED BY <2>1, <2>2 DEF BasisInv
<1>2. ASSUME UNCHANGED Site!reportVars PROVE BasisInv'
  BY <1>2 DEF Site!reportVars, BasisInv
<1> QED BY <1>1, <1>2, OnlyUpdates

-----------------------------------------------------------------------------
(* Each alert, its entries on the timeline and since when it is raised:    *)
(* what is remembered of it says what the timeline ends with, and when it  *)
(* was first and last seen.                                                *)
TimeOK == now \in Nat /\ updated \in Nat /\ updated <= now

Alert == [first : Nat, last : Nat, recorded : BOOLEAN]
Entry == [raised : BOOLEAN, at : Nat]

AlertTypes ==
    /\ DOMAIN tracked \subseteq Site!AlertIds
    /\ \A a \in DOMAIN tracked : tracked[a] \in Alert
    /\ timeline \in [Site!AlertIds -> Seq(Entry)]
    /\ since \in [Site!AlertIds -> Entry]

Alternates(s) ==
    \A i \in DOMAIN s :
        /\ s[i].raised <=> i % 2 = 1
        /\ i % 2 = 0 => s[i].at - s[i - 1].at >= ResolveAfter

\* What the timeline ends with: an alert raised, or none.
EndsUp(s) == Len(s) % 2 = 1
EndsDown(s) == Len(s) % 2 = 0

\* What is remembered of an alert, since when it is raised, its entries and the last update.
TrackedOK(t, w, s, u) ==
    /\ t.first <= t.last /\ t.last <= u
    /\ t.recorded => s[Len(s)].at <= t.last
    /\ w.raised => t.last = u /\ t.first <= w.at
    /\ ~w.raised => t.recorded /\ t.last <= w.at /\ u - t.last < ResolveAfter
    /\ ~t.recorded => t.first = w.at /\ u - t.first < RaiseAfter

AlertOK(a) ==
    /\ since[a].at <= updated
    /\ Alternates(timeline[a])
    /\ Site!Recorded(tracked, a) => EndsUp(timeline[a])
    /\ ~Site!Recorded(tracked, a) => EndsDown(timeline[a])
    /\ since[a].raised => a \in DOMAIN tracked
    /\ a \in DOMAIN tracked => TrackedOK(tracked[a], since[a], timeline[a], updated)

AlertInv ==
    /\ TimeOK /\ AlertTypes /\ \A a \in Site!AlertIds : AlertOK(a)

LEMMA AlertStart == ASSUME Site!Init PROVE AlertInv
<1>1. TimeOK
  BY DEF Site!Init, TimeOK
<1>2. AlertTypes
  BY DEF Site!Init, AlertTypes, Entry
<1>3. ASSUME NEW a \in Site!AlertIds PROVE AlertOK(a)
  <2>1. /\ timeline[a] = <<>> /\ since[a] = [raised |-> FALSE, at |-> 0]
        /\ a \notin DOMAIN tracked /\ updated = 0
    BY DEF Site!Init
  <2>2. Alternates(timeline[a]) /\ Len(timeline[a]) = 0
    BY <2>1 DEF Alternates
  <2>3. EndsDown(timeline[a]) /\ ~Site!Recorded(tracked, a)
    BY <2>1, <2>2 DEF EndsDown, Site!Recorded
  <2> QED BY <2>1, <2>2, <2>3 DEF AlertOK
<1> QED BY <1>1, <1>2, <1>3 DEF AlertInv

LEMMA RaisedEntry ==
    ASSUME NEW s \in Seq(Entry), NEW t \in Nat, Alternates(s), EndsDown(s)
    PROVE  LET r == Append(s, [raised |-> TRUE, at |-> t])
           IN  /\ r \in Seq(Entry) /\ Alternates(r) /\ EndsUp(r)
               /\ r[Len(r)] = [raised |-> TRUE, at |-> t]
<1> DEFINE r == Append(s, [raised |-> TRUE, at |-> t])
<1>1. /\ r \in Seq(Entry) /\ Len(r) = Len(s) + 1 /\ DOMAIN r = 1 .. Len(s) + 1
      /\ \A i \in 1 .. Len(s) : r[i] = s[i]
      /\ r[Len(s) + 1] = [raised |-> TRUE, at |-> t]
  BY DEF Entry
<1>2. Len(s) \in Nat /\ DOMAIN s = 1 .. Len(s) /\ Len(s) % 2 = 0
  BY DEF EndsUp, EndsDown
<1> HIDE DEF r
<1>3. (Len(s) + 1) % 2 = 1
  BY <1>2
<1>4. ASSUME NEW i \in DOMAIN r
      PROVE  (r[i].raised <=> i % 2 = 1) /\ (i % 2 = 0 => r[i].at - r[i - 1].at >= ResolveAfter)
  <2>1. CASE i = Len(s) + 1
    BY <1>1, <1>3, <2>1
  <2>2. CASE i \in 1 .. Len(s)
    <3>1. r[i] = s[i] /\ (i % 2 = 0 => i - 1 \in 1 .. Len(s) /\ r[i - 1] = s[i - 1])
      BY <1>1, <1>2, <2>2
    <3> QED BY <1>2, <2>2, <3>1 DEF Alternates
  <2> QED BY <1>1, <1>2, <2>1, <2>2
<1>5. Alternates(r)
  BY <1>4 DEF Alternates
<1>6. EndsUp(r)
  BY <1>1, <1>3 DEF EndsUp, EndsDown
<1> QED BY <1>1, <1>5, <1>6 DEF r

LEMMA ResolvedEntry ==
    ASSUME NEW s \in Seq(Entry), NEW t \in Nat, Alternates(s), EndsUp(s),
           t - s[Len(s)].at >= ResolveAfter
    PROVE  LET r == Append(s, [raised |-> FALSE, at |-> t])
           IN  /\ r \in Seq(Entry) /\ Alternates(r) /\ EndsDown(r)
               /\ r[Len(r)] = [raised |-> FALSE, at |-> t]
<1> DEFINE r == Append(s, [raised |-> FALSE, at |-> t])
<1>1. /\ r \in Seq(Entry) /\ Len(r) = Len(s) + 1 /\ DOMAIN r = 1 .. Len(s) + 1
      /\ \A i \in 1 .. Len(s) : r[i] = s[i]
      /\ r[Len(s) + 1] = [raised |-> FALSE, at |-> t]
  BY DEF Entry
<1>2. Len(s) \in Nat /\ DOMAIN s = 1 .. Len(s) /\ Len(s) % 2 = 1
  BY DEF EndsUp, EndsDown
<1> HIDE DEF r
<1>3. (Len(s) + 1) % 2 = 0 /\ Len(s) >= 1
  BY <1>2
<1>4. ASSUME NEW i \in DOMAIN r
      PROVE  (r[i].raised <=> i % 2 = 1) /\ (i % 2 = 0 => r[i].at - r[i - 1].at >= ResolveAfter)
  <2>1. CASE i = Len(s) + 1
    <3>1. i - 1 = Len(s) /\ r[i - 1] = s[Len(s)]
      BY <1>1, <1>2, <1>3, <2>1
    <3> QED BY <1>1, <1>3, <2>1, <3>1
  <2>2. CASE i \in 1 .. Len(s)
    <3>1. r[i] = s[i] /\ (i % 2 = 0 => i - 1 \in 1 .. Len(s) /\ r[i - 1] = s[i - 1])
      BY <1>1, <1>2, <2>2
    <3> QED BY <1>2, <2>2, <3>1 DEF Alternates
  <2> QED BY <1>1, <1>2, <2>1, <2>2
<1>5. Alternates(r)
  BY <1>4 DEF Alternates
<1>6. EndsDown(r)
  BY <1>1, <1>3 DEF EndsUp, EndsDown
<1> QED BY <1>1, <1>5, <1>6 DEF r

LEMMA LastEntry ==
    ASSUME NEW s \in Seq(Entry), EndsUp(s)
    PROVE  Len(s) \in DOMAIN s /\ s[Len(s)] \in Entry /\ s[Len(s)].at \in Nat
<1>1. Len(s) \in Nat /\ DOMAIN s = 1 .. Len(s) /\ Len(s) % 2 = 1
  BY DEF EndsUp
<1>2. Len(s) \in 1 .. Len(s)
  BY <1>1
<1>3. s[Len(s)] \in Entry
  BY <1>1, <1>2
<1> QED BY <1>1, <1>2, <1>3 DEF Entry

LEMMA TrackIs ==
    ASSUME Site!ConstantsAssumption, TimeOK, AlertTypes, NEW a
    PROVE  LET t == Site!Track(a)
           IN  /\ t \in Alert /\ t.last = now
               /\ a \in DOMAIN tracked =>
                      /\ t.first = tracked[a].first
                      /\ t.recorded <=> tracked[a].recorded \/ now - tracked[a].first >= RaiseAfter
               /\ a \notin DOMAIN tracked =>
                      /\ t.first = now
                      /\ t.recorded <=> now - now >= RaiseAfter
<1> DEFINE w == IF a \in DOMAIN tracked THEN tracked[a] ELSE [first |-> now, recorded |-> FALSE]
           long == now - w.first >= RaiseAfter
<1>1. now \in Nat /\ RaiseAfter \in Nat
  BY DEF TimeOK, Site!ConstantsAssumption
<1>2. /\ w.first \in Nat /\ w.recorded \in BOOLEAN
      /\ a \in DOMAIN tracked => w = tracked[a]
      /\ a \notin DOMAIN tracked => w.first = now /\ ~w.recorded
  BY <1>1 DEF AlertTypes, Alert
<1>3. long \in BOOLEAN
  BY <1>1, <1>2
<1>4. Site!Track(a) = [first |-> w.first, last |-> now, recorded |-> w.recorded \/ long]
  BY DEF Site!Track
<1>5. (long <=> now - w.first >= RaiseAfter)
  OBVIOUS
<1> HIDE DEF w, long
<1>6. /\ Site!Track(a).first = w.first /\ Site!Track(a).last = now
      /\ Site!Track(a).recorded <=> w.recorded \/ long
      /\ Site!Track(a) \in Alert
  BY <1>1, <1>2, <1>3, <1>4 DEF Alert
<1> QED BY <1>2, <1>5, <1>6

(* What an update does to one alert.                                       *)
NotAFlicker(a) ==
    timeline'[a] # timeline[a] =>
        /\ since'[a].raised <=> timeline'[a][Len(timeline'[a])].raised
        /\ since'[a].raised => now - since'[a].at >= RaiseAfter
        /\ ~since'[a].raised => now - tracked[a].last >= ResolveAfter

AlertDone(a) ==
    /\ AlertOK(a)'
    /\ a \in DOMAIN tracked' => tracked'[a] \in Alert
    /\ timeline'[a] \in Seq(Entry) /\ since'[a] \in Entry
    /\ NotAFlicker(a)

(* What the cases of an update share.                                      *)
UpdateOf(a) ==
    /\ now \in Nat /\ updated \in Nat /\ updated <= now /\ updated' = now
    /\ RaiseAfter \in Nat /\ ResolveAfter \in Nat
    /\ AlertOK(a) /\ timeline[a] \in Seq(Entry) /\ since[a] \in Entry
    /\ a \in DOMAIN tracked => tracked[a] \in Alert
    /\ a \in Site!Alerts =>
          /\ a \in DOMAIN tracked' /\ tracked'[a] = Site!Track(a)
          /\ since[a].raised => since'[a] = since[a]
          /\ ~since[a].raised => since'[a] = [raised |-> TRUE, at |-> now]
          /\ Site!Track(a).recorded /\ ~Site!Recorded(tracked, a) =>
                timeline'[a] = Append(timeline[a], [raised |-> TRUE, at |-> now])
          /\ ~(Site!Track(a).recorded /\ ~Site!Recorded(tracked, a)) => timeline'[a] = timeline[a]
    /\ a \notin Site!Alerts =>
          /\ a \in DOMAIN tracked' <=> a \in DOMAIN tracked /\ ~Site!Forgotten(a)
          /\ a \in DOMAIN tracked' => tracked'[a] = tracked[a]
          /\ since[a].raised => since'[a] = [raised |-> FALSE, at |-> now]
          /\ ~since[a].raised => since'[a] = since[a]
          /\ a \in DOMAIN tracked /\ tracked[a].recorded /\ Site!Forgotten(a) =>
                timeline'[a] = Append(timeline[a], [raised |-> FALSE, at |-> now])
          /\ ~(a \in DOMAIN tracked /\ tracked[a].recorded /\ Site!Forgotten(a)) =>
                timeline'[a] = timeline[a]

LEMMA UpdateIs ==
    ASSUME Site!ConstantsAssumption, AlertInv, Site!Update, NEW a \in Site!AlertIds
    PROVE  UpdateOf(a)
<1>1. /\ now \in Nat /\ updated \in Nat /\ updated <= now /\ updated' = now
      /\ RaiseAfter \in Nat /\ ResolveAfter \in Nat
  BY DEF AlertInv, TimeOK, Site!Update, Site!ConstantsAssumption
<1>2. /\ AlertOK(a) /\ timeline[a] \in Seq(Entry) /\ since[a] \in Entry
      /\ a \in DOMAIN tracked => tracked[a] \in Alert
  BY DEF AlertInv, AlertTypes
<1>3. /\ timeline'[a] = timeline[a] \o Site!Entries(a)
      /\ since'[a] = IF since[a].raised = (a \in Site!Alerts) THEN since[a]
                     ELSE [raised |-> a \in Site!Alerts, at |-> now]
      /\ tracked' = Site!Tracked
  BY DEF Site!Update
<1>4. /\ timeline[a] \o <<[raised |-> TRUE, at |-> now]>> = Append(timeline[a], [raised |-> TRUE, at |-> now])
      /\ timeline[a] \o <<[raised |-> FALSE, at |-> now]>> = Append(timeline[a], [raised |-> FALSE, at |-> now])
      /\ timeline[a] \o <<>> = timeline[a]
  BY <1>1, <1>2 DEF Entry
<1>5. since[a].raised \in BOOLEAN
  BY <1>2 DEF Entry
<1>6. CASE a \in Site!Alerts
  <2>1. (a \in Site!Alerts) = TRUE
    BY <1>6
  <2>2. /\ since[a].raised => since'[a] = since[a]
        /\ ~since[a].raised => since'[a] = [raised |-> TRUE, at |-> now]
    BY <1>3, <1>5, <2>1
  <2>3. a \in DOMAIN tracked' /\ tracked'[a] = Site!Track(a)
    BY <1>3, <1>6 DEF Site!Tracked
  <2>4. /\ Site!Track(a).recorded /\ ~Site!Recorded(tracked, a) =>
              timeline'[a] = Append(timeline[a], [raised |-> TRUE, at |-> now])
        /\ ~(Site!Track(a).recorded /\ ~Site!Recorded(tracked, a)) => timeline'[a] = timeline[a]
    BY <1>3, <1>4, <1>6 DEF Site!Entries
  <2> QED BY <1>1, <1>2, <1>6, <2>2, <2>3, <2>4 DEF UpdateOf
<1>7. CASE a \notin Site!Alerts
  <2>1. (a \in Site!Alerts) = FALSE
    BY <1>7
  <2>2. /\ since[a].raised => since'[a] = [raised |-> FALSE, at |-> now]
        /\ ~since[a].raised => since'[a] = since[a]
    BY <1>3, <1>5, <2>1
  <2>3. /\ a \in DOMAIN tracked' <=> a \in DOMAIN tracked /\ ~Site!Forgotten(a)
        /\ a \in DOMAIN tracked' => tracked'[a] = tracked[a]
    BY <1>3, <1>7 DEF Site!Tracked
  <2>4. /\ a \in DOMAIN tracked /\ tracked[a].recorded /\ Site!Forgotten(a) =>
              timeline'[a] = Append(timeline[a], [raised |-> FALSE, at |-> now])
        /\ ~(a \in DOMAIN tracked /\ tracked[a].recorded /\ Site!Forgotten(a)) =>
              timeline'[a] = timeline[a]
    BY <1>3, <1>4, <1>7 DEF Site!Entries
  <2> QED BY <1>1, <1>2, <1>7, <2>2, <2>3, <2>4 DEF UpdateOf
<1> QED BY <1>6, <1>7

LEMMA UpdateRaised ==
    ASSUME Site!ConstantsAssumption, AlertInv, NEW a, UpdateOf(a), a \in Site!Alerts
    PROVE  AlertDone(a)
<1> DEFINE t == Site!Track(a)
           s == timeline[a]
<1>1. /\ t \in Alert /\ t.last = now
      /\ a \in DOMAIN tracked =>
             /\ t.first = tracked[a].first
             /\ t.recorded <=> tracked[a].recorded \/ now - tracked[a].first >= RaiseAfter
      /\ a \notin DOMAIN tracked =>
             t.first = now /\ (t.recorded <=> now - now >= RaiseAfter)
  BY TrackIs DEF AlertInv
<1>2. /\ now \in Nat /\ updated \in Nat /\ updated <= now /\ updated' = now
      /\ RaiseAfter \in Nat /\ ResolveAfter \in Nat
      /\ s \in Seq(Entry) /\ since[a] \in Entry /\ AlertOK(a)
      /\ a \in DOMAIN tracked => tracked[a] \in Alert
      /\ a \in DOMAIN tracked' /\ tracked'[a] = t
  BY DEF UpdateOf
<1>3. /\ since[a].raised => since'[a] = since[a]
      /\ ~since[a].raised => since'[a] = [raised |-> TRUE, at |-> now]
  BY DEF UpdateOf
<1>4. /\ t.recorded /\ ~Site!Recorded(tracked, a) =>
             timeline'[a] = Append(s, [raised |-> TRUE, at |-> now])
      /\ ~(t.recorded /\ ~Site!Recorded(tracked, a)) => timeline'[a] = s
  BY DEF UpdateOf
<1> HIDE DEF t
<1>5. t.first \in Nat /\ t.last \in Nat /\ t.recorded \in BOOLEAN
  BY <1>1 DEF Alert
<1>6. Site!Recorded(tracked', a) <=> t.recorded
  BY <1>2 DEF Site!Recorded
<1>7. /\ a \in DOMAIN tracked => TrackedOK(tracked[a], since[a], s, updated)
      /\ Alternates(s) /\ since[a].at <= updated
      /\ Site!Recorded(tracked, a) => EndsUp(s)
      /\ ~Site!Recorded(tracked, a) => EndsDown(s)
      /\ since[a].raised => a \in DOMAIN tracked
  BY <1>2 DEF AlertOK
<1>8. Site!Recorded(tracked, a) <=> a \in DOMAIN tracked /\ tracked[a].recorded
  BY DEF Site!Recorded
<1>9. /\ since'[a] \in Entry /\ since'[a].raised /\ since'[a].at \in Nat /\ since'[a].at <= now
      /\ since[a].raised => since'[a].at = since[a].at
      /\ ~since[a].raised => since'[a].at = now
  <2>1. CASE since[a].raised
    <3>1. since'[a] = since[a] /\ since[a].at \in Nat
      BY <1>2, <1>3, <2>1 DEF Entry
    <3> QED BY <1>2, <1>7, <2>1, <3>1
  <2>2. CASE ~since[a].raised
    <3>1. since'[a] = [raised |-> TRUE, at |-> now]
      BY <1>3, <2>2
    <3> QED BY <1>2, <2>2, <3>1 DEF Entry
  <2> QED BY <2>1, <2>2
<1>10. a \in DOMAIN tracked =>
          /\ tracked[a].first \in Nat /\ tracked[a].last \in Nat
          /\ tracked[a].recorded \in BOOLEAN
  BY <1>2 DEF Alert
<1>11. t.first <= since'[a].at /\ (~t.recorded => t.first = since'[a].at /\ now - t.first < RaiseAfter)
  <2>1. CASE a \in DOMAIN tracked
    <3>1. /\ since[a].raised => tracked[a].first <= since[a].at
          /\ ~since[a].raised => tracked[a].recorded
          /\ ~tracked[a].recorded => tracked[a].first = since[a].at
          /\ tracked[a].first <= updated
      BY <1>2, <1>7, <1>10, <2>1 DEF TrackedOK
    <3>2. CASE since[a].raised
      BY <1>1, <1>2, <1>5, <1>9, <1>10, <2>1, <3>1, <3>2
    <3>3. CASE ~since[a].raised
      BY <1>1, <1>2, <1>5, <1>9, <1>10, <2>1, <3>1, <3>3
    <3> QED BY <3>2, <3>3
  <2>2. CASE a \notin DOMAIN tracked
    BY <1>1, <1>2, <1>5, <1>7, <1>9, <2>2
  <2> QED BY <2>1, <2>2
<1>12. CASE t.recorded /\ ~Site!Recorded(tracked, a)
  <2> DEFINE z == Append(s, [raised |-> TRUE, at |-> now])
  <2>1. EndsDown(s)
    BY <1>7, <1>12
  <2>2. /\ z \in Seq(Entry) /\ Alternates(z) /\ EndsUp(z)
        /\ z[Len(z)] = [raised |-> TRUE, at |-> now]
    BY <1>2, <1>7, <2>1, RaisedEntry
  <2>3. timeline'[a] = z
    BY <1>4, <1>12
  <2> HIDE DEF z
  <2>4. z[Len(z)].raised /\ z[Len(z)].at = now
    BY <2>2
  <2>5. now - since'[a].at >= RaiseAfter
    <3>1. CASE a \in DOMAIN tracked
      <4>1. ~tracked[a].recorded /\ now - tracked[a].first >= RaiseAfter
        BY <1>1, <1>8, <1>12, <3>1
      <4>2. since[a].raised /\ tracked[a].first = since[a].at
        BY <1>7, <1>10, <3>1, <4>1 DEF TrackedOK
      <4> QED BY <1>9, <4>1, <4>2
    <3>2. CASE a \notin DOMAIN tracked
      BY <1>1, <1>7, <1>9, <1>12, <3>2
    <3> QED BY <3>1, <3>2
  <2>6. TrackedOK(t, since'[a], z, now)
    BY <1>1, <1>2, <1>5, <1>9, <1>11, <1>12, <2>4 DEF TrackedOK
  <2>7. AlertOK(a)'
    BY <1>2, <1>6, <1>9, <1>12, <2>2, <2>3, <2>6 DEF AlertOK
  <2>8. NotAFlicker(a)
    BY <1>9, <2>3, <2>4, <2>5 DEF NotAFlicker
  <2> QED BY <1>1, <1>2, <1>9, <2>2, <2>3, <2>7, <2>8 DEF AlertDone
<1>13. CASE ~(t.recorded /\ ~Site!Recorded(tracked, a))
  <2>1. timeline'[a] = s
    BY <1>4, <1>13
  <2>2. t.recorded <=> Site!Recorded(tracked, a)
    BY <1>1, <1>8, <1>13
  <2>3. t.recorded => s[Len(s)].at <= now
    <3>1. ASSUME t.recorded PROVE s[Len(s)].at <= now
      <4>1. a \in DOMAIN tracked /\ tracked[a].recorded /\ EndsUp(s)
        BY <1>7, <1>8, <2>2, <3>1
      <4>2. s[Len(s)].at \in Nat
        BY <1>2, <4>1, LastEntry
      <4>3. s[Len(s)].at <= tracked[a].last /\ tracked[a].last <= updated
        BY <1>7, <4>1 DEF TrackedOK
      <4> QED BY <1>2, <1>10, <4>1, <4>2, <4>3
    <3> QED BY <3>1
  <2>4. TrackedOK(t, since'[a], s, now)
    BY <1>1, <1>2, <1>5, <1>9, <1>11, <2>3 DEF TrackedOK
  <2>5. AlertOK(a)'
    BY <1>2, <1>6, <1>7, <1>9, <2>1, <2>2, <2>4 DEF AlertOK
  <2>6. NotAFlicker(a)
    BY <2>1 DEF NotAFlicker
  <2> QED BY <1>1, <1>2, <1>9, <2>1, <2>5, <2>6 DEF AlertDone
<1> QED BY <1>12, <1>13

LEMMA UpdateResolved ==
    ASSUME AlertInv, NEW a, UpdateOf(a), a \notin Site!Alerts
    PROVE  AlertDone(a)
<1> DEFINE t == tracked[a]
           s == timeline[a]
<1>1. /\ now \in Nat /\ updated \in Nat /\ updated <= now /\ updated' = now
      /\ RaiseAfter \in Nat /\ ResolveAfter \in Nat
      /\ s \in Seq(Entry) /\ since[a] \in Entry /\ AlertOK(a)
      /\ a \in DOMAIN tracked => t \in Alert
  BY DEF UpdateOf
<1>2. /\ a \in DOMAIN tracked' <=> a \in DOMAIN tracked /\ ~Site!Forgotten(a)
      /\ a \in DOMAIN tracked' => tracked'[a] = t
      /\ since[a].raised => since'[a] = [raised |-> FALSE, at |-> now]
      /\ ~since[a].raised => since'[a] = since[a]
  BY DEF UpdateOf
<1>3. /\ a \in DOMAIN tracked /\ t.recorded /\ Site!Forgotten(a) =>
             timeline'[a] = Append(s, [raised |-> FALSE, at |-> now])
      /\ ~(a \in DOMAIN tracked /\ t.recorded /\ Site!Forgotten(a)) => timeline'[a] = s
  BY DEF UpdateOf
<1>4. /\ a \in DOMAIN tracked => TrackedOK(t, since[a], s, updated)
      /\ Alternates(s) /\ since[a].at <= updated
      /\ Site!Recorded(tracked, a) => EndsUp(s)
      /\ ~Site!Recorded(tracked, a) => EndsDown(s)
      /\ since[a].raised => a \in DOMAIN tracked
  BY <1>1 DEF AlertOK
<1>5. /\ Site!Recorded(tracked, a) <=> a \in DOMAIN tracked /\ t.recorded
      /\ Site!Recorded(tracked', a) <=> a \in DOMAIN tracked' /\ t.recorded
  BY <1>2 DEF Site!Recorded
<1>6. Site!Forgotten(a) <=> ~t.recorded \/ now - t.last >= ResolveAfter
  BY DEF Site!Forgotten
<1>7. a \in DOMAIN tracked => t.first \in Nat /\ t.last \in Nat /\ t.recorded \in BOOLEAN
  BY <1>1 DEF Alert
<1>8. /\ since'[a] \in Entry /\ ~since'[a].raised /\ since'[a].at \in Nat /\ since'[a].at <= now
      /\ since[a].raised => since'[a].at = now
      /\ ~since[a].raised => since'[a].at = since[a].at
  <2>1. CASE ~since[a].raised
    <3>1. since'[a] = since[a] /\ since[a].at \in Nat
      BY <1>1, <1>2, <2>1 DEF Entry
    <3> QED BY <1>1, <1>4, <2>1, <3>1
  <2>2. CASE since[a].raised
    <3>1. since'[a] = [raised |-> FALSE, at |-> now]
      BY <1>2, <2>2
    <3> QED BY <1>1, <2>2, <3>1 DEF Entry
  <2> QED BY <2>1, <2>2
<1> HIDE DEF t
<1>9. CASE a \in DOMAIN tracked /\ t.recorded /\ Site!Forgotten(a)
  <2> DEFINE z == Append(s, [raised |-> FALSE, at |-> now])
  <2>1. EndsUp(s) /\ a \notin DOMAIN tracked' /\ now - t.last >= ResolveAfter
    BY <1>2, <1>4, <1>5, <1>6, <1>9
  <2>2. s[Len(s)].at \in Nat /\ s[Len(s)].at <= t.last
    BY <1>1, <1>4, <1>9, <2>1, LastEntry DEF TrackedOK
  <2>3. now - s[Len(s)].at >= ResolveAfter
    BY <1>1, <1>7, <1>9, <2>1, <2>2
  <2>4. /\ z \in Seq(Entry) /\ Alternates(z) /\ EndsDown(z)
        /\ z[Len(z)] = [raised |-> FALSE, at |-> now]
    BY <1>1, <1>4, <2>1, <2>3, ResolvedEntry
  <2>5. timeline'[a] = z
    BY <1>3, <1>9
  <2> HIDE DEF z
  <2>6. ~z[Len(z)].raised
    BY <2>4
  <2>7. AlertOK(a)'
    BY <1>1, <1>5, <1>8, <2>1, <2>4, <2>5 DEF AlertOK
  <2>8. NotAFlicker(a)
    BY <1>8, <2>1, <2>5, <2>6 DEF NotAFlicker, t
  <2> QED BY <1>8, <2>1, <2>4, <2>5, <2>7, <2>8 DEF AlertDone
<1>10. CASE ~(a \in DOMAIN tracked /\ t.recorded /\ Site!Forgotten(a))
  <2>1. timeline'[a] = s
    BY <1>3, <1>10
  <2>2. NotAFlicker(a)
    BY <2>1 DEF NotAFlicker
  <2>3. Site!Recorded(tracked', a) <=> Site!Recorded(tracked, a)
    BY <1>2, <1>5, <1>6, <1>10
  <2>4. ASSUME a \in DOMAIN tracked'
        PROVE  TrackedOK(t, since'[a], s, now)
    <3>1. a \in DOMAIN tracked /\ t.recorded /\ ~(now - t.last >= ResolveAfter)
      BY <1>2, <1>6, <2>4
    <3>2. /\ t.first <= t.last /\ t.last <= updated /\ s[Len(s)].at <= t.last
          /\ ~since[a].raised => t.last <= since[a].at
      BY <1>4, <3>1 DEF TrackedOK
    <3>3. t.last <= since'[a].at
      BY <1>1, <1>7, <1>8, <3>1, <3>2
    <3> QED BY <1>1, <1>7, <1>8, <3>1, <3>2, <3>3 DEF TrackedOK
  <2>5. AlertOK(a)'
    BY <1>1, <1>2, <1>4, <1>8, <2>1, <2>3, <2>4 DEF AlertOK
  <2> QED BY <1>1, <1>2, <1>8, <2>1, <2>2, <2>5 DEF AlertDone, t
<1> QED BY <1>9, <1>10

LEMMA AlertMove ==
    ASSUME Site!ConstantsAssumption, AlertInv, SiteStep
    PROVE  AlertInv' /\ (Site!Update => \A a \in Site!AlertIds : NotAFlicker(a))
<1>1. CASE Site!Update
  <2>1. ASSUME NEW a \in Site!AlertIds PROVE AlertDone(a)
    <3>1. UpdateOf(a)
      BY <1>1, UpdateIs
    <3> QED BY <3>1, UpdateRaised, UpdateResolved
  <2>2. TimeOK'
    BY <1>1 DEF Site!Update, AlertInv, TimeOK
  <2>3. DOMAIN tracked' \subseteq Site!AlertIds
    <3>1. Site!Alerts \subseteq Site!AlertIds
      BY DEF Site!Alerts, Site!AlertIds, Site!Lost, Site!Missing
    <3> QED BY <1>1, <3>1 DEF Site!Update, Site!Tracked, AlertInv, AlertTypes
  <2>4. /\ timeline' = [a \in Site!AlertIds |-> timeline'[a]]
        /\ since' = [a \in Site!AlertIds |-> since'[a]]
    BY <1>1 DEF Site!Update
  <2>5. /\ timeline' \in [Site!AlertIds -> Seq(Entry)]
        /\ since' \in [Site!AlertIds -> Entry]
    BY <2>1, <2>4 DEF AlertDone
  <2>6. \A a \in DOMAIN tracked' : tracked'[a] \in Alert
    BY <2>1, <2>3 DEF AlertDone
  <2>7. AlertTypes'
    BY <2>3, <2>5, <2>6 DEF AlertTypes, Site!AlertIds, Site!Cameras
  <2>8. \A a \in Site!AlertIds : AlertOK(a)' /\ NotAFlicker(a)
    BY <2>1 DEF AlertDone
  <2> QED BY <2>2, <2>7, <2>8 DEF AlertInv, Site!AlertIds, Site!Cameras
<1>2. CASE ~Site!Update
  <2>1. UNCHANGED Site!reportVars /\ (now' = now \/ \E d \in 1 .. MaxStep : now' = now + d)
    BY <1>2, OnlyUpdates
  <2>2. TimeOK'
    <3>1. MaxStep \in Nat
      BY DEF Site!ConstantsAssumption
    <3> QED BY <2>1, <3>1 DEF TimeOK, AlertInv, Site!reportVars
  <2>3. AlertTypes'
    BY <2>1 DEF AlertInv, AlertTypes, Site!reportVars
  <2>4. ASSUME NEW a \in Site!AlertIds PROVE AlertOK(a)'
    <3>1. AlertOK(a)
      BY DEF AlertInv
    <3> QED BY <2>1, <3>1 DEF AlertOK, Site!reportVars, Site!Recorded
  <2> QED BY <1>2, <2>2, <2>3, <2>4 DEF AlertInv
<1> QED BY <1>1, <1>2

LEMMA TimelineHolds ==
    ASSUME Site!ConstantsAssumption, AlertInv
    PROVE  Site!TimelineAlternates /\ Site!LastingChangesAreRecorded
<1>1. ASSUME NEW a \in Site!AlertIds, NEW i \in DOMAIN timeline[a]
      PROVE  /\ timeline[a][i].raised = (i % 2 = 1)
             /\ i % 2 = 0 => timeline[a][i].at - timeline[a][i - 1].at >= ResolveAfter
  <2>1. Alternates(timeline[a]) /\ timeline[a][i] \in Entry
    BY DEF AlertInv, AlertOK, AlertTypes
  <2>2. timeline[a][i].raised \in BOOLEAN
    BY <2>1 DEF Entry
  <2>3. timeline[a][i].raised <=> i % 2 = 1
    BY <2>1 DEF Alternates
  <2>4. timeline[a][i].raised = (i % 2 = 1)
    BY <2>2, <2>3
  <2> QED BY <2>1, <2>4 DEF Alternates
<1>2. ASSUME NEW a \in Site!AlertIds
      PROVE  /\ since[a].raised /\ updated - since[a].at >= RaiseAfter => Site!OnTimeline(a)
             /\ ~since[a].raised /\ updated - since[a].at >= ResolveAfter => ~Site!OnTimeline(a)
  <2> DEFINE s == timeline[a]
             t == tracked[a]
  <2>1. /\ AlertOK(a) /\ s \in Seq(Entry) /\ since[a] \in Entry
        /\ updated \in Nat /\ RaiseAfter \in Nat /\ ResolveAfter \in Nat
        /\ a \in DOMAIN tracked => t \in Alert
    BY DEF AlertInv, AlertTypes, TimeOK, Site!ConstantsAssumption
  <2>2. /\ since[a].at \in Nat
        /\ a \in DOMAIN tracked => t.first \in Nat /\ t.last \in Nat
    BY <2>1 DEF Entry, Alert
  <2>3. Site!Recorded(tracked, a) <=> a \in DOMAIN tracked /\ t.recorded
    BY DEF Site!Recorded
  <2>4. /\ Alternates(s)
        /\ Site!Recorded(tracked, a) => EndsUp(s)
        /\ ~Site!Recorded(tracked, a) => EndsDown(s)
        /\ since[a].raised => a \in DOMAIN tracked
        /\ a \in DOMAIN tracked => TrackedOK(t, since[a], s, updated)
    BY <2>1 DEF AlertOK
  <2>5. Site!OnTimeline(a) <=> s # <<>> /\ s[Len(s)].raised
    BY DEF Site!OnTimeline, Site!Last
  <2>6. ASSUME EndsUp(s) PROVE Site!OnTimeline(a)
    <3>1. Len(s) \in DOMAIN s
      BY <2>1, <2>6, LastEntry
    <3>2. Len(s) % 2 = 1
      BY <2>6 DEF EndsUp
    <3>3. s[Len(s)].raised
      BY <2>4, <3>1, <3>2 DEF Alternates
    <3>4. s # <<>>
      BY <3>1
    <3> QED BY <2>5, <3>3, <3>4
  <2>7. ASSUME EndsDown(s) PROVE ~Site!OnTimeline(a)
    <3>1. CASE s = <<>>
      BY <2>5, <3>1
    <3>2. CASE s # <<>>
      <4>1. Len(s) \in DOMAIN s
        BY <2>1, <3>2
      <4>2. Len(s) % 2 = 0
        BY <2>7 DEF EndsDown
      <4>3. Len(s) % 2 # 1
        <5> DEFINE n == Len(s) % 2
        <5>1. n = 0
          BY <4>2
        <5> HIDE DEF n
        <5>2. n # 1
          BY <5>1
        <5> QED BY <5>2 DEF n
      <4> QED BY <2>4, <2>5, <4>1, <4>3 DEF Alternates
    <3> QED BY <3>1, <3>2
  <2> HIDE DEF s, t
  <2>8. ASSUME since[a].raised, updated - since[a].at >= RaiseAfter PROVE Site!OnTimeline(a)
    <3>1. a \in DOMAIN tracked /\ TrackedOK(t, since[a], s, updated)
      BY <2>4, <2>8
    <3>2. t.recorded
      BY <2>1, <2>2, <2>8, <3>1 DEF TrackedOK
    <3> QED BY <2>3, <2>4, <2>6, <3>1, <3>2
  <2>9. ASSUME ~since[a].raised, updated - since[a].at >= ResolveAfter PROVE ~Site!OnTimeline(a)
    <3>1. a \notin DOMAIN tracked
      <4>1. ASSUME a \in DOMAIN tracked PROVE FALSE
        <5>1. t.last <= since[a].at /\ updated - t.last < ResolveAfter
          BY <2>4, <2>9, <4>1 DEF TrackedOK
        <5> QED BY <2>1, <2>2, <2>9, <4>1, <5>1
      <4> QED BY <4>1
    <3> QED BY <2>3, <2>4, <2>7, <3>1
  <2> QED BY <2>8, <2>9
<1> QED BY <1>1, <1>2 DEF Site!TimelineAlternates, Site!LastingChangesAreRecorded

LEMMA FlickerStep ==
    ASSUME Site!ConstantsAssumption, AlertInv, SiteStep, NEW a \in Site!AlertIds,
           timeline'[a] # timeline[a]
    PROVE  /\ since'[a].raised = Site!Last(timeline'[a]).raised
           /\ since'[a].raised => now - since'[a].at >= RaiseAfter
           /\ ~since'[a].raised => now - tracked[a].last >= ResolveAfter
<1>1. Site!Update
  BY OnlyUpdates DEF Site!reportVars
<1>2. AlertDone(a)
  BY <1>1, UpdateIs, UpdateRaised, UpdateResolved
<1>3. /\ since'[a].raised <=> timeline'[a][Len(timeline'[a])].raised
      /\ since'[a].raised => now - since'[a].at >= RaiseAfter
      /\ ~since'[a].raised => now - tracked[a].last >= ResolveAfter
      /\ since'[a] \in Entry
  BY <1>2 DEF AlertDone, NotAFlicker
<1>4. timeline'[a] \in Seq(Entry) /\ timeline'[a] # <<>>
  <2>1. timeline'[a] = timeline[a] \o Site!Entries(a) /\ timeline[a] \in Seq(Entry)
    BY <1>1 DEF Site!Update, AlertInv, AlertTypes
  <2>2. timeline[a] = <<>> => timeline'[a] # <<>>
    OBVIOUS
  <2>3. Site!Entries(a) \in Seq(Entry)
    <3>1. [raised |-> TRUE, at |-> now] \in Entry /\ [raised |-> FALSE, at |-> now] \in Entry
      BY DEF Entry, AlertInv, TimeOK
    <3> QED BY <3>1 DEF Site!Entries
  <2>4. timeline[a] # <<>> => timeline'[a] # <<>>
    BY <2>1, <2>3
  <2> QED BY <1>2, <2>2, <2>4 DEF AlertDone
<1>5. timeline'[a][Len(timeline'[a])].raised \in BOOLEAN
  <2>1. Len(timeline'[a]) \in DOMAIN timeline'[a]
    BY <1>4
  <2>2. timeline'[a][Len(timeline'[a])] \in Entry
    BY <1>4, <2>1
  <2> QED BY <2>2 DEF Entry
<1>6. since'[a].raised \in BOOLEAN
  BY <1>3 DEF Entry
<1> QED BY <1>3, <1>5, <1>6 DEF Site!Last

(* For every site, and every delay: the timeline raises and resolves each  *)
(* alert in turn, records what lasted, and never a flicker                 *)
(* (TimelineIsEarned).                                                     *)
THEOREM TimelineEarned == Site!Spec => TimelineIsEarned
<1>1. Site!Init => AlertInv
  BY AlertStart
<1>2. AlertInv /\ [Site!Next]_(Site!siteVars) => AlertInv'
  BY AlertMove, SiteAssumption DEF SiteStep
<1>3. AlertInv => Site!TimelineAlternates /\ Site!LastingChangesAreRecorded
  BY TimelineHolds, SiteAssumption
<1>4. AlertInv /\ [Site!Next]_(Site!siteVars) =>
        [\A a \in Site!AlertIds : timeline'[a] # timeline[a] =>
            /\ since'[a].raised = Site!Last(timeline'[a]).raised
            /\ since'[a].raised => now - since'[a].at >= RaiseAfter
            /\ ~since'[a].raised => now - tracked[a].last >= ResolveAfter]_(Site!siteVars)
  BY FlickerStep, SiteAssumption DEF SiteStep
<1> QED BY <1>1, <1>2, <1>3, <1>4, PTL
     DEF Site!Spec, TimelineIsEarned, Site!TimelineIsEarned, Site!FlickersAreNot

-----------------------------------------------------------------------------
(* Sums as what there is to count, and whom they can count.                *)
LEMMA SameCounts ==
    ASSUME NEW S
    PROVE  Site!Cardinality(S) = Cardinality(S) /\ (Site!IsFiniteSet(S) <=> IsFiniteSet(S))
<1>1. Site!Cardinality(S) = Cardinality(S)
  BY Zenon DEF Site!Cardinality, Cardinality
<1>2. Site!IsFiniteSet(S) <=> IsFiniteSet(S)
  BY Zenon DEF Site!IsFiniteSet, IsFiniteSet
<1> QED BY <1>1, <1>2

LEMMA LeastIs ==
    ASSUME NEW S \in SUBSET Nat, S # {}
    PROVE  \E x \in S : \A y \in S : x <= y
<1>1. PICK n \in S : TRUE
  OBVIOUS
<1> DEFINE D == 0 .. n
           R == StrictSubsetOrdering(D)
           T == {0 .. m : m \in S \cap D}
<1>2. IsFiniteSet(D)
  BY <1>1, FS_Interval
<1>3. IsWellFoundedOn(R, SUBSET D)
  BY <1>2, FS_StrictSubsetOrderingWellFounded, FS_FiniteSubsetsOfFinite
<1>4. T \subseteq SUBSET D /\ T # {}
  BY <1>1
<1> HIDE DEF R
<1>5. PICK X \in T : \A Y \in T : ~(<<Y, X>> \in R)
  BY <1>3, <1>4, WFMin
<1>6. PICK x \in S \cap D : X = 0 .. x
  BY <1>5
<1>7. ASSUME NEW y \in S, y < x PROVE FALSE
  <2>1. y \in S \cap D /\ 0 .. y \in T
    BY <1>1, <1>6, <1>7
  <2>2. 0 .. y \subseteq 0 .. x /\ 0 .. y # 0 .. x /\ 0 .. x \subseteq D
    BY <1>1, <1>6, <1>7
  <2>3. <<0 .. y, 0 .. x>> \in R
    BY <2>1, <2>2, <1>4, <1>5, <1>6 DEF R, StrictSubsetOrdering
  <2> QED BY <1>5, <1>6, <2>1, <2>3
<1>8. x \in S /\ \A y \in S : x <= y
  BY <1>6, <1>7
<1> QED BY <1>8

LEMMA GreatestIs ==
    ASSUME NEW B \in Nat, NEW S \in SUBSET (0 .. B), S # {}
    PROVE  \E x \in S : \A y \in S : x >= y
<1> DEFINE T == {B - x : x \in S}
<1>1. T \in SUBSET Nat /\ T # {}
  <2>1. \A x \in S : x \in 0 .. B
    OBVIOUS
  <2>2. \A x \in S : B - x \in Nat
    BY <2>1
  <2> QED BY <2>2
<1>2. PICK z \in T : \A w \in T : z <= w
  BY <1>1, LeastIs
<1>3. PICK x \in S : z = B - x
  BY <1>2
<1>4. \A y \in S : x >= y
  <2> TAKE y \in S
  <2>1. z <= B - y
    BY <1>2
  <2> QED BY <1>3, <2>1
<1> QED BY <1>3, <1>4

(* The places there are: of each x in S, as many as n says.                *)
Places(S, n) == UNION {{x} \X (1 .. n[x]) : x \in S}

LEMMA PlaceIs ==
    ASSUME NEW S, NEW n, NEW p
    PROVE  p \in Places(S, n) <=> \E x \in S : \E i \in 1 .. n[x] : p = <<x, i>>
BY DEF Places

(* Each set of a family is counted by its places.                          *)
LEMMA Counted ==
    ASSUME NEW S, NEW n, NEW W, NEW P, IsFiniteSet(P),
           \A x \in S : W[x] \in SUBSET P /\ n[x] = Cardinality(W[x])
    PROVE  \E F : \A x \in S : F[x] \in Bijection(1 .. n[x], W[x])
<1> DEFINE F == [x \in S |-> CHOOSE f : f \in Bijection(1 .. n[x], W[x])]
<1>1. ASSUME NEW x \in S PROVE F[x] \in Bijection(1 .. n[x], W[x])
  <2>1. IsFiniteSet(W[x])
    BY FS_Subset
  <2>2. Bijection(1 .. n[x], W[x]) # {}
    BY <2>1, FS_CardinalityType DEF ExistsBijection
  <2> QED BY <2>2
<1> QED BY <1>1

(* Sets apart from each other have no more places than there are elements. *)
LEMMA PlacesAtMost ==
    ASSUME NEW S, NEW n, NEW W, NEW P, IsFiniteSet(P),
           \A x \in S : W[x] \in SUBSET P /\ n[x] = Cardinality(W[x]),
           \A x, y \in S : x # y => W[x] \cap W[y] = {}
    PROVE  Cardinality(Places(S, n)) <= Cardinality(P)
<1>1. PICK F : \A x \in S : F[x] \in Bijection(1 .. n[x], W[x])
  BY Counted
<1> DEFINE g == [p \in Places(S, n) |-> F[p[1]][p[2]]]
<1>2. ASSUME NEW p \in Places(S, n)
      PROVE  /\ p[1] \in S /\ p[2] \in 1 .. n[p[1]] /\ p = <<p[1], p[2]>>
             /\ g[p] \in W[p[1]] /\ g[p] = F[p[1]][p[2]]
  <2>1. PICK x \in S : \E i \in 1 .. n[x] : p = <<x, i>>
    BY PlaceIs
  <2>2. F[x] \in [1 .. n[x] -> W[x]]
    BY <1>1 DEF Bijection, Injection
  <2>3. PICK i \in 1 .. n[x] : p = <<x, i>>
    BY <2>1
  <2>4. F[x][i] \in W[x]
    BY <2>2, <2>3
  <2> QED BY <2>3, <2>4
<1>3. g \in [Places(S, n) -> P]
  BY <1>2
<1>4. ASSUME NEW p \in Places(S, n), NEW q \in Places(S, n), g[p] = g[q] PROVE p = q
  <2>1. p[1] = q[1]
    BY <1>2, <1>4
  <2>2. F[p[1]] \in Bijection(1 .. n[p[1]], W[p[1]])
    BY <1>1, <1>2
  <2>3. F[p[1]][p[2]] = F[p[1]][q[2]] => p[2] = q[2]
    BY <1>2, <2>1, <2>2 DEF Bijection, Injection, IsInjective
  <2> QED BY <1>2, <1>4, <2>1, <2>3
<1>5. g \in Injection(Places(S, n), P)
  <2>1. IsInjective(g)
    BY <1>4 DEF IsInjective
  <2> QED BY <1>3, <2>1 DEF Injection
<1> HIDE DEF g
<1> QED BY <1>5, FS_Injection

(* Sets that cover all the elements have at least as many places.          *)
LEMMA PlacesAtLeast ==
    ASSUME NEW S, NEW n, NEW W, NEW P, IsFiniteSet(S), IsFiniteSet(P),
           \A x \in S : W[x] \in SUBSET P /\ n[x] = Cardinality(W[x])
    PROVE  Cardinality(UNION {W[x] : x \in S}) <= Cardinality(Places(S, n))
<1> DEFINE U == UNION {W[x] : x \in S}
           Q == Places(S, n)
<1>1. PICK F : \A x \in S : F[x] \in Bijection(1 .. n[x], W[x])
  BY Counted
<1>2. IsFiniteSet(Q)
  <2> DEFINE H == {{x} \X (1 .. n[x]) : x \in S}
  <2>1. IsFiniteSet(H)
    <3> DEFINE h == [x \in S |-> {x} \X (1 .. n[x])]
    <3>1. h \in Surjection(S, H)
      BY DEF Surjection
    <3> QED BY <3>1, FS_Surjection
  <2>2. \A T \in H : IsFiniteSet(T)
    <3> SUFFICES ASSUME NEW x \in S PROVE IsFiniteSet({x} \X (1 .. n[x]))
      OBVIOUS
    <3>1. n[x] \in Nat
      <4>1. IsFiniteSet(W[x])
        BY FS_Subset
      <4> QED BY <4>1, FS_CardinalityType
    <3>2. IsFiniteSet({x})
      BY FS_Singleton
    <3>3. IsFiniteSet(1 .. n[x])
      BY <3>1, FS_Interval
    <3> QED BY <3>2, <3>3, FS_Product
  <2> HIDE DEF H
  <2>3. IsFiniteSet(UNION H)
    BY <2>1, <2>2, FS_UNION
  <2> QED BY <2>3 DEF H, Places
<1> DEFINE g == [p \in Q |-> F[p[1]][p[2]]]
<1>3. ASSUME NEW p \in Q PROVE g[p] \in U
  <2>1. PICK x \in S : \E i \in 1 .. n[x] : p = <<x, i>>
    BY PlaceIs
  <2>2. F[x] \in [1 .. n[x] -> W[x]]
    BY <1>1 DEF Bijection, Injection
  <2>3. PICK i \in 1 .. n[x] : p = <<x, i>>
    BY <2>1
  <2>4. F[x][i] \in W[x]
    BY <2>2, <2>3
  <2> QED BY <2>3, <2>4
<1>4. ASSUME NEW u \in U PROVE \E p \in Q : g[p] = u
  <2>1. PICK x \in S : u \in W[x]
    OBVIOUS
  <2>2. PICK i \in 1 .. n[x] : F[x][i] = u
    BY <1>1, <2>1 DEF Bijection, Surjection
  <2>3. <<x, i>> \in Q
    BY PlaceIs
  <2> QED BY <2>2, <2>3
<1>5. g \in Surjection(Q, U)
  BY <1>3, <1>4 DEF Surjection
<1> HIDE DEF g, Q
<1>6. Cardinality(U) <= Cardinality(Q)
  BY <1>2, <1>5, FS_Surjection
<1> QED BY <1>6 DEF Q

-----------------------------------------------------------------------------
(* Whom the contributors see, and who of them waits.                       *)
SitePeople == UNION {analysis[c].sees : c \in Site!Contributing}
SiteWaiting == UNION {analysis[c].waits : c \in Site!Measuring}
Apart ==
    \A a, b \in Site!AreasOf(Site!Contributing) :
        a # b => Site!SeenIn(Site!Contributing, a) \cap Site!SeenIn(Site!Contributing, b) = {}

LEMMA WhoIsSeen ==
    ASSUME Site!ConstantsAssumption, ReadingsInv
    PROVE  /\ IsFiniteSet(People) /\ IsFiniteSet(Site!Cameras)
           /\ \A c \in Site!Contributing :
                 /\ c \in Site!Cameras /\ analysis[c].sees \in SUBSET SitePeople
                 /\ Site!Seen(c) = Cardinality(analysis[c].sees)
           /\ SitePeople \in SUBSET People /\ IsFiniteSet(SitePeople)
           /\ \A c \in Site!Measuring :
                 /\ c \in Site!Contributing
                 /\ analysis[c].waits \in SUBSET SiteWaiting
                 /\ analysis[c].waits \subseteq analysis[c].sees
                 /\ Site!Waiting(c) = Cardinality(analysis[c].waits)
           /\ SiteWaiting \in SUBSET SitePeople /\ IsFiniteSet(SiteWaiting)
<1>1. IsFiniteSet(People)
  BY SameCounts DEF Site!ConstantsAssumption
<1>2. IsFiniteSet(Site!Cameras)
  <2> DEFINE T == {Sequence[i] : i \in DOMAIN Sequence}
  <2>1. Sequence \in Seq(T) /\ Site!Cameras = T
    BY DEF Site!ConstantsAssumption, Site!Cameras, Site!ToSet
  <2>2. Sequence \in Surjection(1 .. Len(Sequence), T) /\ Len(Sequence) \in Nat
    BY <2>1 DEF Surjection
  <2>3. IsFiniteSet(1 .. Len(Sequence))
    BY <2>2, FS_Interval
  <2> HIDE DEF T
  <2> QED BY <2>1, <2>2, <2>3, FS_Surjection
<1>3. ASSUME NEW c \in Site!Contributing
      PROVE  c \in Site!Cameras /\ analysis[c] # Nothing /\ analysis[c].sees \in SUBSET People
  BY DEF Site!Contributing, ReadingsInv, Readings
<1>4. SitePeople \in SUBSET People /\ IsFiniteSet(SitePeople)
  <2>1. SitePeople \in SUBSET People
    BY <1>3 DEF SitePeople
  <2> QED BY <1>1, <2>1, FS_Subset
<1>5. ASSUME NEW c \in Site!Measuring
      PROVE  c \in Site!Contributing /\ analysis[c].waits \subseteq analysis[c].sees
  BY <1>3 DEF Site!Measuring, ReadingsInv
<1>6. SiteWaiting \in SUBSET SitePeople /\ IsFiniteSet(SiteWaiting)
  <2>1. SiteWaiting \in SUBSET SitePeople
    BY <1>5 DEF SiteWaiting, SitePeople
  <2> QED BY <1>4, <2>1, FS_Subset
<1>7. \A c \in Site!Contributing : analysis[c].sees \in SUBSET SitePeople
  BY DEF SitePeople
<1>8. \A c \in Site!Measuring : analysis[c].waits \in SUBSET SiteWaiting
  BY DEF SiteWaiting
<1>9. \A c : /\ Site!Seen(c) = Cardinality(analysis[c].sees)
             /\ Site!Waiting(c) = Cardinality(analysis[c].waits)
  BY SameCounts DEF Site!Seen, Site!Waiting
<1> QED BY <1>1, <1>2, <1>3, <1>4, <1>5, <1>6, <1>7, <1>8, <1>9

(* Every person seen has a place among what the cameras see.               *)
LEMMA SeenIsBounded ==
    ASSUME Site!ConstantsAssumption, ReadingsInv
    PROVE  Cardinality(SitePeople) <= Site!UpperBound
<1> DEFINE n == [c \in Site!Contributing |-> Site!Seen(c)]
           W == [c \in Site!Contributing |-> analysis[c].sees]
<1>1. /\ IsFiniteSet(Site!Contributing) /\ IsFiniteSet(SitePeople)
      /\ \A c \in Site!Contributing : W[c] \in SUBSET SitePeople /\ n[c] = Cardinality(W[c])
  <2>1. Site!Contributing \in SUBSET Site!Cameras
    BY DEF Site!Contributing
  <2> QED BY <2>1, WhoIsSeen, FS_Subset
<1>2. SitePeople = UNION {W[c] : c \in Site!Contributing}
  BY DEF SitePeople
<1>3. Site!UpperBound = Cardinality(Places(Site!Contributing, n))
  <2>1. UNION {{c} \X (1 .. Site!Seen(c)) : c \in Site!Contributing} = Places(Site!Contributing, n)
    BY DEF Places
  <2> QED BY <2>1, SameCounts DEF Site!UpperBound, Site!Total
<1> HIDE DEF n, W
<1> QED BY <1>1, <1>2, <1>3, PlacesAtLeast

LEMMA WaitingIsBounded ==
    ASSUME Site!ConstantsAssumption, ReadingsInv
    PROVE  Cardinality(SiteWaiting) <= Site!PooledUpper
<1> DEFINE n == [c \in Site!Measuring |-> Site!Waiting(c)]
           W == [c \in Site!Measuring |-> analysis[c].waits]
<1>1. /\ IsFiniteSet(Site!Measuring) /\ IsFiniteSet(SiteWaiting)
      /\ \A c \in Site!Measuring : W[c] \in SUBSET SiteWaiting /\ n[c] = Cardinality(W[c])
  <2>1. Site!Measuring \in SUBSET Site!Cameras
    BY DEF Site!Contributing, Site!Measuring
  <2> QED BY <2>1, WhoIsSeen, FS_Subset
<1>2. SiteWaiting = UNION {W[c] : c \in Site!Measuring}
  BY DEF SiteWaiting
<1>3. Site!PooledUpper = Cardinality(Places(Site!Measuring, n))
  <2>1. UNION {{c} \X (1 .. Site!Waiting(c)) : c \in Site!Measuring} = Places(Site!Measuring, n)
    BY DEF Places
  <2> QED BY <2>1, SameCounts DEF Site!PooledUpper, Site!Total
<1> HIDE DEF n, W
<1> QED BY <1>1, <1>2, <1>3, PlacesAtLeast

(* Of each area, one camera that sees the most of it.                      *)
LEMMA LargestIs ==
    ASSUME Site!ConstantsAssumption, ReadingsInv, NEW a \in Site!AreasOf(Site!Contributing)
    PROVE  \E c \in Site!Group(Site!Contributing, a) :
              Site!LargestOf(Site!Group(Site!Contributing, a), Site!Seen) = Cardinality(analysis[c].sees)
<1> DEFINE G == Site!Group(Site!Contributing, a)
           S == {Site!Seen(c) : c \in G}
           B == Cardinality(People)
<1>1. \A c \in G : c \in Site!Contributing
  BY DEF Site!Group
<1>2. S # {}
  BY DEF Site!Group, Site!AreasOf
<1>3. ASSUME NEW c \in G PROVE Site!Seen(c) \in 0 .. B
  <2>1. /\ Site!Seen(c) = Cardinality(analysis[c].sees) /\ analysis[c].sees \in SUBSET People
        /\ IsFiniteSet(People)
    BY <1>1, WhoIsSeen
  <2>2. IsFiniteSet(analysis[c].sees) /\ Cardinality(analysis[c].sees) <= B
    BY <2>1, FS_Subset
  <2>3. Cardinality(analysis[c].sees) \in Nat /\ B \in Nat
    BY <2>1, <2>2, FS_CardinalityType
  <2> QED BY <2>1, <2>2, <2>3
<1>4. B \in Nat
  BY WhoIsSeen, FS_CardinalityType
<1>5. S \in SUBSET (0 .. B)
  BY <1>3
<1>6. Site!LargestOf(G, Site!Seen) = CHOOSE x \in S : \A y \in S : x >= y
  BY DEF Site!LargestOf, Site!Max
<1> HIDE DEF S, B
<1>7. \E x \in S : \A y \in S : x >= y
  BY <1>2, <1>4, <1>5, GreatestIs
<1>8. Site!LargestOf(G, Site!Seen) \in S
  BY <1>6, <1>7
<1>9. PICK c \in G : Site!LargestOf(G, Site!Seen) = Site!Seen(c)
  BY <1>8 DEF S
<1> QED BY <1>1, <1>9, WhoIsSeen

(* While nobody is seen in two areas, nobody is counted twice.             *)
LEMMA HeadcountIsCertain ==
    ASSUME Site!ConstantsAssumption, ReadingsInv, Apart
    PROVE  Site!Headcount <= Cardinality(SitePeople)
<1> DEFINE S == Site!AreasOf(Site!Contributing)
           L(a) == Site!LargestOf(Site!Group(Site!Contributing, a), Site!Seen)
           m == [a \in S |-> CHOOSE c \in Site!Group(Site!Contributing, a) :
                                L(a) = Cardinality(analysis[c].sees)]
           n == [a \in S |-> L(a)]
           W == [a \in S |-> analysis[m[a]].sees]
<1>1. ASSUME NEW a \in S
      PROVE  /\ m[a] \in Site!Contributing /\ area[m[a]] = a
             /\ n[a] = Cardinality(W[a])
  <2>1. \E c \in Site!Group(Site!Contributing, a) : L(a) = Cardinality(analysis[c].sees)
    BY LargestIs
  <2>2. m[a] \in Site!Group(Site!Contributing, a) /\ L(a) = Cardinality(analysis[m[a]].sees)
    BY <2>1
  <2> QED BY <2>2 DEF Site!Group
<1>2. ASSUME NEW a \in S
      PROVE  W[a] \in SUBSET SitePeople /\ W[a] \subseteq Site!SeenIn(Site!Contributing, a)
  <2>1. W[a] = analysis[m[a]].sees /\ m[a] \in Site!Group(Site!Contributing, a)
    BY <1>1 DEF Site!Group
  <2> HIDE DEF m
  <2>2. analysis[m[a]].sees \subseteq SitePeople
    BY <1>1 DEF SitePeople
  <2>3. analysis[m[a]].sees \subseteq Site!SeenIn(Site!Contributing, a)
    BY <2>1 DEF Site!SeenIn
  <2> HIDE DEF W
  <2> QED BY <2>1, <2>2, <2>3
<1>3. \A a, b \in S : a # b => W[a] \cap W[b] = {}
  BY <1>2 DEF Apart
<1>4. Site!Headcount = Cardinality(Places(S, n))
  <2>1. UNION {{a} \X (1 .. L(a)) : a \in S} = Places(S, n)
    BY DEF Places
  <2> QED BY <2>1, SameCounts DEF Site!Headcount, Site!Total
<1>5. IsFiniteSet(SitePeople)
  BY WhoIsSeen
<1>6. \A a \in S : n[a] = Cardinality(W[a]) /\ W[a] \in SUBSET SitePeople
  BY <1>1, <1>2
<1> HIDE DEF n, W, S
<1> QED BY <1>3, <1>4, <1>5, <1>6, PlacesAtMost

(* One of two views of the same queue comes before the other: it is longer *)
(* or, as long, of a camera earlier in the topology.                       *)
LEMMA PlaceInOrder ==
    ASSUME Site!ConstantsAssumption
    PROVE  \E o \in [Site!Cameras -> DOMAIN Sequence] : \A c \in Site!Cameras : Sequence[o[c]] = c
<1> DEFINE o == [c \in Site!Cameras |-> CHOOSE i \in DOMAIN Sequence : Sequence[i] = c]
<1>1. \A c \in Site!Cameras : \E i \in DOMAIN Sequence : Sequence[i] = c
  BY DEF Site!Cameras, Site!ToSet
<1>2. \A c \in Site!Cameras : o[c] \in DOMAIN Sequence /\ Sequence[o[c]] = c
  BY <1>1
<1>3. o \in [Site!Cameras -> DOMAIN Sequence]
  BY <1>2
<1> QED BY <1>2, <1>3

LEMMA WaitingCounts ==
    ASSUME Site!ConstantsAssumption, ReadingsInv, NEW c \in Site!Measuring
    PROVE  Cardinality(People) \in Nat /\ Site!Waiting(c) \in 0 .. Cardinality(People)
<1>1. /\ IsFiniteSet(People) /\ analysis[c].waits \in SUBSET People
      /\ Site!Waiting(c) = Cardinality(analysis[c].waits)
  <2>1. analysis[c].waits \in SUBSET SiteWaiting
    BY WhoIsSeen
  <2>2. SiteWaiting \in SUBSET SitePeople /\ SitePeople \in SUBSET People
    BY WhoIsSeen
  <2> QED BY <2>1, <2>2, WhoIsSeen
<1>2. IsFiniteSet(analysis[c].waits) /\ Cardinality(analysis[c].waits) <= Cardinality(People)
  BY <1>1, FS_Subset
<1>3. Cardinality(analysis[c].waits) \in Nat /\ Cardinality(People) \in Nat
  BY <1>1, <1>2, FS_CardinalityType
<1> QED BY <1>1, <1>2, <1>3

LEMMA EachHasOne ==
    ASSUME Site!ConstantsAssumption, ReadingsInv, NEW a \in Site!AreasOf(Site!Measuring)
    PROVE  \E c \in Site!Representatives : area[c] = a
<1> DEFINE G == Site!Group(Site!Measuring, a)
           B == Cardinality(People)
           S == {Site!Waiting(c) : c \in G}
<1>1. \A c \in G : c \in Site!Measuring /\ area[c] = a /\ c \in Site!Cameras
  BY DEF Site!Group, Site!Measuring, Site!Contributing
<1>2. G # {}
  BY DEF Site!Group, Site!AreasOf
<1>3. B \in Nat /\ S \in SUBSET (0 .. B) /\ S # {}
  BY <1>1, <1>2, WaitingCounts
<1> HIDE DEF B
<1>4. PICK w \in S : \A x \in S : w >= x
  BY <1>3, GreatestIs
<1> DEFINE T == {c \in G : Site!Waiting(c) = w}
<1>5. PICK o \in [Site!Cameras -> DOMAIN Sequence] : \A c \in Site!Cameras : Sequence[o[c]] = c
  BY PlaceInOrder
<1>6. DOMAIN Sequence \subseteq Nat
  BY DEF Site!ConstantsAssumption
<1> DEFINE I == {o[c] : c \in T}
<1>7. I # {} /\ I \in SUBSET Nat
  BY <1>1, <1>4, <1>5, <1>6
<1>8. PICK i \in I : \A j \in I : i <= j
  BY <1>7, LeastIs
<1>9. PICK c \in T : i = o[c]
  BY <1>8
<1>10. ASSUME NEW d \in Site!Group(Site!Measuring, area[c]) \ {c}
       PROVE  \/ Site!Waiting(c) > Site!Waiting(d)
              \/ /\ Site!Waiting(c) = Site!Waiting(d)
                 /\ \E k, j \in DOMAIN Sequence : k < j /\ Sequence[k] = c /\ Sequence[j] = d
  <2>1. d \in G /\ c \in G /\ d # c /\ Site!Waiting(d) \in S /\ Site!Waiting(c) = w
    BY <1>1
  <2>2. Site!Waiting(d) \in Nat /\ w \in Nat /\ Site!Waiting(d) <= w
    BY <1>3, <1>4, <2>1
  <2>3. CASE Site!Waiting(d) # w
    BY <2>1, <2>2, <2>3
  <2>4. CASE Site!Waiting(d) = w
    <3>1. d \in T
      BY <2>1, <2>4
    <3>2. o[d] \in I /\ i <= o[d]
      BY <1>8, <3>1
    <3>3. Sequence[o[c]] = c /\ Sequence[o[d]] = d /\ {o[c], o[d]} \subseteq DOMAIN Sequence
      BY <1>1, <1>5, <2>1
    <3>4. o[c] # o[d]
      BY <2>1, <3>3
    <3>5. o[c] \in Nat /\ o[d] \in Nat
      BY <1>6, <3>3
    <3>6. o[c] < o[d]
      BY <1>9, <3>2, <3>4, <3>5
    <3> QED BY <2>1, <2>4, <3>3, <3>6
  <2> QED BY <2>3, <2>4
<1>11. c \in Site!Measuring /\ area[c] = a
  BY <1>1
<1>12. c \in Site!Representatives
  BY <1>10, <1>11 DEF Site!Representatives
<1> QED BY <1>11, <1>12

LEMMA OnlyOne ==
    ASSUME Site!ConstantsAssumption, ReadingsInv,
           NEW c \in Site!Representatives, NEW d \in Site!Representatives, area[c] = area[d]
    PROVE  c = d
<1> SUFFICES ASSUME c # d PROVE FALSE
  OBVIOUS
<1>1. c \in Site!Measuring /\ d \in Site!Measuring
  BY DEF Site!Representatives
<1>2. c \in Site!Group(Site!Measuring, area[d]) /\ d \in Site!Group(Site!Measuring, area[c])
  BY <1>1 DEF Site!Group
<1>3. Site!Waiting(c) \in Nat /\ Site!Waiting(d) \in Nat
  BY <1>1, WaitingCounts
<1>4. \/ Site!Waiting(c) > Site!Waiting(d)
      \/ /\ Site!Waiting(c) = Site!Waiting(d)
         /\ \E i, j \in DOMAIN Sequence : i < j /\ Sequence[i] = c /\ Sequence[j] = d
  BY <1>2 DEF Site!Representatives
<1>5. \/ Site!Waiting(d) > Site!Waiting(c)
      \/ /\ Site!Waiting(d) = Site!Waiting(c)
         /\ \E i, j \in DOMAIN Sequence : i < j /\ Sequence[i] = d /\ Sequence[j] = c
  BY <1>2 DEF Site!Representatives
<1>6. /\ \E i, j \in DOMAIN Sequence : i < j /\ Sequence[i] = c /\ Sequence[j] = d
      /\ \E i, j \in DOMAIN Sequence : i < j /\ Sequence[i] = d /\ Sequence[j] = c
  BY <1>3, <1>4, <1>5
<1>7. \A i, j \in DOMAIN Sequence : Sequence[i] = Sequence[j] => i = j
  BY DEF Site!ConstantsAssumption, Site!IsInjective
<1>8. DOMAIN Sequence \subseteq Nat
  BY DEF Site!ConstantsAssumption
<1>9. PICK i \in DOMAIN Sequence, j \in DOMAIN Sequence : i < j /\ Sequence[i] = c /\ Sequence[j] = d
  BY <1>6
<1>10. PICK k \in DOMAIN Sequence, l \in DOMAIN Sequence : k < l /\ Sequence[k] = d /\ Sequence[l] = c
  BY <1>6
<1>11. k = j /\ l = i
  BY <1>7, <1>9, <1>10
<1> QED BY <1>8, <1>9, <1>10, <1>11

(* One counter for each area with a queue.                                 *)
LEMMA CountersAreAreas ==
    ASSUME Site!ConstantsAssumption, ReadingsInv
    PROVE  Site!PooledCounters = Cardinality(Site!AreasOf(Site!Measuring))
<1> DEFINE R == Site!Representatives
           A == Site!AreasOf(Site!Measuring)
           f == [c \in R |-> area[c]]
<1>1. IsFiniteSet(R)
  <2>1. R \in SUBSET Site!Cameras
    BY DEF Site!Representatives, Site!Measuring, Site!Contributing
  <2> QED BY <2>1, WhoIsSeen, FS_Subset
<1>2. \A c \in R : f[c] \in A
  BY DEF Site!Representatives, Site!AreasOf
<1>3. \A c, d \in R : f[c] = f[d] => c = d
  BY OnlyOne
<1>4. \A a \in A : \E c \in R : f[c] = a
  BY EachHasOne
<1>5. f \in Bijection(R, A)
  BY <1>2, <1>3, <1>4 DEF Bijection, Injection, Surjection, IsInjective
<1> HIDE DEF f, R, A
<1>6. Cardinality(A) = Cardinality(R)
  BY <1>1, <1>5, FS_Bijection DEF ExistsBijection
<1> QED BY <1>6, SameCounts DEF Site!PooledCounters, R, A

LEMMA PooledIsCertain ==
    ASSUME Site!ConstantsAssumption, ReadingsInv, Apart
    PROVE  Site!PooledLength <= Cardinality(SiteWaiting)
<1> DEFINE S == Site!Representatives
           n == [c \in S |-> Site!Waiting(c)]
           W == [c \in S |-> analysis[c].waits]
<1>1. ASSUME NEW c \in S
      PROVE  /\ c \in Site!Contributing /\ W[c] \in SUBSET SiteWaiting
             /\ W[c] \subseteq analysis[c].sees /\ n[c] = Cardinality(W[c])
  <2>1. c \in Site!Measuring
    BY DEF Site!Representatives
  <2> QED BY <2>1, WhoIsSeen
<1>2. \A c \in S : /\ area[c] \in Site!AreasOf(Site!Contributing)
                   /\ W[c] \subseteq Site!SeenIn(Site!Contributing, area[c])
  BY <1>1 DEF Site!AreasOf, Site!SeenIn, Site!Group
<1>3. ASSUME NEW c \in S, NEW d \in S, c # d PROVE W[c] \cap W[d] = {}
  <2>1. area[c] # area[d]
    BY <1>3, OnlyOne
  <2> QED BY <1>2, <2>1 DEF Apart
<1>4. Site!PooledLength = Cardinality(Places(S, n))
  <2>1. UNION {{c} \X (1 .. Site!Waiting(c)) : c \in S} = Places(S, n)
    BY DEF Places
  <2> QED BY <2>1, SameCounts DEF Site!PooledLength, Site!Total
<1>5. IsFiniteSet(SiteWaiting)
  BY WhoIsSeen
<1> HIDE DEF n, W, S
<1> QED BY <1>1, <1>3, <1>4, <1>5, PlacesAtMost

LEMMA CountedOnce ==
    ASSUME Site!ConstantsAssumption, ReadingsInv
    PROVE  Site!NobodyIsCountedTwice
<1>1. Apart => Site!Headcount <= Cardinality(SitePeople) /\ Site!PooledLength <= Cardinality(SiteWaiting)
  BY HeadcountIsCertain, PooledIsCertain
<1>2. /\ Cardinality(SitePeople) <= Site!UpperBound /\ Cardinality(SiteWaiting) <= Site!PooledUpper
      /\ Site!PooledCounters = Cardinality(Site!AreasOf(Site!Measuring))
  BY SeenIsBounded, WaitingIsBounded, CountersAreAreas
<1>3. /\ Site!Cardinality(SitePeople) = Cardinality(SitePeople)
      /\ Site!Cardinality(SiteWaiting) = Cardinality(SiteWaiting)
      /\ Site!Cardinality(Site!AreasOf(Site!Measuring)) = Cardinality(Site!AreasOf(Site!Measuring))
  BY SameCounts
<1> QED BY <1>1, <1>2, <1>3 DEF Site!NobodyIsCountedTwice, Apart, SitePeople, SiteWaiting

LEMMA NothingSilent ==
    ASSUME OnceInv PROVE Site!NothingIsLostInSilence
BY DEF OnceInv, Site!NothingIsLostInSilence, Site!Alerts, Site!Lost, Site!Stale, Site!Missing

LEMMA FiguresHold ==
    ASSUME Site!ConstantsAssumption, ReadingsInv, OnceInv, BasisInv, AlertInv
    PROVE  Site!FiguresAreWhole
<1>1. Site!TypeOK
  <2>1. \A c \in Site!Cameras : area[c] \in Areas /\ (analysis[c] # Nothing => analysis[c].at <= now)
    BY DEF ReadingsInv
  <2>2. ASSUME NEW a \in DOMAIN tracked
        PROVE  a \in Site!AlertIds /\ tracked[a].first <= tracked[a].last /\ tracked[a].last <= now
    <3>1. a \in Site!AlertIds /\ tracked[a] \in Alert
      BY DEF AlertInv, AlertTypes
    <3>2. /\ tracked[a].first <= tracked[a].last /\ tracked[a].last <= updated
          /\ updated <= now /\ updated \in Nat /\ now \in Nat
      BY <3>1 DEF AlertInv, AlertOK, TrackedOK, TimeOK
    <3>3. tracked[a].last \in Nat
      BY <3>1 DEF Alert
    <3> QED BY <3>1, <3>2, <3>3
  <2> QED BY <2>1, <2>2 DEF Site!TypeOK
<1>2. Site!ForecastIsOfOneSet
  BY DEF BasisInv, Site!ForecastIsOfOneSet
<1> QED BY <1>1, <1>2, CountedOnce, NothingSilent DEF Site!FiguresAreWhole

(* For every site: the figures of its cameras are whole                    *)
(* (FiguresAreWhole).                                                      *)
THEOREM FiguresWhole == Site!Spec => []FiguresAreWhole
<1> DEFINE I == ReadingsInv /\ OnceInv /\ BasisInv /\ AlertInv
<1>1. Site!Init => I
  BY ReadingsStart, AlertStart, SiteAssumption
<1>2. I /\ [Site!Next]_(Site!siteVars) => I'
  BY ReadingsMove, OnceMove, BasisMove, AlertMove, SiteAssumption DEF SiteStep
<1>3. I => FiguresAreWhole
  BY FiguresHold, SiteAssumption DEF FiguresAreWhole
<1> HIDE DEF I
<1> QED BY <1>1, <1>2, <1>3, PTL DEF Site!Spec

-----------------------------------------------------------------------------
(* The composed model: the subject that moves does as it would alone.      *)
LEMMA SubjectsMove ==
    [MCNext]_<<subject, vars, siteVars, siteEdits>> =>
        [Next]_vars /\ [Site!Next]_(Site!siteVars)
<1> SUFFICES ASSUME [MCNext]_<<subject, vars, siteVars, siteEdits>>
             PROVE  [Next]_vars /\ [Site!Next]_(Site!siteVars)
  OBVIOUS
<1>1. UNCHANGED siteVars => UNCHANGED Site!siteVars
  BY DEF siteVars, Site!siteVars
<1>2. First \subseteq Site!Cameras
  <2> SUFFICES ASSUME NEW i \in DOMAIN Sequence PROVE Sequence[i] \in Site!Cameras
    BY DEF First
  <2> QED BY DEF Site!Cameras, Site!ToSet
<1>3. CASE subject = "link" /\ Next /\ UNCHANGED <<siteVars, siteEdits>>
  BY <1>1, <1>3
<1>4. CASE SiteNext /\ UNCHANGED vars
  <2>1. CASE Site!Update
    BY <1>4, <2>1 DEF Site!Next
  <2>2. CASE Count
    <3>1. CASE \E c \in Site!Cameras : Site!StatusTurns(c, "live")
      BY <1>4, <3>1 DEF Site!Next
    <3>2. CASE \E c \in Site!Cameras, sees \in SUBSET People :
                  \E waits \in {Nothing, sees} : Site!Analysed(c, sees, waits)
      <4>1. PICK c \in Site!Cameras, sees \in SUBSET People :
                \E waits \in {Nothing, sees} : Site!Analysed(c, sees, waits)
        BY <3>2
      <4>2. \E waits \in {Nothing} \cup SUBSET sees : Site!Analysed(c, sees, waits)
        BY <4>1
      <4>3. Site!Next
        BY <4>1, <4>2 DEF Site!Next
      <4> QED BY <1>4, <4>3
    <3>3. CASE \E c \in First : \/ Site!StatusTurns(c, "offline") \/ Site!Draw(c)
                                \/ \E a \in Areas : Site!SetArea(c, a)
                                \/ \E on \in BOOLEAN : Site!Enable(c, on)
      BY <1>2, <1>4, <3>3 DEF Site!Next
    <3> QED BY <2>2, <3>1, <3>2, <3>3 DEF Count
  <2>3. CASE Losses
    <3>1. CASE \E d \in 1 .. MaxStep : Site!Wait(d)
      BY <1>4, <3>1 DEF Site!Next
    <3>2. CASE \E c \in First : Site!Analysed(c, {}, Nothing)
      BY <1>2, <1>4, <3>2 DEF Site!Next
    <3>3. CASE \E c \in First :
                  \/ \E s \in {"live", "recovering", "offline"} : Site!StatusTurns(c, s)
                  \/ Site!Retry(c) \/ \E on \in BOOLEAN : Site!Enable(c, on)
      BY <1>2, <1>4, <3>3 DEF Site!Next
    <3> QED BY <2>3, <3>1, <3>2, <3>3 DEF Losses
  <2> QED BY <1>4, <2>1, <2>2, <2>3 DEF SiteNext
<1>5. CASE UNCHANGED <<subject, vars, siteVars, siteEdits>>
  BY <1>1, <1>5
<1> QED BY <1>3, <1>4, <1>5 DEF MCNext

(* Whatever the subject of a behaviour of the composed model, the client   *)
(* agrees with the services and the site's report is whole and earned.     *)
THEOREM ToldThroughout ==
    MCSpec => []ClientAgrees /\ []FiguresAreWhole /\ TimelineIsEarned
<1>1. MCInit => Init /\ Site!Init
  BY DEF MCInit
<1>2. MCSpec => Spec /\ Site!Spec
  BY <1>1, SubjectsMove, PTL DEF MCSpec, Spec, Site!Spec
<1> QED BY <1>2, AgreesClient, FiguresWhole, TimelineEarned, PTL
=============================================================================
