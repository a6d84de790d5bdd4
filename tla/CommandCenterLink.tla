--------------------------- MODULE CommandCenterLink ---------------------------
(***************************************************************************)
(* What one Command Center shows, and what the server knows: one camera's  *)
(* workflow phase and timeline, and component health, from the services    *)
(* through the event bus, the publisher and the connection to the client's *)
(* reducers.                                                               *)
(*                                                                         *)
(* Everything runs on one event loop; a step is what runs between two      *)
(* awaits.  Each of the event bus' tasks, the broadcasts' sends and the    *)
(* send lock is first in, first out, and the socket delivers in order.     *)
(***************************************************************************)
EXTENDS Naturals, Sequences, FiniteSets

None == "none"

CONSTANTS
    Phases, Monitoring,   \* OperationalState, the resting one
    Healths,              \* what a health check can answer
    SnapshotLimit,        \* SNAPSHOT_TIMELINE_LIMIT
    MaxEntries,           \* bound on timeline entries
    MaxBacklog            \* bound on messages on their way

ASSUME LinkAssumption ==
    /\ Monitoring \in Phases /\ None \notin Phases /\ Healths # {}
    /\ SnapshotLimit \in Nat \ {0} /\ MaxEntries \in Nat /\ MaxBacklog \in Nat

VARIABLES
    phase, sequence, entries, health,   \* the services: entries by their sequence
    dispatched,                         \* EventBus: messages of tasks not yet run
    sending,                            \* broadcast: sends not yet started
    outbox,                             \* Connection.send: written or waiting to be
    signature,                          \* RealtimePublisher._last_health_signature
    connected, building,                \* the connection; a snapshot in the making
    shown,                              \* the client's LiveData
    told                                \* history: a phase came with or after the last snapshot
services == <<phase, sequence, entries, health>>
queues == <<dispatched, sending, outbox>>
vars == <<services, queues, signature, connected, building, shown, told>>

Message ==
    [type : {"state"}, phase : Phases]
    \cup [type : {"report"}]
    \cup [type : {"entry"}, entry : 1 .. MaxEntries]
    \cup [type : {"health"}, health : Healths]
    \cup [type : {"snapshot"}, phase : Phases \cup {None},
          entries : SUBSET (1 .. MaxEntries), health : Healths]

TypeOK ==
    /\ phase \in Phases /\ health \in Healths /\ sequence \in 0 .. MaxEntries
    /\ entries \subseteq 1 .. sequence
    /\ {dispatched, sending, outbox} \subseteq Seq(Message)
    /\ signature \in Healths \cup {None}
    /\ {connected, building, told} \subseteq BOOLEAN
    /\ building => connected
    /\ shown \in [phase : Phases \cup {None}, entries : SUBSET (1 .. sequence),
                  health : Healths \cup {None}]

Init ==
    /\ phase = Monitoring /\ sequence = 0 /\ entries = {} /\ health \in Healths
    /\ dispatched = <<>> /\ sending = <<>> /\ outbox = <<>>
    /\ signature = None /\ connected = FALSE /\ building = FALSE
    /\ shown = [phase |-> None, entries |-> {}, health |-> None]
    /\ told = FALSE

-----------------------------------------------------------------------------
(* The services.  A change is dispatched with its payload.                 *)

Backlog == Len(dispatched) + Len(sending) + Len(outbox)

StateMessage(p) == [type |-> "state", phase |-> p]
ReportMessage == [type |-> "report"]
EntryMessage(e) == [type |-> "entry", entry |-> e]
EntryMessages(from, to) == [i \in 1 .. to - from |-> EntryMessage(from + i)]

\* OperationalStateService's answer, announced when it is a change.
SaysMoved(from, to) == IF to = from THEN <<>> ELSE <<StateMessage(to)>>

\* Mutant: a session's end is not announced.
SaysNothing(p) == <<>>

\* clear: the phase the session leaves is announced unless it is at rest.
SaysReset(p) == SaysMoved(p, Monitoring)

\* _record_report: a report is announced when the window carries one.  What it
\* says is DecisionReports'; here it matters that the client hears of one.
SaysReport(issued) == IF issued THEN <<ReportMessage>> ELSE <<>>

\* handle_analysis: a window moves the phase to p, brings a report or none, and
\* logs n entries; a phase that moves logs one.  Entries are announced last.
Window(p, issued, n) ==
    /\ Backlog < MaxBacklog /\ sequence + n <= MaxEntries
    /\ p # phase => n > 0
    /\ phase' = p /\ sequence' = sequence + n
    /\ entries' = entries \cup (sequence + 1 .. sequence')
    /\ dispatched' = dispatched \o SaysMoved(phase, p) \o SaysReport(issued)
                        \o EntryMessages(sequence, sequence')
    /\ UNCHANGED <<health, sending, outbox, signature, connected, building, shown,
                   told>>

\* handle_analysis for the first window of a new frame session: clear, and an
\* entry that says so, before the window's own n.
SessionRestarts(p, issued, n) ==
    /\ Backlog < MaxBacklog /\ sequence + 1 + n <= MaxEntries
    /\ p # Monitoring => n > 0
    /\ phase' = p /\ sequence' = sequence + 1 + n
    /\ entries' = sequence + 1 .. sequence'
    /\ dispatched' = dispatched \o SaysReset(phase) \o <<EntryMessage(sequence + 1)>>
                        \o SaysMoved(Monitoring, p) \o SaysReport(issued)
                        \o EntryMessages(sequence + 1, sequence')
    /\ UNCHANGED <<health, sending, outbox, signature, connected, building, shown,
                   told>>

\* record_operator_action: the entry is announced before the phase.
OperatorActs(p) ==
    /\ Backlog < MaxBacklog /\ sequence < MaxEntries
    /\ phase' = p /\ sequence' = sequence + 1
    /\ entries' = entries \cup {sequence'}
    /\ dispatched' = Append(dispatched, EntryMessage(sequence')) \o SaysMoved(phase, p)
    /\ UNCHANGED <<health, sending, outbox, signature, connected, building, shown,
                   told>>

HealthChanges(h) ==
    /\ h # health /\ health' = h
    /\ UNCHANGED <<phase, sequence, entries, queues, signature, connected, building,
                   shown, told>>

-----------------------------------------------------------------------------
(* The publisher and the connection manager.                               *)

\* A dispatched task runs: _publish gathers a send for the connection, if any.
Broadcast ==
    /\ dispatched # <<>> /\ dispatched' = Tail(dispatched)
    /\ sending' = IF connected THEN Append(sending, Head(dispatched)) ELSE sending
    /\ UNCHANGED <<services, outbox, signature, connected, building, shown, told>>

\* A gathered send starts, and waits for the lock at worst.
SendStarts ==
    /\ sending # <<>> /\ sending' = Tail(sending)
    /\ outbox' = Append(outbox, Head(sending))
    /\ UNCHANGED <<services, dispatched, signature, connected, building, shown, told>>

\* One round of _broadcast_health_changes: only a change is sent.
HealthCheck ==
    /\ Backlog < MaxBacklog
    /\ \/ ~connected /\ signature' = None /\ UNCHANGED sending
       \/ /\ connected /\ signature' = health
          /\ sending' = IF health = signature THEN sending
                        ELSE Append(sending, [type |-> "health", health |-> health])
    /\ UNCHANGED <<services, dispatched, outbox, connected, building, shown, told>>

\* connect: the client is registered, then its snapshot is built.
Connect ==
    /\ ~connected /\ connected' = TRUE /\ building' = TRUE
    /\ UNCHANGED <<services, queues, signature, shown, told>>

\* resync, once its connection is established.
Resync ==
    /\ connected /\ ~building /\ Backlog < MaxBacklog
    /\ building' = TRUE
    /\ UNCHANGED <<services, queues, signature, connected, shown, told>>

\* TimelineService.entries: the latest, up to a limit.
LatestEntries(es) == {e \in es : Cardinality({o \in es : o > e}) < SnapshotLimit}

\* build ends: the services are read, and the snapshot queued, without an
\* await in between; the client uses none of what was read before the last
\* one.  A failed camera section leaves the phase out.
SnapshotBuilt(all) ==
    /\ building /\ building' = FALSE
    /\ outbox' = Append(outbox, [type |-> "snapshot",
                                 phase |-> IF all THEN phase ELSE None,
                                 entries |-> LatestEntries(entries), health |-> health])
    /\ UNCHANGED <<services, dispatched, sending, signature, connected, shown, told>>

\* The client goes, or a send fails and it is dropped.
Disconnect ==
    /\ connected /\ connected' = FALSE
    /\ building' = FALSE /\ sending' = <<>> /\ outbox' = <<>>
    /\ UNCHANGED <<services, dispatched, signature, shown, told>>

-----------------------------------------------------------------------------
(* The client's reducers.                                                  *)

\* Mutant: a snapshot keeps the guidance and workflow already shown.
SnapshotMerged(m) == [shown EXCEPT !.entries = m.entries, !.health = m.health]

Snapshot(m) == [phase |-> m.phase, entries |-> m.entries, health |-> m.health]

\* withDecision: a report for a camera of which no decision is held makes one,
\* at rest.
PhaseWith(m) ==
    CASE m.type = "state" -> m.phase
      [] m.type = "report" /\ shown.phase = None -> Monitoring
      [] OTHER -> shown.phase

Applied(m) ==
    IF m.type = "snapshot" THEN Snapshot(m)
    ELSE [phase   |-> PhaseWith(m),
          entries |-> shown.entries \cup (IF m.type = "entry" THEN {m.entry} ELSE {}),
          health  |-> IF m.type = "health" THEN m.health ELSE shown.health]

Deliver ==
    /\ outbox # <<>> /\ outbox' = Tail(outbox)
    /\ shown' = Applied(Head(outbox))
    /\ told' = IF Head(outbox).type = "snapshot" THEN Head(outbox).phase # None
               ELSE told \/ Head(outbox).type = "state"
    /\ UNCHANGED <<services, dispatched, sending, signature, connected, building>>

Delivery == Broadcast \/ SendStarts \/ Deliver \/ \E all \in BOOLEAN : SnapshotBuilt(all)

Next ==
    \/ \E p \in Phases, issued \in BOOLEAN, n \in 0 .. MaxEntries :
            Window(p, issued, n) \/ SessionRestarts(p, issued, n)
    \/ \E p \in Phases : OperatorActs(p)
    \/ \E h \in Healths : HealthChanges(h)
    \/ HealthCheck \/ Connect \/ Resync \/ Disconnect
    \/ Delivery

Spec == Init /\ [][Next]_vars

\* Tasks that can run do, and what is written arrives.
Fairness ==
    /\ WF_vars(Broadcast) /\ WF_vars(SendStarts) /\ WF_vars(Deliver)
    /\ WF_vars(\E all \in BOOLEAN : SnapshotBuilt(all))

-----------------------------------------------------------------------------
\* Nothing is on its way to a client that is connected.
Quiet == connected /\ ~building /\ Backlog = 0

\* The client shows the phase.  Until it is told one after a snapshot whose
\* camera section failed it shows none, or the resting one once a report came.
ShowsPhase == IF told THEN shown.phase = phase ELSE shown.phase \in {None, Monitoring}

(* "A client that connects late, or reconnects after a gap, is immediately *)
(* correct", and stays so: with nothing on its way it shows the phase the  *)
(* camera is in, however snapshots, updates and restarts overlapped.  It   *)
(* does not after a snapshot whose camera section failed: until the phase  *)
(* next changes it shows none, or says that the camera is at rest once a   *)
(* report has come, and nothing else.                                      *)
PhaseConverges == Quiet => ShowsPhase

(* No recent timeline entry is missed: an update sent while a snapshot was *)
(* being built, and a snapshot that overtakes one, both leave it shown.    *)
NothingIsMissed ==
    Quiet => \A e \in entries :
                 Cardinality({o \in entries : o > e}) < SnapshotLimit => e \in shown.entries

(* A client that stays connected comes to show a phase that stays, or what *)
(* a snapshot that could not tell leaves it with.                          *)
ShowsWhatLasts ==
    \A p \in Phases : <>[](connected /\ phase = p) => <>[](ShowsPhase)

(* With nothing on its way the client agrees with the services.            *)
ClientAgrees == TypeOK /\ PhaseConverges /\ NothingIsMissed
================================================================================
