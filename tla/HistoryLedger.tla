----------------------------- MODULE HistoryLedger -----------------------------
(***************************************************************************)
(* What HistoryRecorder promises: an observation is accepted once, and     *)
(* then either stands in the one row of its bucket for as long as rows are *)
(* kept, or is dropped for good.  Only a clock that was set back may make  *)
(* a row forget observations it has.                                       *)
(***************************************************************************)
CONSTANTS Windows, Places    \* observations; the rows they may belong to

VARIABLES
    pending,     \* accepted, neither recorded nor dropped yet
    settled,     \* windows that left pending
    recorded,    \* of each place: the windows its row stands for
    disturbed    \* the clock was set back

vars == <<pending, settled, recorded, disturbed>>

Init ==
    /\ pending = {} /\ settled = {}
    /\ recorded = [p \in Places |-> {}] /\ disturbed = FALSE

Accept ==
    /\ \E w \in Windows \ (pending \cup settled) : pending' = pending \cup {w}
    /\ UNCHANGED <<settled, recorded, disturbed>>

\* Some windows leave pending, and never come back.
Settle ==
    /\ pending' # pending /\ pending' \subseteq pending
    /\ settled' = settled \cup (pending \ pending')
    /\ UNCHANGED disturbed

Record(p) ==
    /\ Settle
    /\ recorded' = [recorded EXCEPT ![p] = recorded'[p]]
    /\ pending \ pending' \subseteq recorded'[p] /\ recorded'[p] \subseteq settled'
    /\ ~disturbed => recorded'[p] = recorded[p] \cup (pending \ pending')

Drop == Settle /\ UNCHANGED recorded

Expire ==
    /\ \A p \in Places : recorded'[p] \in {recorded[p], {}}
    /\ UNCHANGED <<pending, settled, disturbed>>

Disturb == disturbed' = TRUE /\ UNCHANGED <<pending, settled, recorded>>

Next == Accept \/ Drop \/ Expire \/ Disturb \/ \E p \in Places : Record(p)

Spec == Init /\ [][Next]_vars
=============================================================================
