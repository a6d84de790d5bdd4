--------------------------- MODULE DurableDocument ---------------------------
(***************************************************************************)
(* DurableDocument: what an operator may rely on of a document saved from  *)
(* the Command Center.  It holds what was acknowledged, a save takes       *)
(* effect whole or not at all, and once it cannot be read only a person    *)
(* replaces it.  One that adds never loses an edit; of the others a later  *)
(* edit replaces all earlier ones, never the reverse.                      *)
(***************************************************************************)
EXTENDS Naturals

CONSTANTS
    MaxEdits,        \* bound: edits
    Unreadable       \* a document that cannot be read

VARIABLES
    kept,            \* whether an unreadable document is kept
    adds,            \* whether an edit adds to what is stored
    stored,          \* the edits it holds, or Unreadable
    acked            \* the last edit acknowledged, 0 for none

Edits == 1 .. MaxEdits
vars == <<kept, adds, stored, acked>>

Init ==
    /\ kept \in BOOLEAN /\ adds \in BOOLEAN /\ adds => kept
    /\ stored = {} /\ acked = 0

Adds(e) == stored \cup {e} \subseteq stored'
Replaces(e) == stored' = {e}

\* A save takes effect.
Save ==
    /\ stored = Unreadable => ~kept
    /\ stored' # Unreadable /\ stored' \in SUBSET Edits
    /\ \E e \in Edits : e > acked /\ IF adds THEN Adds(e) ELSE Replaces(e)
    /\ UNCHANGED <<kept, adds, acked>>

\* The operator is told so.
Acknowledge ==
    /\ stored # Unreadable /\ acked' \in stored /\ acked' > acked
    /\ UNCHANGED <<kept, adds, stored>>

\* The file is damaged, or repaired by taking it away.
Damage == stored' = Unreadable /\ acked' = 0 /\ UNCHANGED <<kept, adds>>
Repair ==
    /\ stored = Unreadable /\ stored' = {} /\ acked' = 0
    /\ UNCHANGED <<kept, adds>>

Next == Save \/ Acknowledge \/ Damage \/ Repair

Spec == Init /\ [][Next]_vars
=============================================================================
