---------------------------- MODULE DocumentStore ----------------------------
(***************************************************************************)
(* DocumentStore: one of the JSON documents an operator edits: the camera  *)
(* registry, the links between zones, a camera's zones.  Each is written   *)
(* to a temporary file that then replaces the old one; they differ in what *)
(* they remember of a file they could not read, and in when memory follows *)
(* the disk.                                                               *)
(*                                                                         *)
(* A document is the set of edits it holds.  The process may be killed     *)
(* between any two steps.                                                  *)
(***************************************************************************)
EXTENDS Naturals

CONSTANTS
    MaxEdits,        \* bound: edits
    MaxCrashes,      \* bound: kills of the process
    Unreadable       \* a file that cannot be read

VARIABLES
    kind,            \* which document
    up,              \* whether the process runs
    disk,            \* the file; no file and an empty one are the same
    memory,          \* what the process holds
    loadError,       \* _load_error
    save,            \* the save in progress
    tried,           \* edits tried
    refused,         \* edits answered with an error since the start or a save
    acked,           \* the last edit acknowledged
    crashes, damaged

vars == <<kind, up, disk, memory, loadError, save, tried, refused, acked,
          crashes, damaged>>

Kinds == {"cameras", "topology", "zones"}
\* Assumed wherever the module is instantiated.
ConstantsAssumption ==
    /\ MaxEdits \in Nat /\ MaxCrashes \in Nat
    /\ \A document \in SUBSET (1 .. MaxEdits) : document # Unreadable

Edits == 1 .. MaxEdits
Documents == SUBSET Edits
NoSave == [edit |-> 0, content |-> {}, at |-> "idle"]

\* The registry adds to what it has, the others are replaced whole.
Accumulates == kind = "cameras"

\* A zone file that could not be read is read as having none from then on.
RemembersError == kind # "zones"

TypeOK ==
    /\ kind \in Kinds /\ up \in BOOLEAN /\ loadError \in BOOLEAN
    /\ disk \in Documents \cup {Unreadable} /\ memory \in Documents
    /\ save \in [edit : Edits \cup {0}, content : Documents,
                 at : {"idle", "write", "replace", "return"}]
    /\ tried \in 0 .. MaxEdits /\ refused \subseteq Edits /\ acked \in 0 .. MaxEdits
    /\ crashes \in 0 .. MaxCrashes /\ damaged \in BOOLEAN

Init ==
    /\ kind \in Kinds /\ up = FALSE /\ disk = {} /\ memory = {}
    /\ loadError = FALSE /\ save = NoSave /\ tried = 0 /\ refused = {}
    /\ acked = 0 /\ crashes = 0 /\ damaged = FALSE

\* Mutant: the error is logged and forgotten.
LoadForgiving ==
    /\ memory' = IF disk = Unreadable THEN {} ELSE disk
    /\ UNCHANGED loadError

\* _load: a file that cannot be read is as good as none, and remembered.
Load ==
    /\ memory' = IF disk = Unreadable THEN {} ELSE disk
    /\ loadError' = (disk = Unreadable /\ RemembersError)

Start ==
    /\ ~up /\ up' = TRUE /\ Load
    /\ UNCHANGED <<kind, disk, save, tried, refused, acked, crashes, damaged>>

\* The registry's memory is changed before it is saved.
MemoryAtSave(content) == IF Accumulates THEN content ELSE memory

(* save: refused when the file could not be read.                          *)
Begin ==
    LET edit == tried + 1
        content == IF Accumulates THEN memory \cup {edit} ELSE {edit}
    IN  /\ up /\ save = NoSave /\ edit \in Edits /\ tried' = edit
        /\ ~loadError
        /\ save' = [edit |-> edit, content |-> content, at |-> "write"]
        /\ memory' = MemoryAtSave(content)
        /\ UNCHANGED <<kind, up, disk, loadError, refused, acked, crashes, damaged>>

\* The temporary file is written and flushed.
WriteTemporary ==
    /\ save.at = "write" /\ save' = [save EXCEPT !.at = "replace"]
    /\ UNCHANGED <<kind, up, disk, memory, loadError, tried, refused, acked,
                   crashes, damaged>>

Replace ==
    /\ save.at = "replace" /\ save' = [save EXCEPT !.at = "return"]
    /\ disk' = save.content
    /\ UNCHANGED <<kind, up, memory, loadError, tried, refused, acked, crashes,
                   damaged>>

Return ==
    /\ save.at = "return" /\ save' = NoSave
    /\ memory' = save.content /\ acked' = save.edit /\ refused' = {}
    /\ UNCHANGED <<kind, up, disk, loadError, tried, crashes, damaged>>

\* An OSError: the temporary file stays behind, the document is as it was.
Fails ==
    /\ save.at \in {"write", "replace"} /\ save' = NoSave
    /\ refused' = refused \cup {save.edit}
    /\ UNCHANGED <<kind, up, disk, memory, loadError, tried, acked, crashes,
                   damaged>>

Crash ==
    /\ up /\ crashes < MaxCrashes /\ crashes' = crashes + 1
    /\ up' = FALSE /\ memory' = {} /\ loadError' = FALSE /\ save' = NoSave
    /\ refused' = {}
    /\ UNCHANGED <<kind, disk, tried, acked, damaged>>

\* While the process is down the file is damaged by hand, or written by
\* another version; and repaired by taking it away.
Damage ==
    /\ ~up /\ ~damaged /\ damaged' = TRUE
    /\ disk' = Unreadable /\ acked' = 0
    /\ UNCHANGED <<kind, up, memory, loadError, save, tried, refused, crashes>>

Repair ==
    /\ ~up /\ disk = Unreadable /\ disk' = {} /\ acked' = 0
    /\ UNCHANGED <<kind, up, memory, loadError, save, tried, refused, crashes,
                   damaged>>

Next ==
    \/ Start \/ Begin \/ WriteTemporary \/ Replace \/ Return \/ Fails
    \/ Crash \/ Damage \/ Repair

Spec == Init /\ [][Next]_vars

-----------------------------------------------------------------------------
(* Properties.                                                             *)

(* A document is durable: whatever moment the process is killed at, it     *)
(* holds what was acknowledged and is whole, and no edit the registry has  *)
(* stored is ever dropped; one that could not be read is kept, except a    *)
(* camera's zones.                                                         *)
Durable == INSTANCE DurableDocument
    WITH kept <- RemembersError, adds <- Accumulates, stored <- disk
IsDurable == Durable!Spec

(* What is shown is what is stored, and what would be shown after a        *)
(* restart, also after a save that failed; the registry alone keeps an     *)
(* edit it has refused, until the next start or the next save, that takes  *)
(* it along.                                                               *)
ShownIsStored ==
    /\ up /\ save = NoSave /\ disk # Unreadable
    /\ Accumulates => refused = {}
    => memory = disk

(* A document survives what happens to the process, and shows what it      *)
(* stores.                                                                 *)
DocumentIsKept == [](TypeOK /\ ShownIsStored) /\ IsDurable
=============================================================================
