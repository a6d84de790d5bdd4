---------------------------- MODULE CameraManager ----------------------------
(***************************************************************************)
(* CameraManager: an operator's edits, carried out on running cameras.     *)
(*                                                                         *)
(* Edits take one lock: the registry is changed and saved, then the        *)
(* camera's runtime adopts the change, which suspends while a worker is    *)
(* stopped or its source exchanged.  Tests of an address and reconnections *)
(* take no lock.  The process may be killed at any moment; it starts again *)
(* from the file, in the same environment or in another.                   *)
(*                                                                         *)
(* The registry resolves the cameras of a site from what the environment   *)
(* declares and what an operator has edited, added or removed.  A book is  *)
(* the registry's memory, and the file's content: the cameras an operator  *)
(* added, the overrides of declared ones, and the declared ones that were  *)
(* removed.  A camera's identifier is its number.                          *)
(***************************************************************************)
EXTENDS Naturals, FiniteSets, FiniteSetsExt, Functions

CONSTANTS
    MaxId,           \* bound: the highest camera number
    Urls,            \* stream addresses
    Unset,           \* no address
    Primary,         \* the camera that may not be removed
    SeedUrl          \* of the cameras the environment may declare, the address

Ids == 1 .. MaxId
Seeds == DOMAIN SeedUrl

ASSUME RegistryAssumption ==
    /\ MaxId \in Nat /\ Unset \notin Urls
    /\ Seeds \subseteq Ids /\ Primary \in Seeds
    /\ SeedUrl \in [Seeds -> Urls \cup {Unset}]

Addresses == Urls \cup {Unset}
Definitions == [url : Addresses, enabled : BOOLEAN]
EmptyBook == [added |-> << >>, overrides |-> << >>, removed |-> {}]

\* A function without some of its arguments.
Without(f, ids) == Restrict(f, DOMAIN f \ ids)

\* The first function where it is defined, the second elsewhere; and a function
\* with one value put in.
Over(f, g) == [x \in DOMAIN f \cup DOMAIN g |-> IF x \in DOMAIN f THEN f[x] ELSE g[x]]
Put(f, id, value) == Over([x \in {id} |-> value], f)

Override(book, id) ==
    IF id \in DOMAIN book.overrides THEN book.overrides[id] ELSE << >>

\* _resolve_seed: fields that were edited, the rest as the environment has them.
ResolveSeed(book, id) ==
    LET edits == Override(book, id)
    IN  [url |-> IF "url" \in DOMAIN edits THEN edits["url"] ELSE SeedUrl[id],
         enabled |-> IF "enabled" \in DOMAIN edits THEN edits["enabled"] ELSE TRUE]

\* The declared cameras that were not removed; the primary cannot be.
Declared(book, env) == {id \in env : id = Primary \/ id \notin book.removed}

(* cameras: a camera both declared and added is the declared one.          *)
Cameras(book, env) ==
    [id \in Declared(book, env) \cup DOMAIN book.added |->
        IF id \in Declared(book, env) THEN ResolveSeed(book, id) ELSE book.added[id]]

(* _next_camera_id: after every number the registry knows of.              *)
NextId(book, env) == 1 + Max(env \cup DOMAIN book.added \cup book.removed)

(* add: a removed camera of the environment comes back with overrides, any *)
(* other is stored whole.                                                  *)
AddTo(book, env, id, spec) ==
    IF id \in env
    THEN [book EXCEPT !.removed = @ \ {id}, !.overrides = Put(@, id, spec)]
    ELSE [book EXCEPT !.added = Put(@, id, spec)]

\* An address cleared is the environment's again; other fields are kept.
Edited(edits, changes) ==
    LET cleared == IF "url" \in DOMAIN changes /\ changes["url"] = Unset
                   THEN {"url"} ELSE {}
    IN  Over(Without(changes, cleared), Without(edits, cleared))

(* update: of a declared camera the override, of another its entry.        *)
UpdateIn(book, env, id, changes) ==
    IF id \in Declared(book, env)
    THEN LET edits == Edited(Override(book, id), changes)
         IN  [book EXCEPT !.overrides =
                 IF DOMAIN edits = {} THEN Without(@, {id}) ELSE Put(@, id, edits)]
    ELSE [book EXCEPT !.added[id] = Over(changes, @)]

\* Mutant: only the override is dropped.
RemoveFromForgetful(book, env, id) ==
    IF id \in Declared(book, env) THEN [book EXCEPT !.overrides = Without(@, {id})]
    ELSE [book EXCEPT !.added = Without(@, {id})]

(* remove: a declared camera is recorded as removed, another forgotten.    *)
RemoveFrom(book, env, id) ==
    IF id \in Declared(book, env)
    THEN [book EXCEPT !.removed = @ \cup {id}, !.overrides = Without(@, {id})]
    ELSE [book EXCEPT !.added = Without(@, {id})]

-----------------------------------------------------------------------------
CONSTANTS
    MaxEdits,        \* bound: edits that reach the registry
    MaxFailedSaves,  \* bound: saves that fail
    MaxRestarts      \* bound: restarts

ASSUME ManagerAssumption == {MaxEdits, MaxFailedSaves, MaxRestarts} \subseteq Nat

VARIABLES
    env,             \* the cameras the environment declares
    book, file,      \* the registry in memory and on disk
    runtimes,        \* of some cameras, the definition and the worker
    op,              \* the edit that holds the lock and is suspended
    test,            \* the connection test in progress
    gone,            \* declared cameras that were removed and not added since
    refused,         \* whether a save failed since the start
    edits, failedSaves, restarts

bookVars == <<env, book, file>>
countVars == <<refused, failedSaves, restarts>>
vars == <<bookVars, runtimes, op, test, gone, edits, countVars>>

NoOp == [kind |-> "none", id |-> Primary]
NoTest == [url |-> Unset, how |-> "none"]

(* A runtime: what it was defined as, the state of its worker and the      *)
(* address the worker's attempt or stream was built with.                  *)
Runtimes == [url : Addresses, enabled : BOOLEAN,
             worker : {"stopped", "trying", "running"}, source : Addresses]

RuntimeOf(def) ==
    [url |-> def.url, enabled |-> def.enabled, source |-> def.url,
     worker |-> IF def.enabled THEN "trying" ELSE "stopped"]

DefinitionOf(runtime) == [url |-> runtime.url, enabled |-> runtime.enabled]

\* Mutant: only a camera that is connecting owns its address.
OwnsTrying(runtime, url) ==
    runtime.enabled /\ runtime.url = url /\ runtime.worker = "trying"

\* _owner_of: an enabled camera whose worker is not stopped has the address.
Owns(runtime, url) ==
    runtime.enabled /\ runtime.url = url /\ runtime.worker # "stopped"

Owners(url) == {id \in DOMAIN runtimes : Owns(runtimes[id], url)}

TypeOK ==
    /\ env \subseteq Seeds /\ Primary \in env
    /\ \A b \in {book, file} :
          /\ DOMAIN b.added \subseteq Ids
          /\ \A id \in DOMAIN b.added : b.added[id] \in Definitions
          /\ DOMAIN b.overrides \subseteq Seeds /\ b.removed \subseteq Seeds \ {Primary}
    /\ Primary \in DOMAIN runtimes /\ DOMAIN runtimes \subseteq Ids
    /\ \A id \in DOMAIN runtimes : runtimes[id] \in Runtimes
    /\ op.kind \in {"none", "disable", "swap", "remove"} /\ op.id \in DOMAIN runtimes
    /\ test.url \in Addresses /\ test.how \in {"none", "open", "diagnose"}
    /\ gone \subseteq Seeds \ {Primary} /\ refused \in BOOLEAN
    /\ edits \in 0 .. MaxEdits /\ failedSaves \in 0 .. MaxFailedSaves
    /\ restarts \in 0 .. MaxRestarts

\* start: every camera is built from the registry and the enabled ones started.
Built(b, e) == [id \in DOMAIN Cameras(b, e) |-> RuntimeOf(Cameras(b, e)[id])]

Init ==
    /\ env \in {e \in SUBSET Seeds : Primary \in e}
    /\ book = EmptyBook /\ file = EmptyBook
    /\ runtimes = Built(EmptyBook, env)
    /\ op = NoOp /\ test = NoTest /\ gone = {}
    /\ refused = FALSE /\ edits = 0 /\ failedSaves = 0 /\ restarts = 0

-----------------------------------------------------------------------------
(* Edits.                                                                  *)

Holds(kind, id) == op = [kind |-> kind, id |-> id]

\* Edits wait for the lock.
MayEdit == op = NoOp /\ edits < MaxEdits /\ edits' = edits + 1

(* The registry is changed, then saved; when the save fails the edit fails *)
(* and the runtimes are left as they are.                                  *)
SaveFails(changed) ==
    /\ failedSaves < MaxFailedSaves /\ failedSaves' = failedSaves + 1
    /\ book' = changed /\ refused' = TRUE /\ UNCHANGED <<file, runtimes, op>>

Saved(changed) ==
    book' = changed /\ file' = changed /\ UNCHANGED <<refused, failedSaves>>

(* add_camera: without an identifier the next is given; one that exists is *)
(* refused.                                                                *)
AddCamera(id, spec) ==
    LET given == IF id = 0 THEN NextId(book, env) ELSE id
        changed == AddTo(book, env, given, spec)
    IN  /\ MayEdit /\ given \in Ids /\ given \notin DOMAIN Cameras(book, env)
        /\ \/ SaveFails(changed)
           \/ /\ Saved(changed)
              /\ runtimes' = Put(runtimes, given, RuntimeOf(Cameras(changed, env)[given]))
              /\ UNCHANGED op
        /\ gone' = gone \ {given}
        /\ UNCHANGED <<env, test, restarts>>

(* apply: a camera switched off is stopped, one switched on started, a     *)
(* running one given another address exchanges its source in place, and    *)
(* one that is connecting takes it with its next attempt.                  *)
Apply(id, def) ==
    LET was == runtimes[id]
        now == Over(def, was)
    IN  \/ /\ was.enabled /\ ~def.enabled
           /\ runtimes' = [runtimes EXCEPT ![id] = now]
           /\ op' = [kind |-> "disable", id |-> id]
        \/ /\ ~was.enabled /\ def.enabled
           /\ runtimes' = [runtimes EXCEPT ![id] = RuntimeOf(def)]
           /\ UNCHANGED op
        \/ /\ was.enabled = def.enabled
           /\ runtimes' = [runtimes EXCEPT ![id] = now]
           /\ op' = IF def.enabled /\ def.url # was.url /\ was.worker = "running"
                    THEN [kind |-> "swap", id |-> id] ELSE op

\* update_camera.
UpdateCamera(id, changes) ==
    LET changed == UpdateIn(book, env, id, changes)
    IN  /\ MayEdit /\ id \in DOMAIN runtimes /\ id \in DOMAIN Cameras(book, env)
        /\ \/ SaveFails(changed)
           \/ Saved(changed) /\ Apply(id, Cameras(changed, env)[id])
        /\ UNCHANGED <<env, test, gone, restarts>>

\* remove_camera: the primary is refused.
RemoveCamera(id) ==
    LET changed == RemoveFrom(book, env, id)
    IN  /\ MayEdit /\ id # Primary
        /\ id \in DOMAIN runtimes /\ id \in DOMAIN Cameras(book, env)
        /\ \/ SaveFails(changed) /\ UNCHANGED gone
           \/ /\ Saved(changed) /\ op' = [kind |-> "remove", id |-> id]
              /\ gone' = gone \cup ({id} \cap Declared(book, env))
              /\ UNCHANGED runtimes
        /\ UNCHANGED <<env, test, restarts>>

\* The worker has stopped.
Disabled(id) ==
    /\ Holds("disable", id) /\ op' = NoOp
    /\ runtimes' = [runtimes EXCEPT ![id].worker = "stopped"]
    /\ UNCHANGED <<bookVars, test, gone, edits, countVars>>

\* The source was exchanged; an address that cannot be opened is recovered from.
Swapped(id, opens) ==
    /\ Holds("swap", id) /\ op' = NoOp
    /\ runtimes' = [runtimes EXCEPT ![id].source = runtimes[id].url,
                                    ![id].worker = IF opens THEN "running" ELSE "trying"]
    /\ UNCHANGED <<bookVars, test, gone, edits, countVars>>

\* The camera was stopped and is released.
Released(id) ==
    /\ Holds("remove", id) /\ op' = NoOp
    /\ runtimes' = Without(runtimes, {id})
    /\ UNCHANGED <<bookVars, test, gone, edits, countVars>>

-----------------------------------------------------------------------------
(* Workers, one step of their supervision each.                            *)

Attempt(id) ==
    /\ id \in DOMAIN runtimes /\ (op = NoOp \/ op.id # id)
    /\ runtimes[id].worker = "trying" /\ runtimes[id].source # runtimes[id].url
    /\ runtimes' = [runtimes EXCEPT ![id].source = runtimes[id].url]
    /\ UNCHANGED <<bookVars, op, test, gone, edits, countVars>>

\* A device serves one client.
Connect(id) ==
    /\ id \in DOMAIN runtimes /\ runtimes[id].worker = "trying"
    /\ runtimes[id].source \in Urls
    /\ runtimes' = [runtimes EXCEPT ![id].worker = "running"]
    /\ UNCHANGED <<bookVars, op, test, gone, edits, countVars>>

StreamLost(id) ==
    /\ id \in DOMAIN runtimes /\ runtimes[id].worker = "running"
    /\ runtimes' = [runtimes EXCEPT ![id].worker = "trying"]
    /\ UNCHANGED <<bookVars, op, test, gone, edits, countVars>>

-----------------------------------------------------------------------------
(* test_connection: the address of a connected camera is answered from its *)
(* own measurements, that of one still connecting is looked at over HTTP,  *)
(* any other is opened.                                                    *)

TestConnection(url) ==
    /\ test = NoTest
    /\ \/ Owners(url) = {} /\ test' = [url |-> url, how |-> "open"]
       \/ /\ \E id \in Owners(url) : runtimes[id].worker # "running"
          /\ test' = [url |-> url, how |-> "diagnose"]
    /\ UNCHANGED <<bookVars, runtimes, op, gone, edits, countVars>>

TestEnds ==
    /\ test # NoTest /\ test' = NoTest
    /\ UNCHANGED <<bookVars, runtimes, op, gone, edits, countVars>>

-----------------------------------------------------------------------------

Restart(e) ==
    /\ restarts < MaxRestarts /\ restarts' = restarts + 1
    /\ Primary \in e /\ env' = e
    /\ book' = file /\ runtimes' = Built(file, e)
    /\ op' = NoOp /\ test' = NoTest /\ refused' = FALSE
    /\ UNCHANGED <<file, gone, edits, failedSaves>>

Changes == [{"url"} -> Addresses] \cup [{"enabled"} -> BOOLEAN]

Next ==
    \/ \E id \in {0} \cup Ids, spec \in Definitions : AddCamera(id, spec)
    \/ \E id \in Ids, changes \in Changes : UpdateCamera(id, changes)
    \/ \E id \in Ids : RemoveCamera(id)
    \/ \E id \in Ids : Disabled(id) \/ Released(id)
    \/ \E id \in Ids, opens \in BOOLEAN : Swapped(id, opens)
    \/ \E id \in Ids : Attempt(id) \/ Connect(id) \/ StreamLost(id)
    \/ \E url \in Urls : TestConnection(url)
    \/ TestEnds
    \/ \E e \in SUBSET Seeds : Restart(e)

Spec == Init /\ [][Next]_vars

-----------------------------------------------------------------------------
(* Properties.                                                             *)

Running == [id \in DOMAIN runtimes |-> DefinitionOf(runtimes[id])]

\* No camera is both declared and added.
Unshadowed == DOMAIN book.added \cap env = {}

(* Once an edit is answered, and as long as every one could be saved, the  *)
(* cameras that run are those a restart would bring, with the same         *)
(* addresses and switches: the manager turns into running behaviour        *)
(* exactly what the registry recorded.                                     *)
RestartBringsTheSame ==
    op = NoOp /\ ~refused /\ Unshadowed => Running = Cameras(file, env)

(* A declared camera that was removed stays away in every environment,     *)
(* unless an operator has added one of that number: its removal is         *)
(* recorded, not only its edits dropped.                                   *)
RemovedStaysRemoved ==
    \A id \in gone : id \in DOMAIN Cameras(file, env) => id \in DOMAIN file.added

(* Once an edit is answered a camera that is switched off has stopped, and *)
(* one that is switched on runs or tries to: also when edits were refused  *)
(* in between and take effect together with a later one.                   *)
WorkerFollows ==
    op = NoOp => \A id \in DOMAIN runtimes :
                    runtimes[id].enabled <=> runtimes[id].worker # "stopped"

(* A test never opens an address that a camera is reading, unless that     *)
(* camera is being edited or reads an address it was moved away from: a    *)
(* device serves one client, and the test would take its stream.           *)
TestsDoNotSteal ==
    [][\A id \in DOMAIN runtimes :
          /\ test = NoTest /\ test'.how = "open"
          /\ runtimes[id].worker = "running" /\ runtimes[id].source = test'.url
          => \/ op # NoOp /\ op.id = id
             \/ runtimes[id].source # runtimes[id].url]_vars

(* What the registry recorded is what runs and what a restart brings.      *)
BookIsKept == TypeOK /\ RestartBringsTheSame /\ RemovedStaysRemoved

(* Streams are opened for the cameras that are switched on, and taken from *)
(* none of them.                                                           *)
StreamsFollow == []WorkerFollows /\ TestsDoNotSteal
=============================================================================
