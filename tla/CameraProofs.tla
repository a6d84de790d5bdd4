----------------------------- MODULE CameraProofs -----------------------------
(***************************************************************************)
(* Theorems about the instances of MCCameras, for every number of cameras, *)
(* edits, failures, restarts and crashes: what the registry recorded is    *)
(* what runs (CameraManager), and a document is what it shows, and         *)
(* implements DurableDocument (DocumentStore).                             *)
(***************************************************************************)
EXTENDS MCCameras, Sequences, TLAPS

-----------------------------------------------------------------------------
(* The registry and the manager.                                           *)

(* What a book holds.                                                      *)
EditsOK(edit) ==
    /\ "url" \in DOMAIN edit => edit["url"] \in Addresses
    /\ "enabled" \in DOMAIN edit => edit["enabled"] \in BOOLEAN
BookOK(b) ==
    /\ b = [added |-> b.added, overrides |-> b.overrides, removed |-> b.removed]
    /\ DOMAIN b.added \subseteq Ids
    /\ \A id \in DOMAIN b.added : b.added[id] \in Definitions
    /\ DOMAIN b.overrides \subseteq Seeds
    /\ \A id \in DOMAIN b.overrides : EditsOK(b.overrides[id])
    /\ b.removed \subseteq Seeds \ {Primary}

ManagerTypes ==
    /\ env \subseteq Seeds /\ Primary \in env
    /\ BookOK(book) /\ BookOK(file)
    /\ Primary \in DOMAIN runtimes /\ DOMAIN runtimes \subseteq Ids
    /\ \A id \in DOMAIN runtimes : runtimes[id] \in Runtimes
    /\ test \in [url : Addresses, how : {"none", "open", "diagnose"}]
    /\ refused \in BOOLEAN
    /\ edits \in 0 .. MaxEdits /\ failedSaves \in 0 .. MaxFailedSaves
    /\ restarts \in 0 .. MaxRestarts

(* The edit in progress is of a camera that is there, and has done to its  *)
(* definition what it does.                                                *)
OpInv ==
    /\ op \in [kind : {"none", "disable", "swap", "remove"}, id : Ids]
    /\ op.id \in DOMAIN runtimes
    /\ op.kind = "none" => op.id = Primary
    /\ op.kind = "remove" => op.id # Primary
    /\ op.kind = "disable" => ~runtimes[op.id].enabled
    /\ op.kind = "swap" => runtimes[op.id].enabled

WorkerInv ==
    \A id \in DOMAIN runtimes :
        ~Holds("disable", id) => (runtimes[id].enabled <=> runtimes[id].worker # "stopped")

(* Unless a save failed, the cameras that run and are not being removed    *)
(* are those of the book.  A camera both declared and added that was       *)
(* removed as the one is still there as the other, and does not run.       *)
Staying == DOMAIN runtimes \ (IF op.kind = "remove" THEN {op.id} ELSE {})
BookInv ==
    ~refused =>
      /\ book = file
      /\ \A id \in Staying : /\ id \in DOMAIN Cameras(book, env)
                             /\ DefinitionOf(runtimes[id]) = Cameras(book, env)[id]
      /\ \A id \in DOMAIN Cameras(book, env) :
            id \in Staying \/ id \in env \cap DOMAIN book.added

GoneInv == gone \subseteq book.removed /\ gone \subseteq file.removed

ManagerInv == ManagerTypes /\ OpInv /\ WorkerInv /\ BookInv /\ GoneInv

-----------------------------------------------------------------------------
(* About functions put over others.                                        *)
LEMMA OverIs ==
    ASSUME NEW f, NEW g
    PROVE  /\ \A x : x \in DOMAIN Over(f, g) <=> x \in DOMAIN f \/ x \in DOMAIN g
           /\ \A x \in DOMAIN f : Over(f, g)[x] = f[x]
           /\ \A x \in DOMAIN g \ DOMAIN f : Over(f, g)[x] = g[x]
BY DEF Over

LEMMA PutIs ==
    ASSUME NEW f, NEW id, NEW value
    PROVE  /\ \A x : x \in DOMAIN Put(f, id, value) <=> x \in DOMAIN f \/ x = id
           /\ Put(f, id, value)[id] = value
           /\ \A x \in DOMAIN f \ {id} : Put(f, id, value)[x] = f[x]
BY DEF Put, Over

LEMMA WithoutIs ==
    ASSUME NEW f, NEW ids
    PROVE  /\ \A x : x \in DOMAIN Without(f, ids) <=> x \in DOMAIN f /\ x \notin ids
           /\ \A x \in DOMAIN f \ ids : Without(f, ids)[x] = f[x]
BY DEF Without, Restrict

(* What an edit leaves of a definition, or of earlier edits.               *)
LEMMA ChangedIs ==
    ASSUME NEW def \in Definitions, NEW changes \in Changes
    PROVE  Over(changes, def) \in Definitions
BY DEF Changes, Definitions, Over

LEMMA ChangesOK ==
    ASSUME NEW changes \in Changes PROVE EditsOK(changes)
BY DEF Changes, EditsOK

LEMMA SpecOK ==
    ASSUME NEW spec \in Definitions
    PROVE  EditsOK(spec) /\ DOMAIN spec = {"url", "enabled"}
BY DEF Definitions, EditsOK

LEMMA EditedOK ==
    ASSUME NEW edit, EditsOK(edit), NEW changes \in Changes
    PROVE  EditsOK(Edited(edit, changes))
BY ChangesOK, OverIs, WithoutIs DEF Edited, EditsOK

-----------------------------------------------------------------------------
(* What the registry makes of a book.                                      *)
LEMMA CamerasAre ==
    ASSUME NEW b, BookOK(b), NEW e \in SUBSET Seeds
    PROVE  /\ \A x : x \in DOMAIN Cameras(b, e) <=> x \in Declared(b, e) \/ x \in DOMAIN b.added
           /\ \A x \in DOMAIN Cameras(b, e) : x \in Ids
           /\ \A x \in Declared(b, e) : x \in e
           /\ Primary \in e => Primary \in Declared(b, e)
           /\ \A id \in Declared(b, e) : Cameras(b, e)[id] = ResolveSeed(b, id)
           /\ \A id \in DOMAIN b.added \ Declared(b, e) : Cameras(b, e)[id] = b.added[id]
           /\ \A id \in DOMAIN Cameras(b, e) : Cameras(b, e)[id] \in Definitions
<1>1. Declared(b, e) \subseteq e /\ Seeds \subseteq Ids /\ DOMAIN b.added \subseteq Ids
  BY RegistryAssumption DEF Declared, BookOK
<1>2. ASSUME NEW id \in Seeds PROVE ResolveSeed(b, id) \in Definitions
  <2>1. SeedUrl[id] \in Addresses
    BY RegistryAssumption DEF Addresses
  <2>2. EditsOK(Override(b, id))
    BY DEF Override, BookOK, EditsOK
  <2> QED BY <2>1, <2>2 DEF ResolveSeed, Definitions, EditsOK
<1> QED BY <1>1, <1>2 DEF Cameras, Declared, BookOK

LEMMA SameSeed ==
    ASSUME NEW b, NEW c, NEW id,
           id \in DOMAIN b.overrides <=> id \in DOMAIN c.overrides,
           id \in DOMAIN b.overrides => b.overrides[id] = c.overrides[id]
    PROVE  ResolveSeed(b, id) = ResolveSeed(c, id)
BY DEF ResolveSeed, Override

(* A camera added is the one given, and nothing else changes.              *)
LEMMA BookAdded ==
    ASSUME NEW b, BookOK(b), NEW e \in SUBSET Seeds, NEW id \in Ids \ DOMAIN Cameras(b, e),
           NEW spec \in Definitions,
           NEW c, c = AddTo(b, e, id, spec)
    PROVE  /\ BookOK(c)
           /\ \A x : x \in DOMAIN Cameras(c, e) <=> x \in DOMAIN Cameras(b, e) \/ x = id
           /\ \A o \in DOMAIN Cameras(b, e) : Cameras(c, e)[o] = Cameras(b, e)[o]
           /\ e \cap DOMAIN c.added = e \cap DOMAIN b.added
           /\ b.removed \ {id} \subseteq c.removed
<1>1. id \notin Declared(b, e) /\ id \notin DOMAIN b.added
  BY CamerasAre
<1>2. CASE id \in e
  <2>1. c = [added |-> b.added, overrides |-> Put(b.overrides, id, spec),
             removed |-> b.removed \ {id}]
    BY <1>2 DEF AddTo, BookOK
  <2>2. BookOK(c)
    BY <1>2, <2>1, PutIs, SpecOK DEF BookOK
  <2>3. \A x : x \in Declared(c, e) <=> x \in Declared(b, e) \/ x = id
    BY <1>2, <2>1 DEF Declared
  <2>4. \A o \in Declared(b, e) : ResolveSeed(c, o) = ResolveSeed(b, o)
    BY <1>1, <2>1, PutIs, SameSeed
  <2>7. c.added = b.added /\ b.removed \ {id} \subseteq c.removed
    BY <2>1
  <2>5. ASSUME NEW o \in DOMAIN Cameras(b, e) PROVE Cameras(c, e)[o] = Cameras(b, e)[o]
    <3>1. CASE o \in Declared(b, e)
      BY <2>2, <2>3, <2>4, <3>1, CamerasAre
    <3>2. CASE o \notin Declared(b, e)
      <4>1. o \in DOMAIN b.added
        BY <3>2, CamerasAre
      <4>2. o \notin Declared(c, e)
        BY <1>1, <2>3, <3>2, <4>1
      <4> QED BY <2>2, <2>7, <3>2, <4>1, <4>2, CamerasAre
    <3> QED BY <3>1, <3>2
  <2>6. \A x : x \in DOMAIN Cameras(c, e) <=> x \in DOMAIN Cameras(b, e) \/ x = id
    BY <2>2, <2>3, <2>7, CamerasAre
  <2> QED BY <2>2, <2>5, <2>6, <2>7
<1>3. CASE id \notin e
  <2>1. c = [added |-> Put(b.added, id, spec), overrides |-> b.overrides, removed |-> b.removed]
    BY <1>3 DEF AddTo, BookOK
  <2>2. BookOK(c)
    BY <2>1, PutIs DEF BookOK
  <2>3. Declared(c, e) = Declared(b, e)
    BY <2>1 DEF Declared
  <2>4. \A o \in Declared(b, e) : ResolveSeed(c, o) = ResolveSeed(b, o)
    BY <2>1, SameSeed
  <2>5. ASSUME NEW o \in DOMAIN Cameras(b, e) PROVE Cameras(c, e)[o] = Cameras(b, e)[o]
    BY <1>1, <2>1, <2>2, <2>3, <2>4, CamerasAre, PutIs
  <2>6. DOMAIN c.added = DOMAIN b.added \cup {id}
    BY <2>1, PutIs
  <2> QED BY <1>3, <2>1, <2>2, <2>3, <2>5, <2>6, CamerasAre
<1> QED BY <1>2, <1>3

(* A camera updated is still there, and the others are as they were.       *)
LEMMA BookUpdated ==
    ASSUME NEW b, BookOK(b), NEW e \in SUBSET Seeds, NEW id \in DOMAIN Cameras(b, e),
           NEW changes \in Changes,
           NEW c, c = UpdateIn(b, e, id, changes)
    PROVE  /\ BookOK(c)
           /\ \A x : x \in DOMAIN Cameras(c, e) <=> x \in DOMAIN Cameras(b, e)
           /\ \A o \in DOMAIN Cameras(b, e) \ {id} : Cameras(c, e)[o] = Cameras(b, e)[o]
           /\ DOMAIN c.added = DOMAIN b.added /\ c.removed = b.removed
<1>1. CASE id \in Declared(b, e)
  <2> DEFINE edit == Edited(Override(b, id), changes)
             os == IF DOMAIN edit = {} THEN Without(b.overrides, {id})
                   ELSE Put(b.overrides, id, edit)
  <2>1. c = [added |-> b.added, overrides |-> os, removed |-> b.removed]
    BY <1>1 DEF UpdateIn, BookOK
  <2>2. EditsOK(edit)
    <3>1. EditsOK(Override(b, id))
      BY DEF Override, BookOK, EditsOK
    <3> QED BY <3>1, EditedOK
  <2> HIDE DEF edit
  <2>3. /\ DOMAIN os \subseteq Seeds /\ \A o \in DOMAIN os : EditsOK(os[o])
        /\ \A o \in Seeds \ {id} : /\ o \in DOMAIN os <=> o \in DOMAIN b.overrides
                                   /\ o \in DOMAIN os => os[o] = b.overrides[o]
    <3>1. id \in Seeds
      BY <1>1 DEF Declared
    <3> QED BY <2>2, <3>1, PutIs, WithoutIs DEF BookOK
  <2> HIDE DEF os
  <2>4. BookOK(c)
    BY <2>1, <2>3 DEF BookOK
  <2>5. Declared(c, e) = Declared(b, e)
    BY <2>1 DEF Declared
  <2>6. \A o \in Declared(b, e) \ {id} : ResolveSeed(c, o) = ResolveSeed(b, o)
    BY <2>1, <2>3, SameSeed DEF Declared
  <2>7. ASSUME NEW o \in DOMAIN Cameras(b, e) \ {id} PROVE Cameras(c, e)[o] = Cameras(b, e)[o]
    BY <2>1, <2>4, <2>5, <2>6, CamerasAre
  <2> QED BY <2>1, <2>4, <2>5, <2>7, CamerasAre
<1>2. CASE id \notin Declared(b, e)
  <2>1. id \in DOMAIN b.added
    BY <1>2, CamerasAre
  <2>2. c = [added |-> [b.added EXCEPT ![id] = Over(changes, b.added[id])],
             overrides |-> b.overrides, removed |-> b.removed]
    BY <1>2 DEF UpdateIn, BookOK
  <2>3. Over(changes, b.added[id]) \in Definitions
    BY <2>1, ChangedIs DEF BookOK
  <2>4. BookOK(c)
    BY <2>1, <2>2, <2>3 DEF BookOK
  <2>5. Declared(c, e) = Declared(b, e)
    BY <2>2 DEF Declared
  <2>6. \A o \in Declared(b, e) : ResolveSeed(c, o) = ResolveSeed(b, o)
    BY <2>2, SameSeed
  <2>7. DOMAIN c.added = DOMAIN b.added
        /\ \A o \in DOMAIN b.added \ {id} : c.added[o] = b.added[o]
    BY <2>2
  <2>8. ASSUME NEW o \in DOMAIN Cameras(b, e) \ {id} PROVE Cameras(c, e)[o] = Cameras(b, e)[o]
    BY <2>4, <2>5, <2>6, <2>7, CamerasAre
  <2> QED BY <2>2, <2>4, <2>5, <2>7, <2>8, CamerasAre
<1> QED BY <1>1, <1>2

(* A camera removed is gone, and recorded if it was declared; unless it    *)
(* was added as well, and is still there as that one.                      *)
LEMMA BookRemoved ==
    ASSUME NEW b, BookOK(b), NEW e \in SUBSET Seeds, NEW id \in DOMAIN Cameras(b, e),
           id # Primary,
           NEW c, c = RemoveFrom(b, e, id)
    PROVE  /\ BookOK(c)
           /\ DOMAIN Cameras(b, e) \ {id} \subseteq DOMAIN Cameras(c, e)
           /\ DOMAIN Cameras(c, e) \subseteq DOMAIN Cameras(b, e)
           /\ id \in DOMAIN Cameras(c, e) => id \in e \cap DOMAIN c.added
           /\ \A o \in DOMAIN Cameras(b, e) \ {id} : Cameras(c, e)[o] = Cameras(b, e)[o]
           /\ DOMAIN b.added \ {id} \subseteq DOMAIN c.added
           /\ b.removed \subseteq c.removed
           /\ id \in Declared(b, e) => id \in c.removed
<1>1. CASE id \in Declared(b, e)
  <2>1. c = [added |-> b.added, overrides |-> Without(b.overrides, {id}),
             removed |-> b.removed \cup {id}]
    BY <1>1 DEF RemoveFrom, BookOK
  <2>2. BookOK(c)
    BY <1>1, <2>1, WithoutIs DEF BookOK, Declared
  <2>3. \A x : x \in Declared(c, e) <=> x \in Declared(b, e) /\ x # id
    BY <2>1 DEF Declared
  <2>4. ASSUME NEW o \in Declared(c, e) PROVE ResolveSeed(c, o) = ResolveSeed(b, o)
    <3>1. o # id /\ c.overrides = Without(b.overrides, {id})
      BY <2>1, <2>3
    <3>2. /\ o \in DOMAIN c.overrides <=> o \in DOMAIN b.overrides
          /\ o \in DOMAIN b.overrides => c.overrides[o] = b.overrides[o]
      BY <3>1, WithoutIs
    <3> QED BY <3>2, SameSeed
  <2>7. c.added = b.added /\ b.removed \subseteq c.removed /\ id \in c.removed
    BY <2>1
  <2>5. ASSUME NEW o \in DOMAIN Cameras(b, e) \ {id} PROVE Cameras(c, e)[o] = Cameras(b, e)[o]
    <3>1. CASE o \in Declared(b, e)
      BY <2>2, <2>3, <2>4, <3>1, CamerasAre
    <3>2. CASE o \notin Declared(b, e)
      <4>1. o \in DOMAIN b.added
        BY <3>2, CamerasAre
      <4>2. o \notin Declared(c, e)
        BY <2>3, <3>2
      <4> QED BY <2>2, <2>7, <3>2, <4>1, <4>2, CamerasAre
    <3> QED BY <3>1, <3>2
  <2>6. id \in e
    BY <1>1 DEF Declared
  <2>8. \A x : x \in DOMAIN Cameras(c, e) <=> (x \in Declared(b, e) /\ x # id) \/ x \in DOMAIN b.added
    BY <2>2, <2>3, <2>7, CamerasAre
  <2> QED BY <2>2, <2>5, <2>6, <2>7, <2>8, CamerasAre
<1>2. CASE id \notin Declared(b, e)
  <2>1. c = [added |-> Without(b.added, {id}), overrides |-> b.overrides, removed |-> b.removed]
    BY <1>2 DEF RemoveFrom, BookOK
  <2>2. BookOK(c)
    BY <2>1, WithoutIs DEF BookOK
  <2>3. Declared(c, e) = Declared(b, e)
    BY <2>1 DEF Declared
  <2>4. \A o \in Declared(c, e) : ResolveSeed(c, o) = ResolveSeed(b, o)
    BY <2>1, SameSeed
  <2>5. /\ \A x : x \in DOMAIN c.added <=> x \in DOMAIN b.added /\ x # id
        /\ \A o \in DOMAIN b.added \ {id} : c.added[o] = b.added[o]
    <3>1. c.added = Without(b.added, {id})
      BY <2>1
    <3> QED BY <3>1, WithoutIs
  <2>6. ASSUME NEW o \in DOMAIN Cameras(b, e) \ {id} PROVE Cameras(c, e)[o] = Cameras(b, e)[o]
    BY <2>2, <2>3, <2>4, <2>5, CamerasAre
  <2>7. \A x : x \in DOMAIN Cameras(c, e) <=> x \in DOMAIN Cameras(b, e) /\ x # id
    BY <1>2, <2>2, <2>3, <2>5, CamerasAre
  <2>8. c.removed = b.removed
    BY <2>1
  <2> QED BY <1>2, <2>2, <2>5, <2>6, <2>7, <2>8
<1> QED BY <1>1, <1>2

-----------------------------------------------------------------------------
(* What an edit does.                                                      *)

(* A camera's runtime is of one of its definitions.                        *)
LEMMA RuntimeIs ==
    ASSUME NEW def \in Definitions
    PROVE  /\ RuntimeOf(def) \in Runtimes /\ DefinitionOf(RuntimeOf(def)) = def
           /\ RuntimeOf(def).enabled = def.enabled
           /\ RuntimeOf(def).enabled <=> RuntimeOf(def).worker # "stopped"
BY DEF RuntimeOf, DefinitionOf, Runtimes, Definitions

(* A save that fails leaves a book in memory that is not on disk.          *)
LEMMA FailKeeps ==
    ASSUME ManagerInv, MayEdit, NEW c, BookOK(c), SaveFails(c), UNCHANGED <<env, test, restarts>>,
           gone' \subseteq gone, gone' \subseteq c.removed
    PROVE  ManagerInv'
<1> USE DEF ManagerInv
<1>1. ManagerTypes'
  BY ManagerAssumption DEF ManagerTypes, MayEdit, SaveFails
<1>2. OpInv' /\ WorkerInv' /\ BookInv'
  BY DEF OpInv, WorkerInv, BookInv, SaveFails, Holds
<1>3. GoneInv'
  BY DEF GoneInv, SaveFails
<1> QED BY <1>1, <1>2, <1>3

LEMMA AddCameraKeeps ==
    ASSUME ManagerInv, NEW n, NEW spec \in Definitions, AddCamera(n, spec)
    PROVE  ManagerInv'
<1> USE DEF ManagerInv
<1>1. PICK id, c : /\ c = AddTo(book, env, id, spec) /\ MayEdit
                   /\ id \in Ids /\ id \notin DOMAIN Cameras(book, env)
                   /\ SaveFails(c) \/ (/\ Saved(c) /\ UNCHANGED op
                                       /\ runtimes' = Put(runtimes, id, RuntimeOf(Cameras(c, env)[id])))
                   /\ gone' = gone \ {id} /\ UNCHANGED <<env, test, restarts>>
  BY DEF AddCamera
<1>2. BookOK(book) /\ env \in SUBSET Seeds
  BY DEF ManagerTypes
<1>3. /\ BookOK(c)
      /\ \A x : x \in DOMAIN Cameras(c, env) <=> x \in DOMAIN Cameras(book, env) \/ x = id
      /\ \A o \in DOMAIN Cameras(book, env) : Cameras(c, env)[o] = Cameras(book, env)[o]
      /\ env \cap DOMAIN c.added = env \cap DOMAIN book.added
      /\ book.removed \ {id} \subseteq c.removed
  BY <1>1, <1>2, BookAdded
<1>4. gone' \subseteq gone /\ gone' \subseteq c.removed
  BY <1>1, <1>3 DEF GoneInv
<1>5. CASE SaveFails(c)
  BY <1>1, <1>3, <1>4, <1>5, FailKeeps
<1>6. CASE ~SaveFails(c)
  <2>1. /\ Saved(c) /\ UNCHANGED op
        /\ runtimes' = Put(runtimes, id, RuntimeOf(Cameras(c, env)[id]))
    BY <1>1, <1>6
  <2> DEFINE def == Cameras(c, env)[id]
  <2>2. def \in Definitions
    BY <1>2, <1>3, CamerasAre
  <2> HIDE DEF def
  <2>3. /\ \A x : x \in DOMAIN runtimes' <=> x \in DOMAIN runtimes \/ x = id
        /\ runtimes'[id] = RuntimeOf(def)
        /\ \A x \in DOMAIN runtimes \ {id} : runtimes'[x] = runtimes[x]
    BY <2>1, PutIs DEF def
  <2>4. ManagerTypes'
    BY <1>1, <1>3, <2>1, <2>2, <2>3, RuntimeIs, ManagerAssumption DEF ManagerTypes, MayEdit, Saved
  <2>5. OpInv' /\ WorkerInv'
    BY <1>1, <2>1, <2>2, <2>3, RuntimeIs DEF OpInv, WorkerInv, MayEdit, NoOp, Holds
  <2>6. BookInv'
    <3>1. SUFFICES ASSUME ~refused
                   PROVE  /\ book' = file'
                          /\ \A x \in DOMAIN runtimes' :
                                /\ x \in DOMAIN Cameras(c, env)
                                /\ DefinitionOf(runtimes'[x]) = Cameras(c, env)[x]
                          /\ \A x \in DOMAIN Cameras(c, env) :
                                x \in DOMAIN runtimes' \/ x \in env \cap DOMAIN c.added
      BY <1>1, <2>1 DEF BookInv, Staying, Saved, MayEdit, NoOp
    <3>2. Staying = DOMAIN runtimes
      BY <1>1 DEF Staying, MayEdit, NoOp
    <3>3. DefinitionOf(RuntimeOf(def)) = def
      BY <2>2, RuntimeIs
    <3> QED BY <1>1, <1>3, <2>1, <2>3, <3>1, <3>2, <3>3 DEF BookInv, Saved, def
  <2>7. GoneInv'
    BY <1>4, <2>1 DEF GoneInv, Saved
  <2> QED BY <2>4, <2>5, <2>6, <2>7
<1> QED BY <1>5, <1>6

(* Whichever way it is applied, the definition is the new one, and what    *)
(* the worker still has to do is the edit's.                               *)
LEMMA ApplyIs ==
    ASSUME ManagerInv, NEW id \in DOMAIN runtimes, NEW def \in Definitions, Apply(id, def),
           op = NoOp
    PROVE  /\ ManagerTypes => \A x \in DOMAIN runtimes' : runtimes'[x] \in Runtimes
           /\ DOMAIN runtimes' = DOMAIN runtimes
           /\ DefinitionOf(runtimes'[id]) = def
           /\ \A x \in DOMAIN runtimes \ {id} : runtimes'[x] = runtimes[x]
           /\ op' = NoOp \/ op' = [kind |-> "disable", id |-> id]
              \/ op' = [kind |-> "swap", id |-> id]
           /\ op'.kind = "disable" => ~runtimes'[id].enabled
           /\ op'.kind = "swap" => runtimes'[id].enabled
           /\ op'.kind # "disable" => (runtimes'[id].enabled <=> runtimes'[id].worker # "stopped")
<1> DEFINE was == runtimes[id]
           now == Over(def, was)
<1>1. was \in Runtimes /\ (was.enabled <=> was.worker # "stopped")
  BY DEF ManagerInv, ManagerTypes, WorkerInv, Holds, NoOp
<1>2. /\ now \in Runtimes /\ now.worker = was.worker /\ now.source = was.source
      /\ now.enabled = def.enabled /\ DefinitionOf(now) = def
  BY <1>1 DEF Runtimes, Definitions, Over, DefinitionOf
<1>3. /\ RuntimeOf(def) \in Runtimes /\ DefinitionOf(RuntimeOf(def)) = def
      /\ RuntimeOf(def).enabled = def.enabled
      /\ RuntimeOf(def).enabled <=> RuntimeOf(def).worker # "stopped"
  BY RuntimeIs
<1>4. \A x \in DOMAIN runtimes : runtimes[x] \in Runtimes
  BY DEF ManagerInv, ManagerTypes
<1>5. was.enabled \in BOOLEAN /\ def.enabled \in BOOLEAN
  BY <1>1 DEF Runtimes, Definitions
<1>6. \/ was.enabled /\ ~def.enabled /\ runtimes' = [runtimes EXCEPT ![id] = now]
         /\ op' = [kind |-> "disable", id |-> id]
      \/ def.enabled /\ runtimes' = [runtimes EXCEPT ![id] = RuntimeOf(def)] /\ op' = op
      \/ /\ (was.enabled <=> def.enabled) /\ runtimes' = [runtimes EXCEPT ![id] = now]
         /\ op' = op \/ (def.enabled /\ op' = [kind |-> "swap", id |-> id])
  BY DEF Apply
<1> HIDE DEF was, now
<1> QED BY <1>1, <1>2, <1>3, <1>4, <1>5, <1>6 DEF NoOp

LEMMA UpdateCameraKeeps ==
    ASSUME ManagerInv, NEW id, NEW changes \in Changes, UpdateCamera(id, changes)
    PROVE  ManagerInv'
<1> USE DEF ManagerInv
<1>1. PICK c : /\ c = UpdateIn(book, env, id, changes) /\ MayEdit
               /\ id \in DOMAIN runtimes /\ id \in DOMAIN Cameras(book, env)
               /\ SaveFails(c) \/ (Saved(c) /\ Apply(id, Cameras(c, env)[id]))
               /\ UNCHANGED <<env, test, gone, restarts>>
  BY DEF UpdateCamera
<1>2. BookOK(book) /\ env \in SUBSET Seeds
  BY DEF ManagerTypes
<1>3. /\ BookOK(c)
      /\ \A x : x \in DOMAIN Cameras(c, env) <=> x \in DOMAIN Cameras(book, env)
      /\ \A o \in DOMAIN Cameras(book, env) \ {id} : Cameras(c, env)[o] = Cameras(book, env)[o]
      /\ DOMAIN c.added = DOMAIN book.added /\ c.removed = book.removed
  BY <1>1, <1>2, BookUpdated
<1>4. CASE SaveFails(c)
  BY <1>1, <1>3, <1>4, FailKeeps DEF GoneInv
<1>5. CASE ~SaveFails(c)
  <2> DEFINE def == Cameras(c, env)[id]
  <2>1. def \in Definitions
    BY <1>1, <1>2, <1>3, CamerasAre
  <2>2. Saved(c) /\ Apply(id, def) /\ op = NoOp
    BY <1>1, <1>5 DEF MayEdit
  <2> HIDE DEF def
  <2>3. /\ \A x \in DOMAIN runtimes' : runtimes'[x] \in Runtimes
        /\ DOMAIN runtimes' = DOMAIN runtimes
        /\ DefinitionOf(runtimes'[id]) = def
        /\ \A x \in DOMAIN runtimes \ {id} : runtimes'[x] = runtimes[x]
        /\ op' = NoOp \/ op' = [kind |-> "disable", id |-> id]
           \/ op' = [kind |-> "swap", id |-> id]
        /\ op'.kind = "disable" => ~runtimes'[id].enabled
        /\ op'.kind = "swap" => runtimes'[id].enabled
        /\ op'.kind # "disable" => (runtimes'[id].enabled <=> runtimes'[id].worker # "stopped")
    BY <1>1, <2>1, <2>2, ApplyIs
  <2>4. ManagerTypes'
    BY <1>1, <1>3, <2>2, <2>3, ManagerAssumption DEF ManagerTypes, MayEdit, Saved
  <2>5. OpInv' /\ WorkerInv'
    <3>1. id \in Ids /\ Primary \in DOMAIN runtimes /\ Primary \in Ids
      BY <1>1 DEF ManagerTypes
    <3>2. OpInv'
      BY <1>1, <2>3, <3>1 DEF OpInv, NoOp
    <3>3. WorkerInv'
      <4>1. SUFFICES ASSUME NEW x \in DOMAIN runtimes, op' # [kind |-> "disable", id |-> x]
                     PROVE  runtimes'[x].enabled <=> runtimes'[x].worker # "stopped"
        BY <2>3 DEF WorkerInv, Holds
      <4>2. CASE x = id
        BY <2>3, <4>1, <4>2 DEF NoOp
      <4>3. CASE x # id
        BY <2>2, <2>3, <4>3 DEF WorkerInv, NoOp, Holds
      <4> QED BY <4>2, <4>3
    <3> QED BY <3>2, <3>3
  <2>6. BookInv'
    <3>1. Staying = DOMAIN runtimes /\ Staying' = DOMAIN runtimes
      BY <2>2, <2>3 DEF Staying, NoOp
    <3>2. SUFFICES ASSUME ~refused
                   PROVE  /\ \A x \in DOMAIN runtimes :
                                /\ x \in DOMAIN Cameras(c, env)
                                /\ DefinitionOf(runtimes'[x]) = Cameras(c, env)[x]
                          /\ \A x \in DOMAIN Cameras(c, env) :
                                x \in DOMAIN runtimes \/ x \in env \cap DOMAIN c.added
      BY <1>1, <2>2, <3>1 DEF BookInv, Saved
    <3> QED BY <1>3, <2>3, <3>1, <3>2 DEF BookInv, def
  <2>7. GoneInv'
    BY <1>1, <1>3, <2>2 DEF GoneInv, Saved
  <2> QED BY <2>4, <2>5, <2>6, <2>7
<1> QED BY <1>4, <1>5

LEMMA RemoveCameraKeeps ==
    ASSUME ManagerInv, NEW id, RemoveCamera(id)
    PROVE  ManagerInv'
<1> USE DEF ManagerInv
<1>1. PICK c : /\ c = RemoveFrom(book, env, id) /\ MayEdit /\ id # Primary
               /\ id \in DOMAIN runtimes /\ id \in DOMAIN Cameras(book, env)
               /\ \/ SaveFails(c) /\ UNCHANGED gone
                  \/ /\ Saved(c) /\ op' = [kind |-> "remove", id |-> id]
                     /\ gone' = gone \cup ({id} \cap Declared(book, env))
                     /\ UNCHANGED runtimes
               /\ UNCHANGED <<env, test, restarts>>
  BY DEF RemoveCamera
<1>2. BookOK(book) /\ env \in SUBSET Seeds
  BY DEF ManagerTypes
<1>3. /\ BookOK(c)
      /\ DOMAIN Cameras(book, env) \ {id} \subseteq DOMAIN Cameras(c, env)
      /\ DOMAIN Cameras(c, env) \subseteq DOMAIN Cameras(book, env)
      /\ id \in DOMAIN Cameras(c, env) => id \in env \cap DOMAIN c.added
      /\ \A o \in DOMAIN Cameras(book, env) \ {id} : Cameras(c, env)[o] = Cameras(book, env)[o]
      /\ DOMAIN book.added \ {id} \subseteq DOMAIN c.added
      /\ book.removed \subseteq c.removed
      /\ id \in Declared(book, env) => id \in c.removed
  BY <1>1, <1>2, BookRemoved
<1>4. CASE SaveFails(c) /\ UNCHANGED gone
  BY <1>1, <1>3, <1>4, FailKeeps DEF GoneInv
<1>5. CASE /\ Saved(c) /\ op' = [kind |-> "remove", id |-> id]
           /\ gone' = gone \cup ({id} \cap Declared(book, env)) /\ UNCHANGED runtimes
  <2>1. ManagerTypes'
    BY <1>1, <1>3, <1>5, ManagerAssumption DEF ManagerTypes, MayEdit, Saved
  <2>2. OpInv' /\ WorkerInv'
    BY <1>1, <1>5 DEF ManagerTypes, OpInv, WorkerInv, MayEdit, NoOp, Holds
  <2>3. BookInv'
    <3>1. Staying = DOMAIN runtimes /\ Staying' = DOMAIN runtimes \ {id}
      BY <1>1, <1>5 DEF Staying, MayEdit, NoOp
    <3>2. SUFFICES ASSUME ~refused
                   PROVE  /\ \A x \in DOMAIN runtimes \ {id} :
                                /\ x \in DOMAIN Cameras(c, env)
                                /\ DefinitionOf(runtimes[x]) = Cameras(c, env)[x]
                          /\ \A x \in DOMAIN Cameras(c, env) :
                                x \in DOMAIN runtimes \ {id} \/ x \in env \cap DOMAIN c.added
      BY <1>1, <1>5, <3>1 DEF BookInv, Saved
    <3> QED BY <1>3, <3>1, <3>2 DEF BookInv
  <2>4. GoneInv'
    BY <1>1, <1>3, <1>5 DEF GoneInv, Saved
  <2> QED BY <2>1, <2>2, <2>3, <2>4
<1> QED BY <1>1, <1>4, <1>5

(* An edit that ends, and a worker's step, change no definition.           *)
LEMMA WorkersKeep ==
    ASSUME ManagerInv, NEW id \in Ids,
           \/ Disabled(id) \/ Attempt(id) \/ Connect(id) \/ StreamLost(id)
           \/ \E opens \in BOOLEAN : Swapped(id, opens)
    PROVE  ManagerInv'
<1> USE DEF ManagerInv
<1>1. /\ UNCHANGED <<bookVars, test, gone, edits, countVars>>
      /\ id \in DOMAIN runtimes /\ DOMAIN runtimes' = DOMAIN runtimes
      /\ \A x \in DOMAIN runtimes \ {id} : runtimes'[x] = runtimes[x]
  BY DEF Disabled, Attempt, Connect, StreamLost, Swapped, Holds, OpInv
<1>2. runtimes[id] \in Runtimes
  BY <1>1 DEF ManagerTypes
<1>3. /\ runtimes'[id] \in Runtimes
      /\ runtimes'[id].enabled = runtimes[id].enabled
      /\ DefinitionOf(runtimes'[id]) = DefinitionOf(runtimes[id])
  <2> USE DEF Runtimes, DefinitionOf
  <2>1. CASE Disabled(id)
    BY <1>1, <1>2, <2>1 DEF Disabled
  <2>2. CASE Attempt(id)
    BY <1>1, <1>2, <2>2 DEF Attempt
  <2>3. CASE Connect(id) \/ StreamLost(id)
    BY <1>1, <1>2, <2>3 DEF Connect, StreamLost
  <2>4. ASSUME NEW opens \in BOOLEAN, Swapped(id, opens)
        PROVE  \E w \in {"running", "trying"} :
                  runtimes' = [runtimes EXCEPT ![id].source = runtimes[id].url,
                                               ![id].worker = w]
    BY <2>4 DEF Swapped
  <2>5. CASE \E opens \in BOOLEAN : Swapped(id, opens)
    <3>1. PICK w \in {"running", "trying"} :
              runtimes' = [runtimes EXCEPT ![id].source = runtimes[id].url, ![id].worker = w]
      BY <2>4, <2>5
    <3> QED BY <1>1, <1>2, <3>1
  <2> QED BY <2>1, <2>2, <2>3, <2>5
<1>4. /\ op' = op \/ (op' = NoOp /\ op.kind \in {"disable", "swap"} /\ op.id = id)
      /\ op'.kind # "remove" <=> op.kind # "remove"
      /\ (IF op'.kind = "remove" THEN {op'.id} ELSE {})
            = (IF op.kind = "remove" THEN {op.id} ELSE {})
  BY DEF Disabled, Attempt, Connect, StreamLost, Swapped, Holds, NoOp
<1>5. ManagerTypes'
  BY <1>1, <1>3 DEF ManagerTypes, bookVars, countVars
<1>6. OpInv'
  BY <1>1, <1>3, <1>4 DEF OpInv, NoOp, ManagerTypes
<1>7. WorkerInv'
  <2>1. op' # [kind |-> "disable", id |-> id]
           => (runtimes'[id].enabled <=> runtimes'[id].worker # "stopped")
    <3>1. CASE Disabled(id)
      BY <1>1, <1>2, <3>1 DEF Disabled, Holds, OpInv, Runtimes
    <3>2. CASE Attempt(id) \/ Connect(id) \/ StreamLost(id)
      BY <1>1, <1>2, <3>2 DEF Attempt, Connect, StreamLost, WorkerInv, Holds, Runtimes
    <3>3. CASE \E opens \in BOOLEAN : Swapped(id, opens)
      <4>1. PICK opens \in BOOLEAN : Swapped(id, opens)
        BY <3>3
      <4>2. op = [kind |-> "swap", id |-> id]
        BY <4>1 DEF Swapped, Holds
      <4>3. runtimes[id].enabled
        BY <4>2 DEF OpInv
      <4>4. runtimes'[id].worker # "stopped"
        BY <1>1, <1>2, <4>1 DEF Swapped, Runtimes
      <4> QED BY <1>3, <4>3, <4>4
    <3> QED BY <3>1, <3>2, <3>3
  <2>2. \A x \in DOMAIN runtimes \ {id} :
            op = [kind |-> "disable", id |-> x] => op' = [kind |-> "disable", id |-> x]
    BY <1>4
  <2> QED BY <1>1, <2>1, <2>2 DEF WorkerInv, Holds
<1>8. BookInv'
  <2>1. Staying' = Staying /\ Staying \subseteq DOMAIN runtimes
    BY <1>1, <1>4 DEF Staying
  <2>2. \A x \in Staying : DefinitionOf(runtimes'[x]) = DefinitionOf(runtimes[x])
    BY <1>1, <1>3, <2>1
  <2> QED BY <1>1, <2>1, <2>2 DEF BookInv, bookVars, countVars
<1>9. GoneInv'
  BY <1>1 DEF GoneInv, bookVars
<1> QED BY <1>5, <1>6, <1>7, <1>8, <1>9

LEMMA ReleasedKeeps ==
    ASSUME ManagerInv, NEW id \in Ids, Released(id)
    PROVE  ManagerInv'
<1> USE DEF ManagerInv
<1>1. /\ UNCHANGED <<bookVars, test, gone, edits, countVars>>
      /\ op = [kind |-> "remove", id |-> id] /\ op' = NoOp /\ id # Primary
      /\ \A x : x \in DOMAIN runtimes' <=> x \in DOMAIN runtimes /\ x # id
      /\ \A x \in DOMAIN runtimes \ {id} : runtimes'[x] = runtimes[x]
  BY WithoutIs DEF Released, Holds, OpInv
<1>2. ManagerTypes'
  BY <1>1 DEF ManagerTypes, bookVars, countVars
<1>3. OpInv' /\ WorkerInv'
  BY <1>1 DEF OpInv, WorkerInv, NoOp, Holds, ManagerTypes
<1>4. BookInv' /\ GoneInv'
  <2>1. Staying' = Staying /\ Staying = DOMAIN runtimes \ {id}
    BY <1>1 DEF Staying, NoOp
  <2> QED BY <1>1, <2>1 DEF BookInv, GoneInv, bookVars, countVars
<1> QED BY <1>2, <1>3, <1>4

LEMMA TestsKeep ==
    ASSUME ManagerInv, (\E url_1 \in Urls : TestConnection(url_1)) \/ TestEnds
    PROVE  ManagerInv'
<1> USE DEF ManagerInv
<1>1. UNCHANGED <<bookVars, runtimes, op, gone, edits, countVars>>
  BY DEF TestConnection, TestEnds
<1>2. test' \in [url : Addresses, how : {"none", "open", "diagnose"}]
  BY DEF TestConnection, TestEnds, NoTest, Addresses
<1>3. ManagerTypes'
  BY <1>1, <1>2 DEF ManagerTypes, bookVars, countVars
<1>4. OpInv' /\ WorkerInv'
  BY <1>1 DEF OpInv, WorkerInv, Holds
<1>5. BookInv' /\ GoneInv'
  BY <1>1 DEF BookInv, Staying, GoneInv, bookVars, countVars
<1> QED BY <1>3, <1>4, <1>5

(* A start builds what the book says.                                      *)
LEMMA BuiltIs ==
    ASSUME NEW b, BookOK(b), NEW e \in SUBSET Seeds, Primary \in e, NEW rs, rs = Built(b, e)
    PROVE  /\ DOMAIN rs = DOMAIN Cameras(b, e)
           /\ Primary \in DOMAIN rs /\ DOMAIN rs \subseteq Ids
           /\ \A id \in DOMAIN rs :
                 /\ rs[id] \in Runtimes /\ DefinitionOf(rs[id]) = Cameras(b, e)[id]
                 /\ rs[id].enabled <=> rs[id].worker # "stopped"
<1>1. DOMAIN rs = DOMAIN Cameras(b, e)
      /\ \A id \in DOMAIN rs : rs[id] = RuntimeOf(Cameras(b, e)[id])
  BY DEF Built
<1>2. ASSUME NEW id \in DOMAIN rs
      PROVE  /\ rs[id] \in Runtimes /\ DefinitionOf(rs[id]) = Cameras(b, e)[id]
             /\ rs[id].enabled <=> rs[id].worker # "stopped"
  BY <1>1, CamerasAre, RuntimeIs
<1> QED BY <1>1, <1>2, CamerasAre

LEMMA RestartKeeps ==
    ASSUME ManagerInv, NEW e \in SUBSET Seeds, Restart(e)
    PROVE  ManagerInv'
<1> USE DEF ManagerInv
<1>1. /\ BookOK(file) /\ Primary \in e /\ env' = e /\ book' = file /\ file' = file
      /\ op' = NoOp /\ test' = NoTest /\ ~refused' /\ refused' \in BOOLEAN
      /\ restarts < MaxRestarts /\ restarts' = restarts + 1
      /\ UNCHANGED <<gone, edits, failedSaves>>
  BY DEF Restart, ManagerTypes
<1>2. /\ DOMAIN runtimes' = DOMAIN Cameras(file, e)
      /\ Primary \in DOMAIN runtimes' /\ DOMAIN runtimes' \subseteq Ids
      /\ \A id \in DOMAIN runtimes' :
            /\ runtimes'[id] \in Runtimes /\ DefinitionOf(runtimes'[id]) = Cameras(file, e)[id]
            /\ runtimes'[id].enabled <=> runtimes'[id].worker # "stopped"
  <2>1. runtimes' = Built(file, e)
    BY DEF Restart
  <2> QED BY <1>1, <2>1, BuiltIs
<1>3. ManagerTypes'
  BY <1>1, <1>2, ManagerAssumption DEF ManagerTypes, NoTest, Addresses
<1>4. OpInv' /\ WorkerInv'
  BY <1>1, <1>2 DEF OpInv, WorkerInv, NoOp, Holds
<1>5. BookInv' /\ GoneInv'
  <2>1. Staying' = DOMAIN runtimes'
    BY <1>1 DEF Staying, NoOp
  <2> QED BY <1>1, <1>2, <2>1 DEF BookInv, GoneInv
<1> QED BY <1>3, <1>4, <1>5

LEMMA ManagerInitially == ASSUME Init PROVE ManagerInv
<1>1. /\ env \in SUBSET Seeds /\ Primary \in env /\ book = EmptyBook /\ file = EmptyBook
      /\ op = NoOp /\ test = NoTest /\ gone = {} /\ ~refused /\ refused \in BOOLEAN
      /\ edits = 0 /\ failedSaves = 0 /\ restarts = 0
  BY DEF Init
<1>2. BookOK(EmptyBook)
  BY DEF BookOK, EmptyBook
<1>3. /\ DOMAIN runtimes = DOMAIN Cameras(EmptyBook, env)
      /\ Primary \in DOMAIN runtimes /\ DOMAIN runtimes \subseteq Ids
      /\ \A id \in DOMAIN runtimes :
            /\ runtimes[id] \in Runtimes /\ DefinitionOf(runtimes[id]) = Cameras(EmptyBook, env)[id]
            /\ runtimes[id].enabled <=> runtimes[id].worker # "stopped"
  <2>1. runtimes = Built(EmptyBook, env)
    BY DEF Init
  <2> QED BY <1>1, <1>2, <2>1, BuiltIs
<1>4. ManagerTypes
  BY <1>1, <1>2, <1>3, ManagerAssumption DEF ManagerTypes, NoTest, Addresses
<1>5. OpInv /\ WorkerInv
  BY <1>1, <1>3 DEF OpInv, WorkerInv, NoOp, Holds
<1>6. BookInv /\ GoneInv
  <2>1. Staying = DOMAIN runtimes
    BY <1>1 DEF Staying, NoOp
  <2> QED BY <1>1, <1>3, <2>1 DEF BookInv, GoneInv
<1> QED BY <1>4, <1>5, <1>6 DEF ManagerInv

LEMMA ManagerPreserved == ASSUME ManagerInv, [Next]_vars PROVE ManagerInv'
<1>1. CASE UNCHANGED vars
  <2>1. ManagerTypes'
    BY <1>1 DEF ManagerInv, ManagerTypes, vars, bookVars, countVars
  <2>2. OpInv' /\ WorkerInv'
    BY <1>1 DEF ManagerInv, OpInv, WorkerInv, Holds, vars, bookVars, countVars
  <2>3. BookInv' /\ GoneInv'
    BY <1>1 DEF ManagerInv, BookInv, GoneInv, Staying, vars, bookVars, countVars
  <2> QED BY <2>1, <2>2, <2>3 DEF ManagerInv
<1>2. CASE Next
  BY <1>2, AddCameraKeeps, UpdateCameraKeeps, RemoveCameraKeeps, WorkersKeep, ReleasedKeeps,
     TestsKeep, RestartKeeps DEF Next
<1> QED BY <1>1, <1>2

(* What the registry recorded, what runs and what is being done to it: the *)
(* inductive invariant.                                                    *)
THEOREM ManagerInvariant == Spec => []ManagerInv
<1>1. Init => ManagerInv
  BY ManagerInitially
<1>2. ManagerInv /\ [Next]_vars => ManagerInv'
  BY ManagerPreserved
<1> QED BY <1>1, <1>2, PTL DEF Spec

(* What the registry recorded is what runs and what a restart brings, once *)
(* an edit is answered and as long as every one could be saved             *)
(* (CameraManager.add_camera, update_camera, remove_camera and start,      *)
(* CameraRuntime.apply and CameraRegistry), whatever the environments it   *)
(* is started in; and a declared camera removed stays away.                *)
THEOREM BookKept == Spec => []BookIsKept
<1>1. ASSUME ManagerInv PROVE TypeOK
  BY <1>1 DEF ManagerInv, ManagerTypes, OpInv, BookOK, GoneInv, TypeOK
<1>2. ASSUME ManagerInv PROVE RestartBringsTheSame
  <2>1. SUFFICES ASSUME op = NoOp, ~refused, Unshadowed PROVE Running = Cameras(file, env)
    BY DEF RestartBringsTheSame
  <2>2. Staying = DOMAIN runtimes
    BY <2>1 DEF Staying, NoOp
  <2>3. /\ book = file
        /\ \A id \in DOMAIN runtimes : /\ id \in DOMAIN Cameras(file, env)
                                       /\ DefinitionOf(runtimes[id]) = Cameras(file, env)[id]
        /\ \A id \in DOMAIN Cameras(file, env) : id \in DOMAIN runtimes
    BY <1>2, <2>1, <2>2 DEF ManagerInv, BookInv, Unshadowed
  <2> QED BY <2>3 DEF Running, Cameras
<1>3. ASSUME ManagerInv PROVE RemovedStaysRemoved
  BY <1>3, CamerasAre DEF ManagerInv, ManagerTypes, GoneInv, BookOK, Declared, RemovedStaysRemoved
<1> QED BY <1>1, <1>2, <1>3, ManagerInvariant, PTL DEF BookIsKept

(* Workers run for the cameras that are switched on, once an edit is       *)
(* answered, and the test of an address (CameraManager.test_connection)    *)
(* opens none that a camera reads, unless that camera is being edited or   *)
(* moved away from it.                                                     *)
THEOREM StreamsFollowed == Spec => StreamsFollow
<1>1. ASSUME ManagerInv PROVE WorkerFollows
  <2>1. ASSUME op = NoOp, NEW id \in DOMAIN runtimes PROVE ~Holds("disable", id)
    BY <2>1 DEF Holds, NoOp
  <2> QED BY <1>1, <2>1 DEF ManagerInv, WorkerInv, WorkerFollows
<1>2. ASSUME ManagerInv, [Next]_vars, NEW id \in DOMAIN runtimes, test = NoTest,
             test'.how = "open", runtimes[id].worker = "running",
             runtimes[id].source = test'.url
      PROVE  (op # NoOp /\ op.id = id) \/ runtimes[id].source # runtimes[id].url
  <2>1. test' # test /\ test' # NoTest
    BY <1>2 DEF NoTest
  <2>2. PICK u \in Urls : TestConnection(u)
    BY <1>2, <2>1 DEF Next, vars, AddCamera, UpdateCamera, RemoveCamera, Disabled, Released,
       Swapped, Attempt, Connect, StreamLost, TestEnds, Restart
  <2>3. Owners(u) = {} /\ test'.url = u
    BY <1>2, <2>2 DEF TestConnection
  <2>4. SUFFICES ASSUME runtimes[id].url = u PROVE Holds("disable", id)
    BY <1>2, <2>3 DEF Holds, NoOp
  <2>5. ~runtimes[id].enabled
    BY <1>2, <2>3, <2>4 DEF Owners, Owns
  <2> QED BY <1>2, <2>5 DEF ManagerInv, WorkerInv
<1>3. ManagerInv /\ [Next]_vars =>
        [\A id \in DOMAIN runtimes :
            /\ test = NoTest /\ test'.how = "open"
            /\ runtimes[id].worker = "running" /\ runtimes[id].source = test'.url
            => \/ op # NoOp /\ op.id = id
               \/ runtimes[id].source # runtimes[id].url]_vars
  BY <1>2
<1> QED BY <1>1, <1>3, ManagerInvariant, PTL DEF Spec, StreamsFollow, TestsDoNotSteal

-----------------------------------------------------------------------------
(* A document.                                                             *)

Unread == disk = Unreadable
Stopped == ~up => save = Doc!NoSave /\ memory = {} /\ ~loadError

(* A save is of the edit tried last; what it writes holds that edit, and   *)
(* all the registry has stored.                                            *)
Saving ==
    save # Doc!NoSave =>
      /\ up /\ ~loadError
      /\ save.edit = tried /\ save.edit \in Doc!Edits /\ save.edit > acked
      /\ save.at \in {"write", "replace", "return"}
      /\ IF Doc!Accumulates
           THEN save.content = memory /\ save.edit \in memory /\ disk \subseteq memory
           ELSE /\ save.content = {save.edit}
                /\ save.at # "return" /\ ~Unread => memory = disk
      /\ save.at = "return" => disk = save.content

(* A document that runs without an error was read, except a camera's       *)
(* zones.                                                                  *)
Readable ==
    up /\ ~loadError /\ Unread => ~Doc!RemembersError

(* The registry's memory holds what is stored, and more only of edits that *)
(* were refused or are being saved.                                        *)
Remembered ==
    up /\ ~loadError =>
      /\ Doc!Accumulates => disk \subseteq memory
      /\ save = Doc!NoSave /\ ~Unread /\ (Doc!Accumulates => refusedEdits = {})
           => memory = disk

(* A document that could not be read is shown empty.                       *)
Failed == loadError => up /\ Unread /\ Doc!RemembersError

(* What is stored or held was tried.                                       *)
Tried ==
    /\ acked <= tried
    /\ \A e \in memory : e <= tried
    /\ ~Unread => \A e \in disk : e <= tried

DocumentInv ==
    /\ Doc!TypeOK /\ Stopped /\ Saving /\ Readable /\ Remembered /\ Failed /\ Tried

-----------------------------------------------------------------------------
(* A document starts empty, and nothing runs.                              *)
LEMMA DocumentInitially ==
    ASSUME Doc!ConstantsAssumption, Doc!Init PROVE DocumentInv
<1>1. Doc!TypeOK
  <2>1. save \in [edit : Doc!Edits \cup {0}, content : Doc!Documents,
                  at : {"idle", "write", "replace", "return"}]
    BY DEF Doc!Init, Doc!NoSave, Doc!Documents
  <2>2. up \in BOOLEAN /\ loadError \in BOOLEAN /\ damaged \in BOOLEAN
    BY DEF Doc!Init
  <2>3. disk = {} /\ memory = {} /\ refusedEdits = {} /\ kind \in Doc!Kinds
    BY DEF Doc!Init
  <2>4. tried \in 0 .. MaxDocumentEdits /\ acked \in 0 .. MaxDocumentEdits
        /\ crashes \in 0 .. MaxCrashes
    BY DEF Doc!Init, Doc!ConstantsAssumption
  <2> QED BY <2>1, <2>2, <2>3, <2>4 DEF Doc!TypeOK, Doc!Documents
<1>2. Stopped /\ Saving /\ Readable /\ Remembered /\ Failed
  BY DEF Doc!Init, Stopped, Saving, Readable, Remembered, Failed
<1>3. Tried
  BY DEF Doc!Init, Tried
<1> QED BY <1>1, <1>2, <1>3 DEF DocumentInv

(* Values have their types, by every step alone.                           *)
LEMMA TypeKept ==
    ASSUME Doc!ConstantsAssumption, Doc!TypeOK, Stopped, Saving, [Doc!Next]_(Doc!vars)
    PROVE  Doc!TypeOK'
<1> USE DEF Doc!ConstantsAssumption, Doc!TypeOK, Doc!NoSave, Doc!Documents, Doc!Edits
<1>1. CASE Doc!Start
  BY <1>1 DEF Doc!Start, Doc!Load
<1>2. CASE Doc!Begin
  <2>1. tried' \in Doc!Edits /\ memory \cup {tried'} \in Doc!Documents
    BY <1>2 DEF Doc!Begin
  <2>2. save' \in [edit : Doc!Edits \cup {0}, content : Doc!Documents,
                   at : {"idle", "write", "replace", "return"}]
    BY <1>2, <2>1 DEF Doc!Begin
  <2>3. memory' \in Doc!Documents
    <3>1. CASE kind = "cameras"
      BY <1>2, <2>1, <3>1 DEF Doc!Begin, Doc!MemoryAtSave, Doc!Accumulates
    <3>2. CASE kind # "cameras"
      BY <1>2, <3>2 DEF Doc!Begin, Doc!MemoryAtSave, Doc!Accumulates
    <3> QED BY <3>1, <3>2
  <2>4. tried' \in 0 .. MaxDocumentEdits
    BY <2>1
  <2>5. UNCHANGED <<kind, up, disk, loadError, refusedEdits, acked, crashes, damaged>>
    BY <1>2 DEF Doc!Begin
  <2> QED BY <2>2, <2>3, <2>4, <2>5
<1>3. CASE Doc!WriteTemporary
  BY <1>3 DEF Doc!WriteTemporary
<1>4. CASE Doc!Replace
  BY <1>4 DEF Doc!Replace
<1>5. CASE Doc!Return
  BY <1>5 DEF Doc!Return, Saving
<1>6. CASE Doc!Fails
  <2>1. save # Doc!NoSave
    BY <1>6 DEF Doc!Fails
  <2>2. save.edit \in Doc!Edits
    BY <2>1 DEF Saving
  <2> QED BY <1>6, <2>2 DEF Doc!Fails
<1>7. CASE Doc!Crash
  <2>1. crashes' \in 0 .. MaxCrashes
    BY <1>7 DEF Doc!Crash
  <2>2. save' \in [edit : Doc!Edits \cup {0}, content : Doc!Documents,
                   at : {"idle", "write", "replace", "return"}]
    BY <1>7 DEF Doc!Crash
  <2> QED BY <1>7, <2>1, <2>2 DEF Doc!Crash
<1>8. CASE Doc!Damage
  BY <1>8 DEF Doc!Damage
<1>9. CASE Doc!Repair
  BY <1>9 DEF Doc!Repair
<1>10. CASE UNCHANGED Doc!vars
  BY <1>10 DEF Doc!vars
<1> QED
  BY <1>1, <1>2, <1>3, <1>4, <1>5, <1>6, <1>7, <1>8, <1>9, <1>10 DEF Doc!Next

(* Every step keeps what a save in progress, the disk and memory are to    *)
(* each other.                                                             *)
LEMMA DocumentPreserved ==
    ASSUME Doc!ConstantsAssumption, DocumentInv, [Doc!Next]_(Doc!vars)
    PROVE  DocumentInv'
<1> DEFINE Parts == Stopped /\ Saving /\ Readable /\ Remembered /\ Failed /\ Tried
<1> USE DEF Stopped, Saving, Readable, Remembered, Failed, Tried, Unread
<1>1. Doc!TypeOK /\ Parts
  BY DEF DocumentInv
<1>2. Doc!TypeOK'
  BY <1>1, TypeKept
<1> USE DEF Doc!ConstantsAssumption, Doc!TypeOK, Doc!NoSave, Doc!Documents, Doc!Edits,
   Doc!Kinds,
            Doc!Accumulates, Doc!RemembersError
<1>3. ASSUME Doc!Start PROVE Parts'
  BY <1>1, <1>3 DEF Doc!Start, Doc!Load
<1>4. ASSUME Doc!Begin PROVE Parts'
  BY <1>1, <1>4 DEF Doc!Begin, Doc!MemoryAtSave
<1>5. ASSUME Doc!WriteTemporary PROVE Parts'
  BY <1>1, <1>5 DEF Doc!WriteTemporary
<1>6. ASSUME Doc!Replace PROVE Parts'
  BY <1>1, <1>6 DEF Doc!Replace
<1>7. ASSUME Doc!Return PROVE Parts'
  BY <1>1, <1>7 DEF Doc!Return
<1>8. ASSUME Doc!Fails PROVE Parts'
  BY <1>1, <1>8 DEF Doc!Fails
<1>9. ASSUME Doc!Crash PROVE Parts'
  BY <1>1, <1>9 DEF Doc!Crash
<1>10. ASSUME Doc!Damage PROVE Parts'
  BY <1>1, <1>10 DEF Doc!Damage
<1>11. ASSUME Doc!Repair PROVE Parts'
  BY <1>1, <1>11 DEF Doc!Repair
<1>12. ASSUME UNCHANGED Doc!vars PROVE Parts'
  BY <1>1, <1>12 DEF Doc!vars
<1> HIDE DEF Stopped, Saving, Readable, Remembered, Failed, Tried, Doc!TypeOK
<1> QED
  BY <1>2, <1>3, <1>4, <1>5, <1>6, <1>7, <1>8, <1>9, <1>10, <1>11, <1>12
     DEF Doc!Next, DocumentInv

(* Everything the invariant says of a document, for ever.                  *)
THEOREM DocumentInvariant == Doc!Spec => []DocumentInv
<1>1. Doc!Init => DocumentInv
  BY DocumentInitially, DocumentAssumption
<1>2. DocumentInv /\ [Doc!Next]_(Doc!vars) => DocumentInv'
  BY DocumentPreserved, DocumentAssumption
<1> QED BY <1>1, <1>2, PTL DEF Doc!Spec

-----------------------------------------------------------------------------
(* Between saves a document shows what it stores.                          *)
LEMMA Shown ==
    ASSUME DocumentInv PROVE Doc!TypeOK /\ Doc!ShownIsStored
BY DEF DocumentInv, Saving, Remembered, Readable, Failed, Unread, Doc!ShownIsStored,
       Stopped, Doc!TypeOK

(* A step of the store is a step of the durable document or none.          *)
LEMMA Implements ==
    ASSUME Doc!ConstantsAssumption, DocumentInv, [Doc!Next]_(Doc!vars)
    PROVE  [Doc!Durable!Next]_(Doc!Durable!vars)
<1>0. ASSUME UNCHANGED <<kind, disk, acked>> PROVE UNCHANGED Doc!Durable!vars
  BY <1>0 DEF Doc!Durable!vars, Doc!RemembersError, Doc!Accumulates
<1>1. CASE \/ Doc!Start \/ Doc!Begin \/ Doc!WriteTemporary \/ Doc!Fails \/ Doc!Crash
           \/ UNCHANGED Doc!vars
  <2>1. UNCHANGED <<kind, disk, acked>>
    BY <1>1 DEF Doc!Start, Doc!Begin, Doc!WriteTemporary, Doc!Fails, Doc!Crash, Doc!vars
  <2> QED BY <1>0, <2>1
<1>2. CASE Doc!Replace
  <2>1. save # Doc!NoSave /\ kind' = kind /\ acked' = acked /\ disk' = save.content
    BY <1>2 DEF Doc!Replace, Doc!NoSave
  <2>2. save.content \in SUBSET Doc!Edits /\ disk' # Unreadable
    BY <2>1 DEF DocumentInv, Doc!TypeOK, Doc!Documents, Doc!Edits, Doc!ConstantsAssumption
  <2>3. ~Doc!RemembersError \/ disk # Unreadable
    BY <2>1 DEF DocumentInv, Saving, Readable, Unread
  <2>4. save.edit \in Doc!Edits /\ save.edit > acked
    BY <2>1 DEF DocumentInv, Saving
  <2>5. IF Doc!Accumulates THEN disk \cup {save.edit} \subseteq disk'
                       ELSE disk' = {save.edit}
    BY <2>1 DEF DocumentInv, Saving
  <2>6. Doc!Durable!Save
    BY <2>1, <2>2, <2>3, <2>4, <2>5
       DEF Doc!Durable!Save, Doc!Durable!Adds, Doc!Durable!Replaces, Doc!Durable!Edits,
          Doc!Edits,
           Doc!RemembersError, Doc!Accumulates
  <2> QED BY <2>6 DEF Doc!Durable!Next
<1>3. CASE Doc!Return
  <2>1. save # Doc!NoSave /\ kind' = kind /\ disk' = disk /\ acked' = save.edit
    BY <1>3 DEF Doc!Return, Doc!NoSave
  <2>2. save.at = "return" /\ disk = save.content /\ save.edit > acked
    BY <1>3, <2>1 DEF Doc!Return, DocumentInv, Saving
  <2>3. save.edit \in disk /\ disk # Unreadable
    BY <2>1, <2>2 DEF DocumentInv, Saving, Doc!TypeOK, Doc!Documents, Doc!Edits,
       Doc!ConstantsAssumption
  <2>4. Doc!Durable!Acknowledge
    BY <2>1, <2>2, <2>3 DEF Doc!Durable!Acknowledge, Doc!RemembersError, Doc!Accumulates
  <2> QED BY <2>4 DEF Doc!Durable!Next
<1>4. CASE Doc!Damage
  BY <1>4 DEF Doc!Damage, Doc!Durable!Damage, Doc!Durable!Next, Doc!RemembersError,
     Doc!Accumulates
<1>5. CASE Doc!Repair
  BY <1>5 DEF Doc!Repair, Doc!Durable!Repair, Doc!Durable!Next, Doc!RemembersError,
     Doc!Accumulates
<1> QED
  BY <1>1, <1>2, <1>3, <1>4, <1>5 DEF Doc!Next

(* A document survives what happens to the process (ZoneStore.save,        *)
(* TopologyStore.save, CameraRegistry._save and the loads): it holds what  *)
(* was acknowledged, drops nothing the registry has stored, is overwritten *)
(* while unreadable only if it is a camera's zones, and shows between      *)
(* saves what a restart would show; whatever edits and crashes.            *)
THEOREM DocumentKept == Doc!Spec => DocumentIsKept
<1>1. Doc!Init => Doc!Durable!Init
  BY DEF Doc!Init, Doc!Durable!Init, Doc!RemembersError, Doc!Accumulates
<1>2. DocumentInv /\ [Doc!Next]_(Doc!vars)
        => [Doc!Durable!Next]_(Doc!Durable!vars)
  BY Implements, DocumentAssumption
<1>3. DocumentInv => Doc!TypeOK /\ Doc!ShownIsStored
  BY Shown
<1>4. Doc!Spec => []DocumentInv
  BY DocumentInvariant
<1> QED BY <1>1, <1>2, <1>3, <1>4, PTL
   DEF Doc!Spec, DocumentIsKept, Doc!DocumentIsKept, Doc!IsDurable, Doc!Durable!Spec

(***************************************************************************)
(* What is said of the cameras' health.  A result is never younger than    *)
(* the silence since it, less what the clock was set back; a camera that   *)
(* is off or not yet heard has none.                                       *)
(***************************************************************************)
WorkerStates == {"STARTING", "RUNNING", "RECOVERING", "FAILED", "COMPLETED", "STOPPED"}

HealthTypeOK ==
    /\ on \subseteq Watched /\ heard \subseteq on
    /\ reported \in [Watched -> WorkerStates] /\ setBack \in 0 .. MaxSetBack
    /\ age \in [Watched -> Int] /\ silent \in [Watched -> Nat]
    /\ \A c \in Watched : silent[c] <= Platform!AgeCap

OffIsEmpty ==
    \A c \in Watched :
        /\ c \notin heard => age[c] = Platform!NoResult
        /\ reported[c] = "STOPPED" <=> c \notin on

AgeIsOfSilence ==
    \A c \in Watched : Platform!HasResult(c) =>
        age[c] >= 0 - setBack /\ age[c] >= silent[c] - setBack

HealthInv == HealthTypeOK /\ OffIsEmpty /\ AgeIsOfSilence

LEMMA BoundsAre ==
    /\ StaleAfter \in Nat /\ LateAfter \in Nat /\ OfflineAfter \in Nat /\ MaxSetBack \in Nat
    /\ LateAfter <= StaleAfter /\ StaleAfter <= OfflineAfter
    /\ Platform!AgeCap = OfflineAfter + MaxSetBack + 1
    /\ Platform!NoResult = 0 - MaxSetBack - 1
BY HealthAssumption DEF Platform!ConstantsAssumption, Platform!AgeCap, Platform!NoResult

LEMMA HealthStarts == Platform!HealthInit => HealthInv
BY BoundsAre DEF Platform!HealthInit, HealthInv, HealthTypeOK, OffIsEmpty, AgeIsOfSilence,
   Platform!HasResult, WorkerStates

LEMMA SecondKeeps == ASSUME HealthInv, Platform!Second PROVE HealthInv'
<1> USE BoundsAre DEF Platform!Second, HealthInv
<1>1. HealthTypeOK'
  BY DEF HealthTypeOK, Platform!Capped, Platform!HasResult
<1>2. OffIsEmpty'
  BY DEF HealthTypeOK, OffIsEmpty, Platform!HasResult
<1>3. AgeIsOfSilence'
  BY DEF HealthTypeOK, AgeIsOfSilence, Platform!HasResult, Platform!Capped
<1> QED BY <1>1, <1>2, <1>3

LEMMA SetBackKeeps == ASSUME HealthInv, Platform!SetBack PROVE HealthInv'
<1> USE BoundsAre DEF HealthInv
<1> PICK d \in 1 .. MaxSetBack - setBack :
        /\ setBack' = setBack + d
        /\ age' = [c \in Watched |-> IF Platform!HasResult(c) THEN age[c] - d
                                     ELSE Platform!NoResult]
        /\ UNCHANGED <<on, reported, slow, silent, heard>>
  BY DEF Platform!SetBack
<1>1. HealthTypeOK'
  BY DEF HealthTypeOK, Platform!HasResult
<1>2. OffIsEmpty'
  BY DEF HealthTypeOK, OffIsEmpty, Platform!HasResult
<1>3. AgeIsOfSilence'
  BY DEF HealthTypeOK, AgeIsOfSilence, Platform!HasResult
<1> QED BY <1>1, <1>2, <1>3

LEMMA CameraKeeps ==
    ASSUME HealthInv, NEW c \in Watched,
           Platform!Record(c) \/ Platform!WorkerMoves(c) \/ Platform!Disable(c)
              \/ Platform!Enable(c)
    PROVE  HealthInv'
<1> USE BoundsAre DEF HealthInv, HealthTypeOK, WorkerStates
<1>1. CASE Platform!Record(c)
  <2> USE <1>1 DEF Platform!Record
  <2>1. HealthTypeOK' /\ OffIsEmpty'
    BY DEF OffIsEmpty
  <2>2. AgeIsOfSilence'
    BY DEF AgeIsOfSilence, Platform!HasResult
  <2> QED BY <2>1, <2>2
<1>2. CASE Platform!WorkerMoves(c)
  BY <1>2 DEF Platform!WorkerMoves, OffIsEmpty, AgeIsOfSilence, Platform!HasResult
<1>3. CASE Platform!Disable(c)
  BY <1>3 DEF Platform!Disable, OffIsEmpty, AgeIsOfSilence, Platform!HasResult
<1>4. CASE Platform!Enable(c)
  BY <1>4 DEF Platform!Enable, OffIsEmpty, AgeIsOfSilence, Platform!HasResult
<1> QED BY <1>1, <1>2, <1>3, <1>4

LEMMA HealthKeeps == HealthInv /\ [Platform!HealthNext]_(Platform!healthVars) => HealthInv'
<1> SUFFICES ASSUME HealthInv, [Platform!HealthNext]_(Platform!healthVars) PROVE HealthInv'
  OBVIOUS
<1>1. CASE UNCHANGED Platform!healthVars
  BY <1>1 DEF Platform!healthVars, HealthInv, HealthTypeOK, OffIsEmpty, AgeIsOfSilence,
     Platform!HasResult
<1>2. CASE Platform!HealthNext
  BY <1>2, SecondKeeps, SetBackKeeps, CameraKeeps DEF Platform!HealthNext
<1> QED BY <1>1, <1>2

\* What a camera that is on contributes follows from its worker and its age.
LEMMA StatusIs ==
    ASSUME HealthInv, NEW c \in on
    PROVE  /\ Platform!IsContributing(c) <=>
                 reported[c] = "RUNNING" /\ Platform!HasResult(c)
                    /\ Platform!AgeOf(c) <= OfflineAfter
           /\ Platform!Status(c) = "ONLINE" =>
                 reported[c] = "RUNNING" /\ Platform!HasResult(c)
                    /\ Platform!AgeOf(c) <= LateAfter
           /\ Platform!IsContributing(c) => Platform!Status(c) \in {"ONLINE", "DEGRADED"}
           /\ reported[c] \in {"FAILED", "COMPLETED"} => Platform!Status(c) = "OFFLINE"
           /\ reported[c] \in {"STARTING", "RUNNING"} /\ ~Platform!HasResult(c)
                 => Platform!Status(c) = "CONNECTING"
           /\ Platform!AgeOf(c) \in Int
<1> USE BoundsAre DEF HealthInv, HealthTypeOK, WorkerStates
<1>1. Platform!AgeOf(c) \in Int
  BY DEF Platform!AgeOf
<1>2. reported[c] # "STOPPED" /\ reported[c] \in WorkerStates
  BY DEF OffIsEmpty
<1> QED BY <1>1, <1>2 DEF Platform!Status, Platform!IsContributing, Platform!StatusOfWorker

LEMMA HealthExplains == HealthInv => Platform!HealthIsEarned
<1> SUFFICES ASSUME HealthInv
             PROVE  Platform!SilenceIsSeen /\ Platform!HealthsAgree /\ Platform!ComesBackConnecting
  BY DEF Platform!HealthIsEarned
<1> USE BoundsAre
<1>1. Platform!SilenceIsSeen
  <2> SUFFICES ASSUME NEW c \in on, silent[c] > OfflineAfter + setBack
               PROVE  /\ ~Platform!IsContributing(c) /\ ~Platform!ShowsPeople(c)
                      /\ Platform!CamerasHealth # "HEALTHY"
                      /\ Platform!PipelineHealth # "HEALTHY"
    BY DEF Platform!SilenceIsSeen
  <2>1. Platform!HasResult(c) => Platform!AgeOf(c) > OfflineAfter
    BY DEF HealthInv, HealthTypeOK, AgeIsOfSilence, Platform!AgeOf
  <2>2. ~Platform!IsContributing(c)
    BY <2>1, StatusIs
  <2>3. Platform!CamerasHealth # "HEALTHY"
    BY <2>2 DEF Platform!CamerasHealth
  <2>4. Platform!IsStale(c)
    BY <2>1, StatusIs DEF Platform!IsStale
  <2>5. Platform!PipelineHealth # "HEALTHY"
    BY <2>4 DEF Platform!PipelineHealth
  <2> QED BY <2>2, <2>3, <2>5 DEF Platform!ShowsPeople
<1>2. Platform!HealthsAgree
  <2>1. Platform!CamerasHealth = "HEALTHY" => Platform!PipelineHealth = "HEALTHY"
    <3> SUFFICES ASSUME Platform!CamerasHealth = "HEALTHY"
                 PROVE  Platform!PipelineHealth = "HEALTHY"
      OBVIOUS
    <3>1. on # {} /\ \A c \in on : Platform!IsContributing(c) /\ Platform!Status(c) # "DEGRADED"
      BY DEF Platform!CamerasHealth
    <3>2. \A c \in on : Platform!Status(c) = "ONLINE"
      BY <3>1, StatusIs
    <3>3. \A c \in on : reported[c] = "RUNNING" /\ ~Platform!IsStale(c)
      BY <3>2, StatusIs DEF Platform!IsStale
    <3> QED BY <3>1, <3>3 DEF Platform!PipelineHealth
  <2>2. Platform!PipelineHealth = "HEALTHY" => Platform!CamerasHealth \in {"HEALTHY", "WARNING"}
    <3> SUFFICES ASSUME Platform!PipelineHealth = "HEALTHY"
                 PROVE  Platform!CamerasHealth \in {"HEALTHY", "WARNING"}
      OBVIOUS
    <3>1. on # {} /\ \A c \in on : reported[c] = "RUNNING" /\ ~Platform!IsStale(c)
      BY DEF Platform!PipelineHealth
    <3>2. \A c \in on : Platform!IsContributing(c)
      BY <3>1, StatusIs DEF Platform!IsStale
    <3> QED BY <3>1, <3>2 DEF Platform!CamerasHealth
  <2>3. Platform!PipelineHealth = "OFFLINE" => Platform!CamerasHealth = "OFFLINE"
    <3> SUFFICES ASSUME Platform!PipelineHealth = "OFFLINE", on # {}
                 PROVE  Platform!CamerasHealth = "OFFLINE"
      BY DEF Platform!CamerasHealth
    <3>1. \A c \in on : reported[c] \notin {"RUNNING", "STARTING", "RECOVERING"}
      BY DEF Platform!PipelineHealth
    <3>2. \A c \in on : reported[c] \in {"FAILED", "COMPLETED"}
      BY <3>1 DEF HealthInv, HealthTypeOK, OffIsEmpty, WorkerStates
    <3>3. \A c \in on : ~Platform!IsContributing(c) /\ Platform!Status(c) = "OFFLINE"
      BY <3>2, StatusIs
    <3> QED BY <3>3 DEF Platform!CamerasHealth
  <2> QED BY <2>1, <2>2, <2>3 DEF Platform!HealthsAgree
<1>3. Platform!ComesBackConnecting
  BY StatusIs DEF Platform!ComesBackConnecting, HealthInv, HealthTypeOK, OffIsEmpty,
     Platform!ShowsPeople, Platform!HasResult
<1> QED BY <1>1, <1>2, <1>3

(* For every choice of cameras and times: a camera that has been silent for *)
(* the time that makes it offline shows no people and is missed by both    *)
(* healths, whatever its worker says and however the clock was set back    *)
(* within the bound; the two healths never contradict; a camera that comes *)
(* back is connecting, not lost.                                           *)
THEOREM HealthEarned == Platform!HealthSpec => []Platform!HealthIsEarned
<1>1. Platform!HealthSpec => []HealthInv
  BY HealthStarts, HealthKeeps, PTL DEF Platform!HealthSpec
<1> QED BY <1>1, HealthExplains, PTL

(***************************************************************************)
(* The zones of a camera.  The counters are those of the queues measured;  *)
(* a set not yet measured was said to be due; a report is of what was      *)
(* measured when it was made, and what was said of counters is what they   *)
(* are.                                                                    *)
(***************************************************************************)
IsCounter(w) == Drawn!Settings(w) /\ w.rate # Keep

ZonesInv ==
    /\ mode \in {"full", "noqueue", "off"}
    /\ zones \in Drawn!Sets /\ built \in Drawn!Sets
    /\ DOMAIN counters = Drawn!Queues
    /\ \A z \in Drawn!Queues : IsCounter(counters[z])
    /\ Drawn!StaleIsSaid
    /\ IF report.made THEN report.zones = built /\ DOMAIN report.rates = Drawn!Queues
                      ELSE report = Drawn!NoReport
    /\ DOMAIN said \subseteq Drawn!Queues
    /\ \A z \in DOMAIN said : counters[z] = said[z]

LEMMA ZoneConstants ==
    /\ IsCounter(Defaults)
    /\ \A w \in Writes : Drawn!Settings(w)
BY ZonesAssumption DEF Drawn!ConstantsAssumption, IsCounter

LEMMA NoZonesIsASet == Drawn!NoZones \in Drawn!Sets /\ Drawn!QueuesOf(Drawn!NoZones) = {}
<1>1. DOMAIN Drawn!NoZones = {}
  BY DEF Drawn!NoZones
<1>2. Drawn!NoZones \in [{} -> {"queue", "area"}]
  BY DEF Drawn!NoZones
<1> QED BY <1>1, <1>2 DEF Drawn!Sets, Drawn!QueuesOf

\* The counters the analysis is built with are of its queues, and in order.
LEMMA BuiltCounters ==
    ASSUME NEW set
    PROVE  /\ DOMAIN Drawn!CountersBuilt(set) = IF mode = "full" THEN Drawn!QueuesOf(set) ELSE {}
           /\ \A z \in DOMAIN Drawn!CountersBuilt(set) : IsCounter(Drawn!CountersBuilt(set)[z])
           /\ DOMAIN Drawn!CarriedAcross(set) = DOMAIN Drawn!CountersBuilt(set)
           /\ \A z \in DOMAIN Drawn!CarriedAcross(set) :
                 Drawn!CarriedAcross(set)[z] =
                    IF z \in Drawn!Queues THEN counters[z] ELSE Drawn!CountersBuilt(set)[z]
BY ZoneConstants DEF Drawn!CountersBuilt, Drawn!CarriedAcross

LEMMA ZonesStart == Drawn!ZonesInit => ZonesInv
<1> SUFFICES ASSUME Drawn!ZonesInit PROVE ZonesInv
  OBVIOUS
<1> USE DEF Drawn!ZonesInit
<1>1. DOMAIN counters = Drawn!Queues /\ \A z \in Drawn!Queues : IsCounter(counters[z])
  BY BuiltCounters DEF Drawn!Queues
<1>2. DOMAIN said = {} /\ report = Drawn!NoReport /\ ~report.made
  BY DEF Drawn!NoReport
<1> QED BY <1>1, <1>2 DEF ZonesInv, Drawn!StaleIsSaid

LEMMA EditZonesKeeps == ASSUME ZonesInv, Drawn!EditZones PROVE ZonesInv'
<1> PICK set \in Drawn!Sets : Drawn!SaveForLater(set) \/ Drawn!SaveAndApply(set)
  BY DEF Drawn!EditZones
<1>1. CASE Drawn!SaveForLater(set)
  BY <1>1 DEF Drawn!SaveForLater, Drawn!Stored, ZonesInv, Drawn!Queues, Drawn!StaleIsSaid
<1>2. CASE Drawn!SaveAndApply(set) /\ mode = "off"
  BY <1>2 DEF Drawn!SaveAndApply, Drawn!Stored, ZonesInv, Drawn!Queues, Drawn!StaleIsSaid
<1>3. CASE Drawn!SaveAndApply(set) /\ mode # "off"
  <2>1. /\ zones' = set /\ built' = set /\ counters' = Drawn!CarriedAcross(set)
        /\ report' = Drawn!NoReport /\ mode' = mode
        /\ said' = [z \in DOMAIN said \cap Drawn!QueuesOf(set) |-> said[z]]
    BY <1>3 DEF Drawn!SaveAndApply, Drawn!Stored
  <2>2. Drawn!Queues' = DOMAIN Drawn!CountersBuilt(set)
    BY <2>1, BuiltCounters DEF Drawn!Queues
  <2>3. DOMAIN counters' = Drawn!Queues'
    BY <2>1, <2>2, BuiltCounters
  <2>4. \A z \in Drawn!Queues' : IsCounter(counters'[z])
    BY <2>1, <2>2, BuiltCounters DEF ZonesInv
  <2>5. \A z \in DOMAIN said' : z \in DOMAIN said /\ z \in Drawn!QueuesOf(set)
    BY <2>1
  <2>6. DOMAIN said' \subseteq Drawn!Queues'
    BY <2>1, <2>2, <2>5, BuiltCounters DEF ZonesInv, Drawn!Queues
  <2>7. \A z \in DOMAIN said' : counters'[z] = said'[z]
    BY <2>1, <2>2, <2>3, <2>5, <2>6, BuiltCounters DEF ZonesInv
  <2>8. ~report'.made /\ report' = Drawn!NoReport
    BY <2>1 DEF Drawn!NoReport
  <2> QED BY <2>1, <2>3, <2>4, <2>6, <2>7, <2>8 DEF ZonesInv, Drawn!StaleIsSaid, Drawn!NoReport
<1> QED BY <1>1, <1>2, <1>3

LEMMA SetCountersKeeps ==
    ASSUME ZonesInv, NEW z \in Names, NEW w \in Writes, Drawn!SetCounters(z, w)
    PROVE  ZonesInv'
<1> USE DEF Drawn!SetCounters
<1>1. IsCounter(Drawn!Written(z, w))
  <2>1. Drawn!Settings(w) /\ counters[z].rate \in Nat /\ counters[z].rate # Keep
    BY ZoneConstants DEF ZonesInv, IsCounter, Drawn!Settings
  <2> QED BY <2>1 DEF IsCounter, Drawn!Settings, Drawn!Written
<1>2. Drawn!Queues' = Drawn!Queues
  BY DEF Drawn!Queues
<1>3. /\ DOMAIN counters' = DOMAIN counters
      /\ \A y \in DOMAIN counters :
            counters'[y] = IF y = z THEN Drawn!Written(z, w) ELSE counters[y]
  BY DEF ZonesInv
<1>4. /\ DOMAIN said' = DOMAIN said \cup {z}
      /\ \A y \in DOMAIN said' : said'[y] = IF y = z THEN Drawn!Written(z, w) ELSE said[y]
  OBVIOUS
<1> QED BY <1>1, <1>2, <1>3, <1>4 DEF ZonesInv, Drawn!StaleIsSaid, Drawn!NoReport

LEMMA AnalyseKeeps == ASSUME ZonesInv, Drawn!Analyse PROVE ZonesInv'
<1> USE DEF Drawn!Analyse
<1>1. report'.made /\ report'.zones = built /\ DOMAIN report'.rates = Drawn!Queues
  OBVIOUS
<1> QED BY <1>1 DEF ZonesInv, Drawn!StaleIsSaid, Drawn!Queues

LEMMA CameraMovesKeep == ASSUME ZonesInv, Drawn!Stops \/ Drawn!Starts PROVE ZonesInv'
<1>1. ~Drawn!NoReport.made
  BY DEF Drawn!NoReport
<1> QED BY <1>1 DEF Drawn!Stops, Drawn!Starts, ZonesInv, Drawn!StaleIsSaid, Drawn!Queues,
           Drawn!NoReport

LEMMA ZonesRestart == ASSUME ZonesInv, Drawn!Restart PROVE ZonesInv'
<1> USE DEF Drawn!Restart
<1>1. zones' \in Drawn!Sets /\ built' = zones' /\ mode' = mode
  BY NoZonesIsASet DEF ZonesInv
<1>2. DOMAIN counters' = Drawn!Queues' /\ \A z \in Drawn!Queues' : IsCounter(counters'[z])
  BY <1>1, BuiltCounters DEF Drawn!Queues
<1>3. DOMAIN said' = {} /\ report' = Drawn!NoReport /\ ~report'.made
  BY DEF Drawn!NoReport
<1> QED BY <1>1, <1>2, <1>3 DEF ZonesInv, Drawn!StaleIsSaid, Drawn!NoReport

LEMMA ZonesKeep == ZonesInv /\ [Drawn!ZonesNext]_(Drawn!zoneVars) => ZonesInv'
<1> SUFFICES ASSUME ZonesInv, [Drawn!ZonesNext]_(Drawn!zoneVars) PROVE ZonesInv'
  OBVIOUS
<1>1. CASE UNCHANGED Drawn!zoneVars
  BY <1>1 DEF Drawn!zoneVars, ZonesInv, Drawn!StaleIsSaid, Drawn!Queues
<1>2. CASE Drawn!ZonesNext
  BY <1>2, EditZonesKeeps, SetCountersKeeps, AnalyseKeeps, CameraMovesKeep, ZonesRestart
     DEF Drawn!ZonesNext
<1> QED BY <1>1, <1>2

LEMMA ZonesExplain == ZonesInv => Drawn!ZonesAreApplied
<1> SUFFICES ASSUME ZonesInv PROVE Drawn!ZonesAreApplied
  OBVIOUS
<1>1. Drawn!ZonesTypeOK
  BY DEF ZonesInv, Drawn!ZonesTypeOK, IsCounter, Drawn!Settings
<1>2. Drawn!AllocationStands
  BY DEF ZonesInv, Drawn!AllocationStands
<1>3. DOMAIN Drawn!CountersRead = Drawn!Queues
  BY DEF Drawn!CountersRead
<1>4. \A z \in Drawn!Queues : Drawn!CountersRead[z].rate = counters[z].rate \/ report.made
  <2> SUFFICES ASSUME NEW z \in Drawn!Queues, ~report.made
               PROVE  Drawn!CountersRead[z].rate = counters[z].rate
    OBVIOUS
  <2>1. DOMAIN report.rates = {}
    BY DEF ZonesInv, Drawn!NoReport
  <2>2. counters[z] \in [total : Nat, active : Nat, rate : Nat]
    BY DEF ZonesInv, IsCounter, Drawn!Settings
  <2> QED BY <2>1, <2>2 DEF Drawn!CountersRead
<1>5. Drawn!ReportIsOfItsZones
  BY <1>3, <1>4 DEF ZonesInv, Drawn!ReportIsOfItsZones
<1> QED BY <1>1, <1>2, <1>5 DEF ZonesInv, Drawn!ZonesAreApplied

(* For every set of zones and counters, through every order of edits,      *)
(* rebuilds, stops and restarts: a set that is not measured is said to be  *)
(* due, an operator's counters stand while their queue is measured, and no *)
(* report is of zones that are not.                                        *)
THEOREM ZonesApplied == Drawn!ZonesSpec => []Drawn!ZonesAreApplied
<1>1. Drawn!ZonesSpec => []ZonesInv
  BY ZonesStart, ZonesKeep, PTL DEF Drawn!ZonesSpec
<1> QED BY <1>1, ZonesExplain, PTL

(***************************************************************************)
(* The map of the site's flow.                                             *)
(***************************************************************************)
LEMMA FlowStarts == Map!FlowInit => Map!FlowTypeOK
BY DEF Map!FlowInit, Map!FlowTypeOK

LEMMA FlowKeeps == Map!FlowTypeOK /\ [Map!FlowNext]_(Map!flowVars) => Map!FlowTypeOK'
<1> SUFFICES ASSUME Map!FlowTypeOK, [Map!FlowNext]_(Map!flowVars) PROVE Map!FlowTypeOK'
  OBVIOUS
<1> USE DEF Map!FlowTypeOK
<1>1. CASE UNCHANGED Map!flowVars
  BY <1>1 DEF Map!flowVars
<1>2. ASSUME NEW c \in Watched, Map!FlowAnalysed(c) PROVE Map!FlowTypeOK'
  BY <1>2 DEF Map!FlowAnalysed
<1>3. ASSUME NEW c \in Watched, Map!FlowLost(c) \/ Map!FlowBack(c) PROVE Map!FlowTypeOK'
  BY <1>3 DEF Map!FlowLost, Map!FlowBack
<1>4. ASSUME NEW c \in Watched, Map!FlowDisabled(c) \/ Map!FlowEnabled(c)
      PROVE  Map!FlowTypeOK'
  BY <1>4 DEF Map!FlowDisabled, Map!FlowEnabled
<1>5. ASSUME NEW c \in Watched, NEW zones_ \in SUBSET Drawable,
             Map!ZonesSavedForLater(c, zones_) \/ Map!ZonesSavedAndApplied(c, zones_)
      PROVE  Map!FlowTypeOK'
  BY <1>5 DEF Map!ZonesSavedForLater, Map!ZonesSavedAndApplied
<1> QED BY <1>1, <1>2, <1>3, <1>4, <1>5 DEF Map!FlowNext

LEMMA FlowExplains == Map!FlowTypeOK => Map!FlowMapIsHonest
<1> SUFFICES ASSUME Map!FlowTypeOK PROVE Map!LinksMatchNodes /\ Map!NobodyIsDrawnFromMemory
  BY DEF Map!FlowMapIsHonest
<1>1. Map!LinksMatchNodes
  <2> SUFFICES ASSUME NEW l \in Map!Links
               PROVE  LET link == Map!Link(l)
                          both == \A n \in {l.from, l.to} :
                                     n \in Map!Nodes /\ Map!Shown(n).available
                      IN  /\ (link.basis # "unavailable") <=> both
                          /\ both => /\ link.out = Map!Shown(l.from).figures.out
                                     /\ link.in = Map!Shown(l.to).figures.in
    BY DEF Map!LinksMatchNodes
  <2>1. \A n : n \in Map!Nodes /\ Map!Shown(n).available <=> ~Map!Gap(n)
    BY DEF Map!Gap, Map!Shown, Map!Snapshot, Map!Counts
  <2> QED BY <2>1 DEF Map!Link, Map!Shown
<1>2. Map!NobodyIsDrawnFromMemory
  BY DEF Map!NobodyIsDrawnFromMemory, Map!FlowTypeOK, Map!Nodes, Map!Ends, Map!Node,
     Map!Shown, Map!Snapshot, Map!Counts, Map!ZonesShown
<1> QED BY <1>1, <1>2

(* For every site: a link of the flow map has figures exactly where both   *)
(* its ends do, the same figures, and nobody is drawn from a camera that   *)
(* is not delivering.                                                      *)
THEOREM MapHonest == Map!FlowSpec => []Map!FlowMapIsHonest
<1>1. Map!FlowSpec => []Map!FlowTypeOK
  BY FlowStarts, FlowKeeps, PTL DEF Map!FlowSpec
<1> QED BY <1>1, FlowExplains, PTL

(***************************************************************************)
(* Accounts.  Of an account that a setup makes, a change is pending for,   *)
(* or a request acts for, it is known that it exists; in the setup's lock  *)
(* that none does.                                                         *)
(***************************************************************************)
Contexts == [session : People!Sessions, role : People!Roles, read : Nat]
Stored == [role : People!Roles, read : Nat, at : Nat]

PeopleTypeOK ==
    /\ clock \in Nat /\ clears \in Nat /\ opened \in 0 .. MaxSessions
    /\ role \in [Users -> People!Roles \cup {Nothing}]
    /\ active \subseteq Users /\ \A u \in active : People!Exists(u)
    /\ setup \in [Browsers -> {"idle", "waiting", "alone", "made"}]
    /\ founded \subseteq Users /\ \A u \in founded : People!Exists(u)
    /\ pending \subseteq People!Changes /\ \A new \in pending : People!Exists(new.user)
    /\ overlapped \in BOOLEAN

SessionsTypeOK ==
    /\ owner \in [People!Sessions -> Users \cup {Nothing}]
    /\ \A s \in People!Sessions : s <= opened => owner[s] \in Users
    /\ expires \in [People!Sessions -> Nat] /\ revoked \in [People!Sessions -> BOOLEAN]
    /\ leaving \subseteq People!Sessions /\ asking \subseteq People!Sessions
    /\ reading \subseteq Contexts /\ cache \in [People!Sessions -> Stored \cup {Nothing}]
    /\ acting \subseteq People!Sessions \X People!Roles /\ overtaken \subseteq People!Sessions
    /\ good \in [People!Sessions -> Int]

SomebodyExists == \E u \in Users : People!Exists(u)

SetupInv ==
    /\ \A a, b \in Browsers : setup[a] = "alone" /\ setup[b] = "alone" => a = b
    /\ (\E b \in Browsers : setup[b] = "alone") => ~SomebodyExists
    /\ reading # {} \/ acting # {} => SomebodyExists
    /\ People!SetupIsOnce

AdminInv ==
    ~overlapped => /\ \A p, q \in pending : p = q
                   /\ \A new \in pending : People!LeavesAnAdmin(new)
                   /\ SomebodyExists => \E u \in Users : People!Administers(u)

PeopleInv == PeopleTypeOK /\ SessionsTypeOK /\ SetupInv /\ AdminInv

LEMMA PeopleConstants ==
    /\ Ttl \in Nat \ {0} /\ CacheFor \in Nat \ {0} /\ Lockout \in Nat \ {0}
    /\ MaxFailures \in Nat \ {0} /\ MaxTrying \in Nat \ {0} /\ MaxSessions \in Nat
    /\ Nothing \notin People!Roles /\ Nothing \notin Stored
BY PeopleAssumption DEF People!ConstantsAssumption, People!Roles, Stored

LEMMA PeopleStart == People!Init => PeopleInv
<1> SUFFICES ASSUME People!Init PROVE PeopleInv
  OBVIOUS
<1> USE PeopleConstants DEF People!Init
<1>1. PeopleTypeOK
  <2>1. clock \in Nat /\ clears \in Nat /\ opened \in 0 .. MaxSessions
    OBVIOUS
  <2>2. role \in [Users -> People!Roles \cup {Nothing}]
    OBVIOUS
  <2>3. setup \in [Browsers -> {"idle", "waiting", "alone", "made"}]
    OBVIOUS
  <2>4. active = {} /\ founded = {} /\ pending = {} /\ overlapped \in BOOLEAN
    OBVIOUS
  <2> HIDE DEF People!Init
  <2> QED BY <2>1, <2>2, <2>3, <2>4 DEF PeopleTypeOK
<1>2. SessionsTypeOK
  <2>1. \A s \in People!Sessions : ~(s <= 0)
    BY DEF People!Sessions
  <2> QED BY <2>1 DEF SessionsTypeOK
<1>3. ~SomebodyExists
  BY DEF SomebodyExists, People!Exists
<1>4. SetupInv
  BY <1>3 DEF SetupInv, People!SetupIsOnce
<1> QED BY <1>1, <1>2, <1>3, <1>4 DEF PeopleInv, AdminInv

\* What the dating of sessions adds to a step.
LEMMA DatesAre ==
    ASSUME good \in [People!Sessions -> Int], People!Dates, clock' \in Nat
    PROVE  /\ good' \in [People!Sessions -> Int]
           /\ \A s \in People!Sessions : good'[s] = good[s] \/ good'[s] = clock'
BY DEF People!Dates, People!Good

LEMMA RoleSet ==
    ASSUME PeopleTypeOK, NEW u \in Users, NEW r \in People!Roles,
           role' = [role EXCEPT ![u] = r]
    PROVE  /\ role' \in [Users -> People!Roles \cup {Nothing}]
           /\ role'[u] = r /\ \A v \in Users \ {u} : role'[v] = role[v]
           /\ \A v \in Users : People!Exists(v) => People!Exists(v)'
           /\ People!Exists(u)' /\ SomebodyExists'
BY PeopleConstants DEF PeopleTypeOK, People!Exists, SomebodyExists

\* The accounts are as they were; so is all that is said of them alone.
LEMMA AccountsSame ==
    ASSUME PeopleTypeOK, SetupInv, AdminInv, UNCHANGED People!accountVars,
           clock' \in Nat, clears' \in Nat, opened' \in 0 .. MaxSessions,
           reading' # {} \/ acting' # {} => SomebodyExists
    PROVE  PeopleTypeOK' /\ SetupInv' /\ AdminInv'
<1> USE DEF People!accountVars
<1>1. PeopleTypeOK'
  BY DEF PeopleTypeOK, People!Exists
<1>2. SomebodyExists' = SomebodyExists
  BY DEF SomebodyExists, People!Exists
<1>3. SetupInv'
  BY <1>2 DEF SetupInv, People!SetupIsOnce
<1>4. AdminInv'
  BY <1>2 DEF AdminInv, People!LeavesAnAdmin, People!RemovesAdmin, People!Administers
<1> QED BY <1>1, <1>3, <1>4

LEMMA SessionsSame ==
    ASSUME SessionsTypeOK, UNCHANGED People!sessionVars, UNCHANGED People!cacheVars,
           People!Dates, clock' \in Nat
    PROVE  SessionsTypeOK'
<1>1. good' \in [People!Sessions -> Int]
  BY DatesAre DEF SessionsTypeOK
<1> QED BY <1>1 DEF SessionsTypeOK, People!sessionVars, People!cacheVars

\* Time and sign-ins as far as the password.
LEMMA SignInsKeepPeople ==
    ASSUME PeopleInv, People!Dates,
           \/ People!Tick
           \/ \E u \in Users : \/ People!TriesToSignIn(u) \/ People!PasswordMatches(u)
                               \/ People!AccountIsDisabled(u) \/ People!PasswordIsWrong(u)
                               \/ People!IsVerified(u)
    PROVE  PeopleInv'
<1>1. /\ UNCHANGED People!accountVars /\ UNCHANGED People!sessionVars /\ UNCHANGED People!cacheVars
      /\ clock' \in Nat
  BY DEF People!Tick, People!TriesToSignIn, People!PasswordMatches, People!AccountIsDisabled,
     People!PasswordIsWrong, People!IsVerified, PeopleInv, PeopleTypeOK
<1>2. UNCHANGED <<clears, opened, reading, acting>>
  BY <1>1 DEF People!sessionVars, People!cacheVars
<1>3. PeopleTypeOK' /\ SetupInv' /\ AdminInv'
  BY <1>1, <1>2, AccountsSame DEF PeopleInv, PeopleTypeOK, SetupInv
<1> QED BY <1>1, <1>3, SessionsSame DEF PeopleInv

\* A session is started.
LEMMA OpensKeeps ==
    ASSUME PeopleTypeOK, SessionsTypeOK, NEW u \in Users, People!Opens(u),
           UNCHANGED People!cacheVars, UNCHANGED clock, People!Dates
    PROVE  opened' \in 0 .. MaxSessions /\ SessionsTypeOK'
<1> USE PeopleConstants DEF People!Opens
<1>1. opened' \in 0 .. MaxSessions /\ opened' \in People!Sessions /\ clock \in Nat
  BY DEF PeopleTypeOK, People!Sessions
<1>2. good' \in [People!Sessions -> Int]
  BY <1>1, DatesAre DEF SessionsTypeOK
<1>3. /\ owner' \in [People!Sessions -> Users \cup {Nothing}]
      /\ \A s \in People!Sessions : s <= opened' => owner'[s] \in Users
  BY <1>1 DEF SessionsTypeOK, PeopleTypeOK, People!Sessions
<1>4. expires' \in [People!Sessions -> Nat]
  BY <1>1 DEF SessionsTypeOK
<1> QED BY <1>1, <1>2, <1>3, <1>4 DEF SessionsTypeOK, People!cacheVars

LEMMA SignsInKeepsPeople ==
    ASSUME PeopleInv, People!Dates, NEW u \in Users, People!SignsIn(u)
    PROVE  PeopleInv'
<1>1. /\ UNCHANGED People!accountVars /\ UNCHANGED People!cacheVars /\ UNCHANGED clock /\ People!Opens(u)
  BY DEF People!SignsIn
<1>2. SessionsTypeOK' /\ opened' \in 0 .. MaxSessions
  BY <1>1, OpensKeeps DEF PeopleInv
<1>3. UNCHANGED <<clears, reading, acting>>
  BY <1>1 DEF People!cacheVars
<1>4. PeopleTypeOK' /\ SetupInv' /\ AdminInv'
  BY <1>1, <1>2, <1>3, AccountsSame DEF PeopleInv, PeopleTypeOK, SetupInv
<1> QED BY <1>2, <1>4 DEF PeopleInv

\* The setup: whoever has the lock knows that there is no account.
LEMMA SetupKeepsPeople ==
    ASSUME PeopleInv, People!Dates, NEW b \in Browsers,
           \/ People!SetupBegins(b) \/ People!SetupChecks(b) \/ People!SetupSignsIn(b)
           \/ \E u \in Users : People!SetupCreates(b, u)
    PROVE  PeopleInv'
<1> USE PeopleConstants DEF PeopleInv
<1>1. CASE People!SetupBegins(b) \/ People!SetupChecks(b)
  <2>1. /\ UNCHANGED <<role, active, founded, pending, overlapped>> /\ UNCHANGED clock
        /\ UNCHANGED People!sessionVars /\ UNCHANGED People!cacheVars
        /\ \E to \in {"idle", "waiting", "alone"} :
              /\ setup' = [setup EXCEPT ![b] = to]
              /\ to = "alone" => ~SomebodyExists /\ \A a \in Browsers : setup[a] # "alone"
    BY <1>1 DEF People!SetupBegins, People!SetupChecks, People!MayEnterSetup, SomebodyExists
  <2>2. SessionsTypeOK'
    BY <2>1, SessionsSame DEF PeopleTypeOK
  <2>3. UNCHANGED <<clears, opened, reading, acting>>
    BY <2>1 DEF People!sessionVars, People!cacheVars
  <2>4. PeopleTypeOK'
    BY <2>1, <2>3 DEF PeopleTypeOK, People!Exists
  <2>5. SomebodyExists' = SomebodyExists
    BY <2>1 DEF SomebodyExists, People!Exists
  <2>6. SetupInv'
    BY <2>1, <2>3, <2>5 DEF SetupInv, People!SetupIsOnce, PeopleTypeOK
  <2>7. AdminInv'
    BY <2>1, <2>5 DEF AdminInv, People!LeavesAnAdmin, People!RemovesAdmin, People!Administers
  <2> QED BY <2>2, <2>4, <2>6, <2>7
<1>2. CASE People!SetupSignsIn(b)
  <2> USE <1>2 DEF People!SetupSignsIn
  <2>1. UNCHANGED People!cacheVars /\ UNCHANGED clock /\ UNCHANGED <<clears, reading, acting>>
    BY DEF People!cacheVars
  <2>2. PICK u \in founded : People!Opens(u)
    OBVIOUS
  <2>3. SessionsTypeOK' /\ opened' \in 0 .. MaxSessions
    BY <2>1, <2>2, OpensKeeps DEF PeopleTypeOK
  <2>4. PeopleTypeOK'
    BY <2>1, <2>3 DEF PeopleTypeOK, People!Exists
  <2>5. SomebodyExists' = SomebodyExists
    BY DEF SomebodyExists, People!Exists
  <2>6. SetupInv'
    BY <2>1, <2>5 DEF SetupInv, People!SetupIsOnce, PeopleTypeOK
  <2>7. AdminInv'
    BY <2>5 DEF AdminInv, People!LeavesAnAdmin, People!RemovesAdmin, People!Administers
  <2> QED BY <2>3, <2>4, <2>6, <2>7
<1>3. ASSUME NEW u \in Users, People!SetupCreates(b, u) PROVE PeopleInv'
  <2> USE <1>3 DEF People!SetupCreates
  <2>1. /\ UNCHANGED People!sessionVars /\ UNCHANGED People!cacheVars /\ UNCHANGED clock
        /\ UNCHANGED <<clears, opened, reading, acting>>
    BY DEF People!sessionVars, People!cacheVars
  <2>2. SessionsTypeOK'
    BY <2>1, SessionsSame DEF PeopleTypeOK
  <2>3. /\ ~SomebodyExists /\ pending = {} /\ founded = {}
        /\ \A a \in Browsers : setup[a] = "alone" => a = b
    BY DEF SetupInv, PeopleTypeOK, SomebodyExists, People!Changes
  <2>4. "ADMIN" \in People!Roles
    BY DEF People!Roles
  <2>5. /\ role' \in [Users -> People!Roles \cup {Nothing}] /\ role'[u] = "ADMIN"
        /\ People!Exists(u)' /\ SomebodyExists' /\ \A v \in Users : People!Exists(v) => People!Exists(v)'
    BY <2>4, RoleSet
  <2>6. PeopleTypeOK'
    BY <2>1, <2>3, <2>5 DEF PeopleTypeOK
  <2>7. SetupInv'
    BY <2>1, <2>3, <2>5 DEF SetupInv, People!SetupIsOnce, PeopleTypeOK
  <2>8. People!Administers(u)'
    BY <2>5 DEF People!Administers
  <2>9. AdminInv'
    BY <2>3, <2>8 DEF AdminInv
  <2> QED BY <2>2, <2>6, <2>7, <2>9
<1> QED BY <1>1, <1>2, <1>3

\* A request's session is read, found and stored.  Whoever owns one exists.
LEMMA RequestsKeepPeople ==
    ASSUME PeopleInv, People!Dates,
           \/ \E s \in People!Sessions : People!Asks(s) \/ People!ReadsSession(s) \/ People!FindsNoSession(s)
           \/ People!Clears \/ \E c \in reading : People!StoresContext(c)
    PROVE  PeopleInv'
<1> USE PeopleConstants DEF PeopleInv
<1>1. /\ UNCHANGED People!accountVars /\ UNCHANGED People!sessionVars /\ UNCHANGED clock
      /\ clock \in Nat /\ clears' \in Nat
  <2>0. clock \in Nat /\ clears \in Nat
    BY DEF PeopleTypeOK
  <2>1. CASE \E s \in People!Sessions : People!Asks(s) \/ People!ReadsSession(s) \/ People!FindsNoSession(s)
    BY <2>0, <2>1 DEF People!Asks, People!ReadsSession, People!FindsNoSession
  <2>2. CASE People!Clears
    BY <2>0, <2>2 DEF People!Clears
  <2>3. CASE \E c \in reading : People!StoresContext(c)
    BY <2>0, <2>3 DEF People!StoresContext
  <2> QED BY <2>1, <2>2, <2>3
<1>2. good' \in [People!Sessions -> Int]
  BY <1>1, DatesAre DEF SessionsTypeOK
<1>3. /\ asking' \subseteq People!Sessions /\ reading' \subseteq Contexts
      /\ cache' \in [People!Sessions -> Stored \cup {Nothing}]
      /\ acting' \subseteq People!Sessions \X People!Roles /\ overtaken' \subseteq People!Sessions
      /\ reading' # {} \/ acting' # {} => SomebodyExists
  <2>1. CASE \E s \in People!Sessions : People!Asks(s)
    BY <2>1 DEF People!Asks, SessionsTypeOK, SetupInv
  <2>2. CASE \E s \in People!Sessions : People!ReadsSession(s)
    <3>1. PICK s \in People!Sessions : People!ReadsSession(s)
      BY <2>2
    <3>2. owner[s] \in active /\ owner[s] \in Users /\ People!Exists(owner[s])
      BY <3>1 DEF People!ReadsSession, People!RowIsGood, PeopleTypeOK
    <3>3. role[owner[s]] \in People!Roles /\ SomebodyExists
      BY <3>2 DEF PeopleTypeOK, People!Exists, SomebodyExists
    <3>4. [session |-> s, role |-> role[owner[s]], read |-> clock] \in Contexts
      BY <1>1, <3>3 DEF Contexts
    <3> QED BY <3>1, <3>3, <3>4 DEF People!ReadsSession, SessionsTypeOK
  <2>3. CASE \E s \in People!Sessions : People!FindsNoSession(s)
    BY <2>3 DEF People!FindsNoSession, SessionsTypeOK, SetupInv
  <2>4. CASE People!Clears
    BY <2>4 DEF People!Clears, SessionsTypeOK, SetupInv
  <2>5. CASE \E c \in reading : People!StoresContext(c)
    <3>1. PICK c \in reading : People!StoresContext(c)
      BY <2>5
    <3>2. c \in Contexts /\ SomebodyExists
      BY DEF SessionsTypeOK, SetupInv
    <3>3. c.session \in People!Sessions /\ c.role \in People!Roles
          /\ [role |-> c.role, read |-> c.read, at |-> clock] \in Stored
      BY <1>1, <3>2 DEF Contexts, Stored
    <3> QED BY <3>1, <3>2, <3>3 DEF People!StoresContext, SessionsTypeOK
  <2> QED BY <2>1, <2>2, <2>3, <2>4, <2>5
<1>4. SessionsTypeOK'
  BY <1>1, <1>2, <1>3 DEF SessionsTypeOK, People!sessionVars
<1>5. opened' = opened
  BY <1>1 DEF People!sessionVars
<1>6. PeopleTypeOK' /\ SetupInv' /\ AdminInv'
  BY <1>1, <1>3, <1>5, AccountsSame DEF PeopleTypeOK
<1> QED BY <1>4, <1>6

\* What revoking does to the sessions.
LEMMA RevokesKeeps ==
    ASSUME PeopleTypeOK, SessionsTypeOK, NEW target, target \subseteq People!Sessions,
           People!Revokes(target), UNCHANGED clock, People!Dates
    PROVE  SessionsTypeOK' /\ clears' \in Nat /\ UNCHANGED <<opened, reading, acting>>
<1>1. good' \in [People!Sessions -> Int]
  BY DatesAre DEF SessionsTypeOK, PeopleTypeOK
<1>2. revoked' \in [People!Sessions -> BOOLEAN]
  BY DEF People!Revokes
<1>3. overtaken' \subseteq People!Sessions
  BY DEF People!Revokes, SessionsTypeOK
<1> QED BY <1>1, <1>2, <1>3 DEF People!Revokes, SessionsTypeOK, PeopleTypeOK

LEMMA RevocationsKeepPeople ==
    ASSUME PeopleInv, People!Dates, NEW s \in People!Sessions,
           \/ People!ChangesPassword(s) \/ People!UpdatesProfile(s)
           \/ \E target \in People!Sessions : People!RevokesSession(s, target)
    PROVE  PeopleInv'
<1> USE DEF PeopleInv
<1>1. /\ UNCHANGED People!accountVars /\ UNCHANGED clock /\ clock \in Nat
      /\ \E target \in SUBSET People!Sessions : People!Revokes(target)
  BY DEF People!ChangesPassword, People!UpdatesProfile, People!RevokesSession, People!OwnedBy, PeopleTypeOK
<1>2. SessionsTypeOK' /\ clears' \in Nat /\ UNCHANGED <<opened, reading, acting>>
  BY <1>1, RevokesKeeps
<1>3. PeopleTypeOK' /\ SetupInv' /\ AdminInv'
  BY <1>1, <1>2, AccountsSame DEF PeopleTypeOK, SetupInv
<1> QED BY <1>2, <1>3

LEMMA SigningOutKeepsPeople ==
    ASSUME PeopleInv, People!Dates, NEW s \in People!Sessions, People!SignsOut(s) \/ People!IsSignedOut(s)
    PROVE  PeopleInv'
<1> USE DEF PeopleInv
<1>1. /\ UNCHANGED People!accountVars /\ UNCHANGED clock /\ clock \in Nat
      /\ UNCHANGED <<opened, owner, expires, asking, reading, clears, acting>>
  BY DEF People!SignsOut, People!IsSignedOut, PeopleTypeOK
<1>2. good' \in [People!Sessions -> Int]
  BY <1>1, DatesAre DEF SessionsTypeOK
<1>3. /\ leaving' \subseteq People!Sessions /\ overtaken' \subseteq People!Sessions
      /\ revoked' \in [People!Sessions -> BOOLEAN] /\ cache' \in [People!Sessions -> Stored \cup {Nothing}]
  <2>1. CASE People!SignsOut(s)
    BY <2>1 DEF People!SignsOut, SessionsTypeOK
  <2>2. CASE People!IsSignedOut(s)
    BY <2>2 DEF People!IsSignedOut, SessionsTypeOK
  <2> QED BY <2>1, <2>2
<1>4. SessionsTypeOK'
  BY <1>1, <1>2, <1>3 DEF SessionsTypeOK
<1>5. PeopleTypeOK' /\ SetupInv' /\ AdminInv'
  BY <1>1, AccountsSame DEF PeopleTypeOK, SetupInv
<1> QED BY <1>4, <1>5

\* An administrator who is not the account in question remains one.
LEMMA CreatingKeepsPeople ==
    ASSUME PeopleInv, People!Dates, NEW s \in People!Sessions, NEW u \in Users, People!CreatesUser(s, u)
    PROVE  PeopleInv'
<1> USE DEF PeopleInv
<1>1. /\ UNCHANGED <<setup, founded, pending, overlapped>> /\ UNCHANGED clock
      /\ UNCHANGED People!sessionVars /\ UNCHANGED People!cacheVars /\ UNCHANGED <<clears, opened, reading, acting>>
      /\ active' = active \cup {u} /\ ~People!Exists(u) /\ acting # {}
  BY DEF People!CreatesUser, People!sessionVars, People!cacheVars, People!ActsAsAdmin
<1>2. PICK r \in People!Roles : role' = [role EXCEPT ![u] = r]
  BY DEF People!CreatesUser
<1>3. /\ role' \in [Users -> People!Roles \cup {Nothing}]
      /\ \A v \in Users \ {u} : role'[v] = role[v]
      /\ People!Exists(u)' /\ SomebodyExists' /\ \A v \in Users : People!Exists(v) => People!Exists(v)'
  BY <1>2, RoleSet
<1>4. SessionsTypeOK'
  BY <1>1, SessionsSame DEF PeopleTypeOK
<1>5. PeopleTypeOK'
  BY <1>1, <1>3 DEF PeopleTypeOK, People!Changes
<1>6. SetupInv'
  BY <1>1, <1>3 DEF SetupInv, People!SetupIsOnce
<1>7. \A v \in Users : People!Administers(v) => People!Administers(v)' /\ v # u
  BY <1>1, <1>3 DEF People!Administers, PeopleTypeOK
<1>8. AdminInv'
  <2>1. ASSUME ~overlapped' PROVE \A p, q \in pending' : p = q
    BY <2>1, <1>1 DEF AdminInv
  <2>2. ASSUME ~overlapped' PROVE \E v \in Users : People!Administers(v)'
    BY <2>2, <1>1, <1>7 DEF AdminInv, SetupInv
  <2>3. ASSUME ~overlapped', NEW new \in pending' PROVE People!LeavesAnAdmin(new)'
    <3>1. new \in pending /\ new \in People!Changes /\ People!LeavesAnAdmin(new) /\ People!Exists(new.user)
      BY <2>3, <1>1 DEF AdminInv, PeopleTypeOK
    <3>2. new.user \in Users /\ new.user # u
      BY <3>1, <1>1 DEF People!Changes
    <3>3. People!Administers(new.user)' => People!Administers(new.user)
      BY <3>2, <1>1, <1>3 DEF People!Administers
    <3> QED BY <3>1, <3>3, <1>7 DEF People!LeavesAnAdmin, People!RemovesAdmin
  <2> QED BY <2>1, <2>2, <2>3 DEF AdminInv
<1> QED BY <1>4, <1>5, <1>6, <1>8

\* A change is allowed when it leaves another administrator, and when no other
\* change is under way it still does so when it is written.
LEMMA CheckingKeepsPeople ==
    ASSUME PeopleInv, People!Dates, NEW s \in People!Sessions, NEW new \in People!Changes,
           People!ChecksChange(s, new)
    PROVE  PeopleInv'
<1> USE DEF PeopleInv
<1>1. /\ UNCHANGED <<role, active, setup, founded>> /\ UNCHANGED clock
      /\ UNCHANGED People!sessionVars /\ UNCHANGED People!cacheVars /\ UNCHANGED <<clears, opened, reading, acting>>
      /\ pending' = pending \cup {new} /\ overlapped' = (overlapped \/ pending # {})
      /\ People!Exists(new.user) /\ People!LeavesAnAdmin(new)
  BY DEF People!ChecksChange, People!sessionVars, People!cacheVars
<1>2. SessionsTypeOK'
  BY <1>1, SessionsSame DEF PeopleTypeOK
<1>3. PeopleTypeOK'
  BY <1>1 DEF PeopleTypeOK, People!Exists
<1>4. SomebodyExists' = SomebodyExists
  BY <1>1 DEF SomebodyExists, People!Exists
<1>5. SetupInv'
  BY <1>1, <1>4 DEF SetupInv, People!SetupIsOnce
<1>6. ASSUME ~overlapped' PROVE pending = {} /\ ~overlapped
  BY <1>1, <1>6
<1>7. AdminInv'
  BY <1>1, <1>4, <1>6 DEF AdminInv, People!LeavesAnAdmin, People!RemovesAdmin, People!Administers
<1> QED BY <1>2, <1>3, <1>5, <1>7

LEMMA WritingKeepsPeople ==
    ASSUME PeopleInv, People!Dates, NEW new \in pending, People!WritesChange(new)
    PROVE  PeopleInv'
<1> USE PeopleConstants DEF PeopleInv
<1>1. /\ UNCHANGED <<setup, founded, overlapped>> /\ UNCHANGED clock
      /\ pending' = pending \ {new}
      /\ role' = IF new.role = "same" THEN role ELSE [role EXCEPT ![new.user] = new.role]
  BY DEF People!WritesChange
<1>2. /\ new \in People!Changes /\ new.user \in Users /\ People!Exists(new.user)
      /\ new.role \in People!Roles \cup {"same"} /\ new.power \in {"on", "off", "same"}
  BY DEF PeopleTypeOK, People!Changes
<1>3. /\ \A v \in Users \ {new.user} : v \in active' <=> v \in active
      /\ new.power # "off" => active \subseteq active'
      /\ active' \subseteq active \cup {new.user}
  <2>1. CASE new.power = "on"
    BY <2>1 DEF People!WritesChange
  <2>2. CASE new.power = "off"
    BY <2>2 DEF People!WritesChange
  <2>3. CASE new.power = "same"
    BY <2>3 DEF People!WritesChange
  <2> QED BY <1>2, <2>1, <2>2, <2>3
<1>4. \E target \in SUBSET People!Sessions : People!Revokes(target)
  BY DEF People!WritesChange, People!OwnedBy
<1>5. SessionsTypeOK' /\ clears' \in Nat /\ UNCHANGED <<opened, reading, acting>>
  BY <1>1, <1>4, RevokesKeeps
<1>6. /\ role' \in [Users -> People!Roles \cup {Nothing}]
      /\ \A v \in Users \ {new.user} : role'[v] = role[v]
      /\ role'[new.user] = IF new.role = "same" THEN role[new.user] ELSE new.role
      /\ \A v \in Users : People!Exists(v) => People!Exists(v)'
  <2>1. CASE new.role = "same"
    BY <1>1, <2>1 DEF PeopleTypeOK, People!Exists
  <2>2. CASE new.role # "same"
    <3>1. new.role \in People!Roles /\ role' = [role EXCEPT ![new.user] = new.role]
      BY <1>1, <1>2, <2>2
    <3>2. /\ role' \in [Users -> People!Roles \cup {Nothing}]
          /\ role'[new.user] = new.role /\ \A v \in Users \ {new.user} : role'[v] = role[v]
          /\ \A v \in Users : People!Exists(v) => People!Exists(v)'
      BY <1>2, <3>1, RoleSet
    <3> QED BY <2>2, <3>2
  <2> QED BY <2>1, <2>2
<1>7. SomebodyExists /\ SomebodyExists'
  BY <1>2, <1>6 DEF SomebodyExists
<1>8. PeopleTypeOK'
  <2>1. active' \subseteq Users /\ \A u \in active' : People!Exists(u)'
    BY <1>2, <1>3, <1>6 DEF PeopleTypeOK
  <2>2. setup' \in [Browsers -> {"idle", "waiting", "alone", "made"}]
    BY <1>1 DEF PeopleTypeOK
  <2>3. founded' \subseteq Users /\ \A u \in founded' : People!Exists(u)'
    BY <1>1, <1>6 DEF PeopleTypeOK
  <2>4. pending' \subseteq People!Changes
    BY <1>1 DEF PeopleTypeOK, People!Changes
  <2>5. \A c \in pending' : People!Exists(c.user)'
    <3> SUFFICES ASSUME NEW c \in pending' PROVE People!Exists(c.user)'
      OBVIOUS
    <3>1. c \in People!Changes /\ People!Exists(c.user)
      BY <1>1 DEF PeopleTypeOK
    <3>2. c.user \in Users
      BY <3>1 DEF People!Changes
    <3> QED BY <3>1, <3>2, <1>6
  <2>6. clock' \in Nat /\ opened' \in 0 .. MaxSessions /\ overlapped' \in BOOLEAN
    BY <1>1, <1>5 DEF PeopleTypeOK
  <2> QED BY <1>5, <1>6, <2>1, <2>2, <2>3, <2>4, <2>5, <2>6 DEF PeopleTypeOK
<1>9. SetupInv'
  BY <1>1, <1>5, <1>7 DEF SetupInv, People!SetupIsOnce
<1>10. ASSUME ~overlapped' PROVE pending' = {} /\ \E u \in Users : People!Administers(u)'
  <2>1. ~overlapped /\ People!LeavesAnAdmin(new) /\ \E u \in Users : People!Administers(u)
    BY <1>1, <1>7, <1>10 DEF AdminInv
  <2>2. pending' = {}
    BY <1>1, <2>1 DEF AdminInv
  <2>3. \A v \in Users \ {new.user} : People!Administers(v) => People!Administers(v)'
    BY <1>3, <1>6 DEF People!Administers
  <2>4. CASE People!RemovesAdmin(new)
    BY <2>1, <2>2, <2>3, <2>4 DEF People!LeavesAnAdmin
  <2>5. CASE ~People!RemovesAdmin(new)
    <3>1. PICK u \in Users : People!Administers(u)
      BY <2>1
    <3>2. CASE u # new.user
      BY <2>2, <2>3, <3>1, <3>2
    <3>3. CASE u = new.user
      <4>1. new.role # "OPERATOR" /\ new.power # "off"
        BY <2>5, <3>1, <3>3 DEF People!RemovesAdmin
      <4>2. role'[u] = "ADMIN"
        BY <1>2, <1>6, <3>1, <3>3, <4>1 DEF People!Administers, People!Roles
      <4>3. u \in active'
        BY <1>3, <3>1, <4>1 DEF People!Administers
      <4> QED BY <2>2, <4>2, <4>3 DEF People!Administers
    <3> QED BY <3>2, <3>3
  <2> QED BY <2>4, <2>5
<1>11. AdminInv'
  BY <1>10 DEF AdminInv
<1> QED BY <1>5, <1>8, <1>9, <1>11

LEMMA RestartKeepsPeople ==
    ASSUME PeopleInv, People!Dates, People!Restarts
    PROVE  PeopleInv'
<1> USE DEF PeopleInv, People!Restarts
<1>1. /\ UNCHANGED <<role, active, founded, overlapped>> /\ UNCHANGED clock
      /\ UNCHANGED <<opened, owner, expires, revoked, overtaken>>
      /\ leaving' = {} /\ asking' = {} /\ reading' = {} /\ acting' = {} /\ pending' = {}
      /\ clears' = 0 /\ cache' = [s \in People!Sessions |-> Nothing]
      /\ setup' = [b \in Browsers |-> "idle"]
  OBVIOUS
<1> HIDE DEF People!Restarts
<1>2. good' \in [People!Sessions -> Int]
  BY <1>1, DatesAre DEF SessionsTypeOK, PeopleTypeOK
<1>3. SessionsTypeOK'
  BY <1>1, <1>2 DEF SessionsTypeOK
<1>4. SomebodyExists' = SomebodyExists /\ \A u \in Users : People!Exists(u)' = People!Exists(u)
  BY <1>1 DEF SomebodyExists, People!Exists
<1>5. setup' \in [Browsers -> {"idle", "waiting", "alone", "made"}]
  BY <1>1
<1>6. clears' \in Nat /\ clock' \in Nat /\ opened' \in 0 .. MaxSessions
  BY <1>1 DEF PeopleTypeOK
<1>7. PeopleTypeOK'
  BY <1>1, <1>4, <1>5, <1>6 DEF PeopleTypeOK
<1>8. SetupInv'
  BY <1>1, <1>4 DEF SetupInv, People!SetupIsOnce
<1>9. AdminInv'
  BY <1>1, <1>4 DEF AdminInv, People!Administers
<1> QED BY <1>3, <1>7, <1>8, <1>9

LEMMA PeopleSame == PeopleInv /\ UNCHANGED People!vars => PeopleInv'
<1> SUFFICES ASSUME PeopleInv, UNCHANGED People!vars PROVE PeopleInv'
  OBVIOUS
<1>1. /\ UNCHANGED People!accountVars /\ UNCHANGED People!sessionVars /\ UNCHANGED People!cacheVars
      /\ UNCHANGED <<clock, good>>
  BY DEF People!vars
<1>2. UNCHANGED <<clears, opened, reading, acting>>
  BY <1>1 DEF People!sessionVars, People!cacheVars
<1>3. PeopleTypeOK' /\ SetupInv' /\ AdminInv'
  BY <1>1, <1>2, AccountsSame DEF PeopleInv, PeopleTypeOK, SetupInv
<1>4. SessionsTypeOK'
  BY <1>1 DEF PeopleInv, SessionsTypeOK, People!sessionVars, People!cacheVars
<1> QED BY <1>3, <1>4 DEF PeopleInv

LEMMA PeopleKeep == PeopleInv /\ [People!Next]_(People!vars) => PeopleInv'
<1> SUFFICES ASSUME PeopleInv, People!Moves, People!Dates PROVE PeopleInv'
  BY PeopleSame DEF People!Next
<1>1. CASE People!Tick
  BY <1>1, SignInsKeepPeople
<1>2. CASE People!Clears
  BY <1>2, RequestsKeepPeople
<1>3. CASE People!Restarts
  BY <1>3, RestartKeepsPeople
<1>4. ASSUME NEW b \in Browsers,
             \/ People!SetupBegins(b) \/ People!SetupChecks(b) \/ People!SetupSignsIn(b)
             \/ \E u \in Users : People!SetupCreates(b, u)
      PROVE  PeopleInv'
  BY <1>4, SetupKeepsPeople
<1>5. ASSUME NEW u \in Users,
             \/ People!TriesToSignIn(u) \/ People!PasswordMatches(u) \/ People!AccountIsDisabled(u)
             \/ People!PasswordIsWrong(u) \/ People!IsVerified(u) \/ People!SignsIn(u)
      PROVE  PeopleInv'
  BY <1>5, SignInsKeepPeople, SignsInKeepsPeople
<1>6. ASSUME NEW s \in People!Sessions,
             \/ People!Asks(s) \/ People!ReadsSession(s) \/ People!FindsNoSession(s)
             \/ People!ChangesPassword(s) \/ People!UpdatesProfile(s)
             \/ People!SignsOut(s) \/ People!IsSignedOut(s)
             \/ \E target \in People!Sessions : People!RevokesSession(s, target)
             \/ \E u \in Users : People!CreatesUser(s, u)
             \/ \E new \in People!Changes : People!ChecksChange(s, new)
      PROVE  PeopleInv'
  BY <1>6, RequestsKeepPeople, RevocationsKeepPeople, SigningOutKeepsPeople,
     CreatingKeepsPeople, CheckingKeepsPeople
<1>7. ASSUME NEW c \in reading, People!StoresContext(c) PROVE PeopleInv'
  BY <1>7, RequestsKeepPeople
<1>8. ASSUME NEW new \in pending, People!WritesChange(new) PROVE PeopleInv'
  BY <1>8, WritingKeepsPeople
<1> QED BY <1>1, <1>2, <1>3, <1>4, <1>5, <1>6, <1>7, <1>8 DEF People!Moves

(***************************************************************************)
(* What the backend remembers of sessions.  What a request has read of one *)
(* and what is in the cache were good when they were read, because the     *)
(* date of a session's last validity only grows; and a revoked session is  *)
(* in the cache only while a clear is still to come.                       *)
(***************************************************************************)
TrustInv ==
    /\ \A s \in People!Sessions : good[s] <= clock
    /\ \A c \in reading : good[c.session] >= c.read
    /\ \A s \in People!Sessions : cache[s] # Nothing => good[s] >= cache[s].read

ForgottenInv ==
    \A s \in People!Sessions :
        revoked[s] /\ s \notin overtaken => ~People!Read(s) /\ (clears = 0 => cache[s] = Nothing)

MemoryInv == TrustInv /\ ForgottenInv

LEMMA DatesGrow ==
    ASSUME PeopleInv, TrustInv, People!Dates, clock' \in Nat, clock' >= clock
    PROVE  \A s \in People!Sessions : good'[s] >= good[s] /\ good'[s] <= clock'
<1>1. \A s \in People!Sessions : good[s] \in Int /\ good[s] <= clock /\ clock \in Nat
  BY DEF PeopleInv, PeopleTypeOK, SessionsTypeOK, TrustInv
<1>2. \A s \in People!Sessions : good'[s] = good[s] \/ good'[s] = clock'
  BY DatesAre DEF PeopleInv, SessionsTypeOK
<1> QED BY <1>1, <1>2

\* What is stored was read, and what is read now is good now.
LEMMA TrustMoves ==
    ASSUME PeopleInv, PeopleInv', TrustInv, People!Dates, clock' \in Nat, clock' >= clock,
           \A c \in reading' : c \in reading \/ good'[c.session] >= c.read,
           \A s \in People!Sessions :
              \/ cache'[s] = cache[s] \/ cache'[s] = Nothing
              \/ \E c \in reading : c.session = s /\ cache'[s].read = c.read
    PROVE  TrustInv'
<1>1. \A s \in People!Sessions : good'[s] >= good[s] /\ good'[s] <= clock'
  BY DatesGrow
<1>2. \A s \in People!Sessions : good[s] \in Int /\ good'[s] \in Int
  BY DEF PeopleInv, SessionsTypeOK
<1>3. \A c \in reading : c.session \in People!Sessions /\ c.read \in Nat /\ good[c.session] >= c.read
  BY DEF PeopleInv, SessionsTypeOK, Contexts, TrustInv
<1>4. \A c \in reading' : good'[c.session] >= c.read
  BY <1>1, <1>2, <1>3
<1>5. ASSUME NEW s \in People!Sessions, cache'[s] # Nothing PROVE good'[s] >= cache'[s].read
  <2>1. cache[s] # Nothing => cache[s].read \in Nat /\ good[s] >= cache[s].read
    BY DEF PeopleInv, SessionsTypeOK, Stored, TrustInv
  <2> QED BY <1>1, <1>2, <1>3, <1>5, <2>1
<1> QED BY <1>1, <1>4, <1>5 DEF TrustInv

LEMMA MemorySame ==
    ASSUME PeopleInv, PeopleInv', MemoryInv, People!Dates, clock' \in Nat, clock' >= clock,
           UNCHANGED People!cacheVars, UNCHANGED revoked
    PROVE  MemoryInv'
<1>1. UNCHANGED <<reading, cache, clears, overtaken>>
  BY DEF People!cacheVars
<1>2. TrustInv'
  BY <1>1, TrustMoves DEF MemoryInv
<1>3. ForgottenInv'
  BY <1>1 DEF MemoryInv, ForgottenInv, People!Read
<1> QED BY <1>2, <1>3 DEF MemoryInv

LEMMA MostKeepMemory ==
    ASSUME PeopleInv, PeopleInv', MemoryInv, People!Dates,
           \/ People!Tick
           \/ \E b \in Browsers : \/ People!SetupBegins(b) \/ People!SetupChecks(b) \/ People!SetupSignsIn(b)
                                  \/ \E u \in Users : People!SetupCreates(b, u)
           \/ \E u \in Users : \/ People!TriesToSignIn(u) \/ People!PasswordMatches(u)
                               \/ People!AccountIsDisabled(u) \/ People!PasswordIsWrong(u)
                               \/ People!IsVerified(u) \/ People!SignsIn(u)
           \/ \E s \in People!Sessions : \/ \E u \in Users : People!CreatesUser(s, u)
                                    \/ \E new \in People!Changes : People!ChecksChange(s, new)
    PROVE  MemoryInv'
<1>0. clock \in Nat
  BY DEF PeopleInv, PeopleTypeOK
<1>1. CASE People!Tick
  BY <1>0, <1>1, MemorySame DEF People!Tick, People!sessionVars
<1>2. CASE \E b \in Browsers : \/ People!SetupBegins(b) \/ People!SetupChecks(b)
                               \/ \E u \in Users : People!SetupCreates(b, u)
  <2>1. UNCHANGED <<clock, revoked>> /\ UNCHANGED People!cacheVars
    BY <1>2 DEF People!SetupBegins, People!SetupChecks, People!SetupCreates, People!sessionVars
  <2> QED BY <1>0, <2>1, MemorySame
<1>3. CASE \/ \E b \in Browsers : People!SetupSignsIn(b)
           \/ \E u \in Users : People!SignsIn(u)
  <2>1. UNCHANGED <<clock, revoked>> /\ UNCHANGED People!cacheVars
    BY <1>3 DEF People!SetupSignsIn, People!SignsIn, People!Opens
  <2> QED BY <1>0, <2>1, MemorySame
<1>4. CASE \E u \in Users : \/ People!TriesToSignIn(u) \/ People!PasswordMatches(u)
                            \/ People!AccountIsDisabled(u) \/ People!PasswordIsWrong(u)
                            \/ People!IsVerified(u)
  <2>1. UNCHANGED <<clock, revoked>> /\ UNCHANGED People!cacheVars
    BY <1>4 DEF People!TriesToSignIn, People!PasswordMatches, People!AccountIsDisabled, People!PasswordIsWrong,
       People!IsVerified, People!sessionVars
  <2> QED BY <1>0, <2>1, MemorySame
<1>5. CASE \E s \in People!Sessions : \/ \E u \in Users : People!CreatesUser(s, u)
                                 \/ \E new \in People!Changes : People!ChecksChange(s, new)
  <2>1. UNCHANGED <<clock, revoked>> /\ UNCHANGED People!cacheVars
    BY <1>5 DEF People!CreatesUser, People!ChecksChange, People!sessionVars
  <2> QED BY <1>0, <2>1, MemorySame
<1> QED BY <1>1, <1>2, <1>3, <1>4, <1>5

\* Reading a session, storing what was read, and clearing the cache.
LEMMA RequestsKeepMemory ==
    ASSUME PeopleInv, PeopleInv', MemoryInv, People!Dates,
           \/ \E s \in People!Sessions : People!Asks(s) \/ People!ReadsSession(s) \/ People!FindsNoSession(s)
           \/ People!Clears \/ \E c \in reading : People!StoresContext(c)
    PROVE  MemoryInv'
<1> USE DEF MemoryInv
<1>0. clock \in Nat /\ reading \subseteq Contexts /\ cache \in [People!Sessions -> Stored \cup {Nothing}]
  BY DEF PeopleInv, PeopleTypeOK, SessionsTypeOK
<1>1. CASE \E s \in People!Sessions : People!Asks(s)
  <2>1. UNCHANGED <<clock, revoked, reading, cache, clears, overtaken>>
    BY <1>1 DEF People!Asks, People!sessionVars
  <2>2. TrustInv'
    BY <1>0, <2>1, TrustMoves
  <2> QED BY <2>1, <2>2 DEF ForgottenInv, People!Read
<1>2. ASSUME NEW s \in People!Sessions, People!ReadsSession(s) PROVE MemoryInv'
  <2>1. /\ UNCHANGED <<clock, active, opened, expires, owner, revoked, cache, clears, overtaken>>
        /\ People!RowIsGood(s)
        /\ reading' = reading \cup {[session |-> s, role |-> role[owner[s]], read |-> clock]}
    BY <1>2 DEF People!ReadsSession, People!sessionVars, People!accountVars
  <2>2. good'[s] = clock'
    BY <2>1 DEF People!RowIsGood, People!Good, People!Dates
  <2>3. \A c \in reading' : c \in reading \/ good'[c.session] >= c.read
    BY <1>0, <2>1, <2>2
  <2>4. TrustInv'
    BY <1>0, <2>1, <2>3, TrustMoves
  <2>5. \A r \in People!Sessions : People!Read(r)' => People!Read(r) \/ r = s
    BY <2>1 DEF People!Read
  <2>6. ~revoked[s]
    BY <2>1 DEF People!RowIsGood
  <2> QED BY <2>1, <2>4, <2>5, <2>6 DEF ForgottenInv
<1>3. CASE \/ \E s \in People!Sessions : People!FindsNoSession(s)
           \/ People!Clears
  <2>1. /\ UNCHANGED <<clock, revoked, reading, overtaken>>
        /\ \A s \in People!Sessions : cache'[s] = cache[s] \/ cache'[s] = Nothing
        /\ clears' = clears \/ \A s \in People!Sessions : cache'[s] = Nothing
    <3>1. CASE \E s \in People!Sessions : People!FindsNoSession(s)
      BY <1>0, <3>1 DEF People!FindsNoSession, People!sessionVars
    <3>2. CASE People!Clears
      BY <3>2 DEF People!Clears, People!sessionVars
    <3> QED BY <1>3, <3>1, <3>2
  <2>2. TrustInv'
    BY <1>0, <2>1, TrustMoves
  <2> QED BY <2>1, <2>2 DEF ForgottenInv, People!Read
<1>4. ASSUME NEW c \in reading, People!StoresContext(c) PROVE MemoryInv'
  <2>1. /\ UNCHANGED <<clock, revoked, clears, overtaken>> /\ reading' \subseteq reading
        /\ cache' = [cache EXCEPT ![c.session] = [role |-> c.role, read |-> c.read, at |-> clock]]
    BY <1>4 DEF People!StoresContext, People!sessionVars
  <2>2. c.session \in People!Sessions
    BY <1>0 DEF Contexts
  <2>3. /\ cache'[c.session].read = c.read
        /\ \A s \in People!Sessions \ {c.session} : cache'[s] = cache[s]
    BY <1>0, <2>1, <2>2
  <2>4. TrustInv'
    BY <1>0, <2>1, <2>3, TrustMoves
  <2>5. People!Read(c.session) /\ \A s \in People!Sessions : People!Read(s)' => People!Read(s)
    BY <2>1 DEF People!Read
  <2> QED BY <2>1, <2>3, <2>4, <2>5 DEF ForgottenInv
<1> QED BY <1>1, <1>2, <1>3, <1>4

\* The sessions that are revoked and not noted as read had not been read.
LEMMA RevokingKeepsMemory ==
    ASSUME PeopleInv, PeopleInv', MemoryInv, People!Dates, UNCHANGED clock,
           NEW target, People!Revokes(target)
    PROVE  MemoryInv'
<1> USE DEF MemoryInv
<1>1. clock \in Nat /\ clears \in Nat
  BY DEF PeopleInv, PeopleTypeOK
<1>2. /\ UNCHANGED <<reading, cache>> /\ clears' = clears + 1
      /\ overtaken' = overtaken \cup {s \in target : People!Read(s)}
      /\ \A s \in People!Sessions : revoked'[s] => revoked[s] \/ s \in target
  BY DEF People!Revokes
<1>3. TrustInv'
  BY <1>1, <1>2, TrustMoves
<1>4. \A s \in People!Sessions : People!Read(s)' = People!Read(s)
  BY <1>2 DEF People!Read
<1>5. clears' # 0
  BY <1>1, <1>2
<1>6. ForgottenInv'
  BY <1>2, <1>4, <1>5 DEF ForgottenInv
<1> QED BY <1>3, <1>6

LEMMA EndingsKeepMemory ==
    ASSUME PeopleInv, PeopleInv', MemoryInv, People!Dates,
           \/ \E s \in People!Sessions : People!SignsOut(s) \/ People!IsSignedOut(s)
           \/ People!Restarts
    PROVE  MemoryInv'
<1> USE DEF MemoryInv
<1>0. /\ clock \in Nat /\ cache \in [People!Sessions -> Stored \cup {Nothing}]
      /\ revoked \in [People!Sessions -> BOOLEAN]
  BY DEF PeopleInv, PeopleTypeOK, SessionsTypeOK
<1>1. CASE \E s \in People!Sessions : People!SignsOut(s)
  <2>1. /\ UNCHANGED <<clock, revoked, reading, clears, overtaken>>
        /\ \A s \in People!Sessions : cache'[s] = cache[s] \/ cache'[s] = Nothing
    BY <1>0, <1>1 DEF People!SignsOut
  <2>2. TrustInv'
    BY <1>0, <2>1, TrustMoves
  <2> QED BY <2>1, <2>2 DEF ForgottenInv, People!Read
<1>2. ASSUME NEW s \in People!Sessions, People!IsSignedOut(s) PROVE MemoryInv'
  <2>1. /\ UNCHANGED <<clock, reading, cache, clears>>
        /\ \A r \in People!Sessions \ {s} : revoked'[r] = revoked[r]
        /\ overtaken \subseteq overtaken'
        /\ People!Read(s) \/ cache[s] # Nothing => s \in overtaken'
    BY <1>0, <1>2 DEF People!IsSignedOut
  <2>2. TrustInv'
    BY <1>0, <2>1, TrustMoves
  <2>3. \A r \in People!Sessions : People!Read(r)' = People!Read(r)
    BY <2>1 DEF People!Read
  <2> QED BY <2>1, <2>2, <2>3 DEF ForgottenInv
<1>3. CASE People!Restarts
  <2>1. /\ UNCHANGED clock /\ reading' = {}
        /\ \A s \in People!Sessions : cache'[s] = Nothing
    BY <1>3 DEF People!Restarts
  <2>2. TrustInv'
    BY <1>0, <2>1, TrustMoves
  <2> QED BY <2>1, <2>2 DEF ForgottenInv, People!Read
<1> QED BY <1>1, <1>2, <1>3

LEMMA MemoryKeeps ==
    ASSUME PeopleInv, PeopleInv', MemoryInv, [People!Next]_(People!vars)
    PROVE  MemoryInv'
<1>0. CASE UNCHANGED People!vars
  <2>1. UNCHANGED <<good, clock, revoked, reading, cache, clears, overtaken>>
    BY <1>0 DEF People!vars, People!sessionVars, People!cacheVars
  <2> QED BY <2>1 DEF MemoryInv, TrustInv, ForgottenInv, People!Read
<1> SUFFICES ASSUME People!Moves, People!Dates PROVE MemoryInv'
  BY <1>0 DEF People!Next
<1>1. CASE People!Tick
  BY <1>1, MostKeepMemory
<1>2. CASE People!Clears
  BY <1>2, RequestsKeepMemory
<1>3. CASE People!Restarts
  BY <1>3, EndingsKeepMemory
<1>4. ASSUME NEW b \in Browsers,
             \/ People!SetupBegins(b) \/ People!SetupChecks(b) \/ People!SetupSignsIn(b)
             \/ \E u \in Users : People!SetupCreates(b, u)
      PROVE  MemoryInv'
  BY <1>4, MostKeepMemory
<1>5. ASSUME NEW u \in Users,
             \/ People!TriesToSignIn(u) \/ People!PasswordMatches(u) \/ People!AccountIsDisabled(u)
             \/ People!PasswordIsWrong(u) \/ People!IsVerified(u) \/ People!SignsIn(u)
      PROVE  MemoryInv'
  BY <1>5, MostKeepMemory
<1>6. ASSUME NEW s \in People!Sessions,
             \/ People!Asks(s) \/ People!ReadsSession(s) \/ People!FindsNoSession(s)
             \/ People!SignsOut(s) \/ People!IsSignedOut(s)
             \/ \E u \in Users : People!CreatesUser(s, u)
             \/ \E new \in People!Changes : People!ChecksChange(s, new)
      PROVE  MemoryInv'
  BY <1>6, RequestsKeepMemory, EndingsKeepMemory, MostKeepMemory
<1>7. ASSUME NEW s \in People!Sessions,
             \/ People!ChangesPassword(s) \/ People!UpdatesProfile(s)
             \/ \E target \in People!Sessions : People!RevokesSession(s, target)
      PROVE  MemoryInv'
  <2>1. UNCHANGED clock /\ \E target \in SUBSET People!Sessions : People!Revokes(target)
    BY <1>7 DEF People!ChangesPassword, People!UpdatesProfile, People!RevokesSession, People!OwnedBy
  <2> QED BY <2>1, RevokingKeepsMemory
<1>8. ASSUME NEW c \in reading, People!StoresContext(c) PROVE MemoryInv'
  BY <1>8, RequestsKeepMemory
<1>9. ASSUME NEW new \in pending, People!WritesChange(new) PROVE MemoryInv'
  <2>1. UNCHANGED clock /\ \E target \in SUBSET People!Sessions : People!Revokes(target)
    BY <1>9 DEF People!WritesChange, People!OwnedBy
  <2> QED BY <2>1, RevokingKeepsMemory
<1> QED BY <1>1, <1>2, <1>3, <1>4, <1>5, <1>6, <1>7, <1>8, <1>9 DEF People!Moves

(***************************************************************************)
(* Signing in.  A failure counts against the lockout for as long as it is  *)
(* among the latest MaxFailures; a sign-in that is under way was allowed   *)
(* when fewer than that were recent, so that with those under way fewer    *)
(* than MaxFailures + MaxTrying ever are.                                  *)
(***************************************************************************)
Smaller(m, n) == IF m <= n THEN m ELSE n

TryingTypeOK ==
    /\ clock \in Nat
    /\ trying \in [Users -> 0 .. MaxTrying] /\ matched \subseteq Users /\ proven \subseteq Users
    /\ \A u \in Users : ~(u \in matched /\ u \in proven)
    /\ \A u \in matched \cup proven : trying[u] > 0
    /\ failures \in [Users -> Seq(Nat)] /\ failed \in [Users -> Seq(Nat)]

\* Of one email: the failures kept, all of them, the sign-ins under way.
Limits(F, G, p, t) ==
    /\ Len(F) = Smaller(Len(G), MaxFailures)
    /\ \A i \in 1 .. Len(F) : F[i] = G[Len(G) - Len(F) + i]
    /\ \A i, j \in 1 .. Len(G) : i <= j => G[i] <= G[j] /\ G[j] <= t
    /\ \A i \in 1 .. Len(G) :
          Len(G) - i + 1 + p >= MaxFailures + MaxTrying => G[i] <= t - Lockout

LimitInv == \A u \in Users : Limits(failures[u], failed[u], trying[u], clock)

TryingInv == TryingTypeOK /\ LimitInv

\* None yet, or none any more.
LEMMA NoFailures ==
    ASSUME NEW p, NEW t
    PROVE  Limits(<<>>, <<>>, p, t)
BY PeopleConstants DEF Limits, Smaller

\* Time passes, and sign-ins end.
LEMMA LimitsLater ==
    ASSUME NEW F \in Seq(Nat), NEW G \in Seq(Nat), NEW p \in Nat, NEW q \in Nat, q <= p,
           NEW t \in Nat, NEW later \in Nat, t <= later, Limits(F, G, p, t)
    PROVE  Limits(F, G, q, later)
<1> USE PeopleConstants DEF Limits
<1>1. \A i \in 1 .. Len(G) : G[i] \in Nat
  OBVIOUS
<1>2. \A i, j \in 1 .. Len(G) : i <= j => G[i] <= G[j] /\ G[j] <= later
  BY <1>1
<1>3. ASSUME NEW i \in 1 .. Len(G), Len(G) - i + 1 + q >= MaxFailures + MaxTrying
      PROVE  G[i] <= later - Lockout
  <2>1. Len(G) - i + 1 + p >= MaxFailures + MaxTrying
    BY <1>3
  <2>2. G[i] <= t - Lockout
    BY <2>1
  <2> QED BY <1>1, <2>2
<1> QED BY <1>2, <1>3

\* A sign-in is let in.
LEMMA LimitsLetIn ==
    ASSUME NEW F \in Seq(Nat), NEW G \in Seq(Nat), NEW p \in Nat, p < MaxTrying,
           NEW t \in Nat, Limits(F, G, p, t),
           Len(F) < MaxFailures \/ F[1] <= t - Lockout
    PROVE  Limits(F, G, p + 1, t)
<1> USE PeopleConstants DEF Limits
<1>1. \A i \in 1 .. Len(G) : G[i] \in Nat
  OBVIOUS
<1>2. ASSUME NEW i \in 1 .. Len(G), Len(G) - i + 1 + (p + 1) >= MaxFailures + MaxTrying
      PROVE  G[i] <= t - Lockout
  <2>1. Len(G) - i + 1 >= MaxFailures /\ Len(F) = MaxFailures
    BY <1>2 DEF Smaller
  <2>2. F[1] = G[Len(G) - MaxFailures + 1] /\ F[1] <= t - Lockout
    BY <2>1
  <2>3. Len(G) - MaxFailures + 1 \in 1 .. Len(G) /\ i <= Len(G) - MaxFailures + 1
    BY <1>2, <2>1
  <2>4. G[i] <= G[Len(G) - MaxFailures + 1]
    BY <2>3
  <2>5. G[i] \in Nat /\ G[Len(G) - MaxFailures + 1] \in Nat
    BY <1>1, <2>3
  <2> DEFINE a == G[i]
             b == G[Len(G) - MaxFailures + 1]
             l == t - Lockout
  <2>6. a \in Nat /\ b \in Nat /\ l \in Int /\ a <= b /\ b <= l
    BY <2>2, <2>4, <2>5
  <2> HIDE DEF a, b, l
  <2>7. a <= l
    BY <2>6
  <2> QED BY <2>7 DEF a, l
<1> QED BY <1>2

\* A sign-in fails.
LEMMA LatestKept ==
    ASSUME NEW H \in Seq(Nat), Len(H) <= MaxFailures + 1
    PROVE  /\ People!Latest(H) \in Seq(Nat) /\ Len(People!Latest(H)) = Smaller(Len(H), MaxFailures)
           /\ \A i \in 1 .. Len(People!Latest(H)) :
                 People!Latest(H)[i] = H[Len(H) - Len(People!Latest(H)) + i]
<1> USE PeopleConstants
<1>0. Len(H) \in Nat
  OBVIOUS
<1>1. CASE Len(H) > MaxFailures
  <2>1. People!Latest(H) = Tail(H)
    BY <1>1 DEF People!Latest
  <2>2. /\ Tail(H) \in Seq(Nat) /\ Len(Tail(H)) = Len(H) - 1 /\ Len(H) = MaxFailures + 1
        /\ \A i \in 1 .. Len(Tail(H)) : Tail(H)[i] = H[i + 1]
    BY <1>1
  <2>3. \A i \in 1 .. Len(Tail(H)) : Len(H) - Len(Tail(H)) + i = i + 1
    BY <1>0, <2>2
  <2>4. Len(Tail(H)) = Smaller(Len(H), MaxFailures)
    BY <1>0, <2>2 DEF Smaller
  <2> QED BY <2>1, <2>2, <2>3, <2>4
<1>2. CASE Len(H) <= MaxFailures
  <2>1. People!Latest(H) = H
    BY <1>0, <1>2 DEF People!Latest
  <2>2. \A i \in 1 .. Len(H) : Len(H) - Len(H) + i = i
    BY <1>0
  <2>3. Len(H) = Smaller(Len(H), MaxFailures)
    BY <1>0, <1>2 DEF Smaller
  <2> QED BY <2>1, <2>2, <2>3
<1> QED BY <1>0, <1>1, <1>2

LEMMA LimitsFail ==
    ASSUME NEW F \in Seq(Nat), NEW G \in Seq(Nat), NEW p \in 1 .. MaxTrying,
           NEW t \in Nat, Limits(F, G, p, t)
    PROVE  /\ People!Latest(Append(F, t)) \in Seq(Nat)
           /\ Limits(People!Latest(Append(F, t)), Append(G, t), p - 1, t)
<1> DEFINE H == Append(F, t)
           K == People!Latest(H)
           J == Append(G, t)
<1> USE PeopleConstants
<1>1. Len(F) = Smaller(Len(G), MaxFailures) /\ Len(F) <= MaxFailures /\ Len(F) <= Len(G)
  BY DEF Limits, Smaller
<1>2. /\ K \in Seq(Nat) /\ Len(K) = Smaller(Len(H), MaxFailures)
      /\ \A i \in 1 .. Len(K) : K[i] = H[Len(H) - Len(K) + i]
  <2>1. H \in Seq(Nat) /\ Len(H) <= MaxFailures + 1
    BY <1>1
  <2> HIDE DEF H
  <2> QED BY <2>1, LatestKept
<1>3. /\ J \in Seq(Nat) /\ Len(J) = Len(G) + 1 /\ J[Len(J)] = t
      /\ \A i \in 1 .. Len(G) : J[i] = G[i]
  OBVIOUS
<1>4. /\ H \in Seq(Nat) /\ Len(H) = Len(F) + 1 /\ H[Len(H)] = t
      /\ \A i \in 1 .. Len(F) : H[i] = F[i]
  OBVIOUS
<1>n. /\ Len(F) \in Nat /\ Len(G) \in Nat /\ Len(H) \in Nat /\ Len(J) \in Nat /\ Len(K) \in Nat
      /\ Len(J) = Len(G) + 1 /\ Len(H) = Len(F) + 1
  BY <1>2, <1>3, <1>4
<1>d. /\ \A i \in 1 .. Len(F) : F[i] = G[Len(G) - Len(F) + i]
      /\ \A i, j \in 1 .. Len(G) : i <= j => G[i] <= G[j] /\ G[j] <= t
      /\ \A i \in 1 .. Len(G) :
            Len(G) - i + 1 + p >= MaxFailures + MaxTrying => G[i] <= t - Lockout
      /\ \A i \in 1 .. Len(G) : G[i] \in Nat
  BY DEF Limits
<1> HIDE DEF H, J, K
<1>5. /\ Len(K) = Smaller(Len(J), MaxFailures) /\ Len(K) <= Len(H) /\ Len(K) <= Len(J)
      /\ (Len(K) = Len(F) /\ Len(J) - Len(K) = Len(G) + 1 - Len(F))
            \/ (Len(K) = Len(F) + 1 /\ Len(F) = Len(G))
  <2>1. Len(K) = Smaller(Len(H), MaxFailures) /\ Len(F) = Smaller(Len(G), MaxFailures)
    BY <1>1, <1>2
  <2>2. MaxFailures \in Nat
    OBVIOUS
  <2>3. CASE Len(G) < MaxFailures
    <3>1. Len(F) = Len(G) /\ Len(H) <= MaxFailures /\ Len(J) <= MaxFailures
      BY <1>n, <2>1, <2>2, <2>3 DEF Smaller
    <3>2. Len(K) = Len(H)
      BY <1>n, <2>1, <2>2, <3>1 DEF Smaller
    <3> QED BY <1>n, <2>2, <3>1, <3>2 DEF Smaller
  <2>4. CASE Len(G) >= MaxFailures
    <3>1. Len(F) = MaxFailures
      BY <1>n, <2>1, <2>2, <2>4 DEF Smaller
    <3>2. Len(K) = MaxFailures
      BY <1>n, <2>1, <2>2, <3>1 DEF Smaller
    <3> QED BY <1>n, <2>2, <2>4, <3>1, <3>2 DEF Smaller
  <2> QED BY <1>n, <2>2, <2>3, <2>4
<1>6. ASSUME NEW i \in 1 .. Len(K) PROVE K[i] = J[Len(J) - Len(K) + i]
  <2>1. K[i] = H[Len(H) - Len(K) + i]
    BY <1>2
  <2>2. CASE i = Len(K)
    <3>1. Len(H) - Len(K) + i = Len(H) /\ Len(J) - Len(K) + i = Len(J)
      BY <1>n, <2>2
    <3> QED BY <1>3, <1>4, <2>1, <3>1
  <2>3. CASE i # Len(K)
    <3> DEFINE h == Len(H) - Len(K) + i
               g == Len(J) - Len(K) + i
    <3>0. i \in Nat /\ 1 <= i /\ i < Len(K)
      BY <1>n, <2>3
    <3>1. h \in 1 .. Len(F) /\ g \in 1 .. Len(G) /\ g = Len(G) - Len(F) + h
      <4>1. CASE Len(K) = Len(F) /\ Len(J) - Len(K) = Len(G) + 1 - Len(F)
        <5>1. Len(F) <= Len(G)
          BY <1>1
        <5>2. h = i + 1 /\ g = Len(G) - Len(F) + h
          BY <1>n, <3>0, <4>1
        <5> QED BY <1>n, <3>0, <4>1, <5>1, <5>2
      <4>2. CASE Len(K) = Len(F) + 1 /\ Len(F) = Len(G)
        BY <1>n, <3>0, <4>2
      <4> QED BY <1>5, <4>1, <4>2
    <3> HIDE DEF h, g
    <3>2. H[h] = F[h] /\ J[g] = G[g]
      BY <1>3, <1>4, <3>1
    <3>3. F[h] = G[g]
      BY <1>d, <3>1
    <3> QED BY <2>1, <3>2, <3>3 DEF h, g
  <2> QED BY <2>2, <2>3
<1>7. ASSUME NEW i \in 1 .. Len(J), NEW j \in 1 .. Len(J), i <= j
      PROVE  J[i] <= J[j] /\ J[j] <= t
  <2>0. \A k \in 1 .. Len(G) : G[k] \in Nat /\ G[k] <= t
    <3> TAKE k \in 1 .. Len(G)
    <3>1. k <= k
      BY <1>n
    <3> QED BY <1>d, <3>1
  <2>1. \A k \in 1 .. Len(G) : J[k] = G[k] /\ G[k] \in Nat /\ G[k] <= t
    BY <1>3, <2>0
  <2>2. CASE j = Len(J)
    <3>1. CASE i = Len(J)
      BY <1>3, <2>2, <3>1
    <3>2. CASE i # Len(J)
      <4>1. i \in 1 .. Len(G)
        BY <1>n, <3>2
      <4>2. J[i] \in Nat /\ J[i] <= t /\ J[j] = t
        BY <1>3, <2>1, <2>2, <4>1
      <4> QED BY <4>2
    <3> QED BY <3>1, <3>2
  <2>3. CASE j # Len(J)
    <3>0. j \in 1 .. Len(G)
      BY <1>n, <2>3
    <3>1. i \in 1 .. Len(G) /\ j \in 1 .. Len(G)
      BY <1>n, <1>7, <3>0
    <3>2. G[i] <= G[j]
      BY <3>1, <1>7, <1>d
    <3> QED BY <2>1, <3>1, <3>2
  <2> QED BY <2>2, <2>3
<1>8. ASSUME NEW i \in 1 .. Len(J), Len(J) - i + 1 + (p - 1) >= MaxFailures + MaxTrying
      PROVE  J[i] <= t - Lockout
  <2>1. i \in 1 .. Len(G) /\ Len(G) - i + 1 + p >= MaxFailures + MaxTrying
    BY <1>n, <1>8
  <2>2. G[i] <= t - Lockout
    BY <1>d, <2>1
  <2> QED BY <1>3, <2>1, <2>2
<1> QED BY <1>2, <1>5, <1>6, <1>7, <1>8 DEF Limits, H, J, K

LEMMA TryingSame ==
    ASSUME TryingInv, UNCHANGED People!signInVars, clock' \in Nat, clock' >= clock
    PROVE  TryingInv'
<1> USE DEF TryingInv, People!signInVars
<1>1. TryingTypeOK'
  BY DEF TryingTypeOK
<1>2. ASSUME NEW u \in Users PROVE Limits(failures[u], failed[u], trying[u], clock')
  <2>1. /\ failures[u] \in Seq(Nat) /\ failed[u] \in Seq(Nat) /\ trying[u] \in Nat
        /\ clock \in Nat /\ clock <= clock'
    BY PeopleConstants DEF TryingTypeOK
  <2>2. Limits(failures[u], failed[u], trying[u], clock)
    BY DEF LimitInv
  <2> QED BY <2>1, <2>2, LimitsLater
<1> QED BY <1>1, <1>2 DEF LimitInv

\* A sign-in under way that has not read the right password.
LEMMA OneLess ==
    ASSUME TryingTypeOK, NEW u \in Users, People!OneMayFail(u)
    PROVE  /\ trying[u] \in 1 .. MaxTrying /\ trying[u] - 1 \in 0 .. MaxTrying
           /\ u \in matched \cup proven => trying[u] - 1 > 0
<1>1. trying[u] \in Nat /\ trying[u] <= MaxTrying
  BY PeopleConstants DEF TryingTypeOK
<1>2. CASE u \in matched
  BY PeopleConstants, <1>1, <1>2 DEF People!OneMayFail, TryingTypeOK
<1>3. CASE u \in proven
  BY PeopleConstants, <1>1, <1>3 DEF People!OneMayFail, TryingTypeOK
<1>4. CASE u \notin matched /\ u \notin proven
  BY PeopleConstants, <1>1, <1>4 DEF People!OneMayFail
<1> QED BY <1>2, <1>3, <1>4

LEMMA TryingKeeps ==
    ASSUME TryingInv, NEW u \in Users,
           \/ People!TriesToSignIn(u) \/ People!PasswordMatches(u) \/ People!AccountIsDisabled(u)
           \/ People!PasswordIsWrong(u) \/ People!IsVerified(u) \/ People!SignsIn(u)
    PROVE  TryingInv'
<1> USE PeopleConstants DEF TryingInv
<1>0. /\ failures[u] \in Seq(Nat) /\ failed[u] \in Seq(Nat) /\ trying[u] \in Nat
      /\ trying[u] <= MaxTrying /\ clock \in Nat
      /\ Limits(failures[u], failed[u], trying[u], clock)
  BY DEF TryingTypeOK, LimitInv
<1>s. SUFFICES ASSUME /\ UNCHANGED clock /\ TryingTypeOK'
                      /\ Limits(failures'[u], failed'[u], trying'[u], clock)
                      /\ \A v \in Users \ {u} : /\ failures'[v] = failures[v]
                                                /\ failed'[v] = failed[v]
                                                /\ trying'[v] = trying[v]
                      => TryingInv'
               PROVE  TryingInv'
  BY DEF LimitInv
<1>1. CASE People!TriesToSignIn(u)
  <2>1. /\ UNCHANGED <<clock, matched, proven, failures, failed>>
        /\ trying' = [trying EXCEPT ![u] = @ + 1] /\ trying[u] < MaxTrying
    BY <1>1 DEF People!TriesToSignIn
  <2>2. Len(failures[u]) < MaxFailures \/ failures[u][1] <= clock - Lockout
    BY <1>1 DEF People!TriesToSignIn, People!Allowed
  <2>3. Limits(failures[u], failed[u], trying[u] + 1, clock)
    BY <1>0, <2>1, <2>2, LimitsLetIn
  <2>4. trying'[u] = trying[u] + 1 /\ \A v \in Users \ {u} : trying'[v] = trying[v]
    BY <2>1 DEF TryingTypeOK
  <2>5. TryingTypeOK'
    BY <1>0, <2>1, <2>4 DEF TryingTypeOK
  <2>6. Limits(failures'[u], failed'[u], trying'[u], clock)
    BY <2>1, <2>3, <2>4
  <2> QED BY <1>s, <2>1, <2>4, <2>5, <2>6 DEF LimitInv
<1>2. CASE People!PasswordMatches(u)
  <2>1. /\ UNCHANGED <<clock, trying, proven, failures, failed>> /\ matched' = matched \cup {u}
        /\ People!OneMayFail(u) /\ u \notin proven
    BY <1>2 DEF People!PasswordMatches
  <2>2. trying[u] > 0
    BY <1>0, <2>1, OneLess
  <2>3. TryingTypeOK'
    BY <2>1, <2>2 DEF TryingTypeOK
  <2> QED BY <2>1, <2>3 DEF LimitInv
<1>3. CASE People!AccountIsDisabled(u)
  <2>1. /\ UNCHANGED <<clock, matched, proven, failures, failed>>
        /\ trying' = [trying EXCEPT ![u] = @ - 1] /\ People!OneMayFail(u)
    BY <1>3 DEF People!AccountIsDisabled
  <2>2. trying'[u] = trying[u] - 1 /\ \A v \in Users \ {u} : trying'[v] = trying[v]
    BY <2>1 DEF TryingTypeOK
  <2>3. trying[u] - 1 \in 0 .. MaxTrying /\ (u \in matched \cup proven => trying[u] - 1 > 0)
    BY <2>1, OneLess
  <2>4. TryingTypeOK'
    BY <2>1, <2>2, <2>3 DEF TryingTypeOK
  <2>5. trying[u] - 1 \in Nat /\ trying[u] - 1 <= trying[u] /\ clock <= clock
    BY <1>0, <2>3
  <2>6. Limits(failures[u], failed[u], trying[u] - 1, clock)
    BY <1>0, <2>5, LimitsLater
  <2>7. Limits(failures'[u], failed'[u], trying'[u], clock)
    BY <2>1, <2>2, <2>6
  <2> QED BY <1>s, <2>1, <2>2, <2>4, <2>7 DEF LimitInv
<1>4. CASE People!PasswordIsWrong(u)
  <2>1. /\ UNCHANGED <<clock, matched, proven>>
        /\ trying' = [trying EXCEPT ![u] = @ - 1] /\ People!OneMayFail(u)
        /\ failures' = [failures EXCEPT ![u] = People!Latest(Append(failures[u], clock))]
        /\ failed' = [failed EXCEPT ![u] = Append(failed[u], clock)]
    BY <1>4 DEF People!PasswordIsWrong
  <2>2. trying[u] \in 1 .. MaxTrying /\ trying[u] - 1 \in 0 .. MaxTrying
        /\ (u \in matched \cup proven => trying[u] - 1 > 0)
    BY <2>1, OneLess
  <2>3. /\ People!Latest(Append(failures[u], clock)) \in Seq(Nat)
        /\ Limits(People!Latest(Append(failures[u], clock)), Append(failed[u], clock),
                  trying[u] - 1, clock)
    BY <1>0, <2>2, LimitsFail
  <2>4. Append(failed[u], clock) \in Seq(Nat)
    BY <1>0
  <2>5. /\ failures'[u] = People!Latest(Append(failures[u], clock))
        /\ failed'[u] = Append(failed[u], clock) /\ trying'[u] = trying[u] - 1
        /\ \A v \in Users \ {u} : /\ failures'[v] = failures[v] /\ failed'[v] = failed[v]
                                  /\ trying'[v] = trying[v]
    BY <2>1 DEF TryingTypeOK
  <2>6. /\ trying' \in [Users -> 0 .. MaxTrying]
        /\ failures' \in [Users -> Seq(Nat)] /\ failed' \in [Users -> Seq(Nat)]
    BY <2>1, <2>2, <2>3, <2>4 DEF TryingTypeOK
  <2>7. \A v \in matched \cup proven : trying'[v] > 0
    BY <2>2, <2>5 DEF TryingTypeOK
  <2>8. TryingTypeOK'
    BY <2>1, <2>6, <2>7 DEF TryingTypeOK
  <2>9. Limits(failures'[u], failed'[u], trying'[u], clock)
    BY <2>3, <2>5
  <2> QED BY <1>s, <2>1, <2>5, <2>8, <2>9
<1>5. CASE People!IsVerified(u)
  <2>1. /\ UNCHANGED <<clock, trying>> /\ u \in matched
        /\ matched' = matched \ {u} /\ proven' = proven \cup {u}
        /\ failures' = [failures EXCEPT ![u] = <<>>] /\ failed' = [failed EXCEPT ![u] = <<>>]
    BY <1>5 DEF People!IsVerified
  <2>2. /\ failures'[u] = <<>> /\ failed'[u] = <<>>
        /\ \A v \in Users \ {u} : failures'[v] = failures[v] /\ failed'[v] = failed[v]
    BY <2>1 DEF TryingTypeOK
  <2>3. <<>> \in Seq(Nat)
    OBVIOUS
  <2>4. failures' \in [Users -> Seq(Nat)] /\ failed' \in [Users -> Seq(Nat)]
    BY <2>1, <2>3 DEF TryingTypeOK
  <2>5. TryingTypeOK'
    BY <2>1, <2>4 DEF TryingTypeOK
  <2>6. Limits(<<>>, <<>>, trying'[u], clock)
    BY NoFailures
  <2> QED BY <1>s, <2>1, <2>2, <2>5, <2>6
<1>6. CASE People!SignsIn(u)
  <2>1. /\ UNCHANGED <<clock, matched, failures, failed>> /\ u \in proven
        /\ proven' = proven \ {u} /\ trying' = [trying EXCEPT ![u] = @ - 1]
    BY <1>6 DEF People!SignsIn
  <2>2. trying'[u] = trying[u] - 1 /\ \A v \in Users \ {u} : trying'[v] = trying[v]
    BY <2>1 DEF TryingTypeOK
  <2>3. trying[u] - 1 \in 0 .. MaxTrying /\ trying[u] - 1 <= trying[u] /\ clock <= clock
    BY <1>0, <2>1 DEF TryingTypeOK
  <2>4. u \notin matched' /\ u \notin proven'
    BY <2>1 DEF TryingTypeOK
  <2>5. TryingTypeOK'
    BY <2>1, <2>2, <2>3, <2>4 DEF TryingTypeOK
  <2>6. trying[u] - 1 \in Nat
    BY <2>3
  <2>7. Limits(failures[u], failed[u], trying[u] - 1, clock)
    BY <1>0, <2>3, <2>6, LimitsLater
  <2>8. Limits(failures'[u], failed'[u], trying'[u], clock)
    BY <2>1, <2>2, <2>7
  <2> QED BY <1>s, <2>1, <2>2, <2>5, <2>8 DEF LimitInv
<1> QED BY <1>1, <1>2, <1>3, <1>4, <1>5, <1>6

LEMMA TryingStart == People!Init => TryingInv
<1> SUFFICES ASSUME People!Init PROVE TryingInv
  OBVIOUS
<1>1. /\ clock = 0 /\ trying = [u \in Users |-> 0] /\ matched = {} /\ proven = {}
      /\ failures = [u \in Users |-> <<>>] /\ failed = [u \in Users |-> <<>>]
  BY DEF People!Init
<1>2. <<>> \in Seq(Nat) /\ 0 \in 0 .. MaxTrying /\ 0 \in Nat
  BY PeopleConstants
<1>3. TryingTypeOK
  BY <1>1, <1>2 DEF TryingTypeOK
<1>4. LimitInv
  BY <1>1, NoFailures DEF LimitInv
<1> QED BY <1>3, <1>4 DEF TryingInv

LEMMA TryingRestarts == TryingInv /\ People!Restarts => TryingInv'
<1> SUFFICES ASSUME TryingInv, People!Restarts PROVE TryingInv'
  OBVIOUS
<1>1. /\ UNCHANGED clock /\ clock \in Nat
      /\ trying' = [u \in Users |-> 0] /\ matched' = {} /\ proven' = {}
      /\ failures' = [u \in Users |-> <<>>] /\ failed' = [u \in Users |-> <<>>]
  BY DEF People!Restarts, TryingInv, TryingTypeOK
<1>2. <<>> \in Seq(Nat) /\ 0 \in 0 .. MaxTrying
  BY PeopleConstants
<1>3. TryingTypeOK'
  BY <1>1, <1>2 DEF TryingTypeOK
<1>4. LimitInv'
  BY <1>1, NoFailures DEF LimitInv
<1> QED BY <1>3, <1>4 DEF TryingInv

LEMMA TryingKeep == TryingInv /\ [People!Next]_(People!vars) => TryingInv'
<1>0. ASSUME TryingInv, UNCHANGED People!signInVars, UNCHANGED clock PROVE TryingInv'
  BY <1>0, TryingSame DEF TryingInv, TryingTypeOK
<1>1. ASSUME TryingInv, UNCHANGED People!vars PROVE TryingInv'
  BY <1>0, <1>1 DEF People!vars
<1> SUFFICES ASSUME TryingInv, People!Moves PROVE TryingInv'
  BY <1>1 DEF People!Next
<1>2. CASE People!Tick
  BY <1>2, TryingSame DEF People!Tick, TryingInv, TryingTypeOK
<1>3. CASE People!Clears
  BY <1>3, <1>0 DEF People!Clears
<1>4. CASE People!Restarts
  BY <1>4, TryingRestarts
<1>5. ASSUME NEW b \in Browsers,
             \/ People!SetupBegins(b) \/ People!SetupChecks(b) \/ People!SetupSignsIn(b)
             \/ \E u \in Users : People!SetupCreates(b, u)
      PROVE  TryingInv'
  BY <1>5, <1>0 DEF People!SetupBegins, People!SetupChecks, People!SetupSignsIn, People!SetupCreates
<1>6. ASSUME NEW u \in Users,
             \/ People!TriesToSignIn(u) \/ People!PasswordMatches(u) \/ People!AccountIsDisabled(u)
             \/ People!PasswordIsWrong(u) \/ People!IsVerified(u) \/ People!SignsIn(u)
      PROVE  TryingInv'
  BY <1>6, TryingKeeps
<1>7. ASSUME NEW s \in People!Sessions, People!Asks(s) \/ People!ReadsSession(s) \/ People!FindsNoSession(s)
      PROVE  TryingInv'
  BY <1>7, <1>0 DEF People!Asks, People!ReadsSession, People!FindsNoSession
<1>8. ASSUME NEW s \in People!Sessions,
             \/ People!ChangesPassword(s) \/ People!UpdatesProfile(s)
             \/ People!SignsOut(s) \/ People!IsSignedOut(s)
             \/ \E target \in People!Sessions : People!RevokesSession(s, target)
      PROVE  TryingInv'
  BY <1>8, <1>0 DEF People!ChangesPassword, People!UpdatesProfile, People!SignsOut, People!IsSignedOut,
     People!RevokesSession
<1>9. ASSUME NEW s \in People!Sessions,
             \/ \E u \in Users : People!CreatesUser(s, u)
             \/ \E new \in People!Changes : People!ChecksChange(s, new)
      PROVE  TryingInv'
  BY <1>9, <1>0 DEF People!CreatesUser, People!ChecksChange
<1>10. ASSUME NEW c \in reading, People!StoresContext(c) PROVE TryingInv'
  BY <1>10, <1>0 DEF People!StoresContext
<1>11. ASSUME NEW new \in pending, People!WritesChange(new) PROVE TryingInv'
  BY <1>11, <1>0 DEF People!WritesChange
<1> QED BY <1>2, <1>3, <1>4, <1>5, <1>6, <1>7, <1>8, <1>9, <1>10, <1>11 DEF People!Moves

\* What the limits say of a refusal, and of the failures within the lockout.
LEMMA LimitsSay ==
    ASSUME TryingInv, NEW u \in Users
    PROVE  LET n == Len(failed[u])
           IN  /\ ~People!Allowed(u) =>
                     n >= MaxFailures /\ failed[u][n - MaxFailures + 1] > clock - Lockout
               /\ n >= MaxFailures + MaxTrying =>
                     failed[u][n - MaxFailures - MaxTrying + 1] <= clock - Lockout
<1> DEFINE F == failures[u]
           G == failed[u]
           p == trying[u]
<1> USE PeopleConstants
<1>1. F \in Seq(Nat) /\ G \in Seq(Nat) /\ p \in Nat /\ clock \in Nat
  BY DEF TryingInv, TryingTypeOK
<1>2. /\ Len(F) = Smaller(Len(G), MaxFailures)
      /\ \A i \in 1 .. Len(F) : F[i] = G[Len(G) - Len(F) + i]
      /\ \A i \in 1 .. Len(G) :
            Len(G) - i + 1 + p >= MaxFailures + MaxTrying => G[i] <= clock - Lockout
  BY DEF TryingInv, LimitInv, Limits
<1>3. People!Allowed(u) = IF Len(F) < MaxFailures THEN TRUE ELSE F[1] <= clock - Lockout
  BY DEF People!Allowed
<1> HIDE DEF F, G, p
<1>4. Len(F) \in Nat /\ Len(G) \in Nat
  BY <1>1
<1>5. ASSUME ~People!Allowed(u)
      PROVE  Len(G) >= MaxFailures /\ G[Len(G) - MaxFailures + 1] > clock - Lockout
  <2>0. ~(IF Len(F) < MaxFailures THEN TRUE ELSE F[1] <= clock - Lockout)
    BY <1>3, <1>5
  <2>1. Len(F) >= MaxFailures /\ ~(F[1] <= clock - Lockout)
    BY <1>4, <2>0
  <2>2. Len(F) = MaxFailures /\ Len(G) >= MaxFailures
    BY <1>2, <1>4, <2>1 DEF Smaller
  <2>3. F[1] = G[Len(G) - MaxFailures + 1] /\ F[1] \in Nat
    BY <1>1, <1>2, <1>4, <2>2
  <2> QED BY <1>1, <2>1, <2>2, <2>3
<1>6. ASSUME Len(G) >= MaxFailures + MaxTrying
      PROVE  G[Len(G) - MaxFailures - MaxTrying + 1] <= clock - Lockout
  <2> DEFINE i == Len(G) - MaxFailures - MaxTrying + 1
  <2>1. i \in 1 .. Len(G) /\ Len(G) - i + 1 + p >= MaxFailures + MaxTrying
    BY <1>1, <1>4, <1>6
  <2> QED BY <1>2, <2>1
<1> QED BY <1>5, <1>6 DEF G

(***************************************************************************)
(* THEOREM.  Whatever operators, administrators and their browsers do at   *)
(* the same time, and wherever the backend restarts: a setup makes one     *)
(* account, an administrator remains as long as no two changes overlapped, *)
(* a session that is trusted was good when it was last read, a revoked one *)
(* is forgotten, and sign-ins are refused only, and always, for failures   *)
(* within the lockout.                                                     *)
(***************************************************************************)
PeopleHold == PeopleInv /\ MemoryInv /\ TryingInv

LEMMA MemoryStart == People!Init => MemoryInv
<1> SUFFICES ASSUME People!Init PROVE MemoryInv
  OBVIOUS
<1>1. /\ clock = 0 /\ reading = {} /\ cache = [s \in People!Sessions |-> Nothing]
      /\ revoked = [s \in People!Sessions |-> FALSE] /\ good = [s \in People!Sessions |-> -1]
  BY DEF People!Init
<1> QED BY <1>1 DEF MemoryInv, TrustInv, ForgottenInv

LEMMA PeopleHoldGives == PeopleHold => People!AccountsAreKept
<1> SUFFICES ASSUME PeopleHold PROVE People!AccountsAreKept
  OBVIOUS
<1>1. People!TypeOK
  BY DEF PeopleHold, PeopleInv, PeopleTypeOK, SessionsTypeOK, TryingInv, TryingTypeOK, People!TypeOK
<1>2. People!SetupIsOnce
  BY DEF PeopleHold, PeopleInv, SetupInv
<1>3. People!AdministratorRemains
  BY DEF PeopleHold, PeopleInv, AdminInv, SomebodyExists, People!AdministratorRemains
<1>4. People!TrustIsRecent
  BY DEF PeopleHold, MemoryInv, TrustInv, People!TrustIsRecent, People!Trusted
<1>5. People!RevokedIsForgotten
  BY DEF PeopleHold, MemoryInv, ForgottenInv, People!RevokedIsForgotten
<1>6. People!LockoutIsEarned
  BY LimitsSay DEF PeopleHold, People!LockoutIsEarned
<1> QED BY <1>1, <1>2, <1>3, <1>4, <1>5, <1>6 DEF People!AccountsAreKept

THEOREM AccountsKept == People!Spec => []AccountsAreKept
<1>1. People!Init => PeopleHold
  BY PeopleStart, MemoryStart, TryingStart DEF PeopleHold
<1>2. PeopleHold /\ [People!Next]_(People!vars) => PeopleHold'
  BY PeopleKeep, MemoryKeeps, TryingKeep DEF PeopleHold
<1> QED BY <1>1, <1>2, PeopleHoldGives, PTL DEF People!Spec, AccountsAreKept

(***************************************************************************)
(* The composition: whatever the subject, each component moves as its own  *)
(* specification says, or not at all.                                      *)
(***************************************************************************)
LEMMA SubjectsStart ==
    MCInit => /\ Init /\ Doc!Init
              /\ Platform!HealthInit /\ Drawn!ZonesInit /\ Map!FlowInit /\ People!Init
BY DEF MCInit

LEMMA SubjectsMove ==
    ASSUME [MCNext]_<<subject, vars, documentVars, healthVars, shownVars>>
    PROVE  /\ [Next]_vars /\ [Doc!Next]_(Doc!vars)
           /\ [Platform!HealthNext]_(Platform!healthVars)
           /\ [Drawn!ZonesNext]_(Drawn!zoneVars) /\ [Map!FlowNext]_(Map!flowVars)
           /\ [People!Next]_(People!vars)
<1>1. /\ UNCHANGED documentVars => UNCHANGED Doc!vars
      /\ UNCHANGED statusVars => UNCHANGED Platform!healthVars
      /\ UNCHANGED zoneVars => UNCHANGED Drawn!zoneVars
      /\ UNCHANGED flowVars => UNCHANGED Map!flowVars
      /\ UNCHANGED shownVars => UNCHANGED <<statusVars, zoneVars, flowVars, accountVars>>
  BY DEF documentVars, statusVars, zoneVars, flowVars, shownVars, Doc!vars,
     Platform!healthVars, Drawn!zoneVars, Map!flowVars
<1>3. UNCHANGED accountVars => UNCHANGED People!vars
  BY DEF accountVars, People!vars, People!accountVars, People!signInVars,
     People!sessionVars, People!cacheVars
<1>2. UNCHANGED <<subject, vars, documentVars, healthVars, shownVars>> =>
          UNCHANGED vars /\ UNCHANGED documentVars /\ UNCHANGED shownVars
  OBVIOUS
<1> QED BY <1>1, <1>2, <1>3 DEF MCNext

(* Whatever the subject of a behaviour of the composed model, what the     *)
(* platform tells operators of its cameras, of their zones and of the flow *)
(* between them is what it has measured.                                   *)
THEOREM CamerasReported == MCSpec => []CamerasAreReported
<1>1. MCSpec => Platform!HealthSpec /\ Drawn!ZonesSpec /\ Map!FlowSpec
  BY SubjectsStart, SubjectsMove, PTL
     DEF MCSpec, Platform!HealthSpec, Drawn!ZonesSpec, Map!FlowSpec
<1>2. MCSpec => [](Platform!HealthIsEarned /\ Drawn!ZonesAreApplied /\ Map!FlowMapIsHonest)
  BY <1>1, HealthEarned, ZonesApplied, MapHonest, PTL
<1> QED BY <1>2, PTL DEF CamerasAreReported

(* Nor is the book of cameras, the streams that follow it, or a document   *)
(* ever disturbed by another subject's steps.                              *)
THEOREM ManagedThroughout == MCSpec => []BookIsKept /\ StreamsFollow /\ DocumentIsKept
<1>1. MCSpec => Spec /\ Doc!Spec
  BY SubjectsStart, SubjectsMove, PTL DEF MCSpec, Spec, Doc!Spec
<1> QED BY <1>1, BookKept, StreamsFollowed, DocumentKept, PTL

(* Nor are the accounts: what AccountsKept says of them holds throughout.  *)
THEOREM AccountsKeptThroughout == MCSpec => []AccountsAreKept
<1>1. MCSpec => People!Spec
  BY SubjectsStart, SubjectsMove, PTL DEF MCSpec, People!Spec
<1> QED BY <1>1, AccountsKept, PTL
=============================================================================
