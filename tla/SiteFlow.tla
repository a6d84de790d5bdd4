------------------------------ MODULE SiteFlow ------------------------------
(***************************************************************************)
(* The site's flow map (src/ai/surgeguard_ai/site/flow.py): a node for     *)
(* every zone of every enabled camera, and a link for every connection     *)
(* between two zones, with the figures it rests on or none.                *)
(*                                                                         *)
(* A camera's zones are what its file says; what is measured is of the     *)
(* zones its analysis was built with.  They part when zones are saved and  *)
(* not applied.  A figure is a zone's entries and exits; a link within a   *)
(* camera adds the moves it has counted.                                   *)
(***************************************************************************)
EXTENDS Naturals

CONSTANTS
    Watchers,       \* the cameras
    Drawable,       \* names of zones
    Readings,       \* bound: a zone's entries and exits per minute
    MinRate,        \* correlation_min_rate_per_min
    Unknown         \* no analysis, no figure

ConstantsAssumption ==
    /\ MinRate \in Nat /\ \A r \in Readings : r.in \in Nat /\ r.out \in Nat
    /\ Unknown \notin Readings
    /\ \A zones \in SUBSET Drawable : Unknown \notin [zones -> Readings]

VARIABLES
    inUse,          \* the enabled cameras
    delivering,     \* the cameras whose status contributes and whose analysis is fresh
    configured,     \* a camera's zones, as its file has them
    builtWith,      \* the zones its analysis was built with
    flow            \* its latest zone flow: zone -> rates; or Unknown

flowVars == <<inUse, delivering, configured, builtWith, flow>>

Node(c, z) == [camera |-> c, zone |-> z]
Ends == [camera : Watchers, zone : Drawable]
Links == {l \in [from : Ends, to : Ends] : l.from # l.to}

Crosses(l) == l.from.camera # l.to.camera

-----------------------------------------------------------------------------
(* build_flow.                                                             *)

\* _exclusion: enabled, connected, analysed, and lately.
Counts(c) == c \in inUse /\ c \in delivering /\ flow[c] # Unknown

\* _snapshot: only a camera that contributes has figures to use.
Snapshot(n) ==
    IF ~Counts(n.camera) \/ n.zone \notin DOMAIN flow[n.camera] THEN Unknown
    ELSE flow[n.camera][n.zone]

\* _zones: as configured, or, when nothing is, as last measured.
ZonesShown(c) ==
    IF configured[c] # {} THEN configured[c]
    ELSE IF flow[c] # Unknown THEN DOMAIN flow[c] ELSE {}

Nodes == {n \in Ends : n.camera \in inUse /\ n.zone \in ZonesShown(n.camera)}

Shown(n) == [node |-> n, available |-> Snapshot(n) # Unknown, figures |-> Snapshot(n)]

\* Why a link has no figures, at either end.
Gap(n) ==
    \/ n.camera \notin inUse
    \/ ~Counts(n.camera)
    \/ n \notin Nodes
    \/ Snapshot(n) = Unknown

Comparable(out, in) == out >= MinRate /\ in >= MinRate

\* _link.
Link(l) ==
    LET up == Snapshot(l.from)
        down == Snapshot(l.to)
    IN  IF Gap(l.from) \/ Gap(l.to)
        THEN [basis |-> "unavailable", out |-> Unknown, in |-> Unknown, ratio |-> FALSE]
        ELSE [basis |-> IF Crosses(l) THEN "correlated" ELSE "tracked",
              out |-> up.out, in |-> down.in,
              ratio |-> Crosses(l) /\ Comparable(up.out, down.in)]

-----------------------------------------------------------------------------
Figures(zones) == [zones -> Readings]

FlowInit ==
    /\ inUse = Watchers /\ delivering = {}
    /\ configured \in [Watchers -> SUBSET Drawable] /\ builtWith = configured
    /\ flow = [c \in Watchers |-> Unknown]

\* A window of a camera that runs, with the zones its analysis was built with.
FlowAnalysed(c) ==
    /\ c \in inUse
    /\ delivering' = delivering \cup {c}
    /\ \E figures \in Figures(builtWith[c]) : flow' = [flow EXCEPT ![c] = figures]
    /\ UNCHANGED <<inUse, configured, builtWith>>

\* The camera is lost, or its analysis grows old; the analysis is kept.
FlowLost(c) ==
    /\ c \in delivering
    /\ delivering' = delivering \ {c}
    /\ UNCHANGED <<inUse, configured, builtWith, flow>>

\* An analysis that was kept is shown as soon as the camera is back.
FlowBack(c) ==
    /\ c \in inUse \ delivering /\ flow[c] # Unknown
    /\ delivering' = delivering \cup {c}
    /\ UNCHANGED <<inUse, configured, builtWith, flow>>

\* Disabling stops the camera and clears its analysis.
FlowDisabled(c) ==
    /\ c \in inUse
    /\ inUse' = inUse \ {c} /\ delivering' = delivering \ {c}
    /\ flow' = [flow EXCEPT ![c] = Unknown]
    /\ UNCHANGED <<configured, builtWith>>

FlowEnabled(c) ==
    /\ c \notin inUse
    /\ inUse' = inUse \cup {c}
    /\ UNCHANGED <<delivering, configured, builtWith, flow>>

\* QueueService.save_zones: on disk, and in the analysis after a restart.
ZonesSavedForLater(c, zones) ==
    /\ configured' = [configured EXCEPT ![c] = zones]
    /\ UNCHANGED <<inUse, delivering, builtWith, flow>>

\* CameraManager.save_zones: on disk, and the analysis is rebuilt.
ZonesSavedAndApplied(c, zones) ==
    /\ configured' = [configured EXCEPT ![c] = zones]
    /\ builtWith' = [builtWith EXCEPT ![c] = zones]
    /\ flow' = [flow EXCEPT ![c] = Unknown]
    /\ UNCHANGED <<inUse, delivering>>

FlowNext ==
    \E c \in Watchers :
        \/ FlowAnalysed(c) \/ FlowLost(c) \/ FlowBack(c) \/ FlowDisabled(c) \/ FlowEnabled(c)
        \/ \E zones \in SUBSET Drawable :
              ZonesSavedForLater(c, zones) \/ ZonesSavedAndApplied(c, zones)

FlowSpec == FlowInit /\ [][FlowNext]_flowVars

-----------------------------------------------------------------------------
FlowTypeOK ==
    /\ inUse \subseteq Watchers /\ delivering \subseteq inUse
    /\ configured \in [Watchers -> SUBSET Drawable] /\ builtWith \in [Watchers -> SUBSET Drawable]

(* Links and nodes are computed apart and say the same: a link's figures   *)
(* are those of two nodes on the map, and there is a gap only where one of *)
(* its ends is not on the map or has none.                                 *)
LinksMatchNodes ==
    \A l \in Links :
        LET link == Link(l)
            both == \A n \in {l.from, l.to} : n \in Nodes /\ Shown(n).available
        IN  /\ (link.basis # "unavailable") <=> both
            /\ both => link.out = Shown(l.from).figures.out /\ link.in = Shown(l.to).figures.in

(* What is said of a zone is measured by a camera that delivers, and a     *)
(* zone of one that does not is still on the map, without figures.         *)
NobodyIsDrawnFromMemory ==
    /\ \A n \in Nodes : Shown(n).available => n.camera \in delivering /\ n.zone \in DOMAIN flow[n.camera]
    /\ \A c \in inUse \ delivering, z \in Drawable :
          z \in configured[c] => Node(c, z) \in Nodes /\ ~Shown(Node(c, z)).available

(* Moves are counted within a camera, and between cameras two rates are    *)
(* put side by side.                                                       *)
FlowMapIsHonest == FlowTypeOK /\ LinksMatchNodes /\ NobodyIsDrawnFromMemory
=============================================================================
