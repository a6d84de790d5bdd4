------------------------------ MODULE MCCameras ------------------------------
(***************************************************************************)
(* Instances of what is kept of the cameras and said of them: the manager  *)
(* with its registry, the documents, the checks of a network camera's      *)
(* health; the platform's view of cameras that fall silent, the zones and  *)
(* counters of a camera, and the map of the site's flow; and the accounts  *)
(* of those who change all that.  They share nothing but the cameras they  *)
(* are about.  In each behaviour one of them, the subject, moves.          *)
(*                                                                         *)
(* The environment declares camera 1 and may declare camera 2, without an  *)
(* address; camera 3 can only be added.                                    *)
(***************************************************************************)
EXTENDS CameraManager, TLC

CONSTANTS
    Unreadable, Local, MaxDocumentEdits, MaxCrashes, MaxMoves,
    Watched, StaleAfter, LateAfter, OfflineAfter, MaxSetBack,
    Names, Writes, Defaults, Keep, MeasuredRate, MaxZoneEdits,
    Drawable, Readings, MinRate, Unknown,
    Users, Browsers, Ttl, CacheFor, MaxFailures, Lockout, MaxTrying, MaxSessions, Budgets, Nothing

VARIABLES
    subject,
    kind, up, disk, memory, loadError, save, tried, refusedEdits, acked,
    crashes, damaged,
    url, enabled, worker, answering, check, asked, wake, device, reachable,
    diagnosis, recent, moves,
    on, reported, age, slow, setBack, silent, heard,
    mode, zoneFile, zones, built, counters, changed, report, running, zoneEdits, said,
    inUse, delivering, configured, builtWith, flow,
    clock, role, active, setup, founded, pending, overlapped, trying, matched, proven,
    failures, failed, opened, owner, expires, revoked, leaving, asking, reading, cache,
    clears, acting, overtaken, good, budget

Doc == INSTANCE DocumentStore
    WITH MaxEdits <- MaxDocumentEdits, refused <- refusedEdits
Health == INSTANCE CameraHealth
Platform == INSTANCE PlatformHealth
Drawn == INSTANCE ZoneService WITH file <- zoneFile, edits <- zoneEdits
Map == INSTANCE SiteFlow WITH Watchers <- Watched
People == INSTANCE Accounts WITH None <- Nothing

documentVars == <<kind, up, disk, memory, loadError, save, tried, refusedEdits,
                  acked, crashes, damaged>>
healthVars == <<url, enabled, worker, answering, check, asked, wake, device,
                reachable, diagnosis, recent, moves>>
statusVars == <<on, reported, age, slow, setBack, silent, heard>>
zoneVars == <<mode, zoneFile, zones, built, counters, changed, report, running,
              zoneEdits, said>>
flowVars == <<inUse, delivering, configured, builtWith, flow>>
accountVars == <<clock, role, active, setup, founded, pending, overlapped, trying,
                 matched, proven, failures, failed, opened, owner, expires, revoked,
                 leaving, asking, reading, cache, clears, acting, overtaken, good, budget>>
shownVars == <<statusVars, zoneVars, flowVars, accountVars>>

ASSUME DocumentAssumption == Doc!ConstantsAssumption
ASSUME HealthAssumption == Platform!ConstantsAssumption
ASSUME ZonesAssumption == Drawn!ConstantsAssumption
ASSUME FlowAssumption == Map!ConstantsAssumption
ASSUME PeopleAssumption == People!ConstantsAssumption

MCSeedUrl == 1 :> "a" @@ 2 :> Unset
MCDefaults == [total |-> 1, active |-> 1, rate |-> 2]
MCWrites == {[total |-> 2, active |-> 0, rate |-> 0], [total |-> 1, active |-> 1, rate |-> 4]}
MCReadings == {[in |-> 0, out |-> 2], [in |-> 2, out |-> 2]}

Budget(k, p, t, r, c) ==
    [ticks |-> k, setups |-> p, tries |-> t, requests |-> r, changes |-> c]
MCBudgets == {
    Budget(3, 0, 6, 0, 0),      \* failures and lockouts
    Budget(0, 2, 1, 1, 1),      \* two setups at a time
    Budget(0, 1, 0, 1, 3),      \* administrators made and removed
    Budget(0, 1, 1, 1, 2),      \* an account changed while it signs in
    Budget(2, 1, 0, 1, 2)}      \* sessions cached, expiring and revoked

MCInit ==
    /\ subject \in {"manager", "document", "health", "status", "zones", "flow", "accounts"}
    /\ Init /\ (subject # "manager" => env = {Primary})
    /\ Doc!Init /\ (subject # "document" => kind = "zones")
    /\ Health!Init /\ (subject # "health" => url = Local /\ answering = {})
    /\ Platform!HealthInit /\ (subject # "status" => on = {})
    /\ Drawn!ZonesInit /\ (subject # "zones" => mode = "off" /\ zones = << >>)
    /\ Map!FlowInit /\ (subject # "flow" => configured = [c \in Watched |-> {}])
    /\ People!Init /\ (subject # "accounts" => budget = CHOOSE b \in Budgets : TRUE)

MCNext ==
    /\ UNCHANGED subject
    /\ \/ subject = "manager" /\ Next /\ UNCHANGED <<documentVars, healthVars, shownVars>>
       \/ subject = "document" /\ Doc!Next /\ UNCHANGED <<vars, healthVars, shownVars>>
       \/ subject = "health" /\ Health!Next /\ UNCHANGED <<vars, documentVars, shownVars>>
       \/ /\ UNCHANGED <<vars, documentVars, healthVars>>
          /\ \/ subject = "status" /\ Platform!HealthNext /\ UNCHANGED <<zoneVars, flowVars, accountVars>>
             \/ subject = "zones" /\ Drawn!ZonesNext /\ UNCHANGED <<statusVars, flowVars, accountVars>>
             \/ subject = "flow" /\ Map!FlowNext /\ UNCHANGED <<statusVars, zoneVars, accountVars>>
             \/ subject = "accounts" /\ People!Next /\ UNCHANGED <<statusVars, zoneVars, flowVars>>

MCSpec ==
    /\ MCInit /\ [][MCNext]_<<subject, vars, documentVars, healthVars, shownVars>>
    /\ subject = "health" => Health!Fairness

DocumentIsKept == Doc!DocumentIsKept

(* A camera's health comes to be that of the device at its address, and a  *)
(* device that is back is acted on.                                        *)
HealthIsOfNow == Health!HealthIsOfNow /\ Health!ReturnIsActedOn

(* What the platform tells operators of its cameras, of their zones and of *)
(* the flow between them is what it has measured.                          *)
CamerasAreReported ==
    Platform!HealthIsEarned /\ Drawn!ZonesAreApplied /\ Map!FlowMapIsHonest

AccountsAreKept == People!AccountsAreKept
=============================================================================
