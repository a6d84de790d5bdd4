------------------------- MODULE MCCommandCenterLink -------------------------
(***************************************************************************)
(* What the Command Center is told, for TLC: one subject moves in each     *)
(* behaviour.                                                              *)
(*   link      the services and one client, as CommandCenterLink has them  *)
(*   count     two cameras' counts and queues added up for the site        *)
(*   alerts    one camera's losses on the site's timeline                  *)
(***************************************************************************)
EXTENDS CommandCenterLink

CONSTANTS Sequence, Areas, People, MaxAge, RaiseAfter, ResolveAfter, Nothing, MaxStep, MaxTime

VARIABLES
    subject,
    enabled, area, drawn, status, analysis, now, demandBasis, demandHistory,
    queueBasis, queueHistory, tracked, timeline, since, updated, once, siteEdits

Site == INSTANCE SiteReport WITH None <- Nothing

ASSUME SiteAssumption == Site!ConstantsAssumption

siteVars == <<enabled, area, drawn, status, analysis, now, demandBasis, demandHistory,
              queueBasis, queueHistory, tracked, timeline, since, updated, once>>

MCSequence == <<"c1", "c2">>

\* The health of the components turns at most once.
Calm == CHOOSE h \in Healths : TRUE
HealthTurnsOnce == health' # health => health = Calm

MCInit ==
    /\ subject \in {"link", "count", "alerts"}
    /\ Init /\ health = Calm /\ Site!Init /\ siteEdits = 0
    /\ subject # "count" => \A c \in Site!Cameras : area[c] = "hall"

Edit == siteEdits < 1 /\ siteEdits' = siteEdits + 1
NoEdit == UNCHANGED siteEdits
\* The camera that is lost and edited.
First == {Sequence[i] : i \in DOMAIN Sequence \cap {1}}

Count ==
    \/ \E c \in Site!Cameras : Site!StatusTurns(c, "live") /\ NoEdit
    \/ \E c \in Site!Cameras, sees \in SUBSET People : \E waits \in {Nothing, sees} :
            Site!Analysed(c, sees, waits) /\ NoEdit
    \/ \E c \in First :
            \/ Site!StatusTurns(c, "offline") /\ NoEdit
            \/ Edit /\ Site!Draw(c)
            \/ Edit /\ \E a \in Areas : Site!SetArea(c, a)
            \/ Edit /\ \E on \in BOOLEAN : Site!Enable(c, on)

Losses ==
    \/ \E d \in 1 .. MaxStep : Site!Wait(d) /\ NoEdit
    \/ \E c \in First :
            \/ NoEdit /\ \E s \in {"live", "recovering", "offline"} : Site!StatusTurns(c, s)
            \/ Site!Analysed(c, {}, Nothing) /\ NoEdit
            \/ Site!Retry(c) /\ NoEdit
            \/ Edit /\ \E on \in BOOLEAN : Site!Enable(c, on)

SiteNext ==
    \/ Site!Update /\ NoEdit
    \/ subject = "count" /\ Count
    \/ subject = "alerts" /\ Losses

MCNext ==
    /\ UNCHANGED subject
    /\ \/ subject = "link" /\ Next /\ HealthTurnsOnce /\ UNCHANGED <<siteVars, siteEdits>>
       \/ subject # "link" /\ SiteNext /\ UNCHANGED vars

\* Of the link, that tasks which can run do, and what is written arrives.
MCSpec ==
    /\ MCInit /\ [][MCNext]_<<subject, vars, siteVars, siteEdits>>
    /\ subject = "link" => Fairness

FiguresAreWhole == Site!FiguresAreWhole
TimelineIsEarned == Site!TimelineIsEarned
=============================================================================
