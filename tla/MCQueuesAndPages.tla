-------------------------- MODULE MCQueuesAndPages --------------------------
(***************************************************************************)
(* What answers later: the queues and the pages of the web client, one at  *)
(* a time.  A behaviour is one of Notifications, Recommender, Screens,     *)
(* Routing, Toggles or Scanner.  They take turns in using the variables v1 *)
(* to v11.                                                                 *)
(***************************************************************************)
EXTENDS Pages, Naturals, FiniteSets, TLC

CONSTANTS
    Users, Jobs, MaxFailures,           \* Notifications
    Artifacts, Model, MaxTrainings, MaxBreaks, \* Recommender
    MaxVisits, MaxPages, MaxSends,      \* Screens
    Items, Codes, MaxClicks, MaxScans,  \* Toggles, Scanner
    None

ASSUME NoneIsNoJob == None \notin Jobs
ASSUME ModelIsAnArtifact == Model \in Artifacts

VARIABLES
    part, \* what runs
    v1, v2, v3, v4, v5, v6, v7, v8, v9, v10, v11

vars == <<part, v1, v2, v3, v4, v5, v6, v7, v8, v9, v10, v11>>

N == INSTANCE Notifications
        WITH MaxBreaks <- MaxFailures, job <- v1, worker <- v2, unread <- v3, seen <- v4,
             stored <- v5, online <- v6, badge <- v7, stale <- v8, breaks <- v9

R == INSTANCE Recommender
        WITH disk <- v1, memory <- v2, lastTrained <- v3, trainer <- v4, trained <- v5,
             job <- v6, answer <- v7, cache <- v8, cleared <- v9, torn <- v10, breaks <- v11

W == INSTANCE Screens
        WITH Sites <- Site, role <- v1, page <- v2, opened <- v3, cache <- v4, asked <- v5,
             coming <- v6, failed <- v7, sending <- v8, answered <- v9, visits <- v10,
             sends <- v11

G == INSTANCE Routing
        WITH cookie <- v1, disk <- v2, store <- v3, app <- v4, page <- v5, target <- v6,
             back <- v7, wanted <- v8, stage <- v9, agreed <- v10, hops <- v11

ASSUME NoneIsNoPage == None \notin G!Routes \cup G!Roles

L == INSTANCE Toggles
        WITH selected <- v1, cached <- v2, stored <- v3, saves <- v4, reading <- v5,
             clicks <- v6, burst <- v7, spoilt <- v8

Q == INSTANCE Scanner
        WITH verdict <- v1, checking <- v2, latest <- v3, cooling <- v4, timers <- v5,
             scans <- v6, ignored <- v7

Init ==
    \/ part = "notifications" /\ N!Init /\ v10 = None /\ v11 = None
    \/ part = "recommender" /\ R!Init
    \/ part = "screens" /\ W!Init
    \/ part = "routing" /\ G!Init
    \/ part = "toggles" /\ L!Init /\ v9 = None /\ v10 = None /\ v11 = None
    \/ part = "scanner" /\ Q!Init /\ v8 = None /\ v9 = None /\ v10 = None /\ v11 = None

Next ==
    /\ UNCHANGED part
    /\ \/ part = "notifications" /\ N!Next /\ UNCHANGED <<v10, v11>>
       \/ part = "recommender" /\ R!Next
       \/ part = "screens" /\ W!Next
       \/ part = "routing" /\ G!Next
       \/ part = "toggles" /\ L!Next /\ UNCHANGED <<v9, v10, v11>>
       \/ part = "scanner" /\ Q!Next /\ UNCHANGED <<v8, v9, v10, v11>>

\* BullMQ's worker goes on while there are jobs, and open pages poll.
Fairness ==
    /\ WF_vars(part = "notifications" /\ N!Work /\ UNCHANGED <<part, v10, v11>>)
    /\ \A u \in Users :
           WF_vars(part = "notifications" /\ N!Poll(u) /\ UNCHANGED <<part, v10, v11>>)

Spec == Init /\ [][Next]_vars /\ Fairness

-----------------------------------------------------------------------------
(* See the modules.                                                        *)

\* A job is stored once per attempt that got so far.
StoredOncePerAttempt == part = "notifications" => N!StoredOncePerAttempt

\* JobsEnd and BadgeCatchesUp of module Notifications.
QueuesDrain ==
    /\ \A j \in Jobs : (part = "notifications" /\ N!Waiting(j)) ~>
                         (part = "notifications" => N!Ended(j))
    /\ \A u \in Users : []<>(part = "notifications" => N!BadgeIsRight(u))

\* Requests are answered from one training, the last one unless the cache was late.
AnswersAreCurrent == part = "recommender" => R!AnswersAreCurrent

\* A page shows what the mutations answered since have made of its data.
PagesAreCurrent == part = "screens" => W!PagesAreCurrent

\* Redirects end, toggles show what is stored, verdicts of the scanner are shown.
ClientIsSteady ==
    /\ part = "routing" => G!NavigationSettles
    /\ part = "toggles" => L!TogglesShowTheStored
    /\ part = "scanner" => Q!EveryVerdictIsShown
=============================================================================
