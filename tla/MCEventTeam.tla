---------------------------- MODULE MCEventTeam ----------------------------
(***************************************************************************)
(* Events and the teams of events for TLC.  A behaviour is one of two      *)
(* parts: the life of the events, or the team of one event, whose status   *)
(* Team keeps as far as it reads it.                                       *)
(***************************************************************************)
EXTENDS MCEventLifecycle

CONSTANTS Members, Creator, OrgIds, InviteIds, Strangers, Posts, Calls

\* A key is of one table.
ASSUME RowsAreApart == OrgIds \cap InviteIds = {}

VARIABLES part, phase, org, invite, post, deed, accepted, raced

team == <<phase, org, invite, post, deed, accepted, raced>>

T == INSTANCE Team

PartInit == Init /\ T!Init /\ part \in {"events", "team"}

PartNext ==
    /\ UNCHANGED part
    /\ \/ part = "events" /\ Next /\ UNCHANGED team
       \/ part = "team" /\ T!Next /\ UNCHANGED vars

PartSpec == PartInit /\ [][PartNext]_<<vars, team, part>>

PartSymmetry == Symmetry \cup Permutations(Calls) \cup Permutations(InviteIds)

-----------------------------------------------------------------------------
\* See Team.
TeamIsKept == [][(part = "team") => T!KeepsTeam]_<<team, part>>
=============================================================================
