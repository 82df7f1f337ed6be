-------------------------------- MODULE Team --------------------------------
(***************************************************************************)
(* The people of one event: OrganizersService, InvitationsService and      *)
(* AnnouncementsService (src/apps/api/src/events/).                        *)
(*                                                                         *)
(* The creator and co-organizers who accepted may invite others to the     *)
(* team, invite guests by address, and make announcements.  Every handler  *)
(* looks at the rows, and writes one of them by id some awaits later;      *)
(* nothing is locked and no statement repeats the check.                   *)
(***************************************************************************)
EXTENDS Naturals, FiniteSets

CONSTANTS
    Members,    \* users, among them the creator
    Creator,    \* the user who created the event
    OrgIds,     \* primary keys of event_organizers (bound on rows ever made)
    InviteIds,  \* primary keys of event_invites (bound on rows ever made)
    Strangers,  \* addresses that belong to no user
    Posts,      \* primary keys of announcements (bound on rows ever made)
    Calls,      \* handlers in flight at once (bound)
    None        \* NULL

Guests == Members \cup Strangers \* an account stands for its address

VARIABLES
    phase,    \* status of the event: no invitations yet, open, or over
    org,      \* table "event_organizers"
    invite,   \* table "event_invites"
    post,     \* table "announcements": author of each
    deed,     \* handlers in flight
    accepted, \* history: users who ever accepted to be co-organizers
    raced     \* history: rows two handlers were about to change at once

vars == <<phase, org, invite, post, deed, accepted, raced>>

-----------------------------------------------------------------------------
RowIds == OrgIds \cup InviteIds
Status == {"none", "PENDING", "ACCEPTED", "REJECTED", "gone"}
OrgRow == [user : Members \cup {None}, status : Status]
InviteRow == [guest : Guests \cup {None}, by : Members \cup {None}, status : Status]
NoOrg == [user |-> None, status |-> "none"]
NoInvite == [guest |-> None, by |-> None, status |-> "none"]

Deed == [pc : {"none", "addOrg", "answer", "remove", "send", "post", "edit"},
         by : Members \cup {None}, id : RowIds \cup Posts \cup {None},
         user : Members \cup {None}, to : SUBSET Guests, status : Status]
NoDeed == [pc |-> "none", by |-> None, id |-> None, user |-> None, to |-> {}, status |-> "none"]

Init ==
    /\ phase = "before"
    /\ org = [i \in OrgIds |-> NoOrg]
    /\ invite = [i \in InviteIds |-> NoInvite]
    /\ post = [p \in Posts |-> None]
    /\ deed = [c \in Calls |-> NoDeed]
    /\ accepted = {}
    /\ raced = {}

Exists(row) == row.status \notin {"none", "gone"}
StatusOf(i) == IF i \in OrgIds THEN org[i].status ELSE invite[i].status

\* Mutant: the row of a user counts before it is answered.
MayActInvited(u) == u = Creator \/ \E i \in OrgIds :
    org[i].user = u /\ org[i].status \in {"PENDING", "ACCEPTED"}

\* assertOrganizerOrCreator, assertEventOrganizer.
MayAct(u) == u = Creator \/ \E i \in OrgIds : org[i] = [user |-> u, status |-> "ACCEPTED"]

At(c, pc) == deed[c].pc = pc
Begin(c, step) == At(c, "none") /\ deed' = [deed EXCEPT ![c] = step]
Finish(c) == deed' = [deed EXCEPT ![c] = NoDeed]
Touches(i) == \E c \in Calls : deed[c].id = i /\ deed[c].pc \in {"answer", "remove"}
Note(i) == raced' = IF Touches(i) THEN raced \cup {i} ELSE raced

\* The event is approved, and ends (module EventLifecycle).
EventMoves ==
    /\ phase # "over"
    /\ phase' = IF phase = "before" THEN "open" ELSE "over"
    /\ UNCHANGED <<org, invite, post, deed, accepted, raced>>

-----------------------------------------------------------------------------
(* OrganizersService.                                                      *)

\* invite: any row of the user, even a rejected one, is a conflict.
InviteOrganizer(c, by, u) ==
    /\ MayAct(by)
    /\ \A i \in OrgIds : Exists(org[i]) => org[i].user # u
    /\ Begin(c, [NoDeed EXCEPT !.pc = "addOrg", !.user = u])
    /\ UNCHANGED <<phase, org, invite, post, accepted, raced>>

\* The insert; the unique index refuses a second row of the user.
AddOrganizer(c, i) ==
    /\ At(c, "addOrg")
    /\ org[i].status = "none"
    /\ org' = IF \E j \in OrgIds : Exists(org[j]) /\ org[j].user = deed[c].user
                THEN org ELSE [org EXCEPT ![i] = [user |-> deed[c].user, status |-> "PENDING"]]
    /\ Finish(c)
    /\ UNCHANGED <<phase, invite, post, accepted, raced>>

\* respond, of both services: the row is one's own and PENDING.
Respond(c, i, u, s) ==
    /\ \/ i \in OrgIds /\ org[i].user = u
       \/ i \in InviteIds /\ invite[i].guest = u
    /\ StatusOf(i) = "PENDING"
    /\ Begin(c, [NoDeed EXCEPT !.pc = "answer", !.id = i, !.status = s])
    /\ Note(i)
    /\ UNCHANGED <<phase, org, invite, post, accepted>>

\* Mutant: an invitation that was answered can be answered again.
RespondAgain(c, i, u, s) ==
    /\ \/ i \in OrgIds /\ org[i].user = u
       \/ i \in InviteIds /\ invite[i].guest = u
    /\ StatusOf(i) \in {"PENDING", "REJECTED"}
    /\ Begin(c, [NoDeed EXCEPT !.pc = "answer", !.id = i, !.status = s])
    /\ Note(i)
    /\ UNCHANGED <<phase, org, invite, post, accepted>>

\* update by id: it fails (P2025) if the row is gone, and writes over another
\* answer.  The notice to the inviter that follows is module Notifications'.
WriteAnswer(c) ==
    LET d == deed[c]
    IN  /\ At(c, "answer")
        /\ IF StatusOf(d.id) = "gone"
             THEN UNCHANGED <<org, invite, accepted>>
             ELSE /\ org' = IF d.id \in OrgIds THEN [org EXCEPT ![d.id].status = d.status] ELSE org
                  /\ invite' = IF d.id \in InviteIds
                                 THEN [invite EXCEPT ![d.id].status = d.status] ELSE invite
                  /\ accepted' = IF d.id \in OrgIds /\ d.status = "ACCEPTED"
                                   THEN accepted \cup {org[d.id].user} ELSE accepted
        /\ Finish(c)
        /\ UNCHANGED <<phase, post, raced>>

\* remove: of oneself, or by someone who may act; never the creator.
RemoveOrganizer(c, by, i) ==
    /\ Exists(org[i])
    /\ org[i].user # Creator
    /\ by = org[i].user \/ MayAct(by)
    /\ Begin(c, [NoDeed EXCEPT !.pc = "remove", !.id = i])
    /\ Note(i)
    /\ UNCHANGED <<phase, org, invite, post, accepted>>

-----------------------------------------------------------------------------
(* InvitationsService.                                                     *)

\* bulkInvite, importCsv: the addresses that have no row yet.
InviteGuests(c, by, E) ==
    /\ MayAct(by)
    /\ phase = "open"
    /\ LET new == E \ {invite[i].guest : i \in {j \in InviteIds : Exists(invite[j])}}
       IN  /\ new # {}
           /\ Begin(c, [NoDeed EXCEPT !.pc = "send", !.by = by, !.to = new])
    /\ UNCHANGED <<phase, org, invite, post, accepted, raced>>

\* createMany inserts all of them or, if one has a row by now, none.
InsertInvites(c, ids) ==
    LET d == deed[c]
        taken == \E i \in InviteIds : Exists(invite[i]) /\ invite[i].guest \in d.to
    IN  /\ At(c, "send")
        /\ \A i \in ids : invite[i].status = "none"
        /\ Cardinality(ids) = Cardinality(d.to)
        /\ IF taken THEN UNCHANGED invite
           ELSE \E f \in [ids -> d.to] :
                  /\ \A g \in d.to : \E i \in ids : f[i] = g
                  /\ invite' = [i \in InviteIds |->
                        IF i \in ids THEN [guest |-> f[i], by |-> d.by, status |-> "PENDING"]
                                     ELSE invite[i]]
        /\ Finish(c)
        /\ UNCHANGED <<phase, org, post, accepted, raced>>

\* cancel: by its sender, while it is PENDING.
CancelInvite(c, by, i) ==
    /\ invite[i].by = by
    /\ invite[i].status = "PENDING"
    /\ Begin(c, [NoDeed EXCEPT !.pc = "remove", !.id = i])
    /\ Note(i)
    /\ UNCHANGED <<phase, org, invite, post, accepted>>

\* The delete of remove and of cancel, by id.
DeleteRow(c) ==
    LET i == deed[c].id
    IN  /\ At(c, "remove")
        /\ org' = IF i \in OrgIds THEN [org EXCEPT ![i].status = "gone"] ELSE org
        /\ invite' = IF i \in InviteIds THEN [invite EXCEPT ![i].status = "gone"] ELSE invite
        /\ Finish(c)
        /\ UNCHANGED <<phase, post, accepted, raced>>

-----------------------------------------------------------------------------
(* AnnouncementsService; what its mails become is module Notifications.    *)

Announce(c, by) ==
    /\ MayAct(by)
    /\ phase = "open"
    /\ Begin(c, [NoDeed EXCEPT !.pc = "post", !.by = by])
    /\ UNCHANGED <<phase, org, invite, post, accepted, raced>>

InsertPost(c, p) ==
    /\ At(c, "post")
    /\ post[p] = None
    /\ post' = [post EXCEPT ![p] = deed[c].by]
    /\ Finish(c)
    /\ UNCHANGED <<phase, org, invite, accepted, raced>>

\* update keeps the author, remove deletes the row: by any organizer.
RemovePost(c, by, p) ==
    /\ post[p] # None
    /\ MayAct(by)
    /\ Begin(c, [NoDeed EXCEPT !.pc = "edit", !.id = p])
    /\ UNCHANGED <<phase, org, invite, post, accepted, raced>>

DeletePost(c) ==
    /\ At(c, "edit")
    /\ post' = [post EXCEPT ![deed[c].id] = None]
    /\ Finish(c)
    /\ UNCHANGED <<phase, org, invite, accepted, raced>>

\* A statement fails or the process stops: the statements before it stay.
Die(c) ==
    /\ deed[c].pc # "none"
    /\ Finish(c)
    /\ UNCHANGED <<phase, org, invite, post, accepted, raced>>

Next ==
    \/ EventMoves
    \/ \E c \in Calls :
        \/ \E u \in Members :
            \/ \E v \in Members : InviteOrganizer(c, u, v)
            \/ \E i \in RowIds, s \in {"ACCEPTED", "REJECTED"} : Respond(c, i, u, s)
            \/ \E i \in OrgIds : RemoveOrganizer(c, u, i)
            \/ \E i \in InviteIds : CancelInvite(c, u, i)
            \/ \E E \in SUBSET Guests : InviteGuests(c, u, E)
            \/ Announce(c, u)
            \/ \E p \in Posts : RemovePost(c, u, p)
        \/ \E i \in OrgIds : AddOrganizer(c, i)
        \/ \E ids \in SUBSET InviteIds : InsertInvites(c, ids)
        \/ \E p \in Posts : InsertPost(c, p)
        \/ WriteAnswer(c)
        \/ DeleteRow(c)
        \/ DeletePost(c)
        \/ Die(c)

Spec == Init /\ [][Next]_vars

-----------------------------------------------------------------------------
TypeOK ==
    /\ phase \in {"before", "open", "over"}
    /\ org \in [OrgIds -> OrgRow]
    /\ invite \in [InviteIds -> InviteRow]
    /\ post \in [Posts -> Members \cup {None}]
    /\ deed \in [Calls -> Deed]
    /\ accepted \subseteq Members
    /\ raced \subseteq RowIds

Answers == {"ACCEPTED", "REJECTED"}

\* An answer stands: it is never turned into the other one, and an invitation
\* a guest has answered is not cancelled, unless another handler was about to
\* change the row when the answer was given (organizers.service.ts:104,
\* invitations.service.ts:247: the status is read before, and not by, the write).
KeepsAnswers ==
    \A i \in RowIds \ raced :
        StatusOf(i) \in Answers =>
            StatusOf(i)' \in {StatusOf(i)} \cup IF i \in OrgIds THEN {"gone"} ELSE {}

\* Invitations and announcements come from the creator or from users who once
\* accepted to be co-organizers: no row of another user ever gave the right.
ActsByTheTeam ==
    /\ \A i \in InviteIds : Exists(invite[i]) => invite[i].by \in accepted \cup {Creator}
    /\ \A p \in Posts : post[p] # None => post[p] \in accepted \cup {Creator}

\* Both, as a property of steps.
KeepsTeam == KeepsAnswers /\ ActsByTheTeam'
TeamIsKept == [][KeepsTeam]_vars
=============================================================================
