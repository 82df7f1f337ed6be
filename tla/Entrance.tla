------------------------------ MODULE Entrance ------------------------------
(***************************************************************************)
(* The entrance of an event: AttendanceService                             *)
(* (src/apps/api/src/attendance/attendance.service.ts) and the guests that *)
(* attendees bring, EventsService.inviteGuests                             *)
(* (src/apps/api/src/events/events.service.ts), together with the guest    *)
(* passes of module Graduation.                                            *)
(*                                                                         *)
(* A ticket is a signed JWT: that of a user with a registration, that of   *)
(* an invited guest, or that of a guest pass.  A check-in looks the ticket *)
(* up, looks for an attendance row, and inserts one: three statements and  *)
(* no unique index.                                                        *)
(***************************************************************************)
EXTENDS Graduation

CONSTANTS
    Users,     \* users with a registration
    Emails,    \* addresses of guests
    Sessions,  \* sessions of the event
    Gates,     \* check-in calls in flight at once (bound)
    Inviters,  \* inviteGuests calls in flight at once (bound)
    GuestLimit \* event.guestLimitPerUser

ASSUME LimitsAreNat == GuestLimit \in Nat \ {0}
ASSUME EmailsAreFinite == IsFiniteSet(Emails)
ASSUME NoneIsNobody == None \notin Users \cup Emails \cup Sessions
ASSUME HoldersDiffer == Users \cap Emails = {} /\ (Users \cup Emails) \cap Passes = {}

VARIABLES
    confirmed,  \* users whose registration is CONFIRMED
    invitedBy,  \* table "event_invites": address -> inviter
    ticketed,   \* addresses a guest ticket was mailed to
    inviting,   \* inviteGuests calls
    scan,       \* check-in calls: the row about to be inserted
    attendance, \* table "attendance": key -> rows
    raced,      \* history: keys two gates admitted at once
    overbooked  \* history: users with two inviteGuests calls at once

door == <<confirmed, invitedBy, ticketed, inviting, scan, attendance, raced, overbooked>>

-----------------------------------------------------------------------------
\* What a check-in looks for: the holder and the session, if any.  A guest
\* pass is looked up by its QR code alone.
Keys == (Users \cup Emails) \X (Sessions \cup {None}) \cup Passes \X {None}

ASSUME NoneIsNoKey == None \notin Keys

NoInviting == [pc |-> "none", user |-> None, left |-> {}, email |-> None]

InvitedBy(u) == {e \in Emails : invitedBy[e] = u}

\* Mutant: the signature of a ticket is trusted.
ValidIfSigned(k) == k[1] \in confirmed \cup ticketed \cup sent

\* Tickets a check-in accepts.
Valid(k) ==
    \/ k[1] \in confirmed
    \/ k[1] \in ticketed
    \/ k[1] \in sent /\ pass[k[1]].state = "stored"

EntranceInit ==
    /\ Init
    /\ confirmed = {}
    /\ invitedBy = [e \in Emails |-> None]
    /\ ticketed = {}
    /\ inviting = [i \in Inviters |-> NoInviting]
    /\ scan = [o \in Gates |-> None]
    /\ attendance = [k \in Keys |-> 0]
    /\ raced = {}
    /\ overbooked = {}

\* A registration becomes CONFIRMED or is cancelled (module Registration).
Confirm(u) ==
    /\ confirmed' = confirmed \cup {u}
    /\ UNCHANGED <<invitedBy, ticketed, inviting, scan, attendance, raced, overbooked>>

Cancel(u) ==
    /\ confirmed' = confirmed \ {u}
    /\ UNCHANGED <<invitedBy, ticketed, inviting, scan, attendance, raced, overbooked>>

-----------------------------------------------------------------------------
\* Mutant: the guests already invited are not counted.
InviteUncounted(i, u, E) ==
    /\ inviting[i] = NoInviting
    /\ u \in confirmed
    /\ Cardinality(E) <= GuestLimit
    /\ inviting' = [inviting EXCEPT ![i] = [pc |-> "next", user |-> u, left |-> E, email |-> None]]
    /\ overbooked' = overbooked \cup {v \in {u} : \E j \in Inviters : inviting[j].user = v}
    /\ UNCHANGED <<confirmed, invitedBy, ticketed, scan, attendance, raced>>

\* inviteGuests up to its loop.
InviteCheck(i, u, E) ==
    /\ inviting[i] = NoInviting
    /\ u \in confirmed
    /\ Cardinality(InvitedBy(u)) + Cardinality(E) <= GuestLimit
    /\ inviting' = [inviting EXCEPT ![i] = [pc |-> "next", user |-> u, left |-> E, email |-> None]]
    /\ overbooked' = overbooked \cup {v \in {u} : \E j \in Inviters : inviting[j].user = v}
    /\ UNCHANGED <<confirmed, invitedBy, ticketed, scan, attendance, raced>>

\* The next address of the loop; one that is invited already is skipped.
InviteFind(i, e) ==
    /\ inviting[i].pc = "next"
    /\ e \in inviting[i].left
    /\ inviting' = [inviting EXCEPT
                      ![i].left = @ \ {e},
                      ![i].pc = IF invitedBy[e] = None THEN "create" ELSE "next",
                      ![i].email = IF invitedBy[e] = None THEN e ELSE None]
    /\ UNCHANGED <<confirmed, invitedBy, ticketed, scan, attendance, raced, overbooked>>

\* Mutant: the row names the address as its inviter.
InviteByEmail(i) ==
    /\ inviting[i].pc = "create"
    /\ LET e == inviting[i].email
       IN  /\ invitedBy' = [invitedBy EXCEPT ![e] = e]
           /\ inviting' = [inviting EXCEPT ![i].pc = "next", ![i].email = None]
    /\ UNCHANGED <<confirmed, ticketed, scan, attendance, raced, overbooked>>

\* The insert, whose unique index may end the call, and the mail with the
\* ticket, which may fail.
InviteCreate(i) ==
    /\ inviting[i].pc = "create"
    /\ LET e == inviting[i].email
       IN  \/ /\ invitedBy[e] # None
              /\ inviting' = [inviting EXCEPT ![i] = NoInviting]
              /\ UNCHANGED <<invitedBy, ticketed>>
           \/ /\ invitedBy[e] = None
              /\ invitedBy' = [invitedBy EXCEPT ![e] = inviting[i].user]
              /\ ticketed' \in {ticketed, ticketed \cup {e}}
              /\ inviting' = [inviting EXCEPT ![i].pc = "next", ![i].email = None]
    /\ UNCHANGED <<confirmed, scan, attendance, raced, overbooked>>

InviteDone(i) ==
    /\ inviting[i].pc = "next"
    /\ inviting[i].left = {}
    /\ inviting' = [inviting EXCEPT ![i] = NoInviting]
    /\ UNCHANGED <<confirmed, invitedBy, ticketed, scan, attendance, raced, overbooked>>

-----------------------------------------------------------------------------
\* Mutant: the attendance row is not looked for.
ScanAgain(o, k) ==
    /\ scan[o] = None
    /\ Valid(k)
    /\ scan' = [scan EXCEPT ![o] = k]
    /\ raced' = raced \cup {r \in {k} : \E other \in Gates \ {o} : scan[other] = r}
    /\ UNCHANGED <<confirmed, invitedBy, ticketed, inviting, attendance, overbooked>>

\* checkIn and, for users, manualCheckIn, up to the insert.
ScanCheck(o, k) ==
    /\ scan[o] = None
    /\ Valid(k)
    /\ attendance[k] = 0
    /\ scan' = [scan EXCEPT ![o] = k]
    /\ raced' = raced \cup {r \in {k} : \E other \in Gates \ {o} : scan[other] = r}
    /\ UNCHANGED <<confirmed, invitedBy, ticketed, inviting, attendance, overbooked>>

\* The insert, whatever has become of the ticket.
ScanAdmit(o) ==
    /\ scan[o] # None
    /\ attendance' = [attendance EXCEPT ![scan[o]] = @ + 1]
    /\ scan' = [scan EXCEPT ![o] = None]
    /\ UNCHANGED <<confirmed, invitedBy, ticketed, inviting, raced, overbooked>>

-----------------------------------------------------------------------------
AtTheDoor ==
    \/ \E u \in Users : Confirm(u) \/ Cancel(u)
    \/ \E i \in Inviters, u \in Users, E \in SUBSET Emails \ {{}} : InviteCheck(i, u, E)
    \/ \E i \in Inviters, e \in Emails : InviteFind(i, e)
    \/ \E i \in Inviters : InviteCreate(i) \/ InviteDone(i)
    \/ \E o \in Gates, k \in Keys : ScanCheck(o, k)
    \/ \E o \in Gates : ScanAdmit(o)

\* The restart of the process reaches these calls too.
RestartAll ==
    /\ Restart
    /\ inviting' = [i \in Inviters |-> NoInviting]
    /\ scan' = [o \in Gates |-> None]
    /\ UNCHANGED <<confirmed, invitedBy, ticketed, attendance, raced, overbooked>>

EntranceNext ==
    \/ AtTheDoor /\ UNCHANGED vars
    \/ (Claiming \/ Delivering) /\ UNCHANGED door
    \/ RestartAll

EntranceSpec == EntranceInit /\ [][EntranceNext]_<<vars, door>>

-----------------------------------------------------------------------------
(* Properties.                                                             *)

\* Attendees, invitations, calls and rows are well formed (type invariant).
EntranceTypeOK ==
    /\ TypeOK
    /\ confirmed \in SUBSET Users
    /\ invitedBy \in [Emails -> Users \cup {None}]
    /\ ticketed \in SUBSET Emails
    /\ inviting \in [Inviters -> [pc : {"none", "next", "create"}, user : Users \cup {None},
                                  left : SUBSET Emails, email : Emails \cup {None}]]
    /\ scan \in [Gates -> Keys \cup {None}]
    /\ attendance \in [Keys -> Nat]
    /\ raced \in SUBSET Keys
    /\ overbooked \in SUBSET Users

\* A ticket gives one attendance row per session, by QR code or by hand, in
\* any order with cancellations and restarts, unless two gates had it in hand
\* at the same time (checkIn, manualCheckIn).
AdmittedOnce == \A k \in Keys \ raced : attendance[k] <= 1

\* A user brings no more guests than the event allows, unless two of the
\* user's calls ran at the same time (inviteGuests).
GuestsWithinLimit == \A u \in Users \ overbooked : Cardinality(InvitedBy(u)) <= GuestLimit

\* The parents let in for a graduate hold passes of a claim that succeeded
\* and are no more than the graduate's slots, unless the claim was submitted
\* twice at once: a pass mailed by a claim that failed later opens no door
\* (submitClaim, checkIn).
ParentsAdmittedWithinSlots ==
    LET admitted == {p \in Passes : attendance[<<p, None>>] > 0}
    IN  \A g \in Graduates \ overlapped :
           LET parents == {p \in admitted : pass[p].record = g}
           IN  parents # {} => /\ \A p \in parents : pass[p].state = "stored"
                               /\ Cardinality(parents) <= slots[g]
=============================================================================
