---------------------------- MODULE Registration ----------------------------
(***************************************************************************)
(* Registration and waitlist of ONE event: RegistrationService and         *)
(* WaitlistService of the API (src/apps/api/src/registration).             *)
(*                                                                         *)
(* register, cancelByGuest and removeByOrganizer each run inside one       *)
(* PostgreSQL SERIALIZABLE transaction; approveByOrganizer and             *)
(* rejectByOrganizer run outside any transaction, one autocommitted        *)
(* statement at a time.  A transaction is two steps here: the handler body *)
(* (Register, CancelByGuest, RemoveByOrganizer) reads the committed tables *)
(* as its snapshot, evaluates every guard and stages its writes; Commit    *)
(* makes them visible.  A transaction whose snapshot was overtaken is      *)
(* `stale': PostgreSQL refuses its commit (P2034, rethrown as a 409) and   *)
(* nothing retries it.  The notification jobs the body puts on the Redis   *)
(* queue are not part of the transaction and are visible at once.          *)
(*                                                                         *)
(* A call that ends in an error before its first write leaves no trace:    *)
(* it is the absence of a step.                                            *)
(***************************************************************************)
EXTENDS Naturals, FiniteSets

CONSTANTS
    Users,            \* guests of the event
    RegIds,           \* primary keys of "registrations" rows (bound on rows ever created)
    EntryIds,         \* primary keys of "event_waitlist" rows (bound on rows ever created)
    Requests,         \* transactions that may be open at once (bound)
    Approvals,        \* approve calls that may be in flight at once (bound)
    Capacity,         \* event.capacity
    RequiresApproval, \* event.requiresApproval
    None              \* NULL

ASSUME FiniteRegIds == IsFiniteSet(RegIds)
ASSUME CapacityIsNat == Capacity \in Nat
ASSUME ApprovalFlag == RequiresApproval \in BOOLEAN
ASSUME NoneIsNoRow == None \notin Users \cup EntryIds \cup RegIds

VARIABLES
    reg,       \* table "registrations": row id -> row
    wait,      \* table "event_waitlist": row id -> row
    ended,     \* event.endTime < now
    tx,        \* open transactions: staged writes and whether they are stale
    approving, \* approve calls between their capacity check and their update
    told       \* per guest, what the last notification job enqueued says

vars == <<reg, wait, ended, tx, approving, told>>

-----------------------------------------------------------------------------
(* Rows.  `from' is a history field: the waitlist entry a registration     *)
(* was promoted from.                                                      *)

Status == {"absent", "PENDING", "CONFIRMED", "CANCELLED"}

RegRow == [user : Users \cup {None}, status : Status, from : EntryIds \cup {None}]

WaitRow == [user : Users \cup {None}, position : Nat,
            state : {"absent", "waiting", "promoted"}]

NoReg == [user |-> None, status |-> "absent", from |-> None]

NoEntry == [user |-> None, position |-> 0, state |-> "absent"]

\* What a notification job tells its guest: WAITLIST_JOINED; WAITLIST_PROMOTED
\* or REGISTRATION_APPROVED; REGISTRATION_REJECTED or REGISTRATION_REMOVED.
Message == {"waitlisted", "registered", "refused"}

\* The rows a transaction writes are themselves a table, "absent" where it
\* writes nothing: no statement of this code deletes a registration, and a
\* deleted waitlist entry is kept as "promoted".
NoRegs == [i \in RegIds |-> NoReg]

NoEntries == [e \in EntryIds |-> NoEntry]

Overlay(writes, table, absent) ==
    [x \in DOMAIN table |-> IF writes[x] = absent THEN table[x] ELSE writes[x]]

-----------------------------------------------------------------------------
(* What the handlers read.                                                 *)

FreeRegs == {i \in RegIds : reg[i].status = "absent"}

FreeEntries == {e \in EntryIds : wait[e].state = "absent"}

Confirmed == {i \in RegIds : reg[i].status = "CONFIRMED"}

IsActive(i) == reg[i].status \in {"PENDING", "CONFIRMED"}

Active(u) == {i \in RegIds : reg[i].user = u /\ IsActive(i)}

Waiting == {e \in EntryIds : wait[e].state = "waiting"}

\* (aggregate._max.position ?? 0) + 1
IsNextPosition(p) ==
    /\ \A e \in Waiting : wait[e].position < p
    /\ p = 1 \/ \E e \in Waiting : wait[e].position + 1 = p

NextPositions ==
    {p \in {1} \cup {wait[e].position + 1 : e \in Waiting} : IsNextPosition(p)}

\* Mutant: orderBy position desc.
IsHighest(e) == e \in Waiting /\ \A f \in Waiting : wait[e].position >= wait[f].position

\* orderBy position asc, first row
IsLowest(e) == e \in Waiting /\ \A f \in Waiting : wait[e].position <= wait[f].position

NewStatus == IF RequiresApproval THEN "PENDING" ELSE "CONFIRMED"

WithStatus(i, s) == [reg[i] EXCEPT !.status = s]

-----------------------------------------------------------------------------
(* Transactions.                                                           *)

Closed == [open |-> FALSE, stale |-> FALSE, reg |-> NoRegs, wait |-> NoEntries]

Transaction == [open : BOOLEAN, stale : BOOLEAN,
                reg : [RegIds -> RegRow], wait : [EntryIds -> WaitRow]]

\* Transaction r has run its body against the committed tables.
Stage(r, regWrites, waitWrites) ==
    /\ ~tx[r].open
    /\ tx' = [tx EXCEPT ![r] = [open |-> TRUE, stale |-> FALSE,
                                reg |-> regWrites, wait |-> waitWrites]]
    /\ UNCHANGED <<reg, wait, ended, approving>>

\* A statement outside any transaction updates row i: the open transactions
\* that also write it will fail with "concurrent update".
Overtake(i) ==
    tx' = [r \in Requests |-> [tx[r] EXCEPT !.stale = @ \/ tx[r].reg[i] # NoReg]]

Tell(u, message) == [told EXCEPT ![u] = message]

-----------------------------------------------------------------------------
Init ==
    /\ reg = NoRegs
    /\ wait = NoEntries
    /\ ended = FALSE
    /\ tx = [r \in Requests |-> Closed]
    /\ approving = [a \in Approvals |-> None]
    /\ told = [u \in Users |-> "none"]

\* Mutant: the capacity comparison is off by one.
TakeOneSeatTooMany(r, u) ==
    /\ Cardinality(Confirmed) <= Capacity
    /\ \E i \in FreeRegs :
          Stage(r, [NoRegs EXCEPT ![i] = [user |-> u, status |-> NewStatus, from |-> None]], NoEntries)
    /\ UNCHANGED told

\* register, when a seat is free.  The waitlist is not consulted.
TakeSeat(r, u) ==
    /\ Cardinality(Confirmed) < Capacity
    /\ \E i \in FreeRegs :
          Stage(r, [NoRegs EXCEPT ![i] = [user |-> u, status |-> NewStatus, from |-> None]], NoEntries)
    /\ UNCHANGED told

\* Mutant: no search for an existing entry.
AddToWaitlistAgain(r, u) ==
    /\ Cardinality(Confirmed) >= Capacity
    /\ \E e \in FreeEntries, p \in NextPositions :
          Stage(r, NoRegs, [NoEntries EXCEPT ![e] = [user |-> u, position |-> p, state |-> "waiting"]])
    /\ told' = Tell(u, "waitlisted")

\* register -> addToWaitlist, when the event is full.
AddToWaitlist(r, u) ==
    /\ Cardinality(Confirmed) >= Capacity
    /\ \A e \in Waiting : wait[e].user # u
    /\ \E e \in FreeEntries, p \in NextPositions :
          Stage(r, NoRegs, [NoEntries EXCEPT ![e] = [user |-> u, position |-> p, state |-> "waiting"]])
    /\ told' = Tell(u, "waitlisted")

Register(r, u) ==
    /\ ~ended
    /\ Active(u) = {}
    /\ TakeSeat(r, u) \/ AddToWaitlist(r, u)

\* Mutant: the promoted entry is not deleted.
PromoteAndKeep(r, i, row, base) ==
    \E e \in EntryIds, j \in FreeRegs :
       /\ IsLowest(e)
       /\ Stage(r, [NoRegs EXCEPT ![i] = row,
                                  ![j] = [user |-> wait[e].user, status |-> NewStatus, from |-> e]],
                   NoEntries)
       /\ told' = [base EXCEPT ![wait[e].user] = "registered"]

\* promoteNext, in the transaction that also writes row i and has already
\* enqueued the notifications of `base'.
PromoteNext(r, i, row, base) ==
    \E e \in EntryIds, j \in FreeRegs :
       /\ IsLowest(e)
       /\ Stage(r, [NoRegs EXCEPT ![i] = row,
                                  ![j] = [user |-> wait[e].user, status |-> NewStatus, from |-> e]],
                   [NoEntries EXCEPT ![e] = [wait[e] EXCEPT !.state = "promoted"]])
       /\ told' = [base EXCEPT ![wait[e].user] = "registered"]

\* The update of row i with nobody to promote.
CancelOnly(r, i, base) ==
    /\ Stage(r, [NoRegs EXCEPT ![i] = WithStatus(i, "CANCELLED")], NoEntries)
    /\ told' = base

\* Mutant: the freed seat is not passed on.
CancelWithoutPromotion(r, i) ==
    /\ IsActive(i)
    /\ CancelOnly(r, i, told)

CancelByGuest(r, i) ==
    /\ IsActive(i)
    /\ IF reg[i].status = "CONFIRMED" /\ Waiting # {}
          THEN PromoteNext(r, i, WithStatus(i, "CANCELLED"), told)
          ELSE CancelOnly(r, i, told)

\* No guard on the row's status: a PENDING or CANCELLED row is "removed" too,
\* and the next guest is promoted whatever it was.
RemoveByOrganizer(r, i) ==
    /\ i \notin FreeRegs
    /\ LET removed == Tell(reg[i].user, "refused")
       IN  IF Waiting # {}
             THEN PromoteNext(r, i, WithStatus(i, "CANCELLED"), removed)
             ELSE CancelOnly(r, i, removed)

\* Mutant: an isolation level that lets overtaken transactions commit.
CommitUnchecked(r) ==
    /\ tx[r].open
    /\ reg' = Overlay(tx[r].reg, reg, NoReg)
    /\ wait' = Overlay(tx[r].wait, wait, NoEntry)
    /\ tx' = [tx EXCEPT ![r] = Closed]
    /\ UNCHANGED <<ended, approving, told>>

\* COMMIT.  Every other transaction open at this moment read a snapshot that
\* this one overtakes.
Commit(r) ==
    /\ tx[r].open
    /\ ~tx[r].stale
    /\ reg' = Overlay(tx[r].reg, reg, NoReg)
    /\ wait' = Overlay(tx[r].wait, wait, NoEntry)
    /\ tx' = [q \in Requests |-> IF q = r THEN Closed
                                 ELSE [tx[q] EXCEPT !.stale = tx[q].open]]
    /\ UNCHANGED <<ended, approving, told>>

\* ROLLBACK: a serialization failure (P2034), the transaction's time limit, an
\* error of the queue, or a crash of the API process.
Abort(r) ==
    /\ tx[r].open
    /\ tx' = [tx EXCEPT ![r] = Closed]
    /\ UNCHANGED <<reg, wait, ended, approving, told>>

\* approveByOrganizer up to its capacity check; no status is checked.
ApproveCheck(a, i) ==
    /\ approving[a] = None
    /\ i \notin FreeRegs
    /\ Cardinality(Confirmed) < Capacity
    /\ approving' = [approving EXCEPT ![a] = i]
    /\ UNCHANGED <<reg, wait, ended, tx, told>>

\* approveByOrganizer from its update on.
ApproveUpdate(a) ==
    /\ approving[a] # None
    /\ reg' = [reg EXCEPT ![approving[a]] = WithStatus(approving[a], "CONFIRMED")]
    /\ Overtake(approving[a])
    /\ told' = Tell(reg[approving[a]].user, "registered")
    /\ approving' = [approving EXCEPT ![a] = None]
    /\ UNCHANGED <<wait, ended>>

\* The process dies between the capacity check and the update.
ApproveLost(a) ==
    /\ approving[a] # None
    /\ approving' = [approving EXCEPT ![a] = None]
    /\ UNCHANGED <<reg, wait, ended, tx, told>>

\* Mutant: the row gets the bootstrapped but unused status REJECTED.
RejectAsRejected(i) ==
    /\ i \notin FreeRegs
    /\ reg' = [reg EXCEPT ![i] = WithStatus(i, "REJECTED")]
    /\ Overtake(i)
    /\ told' = Tell(reg[i].user, "refused")
    /\ UNCHANGED <<wait, ended, approving>>

\* rejectByOrganizer.  No status is checked and nobody is promoted.
RejectByOrganizer(i) ==
    /\ i \notin FreeRegs
    /\ reg' = [reg EXCEPT ![i] = WithStatus(i, "CANCELLED")]
    /\ Overtake(i)
    /\ told' = Tell(reg[i].user, "refused")
    /\ UNCHANGED <<wait, ended, approving>>

\* The clock passes event.endTime.
EventEnds ==
    /\ ~ended
    /\ ended' = TRUE
    /\ UNCHANGED <<reg, wait, tx, approving, told>>

-----------------------------------------------------------------------------
(* What guests alone can do, and what organizers add.                      *)

GuestNext ==
    \/ \E r \in Requests, u \in Users : Register(r, u)
    \/ \E r \in Requests, i \in RegIds : CancelByGuest(r, i)
    \/ \E r \in Requests : Commit(r) \/ Abort(r)
    \/ EventEnds

OrganizerNext ==
    \/ \E r \in Requests, i \in RegIds : RemoveByOrganizer(r, i)
    \/ \E a \in Approvals, i \in RegIds : ApproveCheck(a, i)
    \/ \E a \in Approvals : ApproveUpdate(a) \/ ApproveLost(a)
    \/ \E i \in RegIds : RejectByOrganizer(i)

Next == GuestNext \/ OrganizerNext

Spec == Init /\ [][Next]_vars

GuestSpec == Init /\ [][GuestNext]_vars

-----------------------------------------------------------------------------
(* Properties.                                                             *)

\* Every table, staged write and notification is well formed: writes that
\* a transaction stages are rows of the right table (type invariant).
TypeOK ==
    /\ reg \in [RegIds -> RegRow]
    /\ wait \in [EntryIds -> WaitRow]
    /\ ended \in BOOLEAN
    /\ tx \in [Requests -> Transaction]
    /\ approving \in [Approvals -> RegIds \cup {None}]
    /\ told \in [Users -> Message \cup {"none"}]

\* A waitlist entry is promoted at most once, into a registration of its own
\* guest, and none is dropped without one, however many cancellations and
\* removals compete for it (waitlist.service.ts promoteNext).
PromotedExactlyOnce ==
    \A e \in EntryIds :
       LET made == {i \in RegIds : reg[i].from = e}
       IN  /\ \A i, j \in made : i = j
           /\ wait[e].state = "promoted" <=> made # {}
           /\ \A i \in made : reg[i].user = wait[e].user

\* Concurrent joins never give two guests one position nor one guest two
\* entries, with no unique constraint in the database to forbid it
\* (waitlist.service.ts addToWaitlist).
WaitlistIsAQueue ==
    \A e, f \in Waiting :
       wait[e].position = wait[f].position \/ wait[e].user = wait[f].user => e = f

\* The waitlist as its guests see it: one place each, and no place is lost.
WaitlistIsKept == PromotedExactlyOnce /\ WaitlistIsAQueue

\* Nobody is overtaken: the entry that leaves the waitlist is ahead of every
\* entry that stays, and one that joins is behind all of them
\* (waitlist.service.ts promoteNext and addToWaitlist).
KeepsOrder ==
    \A e, f \in EntryIds :
       e # f /\ wait[f].state = "waiting" /\ wait'[f].state = "waiting" =>
          /\ wait[e].state = "waiting" /\ wait'[e].state = "promoted" =>
                wait[e].position < wait[f].position
          /\ wait[e].state = "absent" /\ wait'[e].state = "waiting" =>
                wait'[e].position > wait[f].position

FirstComeFirstPromoted == [][KeepsOrder]_vars

\* The count of CONFIRMED registrations never exceeds the event's capacity
\* (registration.service.ts register step 3, cancelByGuest with promoteNext).
CapacityRespected == Cardinality(Confirmed) <= Capacity

\* No guest holds two active registrations (registration.service.ts register
\* step 2, with no unique constraint behind it, and promoteNext, which
\* creates one unchecked).
OneActiveRegistration ==
    \A i, j \in RegIds :
       IsActive(i) /\ IsActive(j) /\ reg[i].user = reg[j].user => i = j

\* A guest on the waitlist holds no active registration: one that did would
\* be promoted into a second one (registration.service.ts register).
WaitingGuestsHoldNoSeat == \A e \in Waiting : Active(wait[e].user) = {}

\* A guest has one standing with an event: one active registration, or a place
\* on the waitlist, or neither.
OneStandingPerGuest == OneActiveRegistration /\ WaitingGuestsHoldNoSeat

\* No seat stays free while guests wait for one: every cancellation of a
\* CONFIRMED registration passes its seat on (cancelByGuest, promoteNext).
NoIdleSeatWhileGuestsWait == Waiting # {} => Cardinality(Confirmed) >= Capacity

-----------------------------------------------------------------------------
(* The inductive invariants.  Whatever an open transaction has staged is   *)
(* still what its handler would stage now, unless the transaction is stale *)
(* and can only abort.                                                     *)

\* The four shapes of a write set.
StagesSeat(r, i, u) ==
    /\ i \in FreeRegs
    /\ tx[r].reg = [NoRegs EXCEPT ![i] = [user |-> u, status |-> NewStatus, from |-> None]]
    /\ tx[r].wait = NoEntries

StagesJoin(r, e, u, p) ==
    /\ e \in FreeEntries
    /\ \A f \in Waiting : wait[f].user # u
    /\ tx[r].reg = NoRegs
    /\ tx[r].wait = [NoEntries EXCEPT ![e] = [user |-> u, position |-> p, state |-> "waiting"]]

StagesCancel(r, i) ==
    /\ i \notin FreeRegs
    /\ tx[r].reg = [NoRegs EXCEPT ![i] = WithStatus(i, "CANCELLED")]
    /\ tx[r].wait = NoEntries

StagesPromotion(r, i, j, e) ==
    /\ i \notin FreeRegs
    /\ j \in FreeRegs
    /\ IsLowest(e)
    /\ tx[r].reg = [NoRegs EXCEPT ![i] = WithStatus(i, "CANCELLED"),
                                  ![j] = [user |-> wait[e].user, status |-> NewStatus, from |-> e]]
    /\ tx[r].wait = [NoEntries EXCEPT ![e] = [wait[e] EXCEPT !.state = "promoted"]]

IsCurrent(r) ==
    \/ \E i \in RegIds, u \in Users : StagesSeat(r, i, u)
    \/ \E e \in EntryIds, u \in Users, p \in NextPositions : StagesJoin(r, e, u, p)
    \/ \E i \in RegIds : StagesCancel(r, i)
    \/ \E i, j \in RegIds, e \in EntryIds : StagesPromotion(r, i, j, e)

\* The strengthening of PromotedExactlyOnce and WaitlistIsAQueue.
QueueInv ==
    /\ TypeOK
    /\ PromotedExactlyOnce
    /\ WaitlistIsAQueue
    /\ \A i \in RegIds : reg[i].status = "absent" => reg[i] = NoReg
    /\ \A a \in Approvals : approving[a] \notin FreeRegs
    /\ \A r \in Requests : tx[r].open /\ ~tx[r].stale => IsCurrent(r)

\* The same, with what guests alone keep true of the seats.
KeepsSeats(r) ==
    \/ \E i \in RegIds, u \in Users :
          StagesSeat(r, i, u) /\ Active(u) = {} /\ Cardinality(Confirmed) < Capacity
    \/ \E e \in EntryIds, u \in Users, p \in NextPositions :
          StagesJoin(r, e, u, p) /\ Active(u) = {} /\ Cardinality(Confirmed) >= Capacity
    \/ \E i \in RegIds :
          StagesCancel(r, i) /\ (reg[i].status = "CONFIRMED" => Waiting = {})
    \/ \E i, j \in RegIds, e \in EntryIds :
          StagesPromotion(r, i, j, e) /\ reg[i].status = "CONFIRMED"

\* The strengthening of the properties of GuestSpec.
SeatInv ==
    /\ RequiresApproval => Confirmed = {}
    /\ CapacityRespected
    /\ OneActiveRegistration
    /\ WaitingGuestsHoldNoSeat
    /\ NoIdleSeatWhileGuestsWait
    /\ \A r \in Requests : tx[r].open /\ ~tx[r].stale => KeepsSeats(r)

-----------------------------------------------------------------------------
(* The abstract specification.                                             *)

Holders == {reg[i].user : i \in Confirmed}

Waiters == {wait[e].user : e \in Waiting}

Precedes ==
    {<<wait[p[1]].user, wait[p[2]].user>> :
        p \in {q \in Waiting \X Waiting : wait[q[1]].position < wait[q[2]].position}}

Book == INSTANCE SeatBook WITH seated <- Holders, waiting <- Waiters, ahead <- Precedes

\* For guests of an event without approval the overlapping, conflicting and
\* aborted transactions have the effect of a seat book changed by one guest
\* at a time (registration.service.ts register and cancelByGuest).
ImplementsSeatBook == Book!Spec
=============================================================================
