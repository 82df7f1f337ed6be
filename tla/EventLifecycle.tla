--------------------------- MODULE EventLifecycle ---------------------------
(***************************************************************************)
(* The life of events and the booking of their venues: EventsService and   *)
(* VenuesService.checkAvailability (src/apps/api/src/events).              *)
(*                                                                         *)
(* No operation of these services runs in a transaction.  Each reads the   *)
(* event, checks what it read, and updates the row by its id some awaits   *)
(* later, so a call is two steps: a check of the committed table and an    *)
(* unconditional write.  goLive and archive have a third: the notices or   *)
(* feedback mails that follow the new status.  The two cron jobs of the    *)
(* service are callers of their own, which start by themselves when the    *)
(* clock has passed an event's start or end.                               *)
(*                                                                         *)
(* A call that ends in an error before its first write is the absence of a *)
(* step.  remove is never one: a foreign key without cascade from the      *)
(* event_access row that create inserts refuses every deletion.            *)
(***************************************************************************)
EXTENDS Naturals, FiniteSets

CONSTANTS
    Events,    \* primary keys of "events" rows (bound on rows ever created)
    Venues,    \* venues
    Callers,   \* requests of organizers and admins in flight at once (bound)
    Crons,     \* runs of the two cron jobs in flight at once
    MaxTime,   \* times events are planned for (bound)
    Plans,     \* venue and times that create and update requests name (bound)
    MaxFaults, \* calls that die half-way: crash, lost connection, failed enqueue (bound)
    None       \* NULL, or a field left out of a request

ASSUME TimeIsNat == MaxTime \in Nat
ASSUME FaultsAreNat == MaxFaults \in Nat
ASSUME NoneIsNothing == None \notin Events \cup Venues \cup Nat
ASSUME CallersAreNotCrons == Callers \cap Crons = {}

VARIABLES
    event,      \* table "events": id -> row
    now,        \* the clock
    call,       \* calls in flight
    past,       \* history: the statuses each event has had
    followedUp, \* history: follow-ups of goLive and archive that were completed
    faults

vars == <<event, now, call, past, followedUp, faults>>

-----------------------------------------------------------------------------
Status == {"absent", "DRAFT", "PENDING", "APPROVED", "REJECTED", "LIVE",
           "CANCELLED", "ARCHIVED"}

STATUS_TRANSITIONS ==
    [absent    |-> {},
     DRAFT     |-> {"PENDING", "APPROVED", "CANCELLED"},
     PENDING   |-> {"APPROVED", "REJECTED", "CANCELLED"},
     APPROVED  |-> {"LIVE", "CANCELLED"},
     REJECTED  |-> {},
     LIVE      |-> {"ARCHIVED", "CANCELLED"},
     CANCELLED |-> {},
     ARCHIVED  |-> {}]

EDITABLE_STATUSES == {"DRAFT", "PENDING"}

\* The statuses that keep a venue's time slot.
Booked == {"APPROVED", "LIVE", "PENDING"}

\* The status each operation moves an event to.
Target ==
    [submit |-> "PENDING", approve |-> "APPROVED", reject |-> "REJECTED",
     cancel |-> "CANCELLED", goLive |-> "LIVE", archive |-> "ARCHIVED"]

Transitions == DOMAIN Target

Time == 0 .. MaxTime

EventRow == [status : Status, venue : Venues \cup {None},
             start : Time, end : Time]

NoEvent == [status |-> "absent", venue |-> None, start |-> 0, end |-> 0]

\* What a create or update request says of venue and time.
Dto == [venue : Venues \cup {None}, start : Time \cup {None}, end : Time \cup {None}]

ASSUME PlansAreDtos == Plans \subseteq Dto

NoDto == [venue |-> None, start |-> None, end |-> None]

Call == [pc : {"idle", "checked", "follow-up"},
         op : Transitions \cup {"create", "update", "none"},
         event : Events \cup {None}, dto : Dto]

Idle == [pc |-> "idle", op |-> "none", event |-> None, dto |-> NoDto]

-----------------------------------------------------------------------------
(* What the handlers read.                                                 *)

Or(given, current) == IF given = None THEN current ELSE given

\* Mutant: fields left out of the request overwrite the row's.
EditedUnmerged(e, dto) ==
    [event[e] EXCEPT !.venue = dto.venue, !.start = dto.start, !.end = dto.end]

\* The event as an update would leave it.
Edited(e, dto) ==
    [event[e] EXCEPT !.venue = Or(dto.venue, @),
                     !.start = Or(dto.start, @),
                     !.end = Or(dto.end, @)]

Overlap(a, b) == a.venue = b.venue /\ a.start < b.end /\ a.end > b.start

\* Mutant: an availability check that looks at approved events only.
AvailableButForPending(row, excluded) ==
    \A e \in Events \ {excluded} :
       event[e].status \in {"APPROVED", "LIVE"} => ~Overlap(event[e], row)

\* checkAvailability: no booked event other than the one excluded overlaps.
\* Two drafts may.
Available(row, excluded) ==
    \A e \in Events \ {excluded} : event[e].status \in Booked => ~Overlap(event[e], row)

Checked(c, op, e, dto) ==
    /\ call[c] = Idle
    /\ call' = [call EXCEPT ![c] = [pc |-> "checked", op |-> op, event |-> e, dto |-> dto]]
    /\ UNCHANGED <<event, now, past, followedUp, faults>>

-----------------------------------------------------------------------------
Init ==
    /\ event = [e \in Events |-> NoEvent]
    /\ now = 0
    /\ call = [c \in Callers \cup Crons |-> Idle]
    /\ past = [e \in Events |-> {}]
    /\ followedUp = {}
    /\ faults = 0

\* create, up to its insert.
CreateCheck(c, dto) ==
    /\ dto.venue # None
    /\ dto.start # None /\ dto.end # None
    /\ Available(dto, None)
    /\ dto.end > dto.start
    /\ dto.start > now
    /\ Checked(c, "create", None, dto)

CreateInsert(c) ==
    /\ call[c].pc = "checked"
    /\ call[c].op = "create"
    /\ \E e \in Events :
          /\ event[e].status = "absent"
          /\ event' = [event EXCEPT ![e] =
                         [status |-> "DRAFT", venue |-> call[c].dto.venue,
                          start |-> call[c].dto.start, end |-> call[c].dto.end]]
          /\ past' = [past EXCEPT ![e] = {"DRAFT"}]
    /\ call' = [call EXCEPT ![c] = Idle]
    /\ UNCHANGED <<now, followedUp, faults>>

\* Mutant: any event can be edited.
UpdateCheckAnyStatus(c, e, dto) ==
    /\ event[e].status # "absent"
    /\ dto # NoDto
    /\ Available(Edited(e, dto), e)
    /\ Checked(c, "update", e, dto)

\* update, up to its write, when it moves the event in space or time.  Nothing
\* compares the new start with the clock or with the new end.
UpdateCheck(c, e, dto) ==
    /\ event[e].status \in EDITABLE_STATUSES
    /\ dto # NoDto
    /\ Available(Edited(e, dto), e)
    /\ Checked(c, "update", e, dto)

UpdateWrite(c) ==
    /\ call[c].pc = "checked"
    /\ call[c].op = "update"
    /\ event' = [event EXCEPT ![call[c].event] = Edited(call[c].event, call[c].dto)]
    /\ call' = [call EXCEPT ![c] = Idle]
    /\ UNCHANGED <<now, past, followedUp, faults>>

\* Mutant: the transition table is not consulted.
TransitionUnchecked(c, op, e) ==
    /\ event[e].status # "absent"
    /\ Checked(c, op, e, NoDto)

\* submitForApproval, approve, reject, cancel, goLive and archive, up to the
\* update in transitionStatus: the status read must allow the target.
TransitionCheck(c, op, e) ==
    /\ Target[op] \in STATUS_TRANSITIONS[event[e].status]
    /\ Checked(c, op, e, NoDto)

\* Mutant: archive returns without dispatching the feedback mails.
TransitionWriteOnly(c) ==
    /\ call[c].pc = "checked"
    /\ call[c].op \in Transitions
    /\ event' = [event EXCEPT ![call[c].event].status = Target[call[c].op]]
    /\ past' = [past EXCEPT ![call[c].event] = @ \cup {Target[call[c].op]}]
    /\ call' = [call EXCEPT ![c] = Idle]
    /\ UNCHANGED <<now, followedUp, faults>>

\* transitionStatus' update, whatever the row's status is by now.
TransitionWrite(c) ==
    /\ call[c].pc = "checked"
    /\ call[c].op \in Transitions
    /\ event' = [event EXCEPT ![call[c].event].status = Target[call[c].op]]
    /\ past' = [past EXCEPT ![call[c].event] = @ \cup {Target[call[c].op]}]
    /\ call' = [call EXCEPT ![c] =
                  IF @.op \in {"goLive", "archive"} THEN [@ EXCEPT !.pc = "follow-up"] ELSE Idle]
    /\ UNCHANGED <<now, followedUp, faults>>

\* goLive's notices to the attendees, archive's feedback mails.
FollowUp(c) ==
    /\ call[c].pc = "follow-up"
    /\ followedUp' = followedUp \cup {<<call[c].op, call[c].event>>}
    /\ call' = [call EXCEPT ![c] = Idle]
    /\ UNCHANGED <<event, now, past, faults>>

\* Mutant: the cron job looks for events that start in the future.
CronGoLiveEarly(c, e) ==
    /\ event[e].status = "APPROVED"
    /\ event[e].start > now
    /\ TransitionCheck(c, "goLive", e)

\* handleCronGoLive.  goLive reads the event again, so an event selected
\* earlier in the same run must still be APPROVED.
CronGoLive(c, e) ==
    /\ event[e].status = "APPROVED"
    /\ event[e].start <= now
    /\ TransitionCheck(c, "goLive", e)

\* Mutant: the cron job looks for events that end in the future.
CronArchiveEarly(c, e) ==
    /\ event[e].status = "LIVE"
    /\ event[e].end > now
    /\ TransitionCheck(c, "archive", e)

\* handleCronArchive
CronArchive(c, e) ==
    /\ event[e].status = "LIVE"
    /\ event[e].end <= now
    /\ TransitionCheck(c, "archive", e)

\* The API process dies, or a statement or an enqueue of the call fails.
Fault(c) ==
    /\ call[c] # Idle
    /\ faults < MaxFaults
    /\ faults' = faults + 1
    /\ call' = [call EXCEPT ![c] = Idle]
    /\ UNCHANGED <<event, now, past, followedUp>>

Tick ==
    /\ now < MaxTime
    /\ now' = now + 1
    /\ UNCHANGED <<event, call, past, followedUp, faults>>

-----------------------------------------------------------------------------
Request(c) ==
    \/ \E dto \in Plans : CreateCheck(c, dto)
    \/ \E e \in Events, dto \in Plans : UpdateCheck(c, e, dto)
    \/ \E e \in Events, op \in Transitions : TransitionCheck(c, op, e)

Cron(c) == \E e \in Events : CronGoLive(c, e) \/ CronArchive(c, e)

Continue(c) == CreateInsert(c) \/ UpdateWrite(c) \/ TransitionWrite(c) \/ FollowUp(c)

Next ==
    \/ \E c \in Callers : Request(c)
    \/ \E c \in Crons : Cron(c)
    \/ \E c \in Callers \cup Crons : Continue(c) \/ Fault(c)
    \/ Tick

Spec == Init /\ [][Next]_vars

\* Time passes, the scheduler starts the cron jobs every minute, and the
\* runtime resumes every call that waits for the database or the mail server.
Fairness ==
    /\ WF_vars(Tick)
    /\ \A c \in Crons : WF_vars(Cron(c))
    /\ \A c \in Callers \cup Crons : WF_vars(Continue(c))

FairSpec == Spec /\ Fairness

-----------------------------------------------------------------------------
(* Properties.                                                             *)

\* Rows, calls and histories are well formed (type invariant).
TypeOK ==
    /\ event \in [Events -> EventRow]
    /\ now \in Time
    /\ call \in [Callers \cup Crons -> Call]
    /\ past \in [Events -> SUBSET Status]
    /\ followedUp \in SUBSET ({"goLive", "archive"} \X Events)
    /\ faults \in 0 .. MaxFaults

\* Whatever stale updates overwrite each other, nothing goes live that was
\* never approved, nothing is archived, or followed up as archived, that was
\* never live, and nothing is rejected that was never submitted (events.service.ts
\* transitionStatus).
NoStepSkipped ==
    \A e \in Events :
       /\ "LIVE" \in past[e] => "APPROVED" \in past[e]
       /\ "ARCHIVED" \in past[e] => "LIVE" \in past[e]
       /\ "REJECTED" \in past[e] => "PENDING" \in past[e]
       /\ <<"archive", e>> \in followedUp => "ARCHIVED" \in past[e]

\* An event changes its status along STATUS_TRANSITIONS only
\* (events.service.ts:31).
TransitionsAllowed ==
    [][\A e \in Events :
          event[e].status \notin {"absent", event'[e].status} =>
             event'[e].status \in STATUS_TRANSITIONS[event[e].status]]_vars

\* Venue and times of an event are settled once it has left DRAFT and PENDING
\* (events.service.ts update).
EditsOnlyBeforeApproval ==
    [][\A e \in Events :
          event[e].status \notin EDITABLE_STATUSES \cup {"absent"} =>
             /\ event'[e].venue = event[e].venue
             /\ event'[e].start = event[e].start
             /\ event'[e].end = event[e].end]_vars

\* Creating or moving an event never puts it into a slot that another event
\* has booked (events.service.ts create and update, venues.service.ts
\* checkAvailability).
NeverMovesIntoABookedSlot ==
    [][\A e \in Events :
          \/ event'[e].venue = event[e].venue /\ event'[e].start = event[e].start
                /\ event'[e].end = event[e].end
          \/ \A f \in Events \ {e} :
                event[f].status \in Booked => ~Overlap(event[f], event'[e])]_vars

\* An approved event does not stay approved for ever: it goes live when its
\* start has come, unless it is cancelled (events.service.ts
\* handleCronGoLive).
ApprovedGoesLive ==
    \A e \in Events : event[e].status = "APPROVED" ~> event[e].status # "APPROVED"

\* A live event does not stay live for ever (events.service.ts
\* handleCronArchive).
LiveIsArchived ==
    \A e \in Events : event[e].status = "LIVE" ~> event[e].status # "LIVE"

\* No event is stuck where a cron job should take it further.
EventsMoveOn == ApprovedGoesLive /\ LiveIsArchived

\* As long as no call dies half-way, every event that goes live gets its
\* notices and every archived one its feedback mails (events.service.ts goLive
\* and archive).
FollowUpsHappen ==
    [](faults = 0) => \A e \in Events :
       /\ event[e].status = "LIVE" ~> <<"goLive", e>> \in followedUp
       /\ event[e].status = "ARCHIVED" ~> <<"archive", e>> \in followedUp

\* Two events that keep a slot of one venue do not overlap (README.md:179).
NoDoubleBooking ==
    \A e, f \in Events :
       /\ e # f
       /\ event[e].status \in Booked
       /\ event[f].status \in Booked
       => ~Overlap(event[e], event[f])
=============================================================================
