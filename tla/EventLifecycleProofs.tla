------------------------ MODULE EventLifecycleProofs ------------------------
(***************************************************************************)
(* Theorems about EventLifecycle, for any number of events, venues,        *)
(* callers, cron runs and faults, and about Team, for any number of users, *)
(* rows and handlers in flight.                                            *)
(***************************************************************************)
EXTENDS MCEventTeam, TLAPS

Slots == Callers \cup Crons

-----------------------------------------------------------------------------
(* Well-formedness.                                                        *)

\* Between its check and its last step a call is about an event, unless it
\* creates one.
CallsNameTheirEvent ==
    \A c \in Slots :
       /\ call[c].pc = "checked" /\ call[c].op # "create" => call[c].event \in Events
       /\ call[c].pc = "checked" /\ call[c].op = "create" =>
             call[c].dto \in [venue : Venues, start : Time, end : Time]
       /\ call[c].pc = "follow-up" =>
             call[c].event \in Events /\ call[c].op \in {"goLive", "archive"}

TypeInv == TypeOK /\ CallsNameTheirEvent

\* What the conversions of a request and a row yield.
LEMMA EditedType ==
    ASSUME NEW row \in EventRow, NEW dto \in Dto
    PROVE  [row EXCEPT !.venue = Or(dto.venue, @),
                       !.start = Or(dto.start, @),
                       !.end = Or(dto.end, @)] \in EventRow
BY NoneIsNothing DEF EventRow, Dto, Or, Time

LEMMA IdleType == Idle \in Call
BY TimeIsNat, NoneIsNothing DEF Idle, Call, NoDto, Dto, Time

LEMMA NoDtoType == NoDto \in Dto
BY DEF NoDto, Dto

\* A check step records a well-formed call.
LEMMA CheckedKeepsTypes ==
    ASSUME TypeInv, NEW c \in Slots, NEW op \in Transitions \cup {"create", "update"},
           NEW e \in Events \cup {None}, NEW dto \in Dto,
           op # "create" => e \in Events,
           op = "create" => dto \in [venue : Venues, start : Time, end : Time],
           Checked(c, op, e, dto)
    PROVE  TypeInv'
<1> DEFINE new == [pc |-> "checked", op |-> op, event |-> e, dto |-> dto]
<1>1. new \in Call
  BY DEF Call
<1>2. call' = [call EXCEPT ![c] = new]
  BY DEF Checked
<1>3. TypeOK'
  BY <1>1, <1>2 DEF TypeInv, TypeOK, Checked, Slots
<1>4. CallsNameTheirEvent'
  BY <1>2 DEF TypeInv, TypeOK, CallsNameTheirEvent, Slots
<1> QED
  BY <1>3, <1>4 DEF TypeInv

LEMMA TypeInit == Init => TypeInv
<1> SUFFICES ASSUME Init PROVE TypeInv
  OBVIOUS
<1>1. NoEvent \in EventRow
  BY TimeIsNat DEF NoEvent, EventRow, Status, Time
<1>2. TypeOK
  BY <1>1, IdleType, TimeIsNat, FaultsAreNat DEF Init, TypeOK, Time, Slots
<1>3. CallsNameTheirEvent
  BY DEF Init, CallsNameTheirEvent, Idle, Slots
<1> QED
  BY <1>2, <1>3 DEF TypeInv

LEMMA TypeStep == TypeInv /\ [Next]_vars => TypeInv'
<1> SUFFICES ASSUME TypeInv, [Next]_vars PROVE TypeInv'
  OBVIOUS
<1> USE DEF Slots
<1>1. ASSUME NEW c \in Slots, call' = [call EXCEPT ![c] = Idle]
      PROVE  CallsNameTheirEvent' /\ call' \in [Slots -> Call]
  BY <1>1, IdleType DEF TypeInv, TypeOK, CallsNameTheirEvent, Idle
<1>2. ASSUME NEW c \in Callers, NEW dto \in Plans, CreateCheck(c, dto) PROVE TypeInv'
  <2>1. dto \in Dto /\ dto \in [venue : Venues, start : Time, end : Time]
    BY <1>2, PlansAreDtos DEF CreateCheck, Dto
  <2> QED
    BY <1>2, <2>1, CheckedKeepsTypes DEF CreateCheck
<1>3. ASSUME NEW c \in Callers, NEW e \in Events, NEW dto \in Plans, UpdateCheck(c, e, dto)
      PROVE  TypeInv'
  BY <1>3, PlansAreDtos, CheckedKeepsTypes DEF UpdateCheck
<1>4. ASSUME NEW c \in Slots, NEW e \in Events, NEW op \in Transitions, TransitionCheck(c, op, e)
      PROVE  TypeInv'
  <2>1. op # "create"
    BY DEF Transitions, Target
  <2> QED
    BY <1>4, <2>1, NoDtoType, CheckedKeepsTypes DEF TransitionCheck
<1>5. ASSUME NEW c \in Slots, CreateInsert(c) PROVE TypeInv'
  <2>1. PICK e \in Events :
          /\ event' = [event EXCEPT ![e] =
                         [status |-> "DRAFT", venue |-> call[c].dto.venue,
                          start |-> call[c].dto.start, end |-> call[c].dto.end]]
          /\ past' = [past EXCEPT ![e] = {"DRAFT"}]
    BY <1>5 DEF CreateInsert
  <2>2. [status |-> "DRAFT", venue |-> call[c].dto.venue,
         start |-> call[c].dto.start, end |-> call[c].dto.end] \in EventRow
    BY <1>5 DEF CreateInsert, TypeInv, CallsNameTheirEvent, EventRow, Status
  <2>3. event' \in [Events -> EventRow]
    BY <2>1, <2>2 DEF TypeInv, TypeOK
  <2>4. past' \in [Events -> SUBSET Status]
    BY <2>1 DEF TypeInv, TypeOK, Status
  <2>5. call' = [call EXCEPT ![c] = Idle]
    BY <1>5 DEF CreateInsert
  <2> QED
    BY <2>3, <2>4, <2>5, <1>1, <1>5 DEF CreateInsert, TypeInv, TypeOK
<1>6. ASSUME NEW c \in Slots, UpdateWrite(c) PROVE TypeInv'
  <2> DEFINE e == call[c].event
  <2>1. e \in Events /\ call[c].dto \in Dto
    BY <1>6 DEF UpdateWrite, TypeInv, TypeOK, CallsNameTheirEvent, Call
  <2>2. event[e] \in EventRow
    BY <2>1 DEF TypeInv, TypeOK
  <2>3. Edited(e, call[c].dto) \in EventRow
    BY <2>1, <2>2, EditedType DEF Edited
  <2>4. event' \in [Events -> EventRow]
    BY <1>6, <2>3 DEF UpdateWrite, TypeInv, TypeOK
  <2>5. call' = [call EXCEPT ![c] = Idle]
    BY <1>6 DEF UpdateWrite
  <2> QED
    BY <2>4, <2>5, <1>1, <1>6 DEF UpdateWrite, TypeInv, TypeOK
<1>7. ASSUME NEW c \in Slots, TransitionWrite(c) PROVE TypeInv'
  <2> DEFINE e == call[c].event
             s == Target[call[c].op]
  <2>1. e \in Events
    BY <1>7 DEF TransitionWrite, TypeInv, CallsNameTheirEvent, Transitions, Target
  <2>2. s \in Status
    BY <1>7 DEF TransitionWrite, Transitions, Target, Status
  <2>3. event' \in [Events -> EventRow]
    BY <1>7, <2>1, <2>2 DEF TransitionWrite, TypeInv, TypeOK, EventRow
  <2>4. past' \in [Events -> SUBSET Status]
    BY <1>7, <2>1, <2>2 DEF TransitionWrite, TypeInv, TypeOK
  <2>5. CASE call[c].op \in {"goLive", "archive"}
    <3>1. call' = [call EXCEPT ![c] = [call[c] EXCEPT !.pc = "follow-up"]]
      BY <1>7, <2>5 DEF TransitionWrite
    <3>2. [call[c] EXCEPT !.pc = "follow-up"] \in Call
      BY DEF TypeInv, TypeOK, Call
    <3>3. call' \in [Slots -> Call]
      BY <3>1, <3>2 DEF TypeInv, TypeOK
    <3>4. CallsNameTheirEvent'
      BY <3>1, <2>1, <2>5 DEF TypeInv, TypeOK, CallsNameTheirEvent, Call
    <3> QED
      BY <2>3, <2>4, <3>3, <3>4, <1>7 DEF TransitionWrite, TypeInv, TypeOK
  <2>6. CASE call[c].op \notin {"goLive", "archive"}
    <3>1. call' = [call EXCEPT ![c] = Idle]
      BY <1>7, <2>6 DEF TransitionWrite
    <3> QED
      BY <2>3, <2>4, <3>1, <1>1, <1>7 DEF TransitionWrite, TypeInv, TypeOK
  <2> QED
    BY <2>5, <2>6
<1>8. ASSUME NEW c \in Slots, FollowUp(c) PROVE TypeInv'
  <2>1. <<call[c].op, call[c].event>> \in {"goLive", "archive"} \X Events
    BY <1>8 DEF FollowUp, TypeInv, CallsNameTheirEvent
  <2> QED
    BY <1>8, <2>1, <1>1 DEF FollowUp, TypeInv, TypeOK
<1>9. ASSUME NEW c \in Slots, Fault(c) PROVE TypeInv'
  <2>1. faults' \in 0 .. MaxFaults
    BY <1>9, FaultsAreNat DEF Fault, TypeInv, TypeOK
  <2> QED
    BY <1>9, <2>1, <1>1 DEF Fault, TypeInv, TypeOK
<1>10. CASE Tick
  <2>1. now' \in Time
    BY <1>10, TimeIsNat DEF Tick, TypeInv, TypeOK, Time
  <2> QED
    BY <1>10, <2>1 DEF Tick, TypeInv, TypeOK, CallsNameTheirEvent
<1>11. CASE UNCHANGED vars
  BY <1>11 DEF vars, TypeInv, TypeOK, CallsNameTheirEvent
<1>12. ASSUME NEW c \in Crons, NEW e \in Events, CronGoLive(c, e) \/ CronArchive(c, e)
       PROVE  TypeInv'
  BY <1>12, <1>4 DEF CronGoLive, CronArchive, Transitions, Target
<1> QED
  BY <1>2, <1>3, <1>4, <1>5, <1>6, <1>7, <1>8, <1>9, <1>10, <1>11, <1>12
     DEF Next, Request, Cron, Continue

\* Rows, calls and histories stay well formed for every operation, cron run
\* and fault (events.service.ts).
THEOREM TypeCorrect == Spec => []TypeOK
<1>1. Spec => []TypeInv
  BY TypeInit, TypeStep, PTL DEF Spec
<1> QED
  BY <1>1, PTL DEF TypeInv

-----------------------------------------------------------------------------
(* No step of an event's life is skipped.  NoStepSkipped is not inductive: *)
(* a write is justified by what its call has read, which may be long gone  *)
(* from the row but is still in the event's history.                       *)

\* The statuses that justify each transition that NoStepSkipped speaks of.
Earned(op, statuses) ==
    /\ op = "goLive" => "APPROVED" \in statuses
    /\ op = "archive" => "LIVE" \in statuses
    /\ op = "reject" => "PENDING" \in statuses

HistoryInv ==
    /\ NoStepSkipped
    /\ \A e \in Events :
          IF event[e].status = "absent" THEN past[e] = {} ELSE event[e].status \in past[e]
    /\ \A c \in Slots :
          /\ call[c].pc = "checked" /\ call[c].op # "create" =>
                past[call[c].event] # {} /\ Earned(call[c].op, past[call[c].event])
          /\ call[c].pc = "follow-up" => Target[call[c].op] \in past[call[c].event]

LEMMA HistoryInit == Init => HistoryInv
BY DEF Init, HistoryInv, NoStepSkipped, Idle, NoEvent, Slots

\* A check step finds the status that justifies its call in the row, and so in
\* the history.
LEMMA CheckedKeepsHistory ==
    ASSUME TypeInv, HistoryInv, NEW c \in Slots, NEW op, NEW e, NEW dto,
           op # "create" => /\ e \in Events
                            /\ event[e].status # "absent"
                            /\ Earned(op, {event[e].status}),
           Checked(c, op, e, dto)
    PROVE  HistoryInv'
<1>1. call' = [call EXCEPT ![c] = [pc |-> "checked", op |-> op, event |-> e, dto |-> dto]]
      /\ UNCHANGED <<event, past, followedUp>>
  BY DEF Checked
<1>2. NoStepSkipped'
  BY <1>1 DEF HistoryInv, NoStepSkipped
<1>3. op # "create" => past[e] # {} /\ Earned(op, past[e])
  BY DEF HistoryInv, Earned, TypeInv, TypeOK
<1>4. \A d \in Slots :
         /\ (call[d].pc = "checked" /\ call[d].op # "create" =>
                past[call[d].event] # {} /\ Earned(call[d].op, past[call[d].event]))'
         /\ (call[d].pc = "follow-up" => Target[call[d].op] \in past[call[d].event])'
  <2> SUFFICES ASSUME NEW d \in Slots
               PROVE  /\ (call[d].pc = "checked" /\ call[d].op # "create" =>
                            past[call[d].event] # {} /\ Earned(call[d].op, past[call[d].event]))'
                      /\ (call[d].pc = "follow-up" => Target[call[d].op] \in past[call[d].event])'
    OBVIOUS
  <2>1. CASE d = c
    BY <2>1, <1>1, <1>3 DEF TypeInv, TypeOK, Earned, Slots
  <2>2. CASE d # c
    <3>1. call'[d] = call[d]
      BY <2>2, <1>1 DEF TypeInv, TypeOK, Slots
    <3> QED
      BY <3>1, <1>1 DEF HistoryInv, Earned
  <2> QED
    BY <2>1, <2>2
<1> QED
  BY <1>1, <1>2, <1>4 DEF HistoryInv

LEMMA HistoryStep == TypeInv /\ HistoryInv /\ [Next]_vars => HistoryInv'
<1> SUFFICES ASSUME TypeInv, HistoryInv, [Next]_vars PROVE HistoryInv'
  OBVIOUS
<1> USE DEF Slots
<1>1. ASSUME NEW c \in Callers, NEW dto, CreateCheck(c, dto) PROVE HistoryInv'
  BY <1>1, CheckedKeepsHistory DEF CreateCheck
<1>2. ASSUME NEW c \in Callers, NEW e \in Events, NEW dto, UpdateCheck(c, e, dto)
      PROVE  HistoryInv'
  BY <1>2, CheckedKeepsHistory DEF UpdateCheck, EDITABLE_STATUSES, Earned
<1>3. ASSUME NEW c \in Slots, NEW e \in Events, NEW op \in Transitions, TransitionCheck(c, op, e)
      PROVE  HistoryInv'
  <2>1. event[e].status \in Status
    BY DEF TypeInv, TypeOK, EventRow
  <2>2. event[e].status # "absent"
    BY <1>3 DEF TransitionCheck, STATUS_TRANSITIONS
  <2>3. Earned(op, {event[e].status})
    BY <1>3, <2>1 DEF TransitionCheck, STATUS_TRANSITIONS, Target, Earned, Status
  <2> QED
    BY <1>3, <2>2, <2>3, CheckedKeepsHistory DEF TransitionCheck
<1>4. ASSUME NEW c \in Slots, CreateInsert(c) PROVE HistoryInv'
  <2>1. PICK e \in Events :
          /\ event[e].status = "absent"
          /\ event' = [event EXCEPT ![e] =
                         [status |-> "DRAFT", venue |-> call[c].dto.venue,
                          start |-> call[c].dto.start, end |-> call[c].dto.end]]
          /\ past' = [past EXCEPT ![e] = {"DRAFT"}]
    BY <1>4 DEF CreateInsert
  <2>2. past[e] = {}
    BY <2>1 DEF HistoryInv
  <2>3. /\ event'[e].status = "DRAFT" /\ past'[e] = {"DRAFT"}
        /\ \A f \in Events \ {e} : event'[f] = event[f] /\ past'[f] = past[f]
    BY <2>1 DEF TypeInv, TypeOK
  <2>4. followedUp' = followedUp /\ call' = [call EXCEPT ![c] = Idle]
    BY <1>4 DEF CreateInsert
  <2>5. NoStepSkipped'
    <3>1. <<"archive", e>> \notin followedUp
      BY <2>2 DEF HistoryInv, NoStepSkipped
    <3> SUFFICES ASSUME NEW f \in Events
                 PROVE  /\ "LIVE" \in past'[f] => "APPROVED" \in past'[f]
                        /\ "ARCHIVED" \in past'[f] => "LIVE" \in past'[f]
                        /\ "REJECTED" \in past'[f] => "PENDING" \in past'[f]
                        /\ <<"archive", f>> \in followedUp' => "ARCHIVED" \in past'[f]
      BY DEF NoStepSkipped
    <3>2. CASE f = e
      BY <2>3, <2>4, <3>1, <3>2
    <3>3. CASE f # e
      BY <2>3, <2>4, <3>3 DEF HistoryInv, NoStepSkipped
    <3> QED
      BY <3>2, <3>3
  <2>6. \A f \in Events :
           (IF event[f].status = "absent" THEN past[f] = {} ELSE event[f].status \in past[f])'
    BY <2>3 DEF HistoryInv
  <2>7. \A d \in Slots : call'[d].pc # "idle" =>
           call'[d] = call[d] /\ (call[d].op # "create" => call[d].event \in Events)
    BY <2>4 DEF TypeInv, TypeOK, CallsNameTheirEvent, Call, Idle, Transitions, Target
  <2>8. \A d \in Slots : call[d].pc = "follow-up" => call[d].op # "create"
    BY DEF TypeInv, CallsNameTheirEvent
  <2>9. \A d \in Slots : call'[d].pc # "idle" /\ call[d].op # "create" => 
           past[call[d].event] # {} /\ past'[call[d].event] = past[call[d].event]
    BY <2>2, <2>3, <2>7, <2>8 DEF HistoryInv, TypeInv, TypeOK, Call
  <2> QED
    BY <2>5, <2>6, <2>7, <2>8, <2>9 DEF HistoryInv, Earned
<1>5. ASSUME NEW c \in Slots, call' = [call EXCEPT ![c] = Idle], past' = past,
             \A e \in Events : event'[e].status = event[e].status, NoStepSkipped'
      PROVE  HistoryInv'
  <2>1. \A d \in Slots : call'[d].pc # "idle" => call'[d] = call[d]
    BY <1>5 DEF TypeInv, TypeOK, Idle
  <2> QED
    BY <1>5, <2>1 DEF HistoryInv, Earned
<1>6. ASSUME NEW c \in Slots, UpdateWrite(c) PROVE HistoryInv'
  <2>1. \A e \in Events : event'[e].status = event[e].status
    BY <1>6 DEF UpdateWrite, Edited, TypeInv, TypeOK, EventRow
  <2>2. NoStepSkipped'
    BY <1>6 DEF UpdateWrite, HistoryInv, NoStepSkipped
  <2> QED
    BY <1>6, <2>1, <2>2, <1>5 DEF UpdateWrite
<1>7. ASSUME NEW c \in Slots, TransitionWrite(c) PROVE HistoryInv'
  <2> DEFINE e == call[c].event
             s == Target[call[c].op]
  <2>1. e \in Events /\ Earned(call[c].op, past[e])
    BY <1>7 DEF TransitionWrite, TypeInv, CallsNameTheirEvent, HistoryInv, Transitions, Target
  <2>2. /\ event'[e].status = s /\ past'[e] = past[e] \cup {s}
        /\ \A f \in Events \ {e} : event'[f] = event[f] /\ past'[f] = past[f]
    BY <1>7, <2>1 DEF TransitionWrite, TypeInv, TypeOK, EventRow
  <2>3. s # "absent" /\ followedUp' = followedUp
    BY <1>7 DEF TransitionWrite, Transitions, Target
  <2>4. /\ s = "LIVE" => call[c].op = "goLive"
        /\ s = "ARCHIVED" => call[c].op = "archive"
        /\ s = "REJECTED" => call[c].op = "reject"
    BY <1>7 DEF TransitionWrite, Transitions, Target
  <2>5. NoStepSkipped'
    BY <2>1, <2>2, <2>3, <2>4 DEF HistoryInv, NoStepSkipped, Earned
  <2>6. \A f \in Events :
           (IF event[f].status = "absent" THEN past[f] = {} ELSE event[f].status \in past[f])'
    BY <2>2, <2>3 DEF HistoryInv
  <2>7. \A f \in Events : past[f] \subseteq past'[f]
    BY <2>2
  <2>8. \A d \in Slots \ {c} : call'[d] = call[d]
    BY <1>7 DEF TransitionWrite, TypeInv, TypeOK
  <2>9. /\ call'[c].pc # "checked"
        /\ call'[c].pc = "follow-up" => call'[c].op = call[c].op /\ call'[c].event = e
    BY <1>7 DEF TransitionWrite, TypeInv, TypeOK, Call, Idle
  <2>10. \A d \in Slots :
           /\ (call[d].pc = "checked" /\ call[d].op # "create" =>
                 past[call[d].event] # {} /\ Earned(call[d].op, past[call[d].event]))'
           /\ (call[d].pc = "follow-up" => Target[call[d].op] \in past[call[d].event])'
    BY <2>1, <2>2, <2>7, <2>8, <2>9 DEF HistoryInv, Earned, TypeInv, CallsNameTheirEvent
  <2> QED
    BY <2>5, <2>6, <2>10 DEF HistoryInv
<1>8. ASSUME NEW c \in Slots, FollowUp(c) PROVE HistoryInv'
  <2>1. call[c].op = "archive" => "ARCHIVED" \in past[call[c].event]
    BY <1>8 DEF FollowUp, HistoryInv, Target
  <2>2. NoStepSkipped'
    BY <1>8, <2>1 DEF FollowUp, HistoryInv, NoStepSkipped
  <2> QED
    BY <1>8, <2>2, <1>5 DEF FollowUp
<1>9. ASSUME NEW c \in Slots, Fault(c) PROVE HistoryInv'
  <2>1. NoStepSkipped'
    BY <1>9 DEF Fault, HistoryInv, NoStepSkipped
  <2> QED
    BY <1>9, <2>1, <1>5 DEF Fault
<1>10. CASE Tick
  BY <1>10 DEF Tick, HistoryInv, NoStepSkipped, Earned
<1>11. CASE UNCHANGED vars
  BY <1>11 DEF vars, HistoryInv, NoStepSkipped, Earned
<1>12. ASSUME NEW c \in Crons, NEW e \in Events, CronGoLive(c, e) \/ CronArchive(c, e)
       PROVE  HistoryInv'
  BY <1>12, <1>3 DEF CronGoLive, CronArchive, Transitions, Target
<1> QED
  BY <1>1, <1>2, <1>3, <1>4, <1>6, <1>7, <1>8, <1>9, <1>10, <1>11, <1>12
     DEF Next, Request, Cron, Continue

\* However calls and cron runs overwrite each other's statuses, no event goes
\* live unapproved, is archived without having been live, or is rejected
\* without having been submitted (events.service.ts transitionStatus).
THEOREM LifeCorrect == Spec => []NoStepSkipped
<1>1. Spec => [](TypeInv /\ HistoryInv)
  BY TypeInit, TypeStep, HistoryInit, HistoryStep, PTL DEF Spec
<1> QED
  BY <1>1, PTL DEF HistoryInv

-----------------------------------------------------------------------------
(* One call at a time.                                                     *)

\* A call's check still holds when it writes.
FreshInv ==
    \A c \in Slots :
       call[c].pc = "checked" /\ call[c].op \in Transitions =>
          Target[call[c].op] \in STATUS_TRANSITIONS[event[call[c].event].status]

\* Without a second caller and without cron jobs, every status follows the
\* transition table (events.service.ts:31).
THEOREM SerialCorrect ==
    ASSUME NEW one, Callers = {one}, Crons = {}
    PROVE  Spec => TransitionsAllowed
<1> USE DEF Slots
<1>1. Init => FreshInv
  BY DEF Init, FreshInv, Idle
<1>2. TypeInv /\ FreshInv /\ [Next]_vars => FreshInv'
  <2> SUFFICES ASSUME TypeInv, FreshInv, [Next]_vars PROVE FreshInv'
    OBVIOUS
  <2>1. ASSUME NEW dto, CreateCheck(one, dto) PROVE FreshInv'
    BY <2>1 DEF CreateCheck, Checked, FreshInv, TypeInv, TypeOK, Transitions, Target
  <2>2. ASSUME NEW e \in Events, NEW dto, UpdateCheck(one, e, dto) PROVE FreshInv'
    BY <2>2 DEF UpdateCheck, Checked, FreshInv, TypeInv, TypeOK, Transitions, Target
  <2>3. ASSUME NEW e \in Events, NEW op \in Transitions, TransitionCheck(one, op, e)
        PROVE  FreshInv'
    <3>1. op # "update"
      BY DEF Transitions, Target
    <3> QED
      BY <2>3, <3>1 DEF TransitionCheck, Checked, FreshInv, TypeInv, TypeOK
  <2>4. ASSUME call'[one].pc # "checked" PROVE FreshInv'
    BY <2>4 DEF FreshInv
  <2>5. ASSUME CreateInsert(one) \/ UpdateWrite(one) \/ TransitionWrite(one)
                 \/ FollowUp(one) \/ Fault(one)
        PROVE  call'[one].pc # "checked"
    BY <2>5 DEF CreateInsert, UpdateWrite, TransitionWrite, FollowUp, Fault,
                TypeInv, TypeOK, Idle, Call
  <2>6. CASE Tick \/ UNCHANGED vars
    BY <2>6 DEF Tick, vars, FreshInv
  <2> QED
    BY <2>1, <2>2, <2>3, <2>4, <2>5, <2>6 DEF Next, Request, Continue
<1>3. ASSUME TypeInv, FreshInv, [Next]_vars, NEW e \in Events
      PROVE  event[e].status \notin {"absent", event'[e].status} =>
                event'[e].status \in STATUS_TRANSITIONS[event[e].status]
  <2>1. CASE event' = event
    BY <2>1
  <2>2. CASE CreateInsert(one)
    <3>1. event[e].status = "absent" \/ event'[e] = event[e]
      BY <2>2 DEF CreateInsert, TypeInv, TypeOK
    <3> QED
      BY <3>1
  <2>3. CASE UpdateWrite(one)
    BY <1>3, <2>3 DEF UpdateWrite, Edited, FreshInv, TypeInv, TypeOK, EventRow
  <2>4. CASE TransitionWrite(one)
    BY <1>3, <2>4 DEF TransitionWrite, FreshInv, TypeInv, TypeOK, EventRow
  <2>5. event' = event \/ CreateInsert(one) \/ UpdateWrite(one) \/ TransitionWrite(one)
    BY <1>3 DEF Next, Request, Continue, CreateCheck, UpdateCheck, TransitionCheck, Checked,
                FollowUp, Fault, Tick, vars
  <2> QED
    BY <2>1, <2>2, <2>3, <2>4, <2>5
<1>4. TypeInv /\ FreshInv /\ [Next]_vars =>
        [\A e \in Events :
            event[e].status \notin {"absent", event'[e].status} =>
               event'[e].status \in STATUS_TRANSITIONS[event[e].status]]_vars
  BY <1>3
<1> QED
  BY <1>1, <1>2, <1>4, TypeInit, TypeStep, PTL DEF Spec, TransitionsAllowed

-----------------------------------------------------------------------------
(* One caller, and the cron jobs.  A job may overwrite a cancellation, so  *)
(* statuses need not follow the table; but what a job has picked was       *)
(* approved and never becomes editable again, so that it does not touch an *)
(* event that an edit has found editable.                                  *)

EditInv ==
    /\ \A c \in Callers : call[c].pc = "checked" =>
          /\ call[c].op = "update" => event[call[c].event].status \in EDITABLE_STATUSES
          /\ call[c].op = "submit" => event[call[c].event].status = "DRAFT"
    /\ \A c \in Crons : call[c].pc = "checked" =>
          /\ call[c].op \in {"goLive", "archive"}
          /\ event[call[c].event].status \notin EDITABLE_STATUSES \cup {"absent"}

LEMMA EditInit == Init => EditInv
BY DEF Init, EditInv, Idle

\* A call that ends, or is done with its row, leaves the others what they have found as
\* long as their events have not moved.
LEMMA EditsRest ==
    ASSUME EditInv, NEW c \in Slots, call'[c].pc # "checked",
           \A d \in Slots \ {c} : call'[d] = call[d],
           \A d \in Slots \ {c} : call[d].pc = "checked" /\ call[d].op # "create" =>
              event'[call[d].event].status = event[call[d].event].status
    PROVE  EditInv'
BY DEF EditInv, Slots

LEMMA EditChecks ==
    ASSUME TypeInv, EditInv, NEW c \in Slots, NEW op, NEW e, NEW dto, Checked(c, op, e, dto),
           c \in Callers => /\ op = "update" => event[e].status \in EDITABLE_STATUSES
                            /\ op = "submit" => event[e].status = "DRAFT",
           c \in Crons => /\ op \in {"goLive", "archive"}
                          /\ event[e].status \notin EDITABLE_STATUSES \cup {"absent"}
    PROVE  EditInv'
BY DEF Checked, EditInv, TypeInv, TypeOK, Slots

\* Two checked calls of one event, one of them an edit or a submission by the only
\* caller, do not exist: the other would be of a cron job.
LEMMA EditNext ==
    ASSUME NEW one, Callers = {one}
    PROVE  TypeInv /\ EditInv /\ [Next]_vars => EditInv'
<1> SUFFICES ASSUME TypeInv, EditInv, [Next]_vars PROVE EditInv'
  OBVIOUS
<1>1. ASSUME NEW dto, CreateCheck(one, dto) PROVE EditInv'
  BY <1>1, EditChecks, CallersAreNotCrons DEF CreateCheck, Slots
<1>2. ASSUME NEW e \in Events, NEW dto, UpdateCheck(one, e, dto) PROVE EditInv'
  BY <1>2, EditChecks, CallersAreNotCrons DEF UpdateCheck, Slots
<1>3. ASSUME NEW e \in Events, NEW op \in Transitions, TransitionCheck(one, op, e)
      PROVE  EditInv'
  <2>1. op = "submit" => event[e].status = "DRAFT"
    BY <1>3 DEF TransitionCheck, Target, STATUS_TRANSITIONS, TypeInv, TypeOK, EventRow, Status
  <2>2. op # "update"
    BY DEF Transitions, Target
  <2>3. QED
    BY <1>3, <2>1, <2>2, EditChecks, CallersAreNotCrons DEF TransitionCheck, Slots
<1>4. ASSUME NEW c \in Crons, NEW e \in Events, CronGoLive(c, e) \/ CronArchive(c, e)
      PROVE  EditInv'
  <2>1. /\ event[e].status \notin EDITABLE_STATUSES \cup {"absent"}
        /\ Checked(c, "goLive", e, NoDto) \/ Checked(c, "archive", e, NoDto)
    BY <1>4 DEF CronGoLive, CronArchive, TransitionCheck, EDITABLE_STATUSES
  <2>2. QED
    BY <2>1, EditChecks, CallersAreNotCrons DEF Slots
<1>5. ASSUME NEW c \in Slots, CreateInsert(c) PROVE EditInv'
  <2>1. PICK e \in Events : event[e].status = "absent" /\ event' = [event EXCEPT ![e] = event'[e]]
    BY <1>5 DEF CreateInsert, TypeInv, TypeOK
  <2>2. call' = [call EXCEPT ![c] = Idle] /\ c = one
    BY <1>5 DEF CreateInsert, EditInv, Slots
  <2>3. ASSUME NEW d \in Crons, call[d].pc = "checked"
        PROVE  event'[call[d].event].status = event[call[d].event].status
    <3>1. call[d].event \in Events /\ event[call[d].event].status # "absent"
      BY <2>3 DEF EditInv, TypeInv, CallsNameTheirEvent, Slots
    <3>2. call[d].event # e
      BY <2>1, <3>1
    <3>3. QED
      BY <2>1, <3>1, <3>2 DEF TypeInv, TypeOK
  <2>4. QED
    BY <2>2, <2>3, EditsRest DEF TypeInv, TypeOK, Idle, Slots
<1>6. ASSUME NEW c \in Slots, UpdateWrite(c) PROVE EditInv'
  <2>1. call' = [call EXCEPT ![c] = Idle]
    BY <1>6 DEF UpdateWrite
  <2>2. \A e \in Events : event'[e].status = event[e].status
    BY <1>6 DEF UpdateWrite, Edited, TypeInv, TypeOK, EventRow
  <2>3. \A d \in Slots \ {c} : call[d].pc = "checked" =>
              event'[call[d].event].status = event[call[d].event].status
    <3>1. ASSUME NEW d \in Slots \ {c} PROVE d \in Crons \/ c \in Crons
      BY DEF Slots
    <3>2. QED
      BY <1>6, <2>2, <3>1 DEF UpdateWrite, EditInv, TypeInv, TypeOK, Call
  <2>4. QED
    BY <2>1, <2>3, EditsRest DEF TypeInv, TypeOK, Idle, Slots
<1>7. ASSUME NEW c \in Slots, TransitionWrite(c) PROVE EditInv'
  <2> DEFINE e == call[c].event
             status == Target[call[c].op]
  <2>1. /\ call'[c].pc # "checked" /\ \A d \in Slots \ {c} : call'[d] = call[d]
        /\ \A f \in Events \ {e} : event'[f] = event[f]
    BY <1>7 DEF TransitionWrite, TypeInv, TypeOK, Idle, Slots
  <2>2. e \in Events /\ event'[e].status = status /\ call[c].op \in Transitions
    BY <1>7 DEF TransitionWrite, TypeInv, TypeOK, EventRow, CallsNameTheirEvent, Call, Transitions,
                Target
  <2>3. status \in Status \ {"absent", "DRAFT"} /\ (status = "PENDING" => call[c].op = "submit")
    BY <2>2 DEF Target, Transitions, Status
  <2>4. ASSUME NEW d \in Slots \ {c}, call[d].pc = "checked", call[d].op # "create"
        PROVE  call[d].event \in Events /\ call'[d] = call[d]
    BY <2>1, <2>4 DEF TypeInv, CallsNameTheirEvent
  <2>5. call[c].pc = "checked"
    BY <1>7 DEF TransitionWrite
  <2> HIDE DEF e, status
  <2>6. CASE c = one
    <3>1. ASSUME NEW d \in Crons, call'[d].pc = "checked"
          PROVE  /\ call'[d].op \in {"goLive", "archive"}
                 /\ event'[call'[d].event].status \notin EDITABLE_STATUSES \cup {"absent"}
      <4>1. /\ call'[d] = call[d] /\ call[d].op \in {"goLive", "archive"}
            /\ event[call[d].event].status \notin EDITABLE_STATUSES \cup {"absent"}
        BY <2>1, <2>6, <3>1, CallersAreNotCrons DEF EditInv, Slots
      <4>2. CASE call[d].event = e
        <5>1. call[c].op # "submit"
          BY <2>5, <2>6, <4>1, <4>2 DEF EditInv, EDITABLE_STATUSES, e
        <5>2. QED
          BY <2>2, <2>3, <4>1, <4>2, <5>1 DEF EDITABLE_STATUSES
      <4>3. CASE call[d].event # e
        BY <2>1, <2>4, <2>6, <3>1, <4>1, <4>3, CallersAreNotCrons DEF Slots
      <4>4. QED
        BY <4>2, <4>3
    <3>2. QED
      BY <2>1, <2>6, <3>1 DEF EditInv
  <2>7. CASE c \in Crons
    <3>1. status \notin EDITABLE_STATUSES \cup {"absent"}
      BY <2>3, <2>5, <2>7 DEF EditInv, EDITABLE_STATUSES, status, Target
    <3>2. event[e].status \notin EDITABLE_STATUSES
      BY <2>5, <2>7 DEF EditInv, e
    <3>3. call'[one] = call[one] /\ one \in Slots \ {c}
      BY <2>1, <2>7, CallersAreNotCrons DEF Slots
    <3>4. ASSUME call[one].pc = "checked", call[one].op \in {"update", "submit"}
          PROVE  event'[call[one].event] = event[call[one].event]
      <4>1. event[call[one].event].status \in EDITABLE_STATUSES /\ call[one].event \in Events
        BY <2>4, <3>3, <3>4 DEF EditInv, EDITABLE_STATUSES
      <4>2. QED
        BY <2>1, <3>2, <4>1
    <3>5. ASSUME NEW d \in Crons, call'[d].pc = "checked"
          PROVE  /\ call'[d].op \in {"goLive", "archive"}
                 /\ event'[call'[d].event].status \notin EDITABLE_STATUSES \cup {"absent"}
      <4>1. d # c /\ d \in Slots
        BY <2>1, <3>5 DEF Slots
      <4>2. /\ call'[d] = call[d] /\ call[d].op \in {"goLive", "archive"}
            /\ event[call[d].event].status \notin EDITABLE_STATUSES \cup {"absent"}
        BY <2>1, <3>5, <4>1 DEF EditInv
      <4>3. CASE call[d].event = e
        BY <2>2, <3>1, <4>2, <4>3
      <4>4. CASE call[d].event # e
        BY <2>1, <2>4, <3>5, <4>1, <4>2, <4>4
      <4>5. QED
        BY <4>3, <4>4
    <3>6. QED
      BY <3>3, <3>4, <3>5 DEF EditInv
  <2>8. QED
    BY <2>6, <2>7 DEF Slots
<1>8. ASSUME NEW c \in Slots, FollowUp(c) \/ Fault(c) PROVE EditInv'
  BY <1>8, EditsRest DEF FollowUp, Fault, TypeInv, TypeOK, Idle, Slots
<1>9. CASE Tick \/ UNCHANGED vars
  BY <1>9 DEF Tick, vars, EditInv
<1>10. QED
  BY <1>1, <1>2, <1>3, <1>4, <1>5, <1>6, <1>7, <1>8, <1>9 DEF Next, Request, Cron, Continue, Slots

\* With one caller and any number of cron jobs, only drafts and pending events are
\* edited (events.service.ts update): the jobs do not race the edits.
THEOREM EditsCorrect ==
    ASSUME NEW one, Callers = {one}
    PROVE  Spec => EditsOnlyBeforeApproval
<1>1. ASSUME TypeInv, EditInv, [Next]_vars, NEW e \in Events,
             event[e].status \notin EDITABLE_STATUSES \cup {"absent"}
      PROVE  /\ event'[e].venue = event[e].venue
             /\ event'[e].start = event[e].start
             /\ event'[e].end = event[e].end
  <2>1. CASE event' = event
    BY <2>1
  <2>2. ASSUME NEW c \in Slots, CreateInsert(c) PROVE event'[e] = event[e]
    BY <1>1, <2>2 DEF CreateInsert, TypeInv, TypeOK
  <2>3. ASSUME NEW c \in Slots, UpdateWrite(c) PROVE event'[e] = event[e]
    <3>1. call[c].event # e
      BY <1>1, <2>3 DEF UpdateWrite, EditInv, Slots
    <3>2. QED
      BY <2>3, <3>1 DEF UpdateWrite, TypeInv, TypeOK
  <2>4. ASSUME NEW c \in Slots, TransitionWrite(c)
        PROVE  /\ event'[e].venue = event[e].venue
               /\ event'[e].start = event[e].start
               /\ event'[e].end = event[e].end
    BY <2>4 DEF TransitionWrite, TypeInv, TypeOK, EventRow
  <2>5. event' = event \/ \E c \in Slots : CreateInsert(c) \/ UpdateWrite(c) \/ TransitionWrite(c)
    BY <1>1 DEF Next, Request, Cron, Continue, CreateCheck, UpdateCheck, CronGoLive, CronArchive,
                TransitionCheck, Checked, FollowUp, Fault, Tick, vars, Slots
  <2>6. QED
    BY <2>1, <2>2, <2>3, <2>4, <2>5
<1>2. TypeInv /\ EditInv /\ [Next]_vars =>
        [\A e \in Events :
            event[e].status \notin EDITABLE_STATUSES \cup {"absent"} =>
               /\ event'[e].venue = event[e].venue
               /\ event'[e].start = event[e].start
               /\ event'[e].end = event[e].end]_vars
  BY <1>1
<1>3. TypeInv /\ EditInv /\ [Next]_vars => EditInv'
  BY EditNext
<1>4. QED
  BY <1>2, <1>3, EditInit, TypeInit, TypeStep, PTL DEF Spec, EditsOnlyBeforeApproval

-----------------------------------------------------------------------------
(* Bookings.                                                               *)

\* What a caller found free is still free when it writes, as long as nobody
\* else writes: a creation has read every event, an edit every other one.
SlotInv ==
    \A c \in Callers : call[c].pc = "checked" =>
       /\ call[c].op = "create" => Available(call[c].dto, None)
       /\ call[c].op = "update" =>
             Available(Edited(call[c].event, call[c].dto), call[c].event)

\* Without a second caller and without cron jobs, no creation or edit puts an
\* event into a slot that another event has booked (checkAvailability).
THEOREM BookingCorrect ==
    ASSUME NEW one, Callers = {one}, Crons = {}
    PROVE  Spec => NeverMovesIntoABookedSlot
<1> USE DEF Slots
<1>1. Init => SlotInv
  BY DEF Init, SlotInv, Idle
<1>2. TypeInv /\ SlotInv /\ [Next]_vars => SlotInv'
  <2> SUFFICES ASSUME TypeInv, SlotInv, [Next]_vars PROVE SlotInv'
    OBVIOUS
  <2>1. ASSUME NEW dto, CreateCheck(one, dto) PROVE SlotInv'
    BY <2>1 DEF CreateCheck, Checked, SlotInv, TypeInv, TypeOK, Available
  <2>2. ASSUME NEW e \in Events, NEW dto, UpdateCheck(one, e, dto) PROVE SlotInv'
    BY <2>2 DEF UpdateCheck, Checked, SlotInv, TypeInv, TypeOK, Available, Edited
  <2>3. ASSUME NEW e \in Events, NEW op \in Transitions, TransitionCheck(one, op, e)
        PROVE  SlotInv'
    <3>1. op \notin {"create", "update"}
      BY DEF Transitions, Target
    <3> QED
      BY <2>3, <3>1 DEF TransitionCheck, Checked, SlotInv, TypeInv, TypeOK
  <2>4. ASSUME call'[one].pc # "checked" PROVE SlotInv'
    BY <2>4 DEF SlotInv
  <2>5. ASSUME CreateInsert(one) \/ UpdateWrite(one) \/ TransitionWrite(one)
                 \/ FollowUp(one) \/ Fault(one)
        PROVE  call'[one].pc # "checked"
    BY <2>5 DEF CreateInsert, UpdateWrite, TransitionWrite, FollowUp, Fault,
                TypeInv, TypeOK, Idle, Call
  <2>6. CASE Tick \/ UNCHANGED vars
    BY <2>6 DEF Tick, vars, SlotInv, Available, Edited
  <2> QED
    BY <2>1, <2>2, <2>3, <2>4, <2>5, <2>6 DEF Next, Request, Continue
<1>3. ASSUME TypeInv, SlotInv, [Next]_vars, NEW e \in Events
      PROVE  \/ event'[e].venue = event[e].venue /\ event'[e].start = event[e].start
                   /\ event'[e].end = event[e].end
             \/ \A f \in Events \ {e} :
                   event[f].status \in Booked => ~Overlap(event[f], event'[e])
  <2>1. CASE event' = event
    BY <2>1
  <2>2. CASE CreateInsert(one)
    <3>1. Available(call[one].dto, None)
      BY <1>3, <2>2 DEF CreateInsert, SlotInv
    <3>2. \/ event'[e] = event[e]
          \/ event'[e] = [status |-> "DRAFT", venue |-> call[one].dto.venue,
                          start |-> call[one].dto.start, end |-> call[one].dto.end]
      BY <1>3, <2>2 DEF CreateInsert, TypeInv, TypeOK
    <3> QED
      BY <3>1, <3>2, NoneIsNothing DEF Available, Overlap
  <2>3. CASE UpdateWrite(one)
    <3>1. Available(Edited(call[one].event, call[one].dto), call[one].event)
      BY <1>3, <2>3 DEF UpdateWrite, SlotInv
    <3>2. \/ event'[e] = event[e]
          \/ e = call[one].event /\ event'[e] = Edited(call[one].event, call[one].dto)
      BY <1>3, <2>3 DEF UpdateWrite, TypeInv, TypeOK
    <3> QED
      BY <3>1, <3>2 DEF Available
  <2>4. CASE TransitionWrite(one)
    BY <1>3, <2>4 DEF TransitionWrite, TypeInv, TypeOK, EventRow
  <2>5. event' = event \/ CreateInsert(one) \/ UpdateWrite(one) \/ TransitionWrite(one)
    BY <1>3 DEF Next, Request, Continue, CreateCheck, UpdateCheck, TransitionCheck, Checked,
                FollowUp, Fault, Tick, vars
  <2> QED
    BY <2>1, <2>2, <2>3, <2>4, <2>5
<1>4. TypeInv /\ SlotInv /\ [Next]_vars =>
        [\A e \in Events :
            \/ event'[e].venue = event[e].venue /\ event'[e].start = event[e].start
                  /\ event'[e].end = event[e].end
            \/ \A f \in Events \ {e} :
                  event[f].status \in Booked => ~Overlap(event[f], event'[e])]_vars
  BY <1>3
<1> QED
  BY <1>1, <1>2, <1>4, TypeInit, TypeStep, PTL DEF Spec, NeverMovesIntoABookedSlot

-----------------------------------------------------------------------------
(* The team of an event (module Team).                                     *)

\* Rows are of users, and whoever is ACCEPTED has once accepted.
RolesAreAccepted == \A i \in OrgIds :
    /\ org[i].status # "none" => org[i].user \in Members
    /\ org[i].status = "ACCEPTED" => org[i].user \in accepted

\* The handler is about to change a row of org or of invite.
Touching(c) == deed[c].pc \in {"answer", "remove"}

\* What a handler found out before its last await: who acts is of the team, and
\* the row it will change exists and, unless another handler is after it as
\* well, still has the status that was read.
DeedsAreBacked == \A c \in Calls :
    /\ deed[c].pc \in {"send", "post"} => deed[c].by \in accepted \cup {Creator}
    /\ deed[c].pc = "addOrg" => deed[c].user \in Members
    /\ deed[c].pc = "edit" => deed[c].id \in Posts
    /\ deed[c].pc = "answer" => deed[c].status \in T!Answers
    /\ Touching(c) => deed[c].id \in T!RowIds /\ T!StatusOf(deed[c].id) # "none"
    /\ deed[c].pc = "answer" /\ deed[c].id \notin raced => T!StatusOf(deed[c].id) = "PENDING"
    /\ deed[c].pc = "remove" /\ deed[c].id \in InviteIds \ raced
         => T!StatusOf(deed[c].id) = "PENDING"

\* Two handlers that are about to change one row: the second one was noted.
RacesAreNoted == \A c, d \in Calls :
    c # d /\ Touching(c) /\ Touching(d) /\ deed[c].id = deed[d].id => deed[c].id \in raced

\* The inductive invariant.
TeamInv == T!TypeOK /\ T!ActsByTheTeam /\ RolesAreAccepted /\ DeedsAreBacked /\ RacesAreNoted

LEMMA TeamInit == T!Init => TeamInv
<1> SUFFICES ASSUME T!Init PROVE TeamInv
  OBVIOUS
<1> USE DEF T!Init
<1>1. T!TypeOK
  BY DEF T!TypeOK, T!NoOrg, T!NoInvite, T!NoDeed, T!OrgRow, T!InviteRow, T!Deed, T!Status
<1>2. T!ActsByTheTeam
  BY DEF T!ActsByTheTeam, T!Exists, T!NoInvite
<1>3. RolesAreAccepted
  BY DEF RolesAreAccepted, T!NoOrg
<1>4. DeedsAreBacked /\ RacesAreNoted
  BY DEF DeedsAreBacked, RacesAreNoted, Touching, T!NoDeed
<1>5. QED
  BY <1>1, <1>2, <1>3, <1>4 DEF TeamInv

\* Who may act has accepted or created the event.
LEMMA ActorsAreAccepted ==
    ASSUME RolesAreAccepted, NEW u, T!MayAct(u)
    PROVE  u \in accepted \cup {Creator}
BY DEF RolesAreAccepted, T!MayAct

\* A handler that begins leaves the tables as they are: what it begins with is
\* what DeedsAreBacked asks of it.
LEMMA TeamBegins ==
    ASSUME TeamInv, NEW c \in Calls, NEW step \in T!Deed,
           T!Begin(c, step),
           step.pc \in {"send", "post"} => step.by \in accepted \cup {Creator},
           step.pc = "addOrg" => step.user \in Members,
           step.pc = "edit" => step.id \in Posts,
           step.pc \notin {"answer", "remove"},
           UNCHANGED <<phase, org, invite, post, accepted, raced>>
    PROVE  TeamInv'
<1>1. deed' \in [Calls -> T!Deed] /\ deed'[c] = step /\ \A d \in Calls \ {c} : deed'[d] = deed[d]
  BY DEF TeamInv, T!TypeOK, T!Begin
<1>2. T!TypeOK'
  BY <1>1 DEF TeamInv, T!TypeOK
<1>3. T!ActsByTheTeam' /\ RolesAreAccepted'
  BY DEF TeamInv, T!ActsByTheTeam, RolesAreAccepted, T!Exists
<1>4. DeedsAreBacked'
  BY <1>1 DEF TeamInv, DeedsAreBacked, Touching, T!StatusOf
<1>5. RacesAreNoted'
  BY <1>1 DEF TeamInv, RacesAreNoted, Touching
<1>6. QED
  BY <1>2, <1>3, <1>4, <1>5 DEF TeamInv

\* The same for handlers that are about to change a row: the row is noted if
\* another one is after it.
LEMMA TeamTouches ==
    ASSUME TeamInv, NEW c \in Calls, NEW step \in T!Deed,
           T!Begin(c, step), T!Note(step.id),
           step.pc \in {"answer", "remove"},
           step.id \in T!RowIds,
           T!StatusOf(step.id) # "none",
           step.pc = "answer" => step.status \in T!Answers /\ T!StatusOf(step.id) = "PENDING",
           step.pc = "remove" /\ step.id \in InviteIds => T!StatusOf(step.id) = "PENDING",
           UNCHANGED <<phase, org, invite, post, accepted>>
    PROVE  TeamInv'
<1>1. deed' \in [Calls -> T!Deed] /\ deed'[c] = step /\ \A d \in Calls \ {c} : deed'[d] = deed[d]
  BY DEF TeamInv, T!TypeOK, T!Begin
<1>2. raced' \subseteq T!RowIds /\ raced \subseteq raced'
  BY DEF TeamInv, T!TypeOK, T!Note
<1>3. T!TypeOK'
  BY <1>1, <1>2 DEF TeamInv, T!TypeOK
<1>4. T!ActsByTheTeam' /\ RolesAreAccepted'
  BY DEF TeamInv, T!ActsByTheTeam, RolesAreAccepted, T!Exists
<1>5. DeedsAreBacked'
  BY <1>1, <1>2 DEF TeamInv, DeedsAreBacked, Touching, T!StatusOf
<1>6. ASSUME NEW d \in Calls \ {c}, Touching(d), deed[d].id = step.id
      PROVE  step.id \in raced'
  BY <1>6 DEF T!Note, T!Touches, Touching
<1>7. RacesAreNoted'
  BY <1>1, <1>2, <1>6 DEF TeamInv, RacesAreNoted, Touching
<1>8. QED
  BY <1>3, <1>4, <1>5, <1>7 DEF TeamInv

\* A handler that ends is no longer about anything, the others go on.
LEMMA TeamFinishes ==
    ASSUME TeamInv, NEW c \in Calls, T!Finish(c)
    PROVE  /\ deed' \in [Calls -> T!Deed]
           /\ deed'[c].pc = "none"
           /\ \A d \in Calls \ {c} : deed'[d] = deed[d]
           /\ \A d \in Calls : deed'[d].pc # "none" => d # c /\ deed'[d] = deed[d]
BY DEF TeamInv, T!TypeOK, T!Finish, T!NoDeed, T!Deed, T!Status

\* One step per action of Team.
LEMMA TeamNext == TeamInv /\ [T!Next]_team => TeamInv'
<1> SUFFICES ASSUME TeamInv, [T!Next]_team PROVE TeamInv'
  OBVIOUS
<1> USE RowsAreApart
<1>1. CASE UNCHANGED team
  BY <1>1 DEF team, TeamInv, T!TypeOK, T!ActsByTheTeam, T!Exists, RolesAreAccepted, DeedsAreBacked,
     RacesAreNoted, Touching, T!StatusOf
<1>2. CASE T!EventMoves
  BY <1>2 DEF T!EventMoves, TeamInv, T!TypeOK, T!ActsByTheTeam, T!Exists, RolesAreAccepted, DeedsAreBacked,
     RacesAreNoted, Touching, T!StatusOf
<1>3. ASSUME NEW c \in Calls, NEW u \in Members, NEW v \in Members, T!InviteOrganizer(c, u, v)
      PROVE  TeamInv'
  BY <1>3, TeamBegins DEF T!InviteOrganizer, T!NoDeed, T!Deed, T!Status
<1>4. ASSUME NEW c \in Calls, NEW u \in Members, NEW i \in T!RowIds, NEW s \in {"ACCEPTED", "REJECTED"},
             T!Respond(c, i, u, s)
      PROVE  TeamInv'
  BY <1>4, TeamTouches DEF T!Respond, T!NoDeed, T!Deed, T!Status, T!Answers
<1>5. ASSUME NEW c \in Calls, NEW u \in Members, NEW i \in OrgIds, T!RemoveOrganizer(c, u, i)
      PROVE  TeamInv'
  BY <1>5, TeamTouches DEF T!RemoveOrganizer, T!NoDeed, T!Deed, T!Status, T!RowIds, T!StatusOf, T!Exists
<1>6. ASSUME NEW c \in Calls, NEW u \in Members, NEW i \in InviteIds, T!CancelInvite(c, u, i)
      PROVE  TeamInv'
  BY <1>6, TeamTouches DEF T!CancelInvite, T!NoDeed, T!Deed, T!Status, T!RowIds, T!StatusOf
<1>7. ASSUME NEW c \in Calls, NEW u \in Members, NEW E \in SUBSET T!Guests, T!InviteGuests(c, u, E)
      PROVE  TeamInv'
  <2> DEFINE new == E \ {invite[i].guest : i \in {j \in InviteIds : T!Exists(invite[j])}}
             step == [T!NoDeed EXCEPT !.pc = "send", !.by = u, !.to = new]
  <2>1. new \in SUBSET T!Guests
    OBVIOUS
  <2>2. step \in T!Deed /\ step.pc = "send" /\ step.by = u
    BY <2>1 DEF T!Deed, T!NoDeed, T!Status
  <2>3. T!Begin(c, step) /\ UNCHANGED <<phase, org, invite, post, accepted, raced>>
    BY <1>7 DEF T!InviteGuests
  <2>4. u \in accepted \cup {Creator}
    BY <1>7, ActorsAreAccepted DEF T!InviteGuests, TeamInv
  <2> HIDE DEF step
  <2>5. QED
    BY <2>2, <2>3, <2>4, TeamBegins
<1>8. ASSUME NEW c \in Calls, NEW u \in Members, T!Announce(c, u)
      PROVE  TeamInv'
  BY <1>8, TeamBegins, ActorsAreAccepted DEF T!Announce, T!NoDeed, T!Deed, T!Status, TeamInv
<1>9. ASSUME NEW c \in Calls, NEW u \in Members, NEW p \in Posts, T!RemovePost(c, u, p)
      PROVE  TeamInv'
  BY <1>9, TeamBegins DEF T!RemovePost, T!NoDeed, T!Deed, T!Status
<1>10. ASSUME NEW c \in Calls, NEW i \in OrgIds, T!AddOrganizer(c, i)
       PROVE  TeamInv'
  <2> USE <1>10 DEF T!AddOrganizer
  <2>1. deed[c].user \in Members
    BY DEF TeamInv, DeedsAreBacked, T!At
  <2>2. org' \in [OrgIds -> T!OrgRow] /\ \A j \in OrgIds : org'[j] = org[j]
          \/ (j = i /\ org'[j] = [user |-> deed[c].user, status |-> "PENDING"])
    BY <2>1 DEF TeamInv, T!TypeOK, T!OrgRow, T!Status
  <2>3. T!TypeOK'
    BY <2>2, TeamFinishes DEF TeamInv, T!TypeOK
  <2>4. T!ActsByTheTeam' /\ RolesAreAccepted'
    BY <2>1, <2>2 DEF TeamInv, T!ActsByTheTeam, RolesAreAccepted, T!Exists
  <2>5. DeedsAreBacked'
    BY <2>2, TeamFinishes DEF TeamInv, DeedsAreBacked, Touching, T!StatusOf, T!RowIds
  <2>6. RacesAreNoted'
    BY TeamFinishes DEF TeamInv, RacesAreNoted, Touching
  <2>7. QED
    BY <2>3, <2>4, <2>5, <2>6 DEF TeamInv
<1>11. ASSUME NEW c \in Calls, NEW ids \in SUBSET InviteIds, T!InsertInvites(c, ids)
       PROVE  TeamInv'
  <2> USE <1>11 DEF T!InsertInvites
  <2>1. deed[c].by \in accepted \cup {Creator} /\ deed[c] \in T!Deed
    BY DEF TeamInv, DeedsAreBacked, T!At, T!TypeOK
  <2>2. /\ invite' \in [InviteIds -> T!InviteRow]
        /\ \A i \in InviteIds : invite'[i] = invite[i]
             \/ (invite[i].status = "none" /\ invite'[i].by = deed[c].by)
    <3>1. CASE invite' = invite
      BY <3>1 DEF TeamInv, T!TypeOK
    <3>2. CASE invite' # invite
      <4>1. PICK f \in [ids -> deed[c].to] : invite' = [i \in InviteIds |->
               IF i \in ids THEN [guest |-> f[i], by |-> deed[c].by, status |-> "PENDING"]
                            ELSE invite[i]]
        BY <3>2
      <4>2. \A i \in ids : f[i] \in T!Guests
        BY <2>1 DEF T!Deed
      <4>3. QED
        BY <2>1, <4>1, <4>2 DEF TeamInv, T!TypeOK, T!Deed, T!InviteRow, T!Status
    <3>3. QED
      BY <3>1, <3>2
  <2>3. T!TypeOK'
    BY <2>2, TeamFinishes DEF TeamInv, T!TypeOK
  <2>4. T!ActsByTheTeam' /\ RolesAreAccepted'
    BY <2>1, <2>2 DEF TeamInv, T!ActsByTheTeam, RolesAreAccepted, T!Exists
  <2>5. DeedsAreBacked'
    BY <2>2, TeamFinishes DEF TeamInv, DeedsAreBacked, Touching, T!StatusOf, T!RowIds
  <2>6. RacesAreNoted'
    BY TeamFinishes DEF TeamInv, RacesAreNoted, Touching
  <2>7. QED
    BY <2>3, <2>4, <2>5, <2>6 DEF TeamInv
<1>12. ASSUME NEW c \in Calls, NEW p \in Posts, T!InsertPost(c, p)
       PROVE  TeamInv'
  <2> USE <1>12 DEF T!InsertPost
  <2>1. deed[c].by \in accepted \cup {Creator} /\ deed[c].by \in Members \cup {None}
    BY DEF TeamInv, DeedsAreBacked, T!At, T!TypeOK, T!Deed
  <2>3. T!TypeOK'
    BY <2>1, TeamFinishes DEF TeamInv, T!TypeOK
  <2>4. T!ActsByTheTeam' /\ RolesAreAccepted'
    BY <2>1 DEF TeamInv, T!TypeOK, T!ActsByTheTeam, RolesAreAccepted, T!Exists
  <2>5. DeedsAreBacked'
    BY TeamFinishes DEF TeamInv, DeedsAreBacked, Touching, T!StatusOf, T!RowIds
  <2>6. RacesAreNoted'
    BY TeamFinishes DEF TeamInv, RacesAreNoted, Touching
  <2>7. QED
    BY <2>3, <2>4, <2>5, <2>6 DEF TeamInv
<1>13. ASSUME NEW c \in Calls, T!WriteAnswer(c)
       PROVE  TeamInv'
  <2> DEFINE i == deed[c].id
             s == deed[c].status
  <2> USE <1>13 DEF T!WriteAnswer
  <2>1. i \in T!RowIds /\ T!StatusOf(i) # "none" /\ s \in T!Answers
    BY DEF TeamInv, DeedsAreBacked, T!At, Touching
  <2>2. /\ org' \in [OrgIds -> T!OrgRow]
        /\ \A j \in OrgIds : org'[j] = org[j] \/ (j = i /\ org'[j] = [org[j] EXCEPT !.status = s])
    BY <2>1 DEF TeamInv, T!TypeOK, T!OrgRow, T!Status, T!Answers
  <2>3. /\ invite' \in [InviteIds -> T!InviteRow]
        /\ \A j \in InviteIds : invite'[j] = invite[j]
             \/ (j = i /\ invite'[j] = [invite[j] EXCEPT !.status = s])
    BY <2>1 DEF TeamInv, T!TypeOK, T!InviteRow, T!Status, T!Answers
  <2>4. accepted \subseteq accepted' /\ accepted' \subseteq Members
    BY <2>1 DEF TeamInv, T!TypeOK, RolesAreAccepted, T!StatusOf
  <2>5. T!TypeOK'
    BY <2>2, <2>3, <2>4, TeamFinishes DEF TeamInv, T!TypeOK
  <2>6. T!ActsByTheTeam'
    BY <2>1, <2>3, <2>4 DEF TeamInv, T!TypeOK, T!InviteRow, T!ActsByTheTeam, T!Exists, T!StatusOf, T!RowIds
  <2>7. RolesAreAccepted'
    BY <2>1, <2>2, <2>4 DEF TeamInv, T!TypeOK, T!OrgRow, RolesAreAccepted, T!StatusOf, T!Answers
  <2>8. ASSUME NEW d \in Calls \ {c}, Touching(d), deed[d].id = i
        PROVE  i \in raced
    BY <2>8 DEF TeamInv, RacesAreNoted, Touching, T!At
  <2>9. DeedsAreBacked'
    BY <2>1, <2>2, <2>3, <2>4, <2>8, TeamFinishes DEF TeamInv, T!TypeOK, T!OrgRow, T!InviteRow,
       DeedsAreBacked, Touching, T!StatusOf, T!RowIds, T!Answers
  <2>10. RacesAreNoted'
    BY TeamFinishes DEF TeamInv, RacesAreNoted, Touching
  <2>11. QED
    BY <2>5, <2>6, <2>7, <2>9, <2>10 DEF TeamInv
<1>14. ASSUME NEW c \in Calls, T!DeleteRow(c)
       PROVE  TeamInv'
  <2> DEFINE i == deed[c].id
  <2> USE <1>14 DEF T!DeleteRow
  <2>1. i \in T!RowIds /\ T!StatusOf(i) # "none"
    BY DEF TeamInv, DeedsAreBacked, T!At, Touching
  <2>2. /\ org' \in [OrgIds -> T!OrgRow]
        /\ \A j \in OrgIds : org'[j] = org[j] \/ (j = i /\ org'[j] = [org[j] EXCEPT !.status = "gone"])
    BY <2>1 DEF TeamInv, T!TypeOK, T!OrgRow, T!Status
  <2>3. /\ invite' \in [InviteIds -> T!InviteRow]
        /\ \A j \in InviteIds : invite'[j] = invite[j]
             \/ (j = i /\ invite'[j] = [invite[j] EXCEPT !.status = "gone"])
    BY <2>1 DEF TeamInv, T!TypeOK, T!InviteRow, T!Status
  <2>5. T!TypeOK'
    BY <2>2, <2>3, TeamFinishes DEF TeamInv, T!TypeOK
  <2>6. T!ActsByTheTeam'
    BY <2>1, <2>3 DEF TeamInv, T!TypeOK, T!InviteRow, T!ActsByTheTeam, T!Exists, T!StatusOf
  <2>7. RolesAreAccepted'
    BY <2>1, <2>2 DEF TeamInv, T!TypeOK, T!OrgRow, RolesAreAccepted, T!StatusOf
  <2>8. ASSUME NEW d \in Calls \ {c}, Touching(d), deed[d].id = i
        PROVE  i \in raced
    BY <2>8 DEF TeamInv, RacesAreNoted, Touching, T!At
  <2>9. DeedsAreBacked'
    BY <2>1, <2>2, <2>3, <2>8, TeamFinishes DEF TeamInv, T!TypeOK, T!OrgRow, T!InviteRow,
       DeedsAreBacked, Touching, T!StatusOf, T!RowIds
  <2>10. RacesAreNoted'
    BY TeamFinishes DEF TeamInv, RacesAreNoted, Touching
  <2>11. QED
    BY <2>5, <2>6, <2>7, <2>9, <2>10 DEF TeamInv
<1>15. ASSUME NEW c \in Calls, T!DeletePost(c)
       PROVE  TeamInv'
  <2> USE <1>15 DEF T!DeletePost
  <2>1. deed[c].id \in Posts
    BY DEF TeamInv, DeedsAreBacked, T!At
  <2>3. T!TypeOK'
    BY <2>1, TeamFinishes DEF TeamInv, T!TypeOK
  <2>4. T!ActsByTheTeam' /\ RolesAreAccepted'
    BY <2>1 DEF TeamInv, T!TypeOK, T!ActsByTheTeam, RolesAreAccepted, T!Exists
  <2>5. DeedsAreBacked'
    BY TeamFinishes DEF TeamInv, DeedsAreBacked, Touching, T!StatusOf, T!RowIds
  <2>6. RacesAreNoted'
    BY TeamFinishes DEF TeamInv, RacesAreNoted, Touching
  <2>7. QED
    BY <2>3, <2>4, <2>5, <2>6 DEF TeamInv
<1>16. ASSUME NEW c \in Calls, T!Die(c)
       PROVE  TeamInv'
  <2> USE <1>16 DEF T!Die
  <2>1. T!TypeOK'
    BY TeamFinishes DEF TeamInv, T!TypeOK
  <2>2. T!ActsByTheTeam' /\ RolesAreAccepted'
    BY DEF TeamInv, T!ActsByTheTeam, T!Exists, RolesAreAccepted
  <2>3. DeedsAreBacked'
    BY TeamFinishes DEF TeamInv, DeedsAreBacked, Touching, T!StatusOf
  <2>4. RacesAreNoted'
    BY TeamFinishes DEF TeamInv, RacesAreNoted, Touching
  <2>5. QED
    BY <2>1, <2>2, <2>3, <2>4 DEF TeamInv
<1>17. QED
  BY <1>1, <1>2, <1>3, <1>4, <1>5, <1>6, <1>7, <1>8, <1>9, <1>10, <1>11, <1>12, <1>13, <1>14, <1>15,
     <1>16 DEF T!Next

\* Of all steps only writes by id change the status of an answered row, and
\* those were noted unless they remove an organizer.
LEMMA AnswersStand ==
    ASSUME TeamInv, [T!Next]_team
    PROVE  T!KeepsAnswers
<1> SUFFICES ASSUME NEW i \in T!RowIds \ raced, T!StatusOf(i) \in T!Answers, T!StatusOf(i)' # T!StatusOf(i)
             PROVE  i \in OrgIds /\ T!StatusOf(i)' = "gone"
  BY DEF T!KeepsAnswers
<1> USE RowsAreApart
<1>1. ASSUME UNCHANGED <<org, invite>>
      PROVE  FALSE
  BY <1>1 DEF T!StatusOf
<1>2. CASE UNCHANGED team
  BY <1>1, <1>2 DEF team
<1>3. ASSUME NEW c \in Calls, NEW j \in OrgIds, T!AddOrganizer(c, j)
      PROVE  FALSE
  BY <1>3 DEF T!AddOrganizer, T!StatusOf, TeamInv, T!TypeOK, T!Answers
<1>4. ASSUME NEW c \in Calls, NEW ids \in SUBSET InviteIds, T!InsertInvites(c, ids)
      PROVE  FALSE
  BY <1>4 DEF T!InsertInvites, T!StatusOf, TeamInv, T!TypeOK, T!Answers, T!RowIds
<1>5. ASSUME NEW c \in Calls, T!WriteAnswer(c)
      PROVE  FALSE
  <2>1. CASE deed[c].id = i
    BY <1>5, <2>1 DEF T!WriteAnswer, TeamInv, DeedsAreBacked, T!At, Touching, T!Answers
  <2>2. CASE deed[c].id # i
    BY <1>5, <2>2 DEF T!WriteAnswer, T!StatusOf, TeamInv, T!TypeOK, T!RowIds
  <2>3. QED
    BY <2>1, <2>2
<1>6. ASSUME NEW c \in Calls, T!DeleteRow(c)
      PROVE  i \in OrgIds /\ T!StatusOf(i)' = "gone"
  <2>1. CASE deed[c].id = i
    BY <1>6, <2>1 DEF T!DeleteRow, T!StatusOf, TeamInv, T!TypeOK, T!OrgRow, T!RowIds, DeedsAreBacked,
       T!At, Touching, T!Answers
  <2>2. CASE deed[c].id # i
    BY <1>6, <2>2 DEF T!DeleteRow, T!StatusOf, TeamInv, T!TypeOK, T!RowIds
  <2>3. QED
    BY <2>1, <2>2
<1>7. QED
  BY <1>1, <1>2, <1>3, <1>4, <1>5, <1>6 DEF T!Next, T!EventMoves, T!InviteOrganizer, T!Respond,
     T!RemoveOrganizer, T!CancelInvite, T!InviteGuests, T!Announce, T!RemovePost, T!InsertPost,
     T!DeletePost, T!Die

\* The rows and the handlers of a team are well formed.
THEOREM TeamTypeCorrect == PartSpec => [](T!TypeOK)
<1>1. PartInit => TeamInv
  BY TeamInit DEF PartInit
<1>2. TeamInv /\ [PartNext]_<<vars, team, part>> => TeamInv'
  <2>1. [PartNext]_<<vars, team, part>> => [T!Next]_team
    BY DEF PartNext
  <2>2. QED
    BY <2>1, TeamNext
<1>3. TeamInv => T!TypeOK
  BY DEF TeamInv
<1>4. QED
  BY <1>1, <1>2, <1>3, PTL DEF PartSpec

\* Answers to invitations stand unless two handlers were after one row, and
\* invitations and announcements come from the creator or from users who
\* accepted (organizers.service.ts, invitations.service.ts).
THEOREM TeamCorrect == PartSpec => TeamIsKept
<1>1. PartInit => TeamInv
  BY TeamInit DEF PartInit
<1>2. [PartNext]_<<vars, team, part>> => [T!Next]_team
  BY DEF PartNext
<1>3. TeamInv /\ [PartNext]_<<vars, team, part>> => TeamInv'
  BY <1>2, TeamNext
<1>4. TeamInv /\ TeamInv' /\ [PartNext]_<<vars, team, part>>
        => [(part = "team") => T!KeepsTeam]_<<team, part>>
  <2> SUFFICES ASSUME TeamInv, TeamInv', [PartNext]_<<vars, team, part>>
               PROVE  T!KeepsTeam
    OBVIOUS
  <2>1. T!KeepsAnswers
    BY <1>2, AnswersStand
  <2>2. T!ActsByTheTeam'
    BY DEF TeamInv
  <2>3. QED
    BY <2>1, <2>2 DEF T!KeepsTeam
<1>5. QED
  BY <1>1, <1>3, <1>4, PTL DEF PartSpec, TeamIsKept
=============================================================================
