------------------------- MODULE RegistrationProofs -------------------------
(***************************************************************************)
(* Theorems about Registration, for every number of guests, rows, open     *)
(* transactions and seats.                                                 *)
(***************************************************************************)
EXTENDS Registration, FiniteSetTheorems, TLAPS

-----------------------------------------------------------------------------
(* Lemmas about the operators the model is built from.                     *)

\* Overlaying a table with writes of its own row type gives such a table.
LEMMA OverlayType ==
    ASSUME NEW S, NEW Row, NEW absent,
           NEW w \in [S -> Row], NEW t \in [S -> Row]
    PROVE  Overlay(w, t, absent) \in [S -> Row]
BY DEF Overlay

\* Staging well-formed writes keeps everything but the messages well formed.
LEMMA StageType ==
    ASSUME TypeOK, NEW r \in Requests,
           NEW rw \in [RegIds -> RegRow], NEW ww \in [EntryIds -> WaitRow],
           Stage(r, rw, ww), told' \in [Users -> Message \cup {"none"}]
    PROVE  TypeOK'
BY DEF TypeOK, Stage, Transaction

\* The empty tables are tables.
LEMMA EmptyTables ==
    /\ NoRegs \in [RegIds -> RegRow]
    /\ NoEntries \in [EntryIds -> WaitRow]
BY DEF NoRegs, NoEntries, NoReg, NoEntry, RegRow, WaitRow, Status

\* A row keeps its type when its status is replaced.
LEMMA WithStatusType ==
    ASSUME TypeOK, NEW i \in RegIds, NEW s \in Status
    PROVE  WithStatus(i, s) \in RegRow
BY DEF TypeOK, WithStatus, RegRow

\* The body of promoteNext stages well-formed writes.
LEMMA PromoteNextType ==
    ASSUME TypeOK, NEW r \in Requests, NEW i \in RegIds, NEW row \in RegRow,
           NEW base \in [Users -> Message \cup {"none"}],
           PromoteNext(r, i, row, base)
    PROVE  TypeOK'
<1>1. PICK e \in EntryIds, j \in FreeRegs :
         /\ Stage(r, [NoRegs EXCEPT ![i] = row,
                         ![j] = [user |-> wait[e].user, status |-> NewStatus, from |-> e]],
                     [NoEntries EXCEPT ![e] = [wait[e] EXCEPT !.state = "promoted"]])
         /\ told' = [base EXCEPT ![wait[e].user] = "registered"]
  BY DEF PromoteNext
<1>2. [user |-> wait[e].user, status |-> NewStatus, from |-> e] \in RegRow
  BY DEF TypeOK, RegRow, WaitRow, NewStatus, Status
<1>3. [wait[e] EXCEPT !.state = "promoted"] \in WaitRow
  BY DEF TypeOK, WaitRow
<1>4. [NoRegs EXCEPT ![i] = row, ![j] = [user |-> wait[e].user, status |-> NewStatus, from |-> e]]
         \in [RegIds -> RegRow]
  BY <1>2, EmptyTables DEF FreeRegs
<1>5. [NoEntries EXCEPT ![e] = [wait[e] EXCEPT !.state = "promoted"]] \in [EntryIds -> WaitRow]
  BY <1>3, EmptyTables
<1>6. told' \in [Users -> Message \cup {"none"}]
  BY <1>1 DEF Message
<1> QED
  BY <1>1, <1>4, <1>5, <1>6, StageType

LEMMA CancelOnlyType ==
    ASSUME TypeOK, NEW r \in Requests, NEW i \in RegIds,
           NEW base \in [Users -> Message \cup {"none"}],
           CancelOnly(r, i, base)
    PROVE  TypeOK'
<1>1. WithStatus(i, "CANCELLED") \in RegRow
  BY WithStatusType DEF Status
<1>2. [NoRegs EXCEPT ![i] = WithStatus(i, "CANCELLED")] \in [RegIds -> RegRow]
  BY <1>1, EmptyTables
<1> QED
  BY <1>2, EmptyTables, StageType DEF CancelOnly

-----------------------------------------------------------------------------
(* Type correctness.                                                       *)

LEMMA ClosedType == Closed \in Transaction
BY EmptyTables DEF Closed, Transaction

LEMMA InitType == Init => TypeOK
BY EmptyTables, ClosedType DEF Init, TypeOK

LEMMA RegisterType ==
    ASSUME TypeOK, NEW r \in Requests, NEW u \in Users, Register(r, u)
    PROVE  TypeOK'
<1>1. CASE TakeSeat(r, u)
  <2>1. PICK i \in FreeRegs :
           Stage(r, [NoRegs EXCEPT ![i] = [user |-> u, status |-> NewStatus, from |-> None]], NoEntries)
    BY <1>1 DEF TakeSeat
  <2>2. [user |-> u, status |-> NewStatus, from |-> None] \in RegRow
    BY DEF RegRow, NewStatus, Status
  <2>3. [NoRegs EXCEPT ![i] = [user |-> u, status |-> NewStatus, from |-> None]] \in [RegIds -> RegRow]
    BY <2>2, EmptyTables DEF FreeRegs
  <2>4. told' \in [Users -> Message \cup {"none"}]
    BY <1>1 DEF TakeSeat, TypeOK
  <2> QED
    BY <2>1, <2>3, <2>4, EmptyTables, StageType
<1>2. CASE AddToWaitlist(r, u)
  <2>1. PICK e \in FreeEntries, p \in NextPositions :
           Stage(r, NoRegs, [NoEntries EXCEPT ![e] = [user |-> u, position |-> p, state |-> "waiting"]])
    BY <1>2 DEF AddToWaitlist
  <2>2. p \in Nat
    BY DEF NextPositions, TypeOK, WaitRow, Waiting
  <2>3. [user |-> u, position |-> p, state |-> "waiting"] \in WaitRow
    BY <2>2 DEF WaitRow
  <2>4. [NoEntries EXCEPT ![e] = [user |-> u, position |-> p, state |-> "waiting"]] \in [EntryIds -> WaitRow]
    BY <2>3, EmptyTables DEF FreeEntries
  <2>5. told' \in [Users -> Message \cup {"none"}]
    BY <1>2 DEF AddToWaitlist, Tell, TypeOK, Message
  <2> QED
    BY <2>1, <2>4, <2>5, EmptyTables, StageType
<1> QED
  BY <1>1, <1>2 DEF Register

LEMMA CommitType ==
    ASSUME TypeOK, NEW r \in Requests, Commit(r)
    PROVE  TypeOK'
<1>1. tx[r].reg \in [RegIds -> RegRow] /\ tx[r].wait \in [EntryIds -> WaitRow]
  BY DEF TypeOK, Transaction
<1>2. reg' \in [RegIds -> RegRow]
  BY <1>1, OverlayType DEF Commit, TypeOK
<1>3. wait' \in [EntryIds -> WaitRow]
  BY <1>1, OverlayType DEF Commit, TypeOK
<1>5. tx' \in [Requests -> Transaction]
  BY ClosedType DEF Commit, TypeOK, Transaction
<1> QED
  BY <1>2, <1>3, <1>5 DEF Commit, TypeOK

LEMMA OvertakeType ==
    ASSUME TypeOK, NEW i \in RegIds, Overtake(i)
    PROVE  tx' \in [Requests -> Transaction]
BY DEF TypeOK, Overtake, Transaction

LEMMA StepType == TypeOK /\ [Next]_vars => TypeOK'
<1> SUFFICES ASSUME TypeOK, [Next]_vars PROVE TypeOK'
  OBVIOUS
<1>1. ASSUME NEW r \in Requests, NEW u \in Users, Register(r, u) PROVE TypeOK'
  BY <1>1, RegisterType
<1>2. ASSUME NEW r \in Requests, NEW i \in RegIds, CancelByGuest(r, i) PROVE TypeOK'
  <2>1. WithStatus(i, "CANCELLED") \in RegRow
    BY WithStatusType DEF Status
  <2>2. told \in [Users -> Message \cup {"none"}]
    BY DEF TypeOK
  <2> QED
    BY <1>2, <2>1, <2>2, PromoteNextType, CancelOnlyType DEF CancelByGuest
<1>3. ASSUME NEW r \in Requests, Commit(r) PROVE TypeOK'
  BY <1>3, CommitType
<1>4. ASSUME NEW r \in Requests, Abort(r) PROVE TypeOK'
  BY <1>4, ClosedType DEF Abort, TypeOK
<1>5. CASE EventEnds
  BY <1>5 DEF EventEnds, TypeOK
<1>6. ASSUME NEW r \in Requests, NEW i \in RegIds, RemoveByOrganizer(r, i) PROVE TypeOK'
  <2>1. WithStatus(i, "CANCELLED") \in RegRow
    BY WithStatusType DEF Status
  <2>2. Tell(reg[i].user, "refused") \in [Users -> Message \cup {"none"}]
    BY DEF TypeOK, Tell, Message
  <2> QED
    BY <1>6, <2>1, <2>2, PromoteNextType, CancelOnlyType DEF RemoveByOrganizer
<1>7. ASSUME NEW a \in Approvals, NEW i \in RegIds, ApproveCheck(a, i) PROVE TypeOK'
  BY <1>7 DEF ApproveCheck, TypeOK
<1>8. ASSUME NEW a \in Approvals, ApproveUpdate(a) PROVE TypeOK'
  <2>1. approving[a] \in RegIds
    BY <1>8 DEF ApproveUpdate, TypeOK
  <2>2. WithStatus(approving[a], "CONFIRMED") \in RegRow
    BY <2>1, WithStatusType DEF Status
  <2>3. tx' \in [Requests -> Transaction]
    BY <1>8, <2>1, OvertakeType DEF ApproveUpdate
  <2> QED
    BY <1>8, <2>2, <2>3 DEF ApproveUpdate, TypeOK, Tell, Message
<1>9. ASSUME NEW a \in Approvals, ApproveLost(a) PROVE TypeOK'
  BY <1>9 DEF ApproveLost, TypeOK
<1>10. ASSUME NEW i \in RegIds, RejectByOrganizer(i) PROVE TypeOK'
  <2>1. WithStatus(i, "CANCELLED") \in RegRow
    BY WithStatusType DEF Status
  <2>2. tx' \in [Requests -> Transaction]
    BY <1>10, OvertakeType DEF RejectByOrganizer
  <2> QED
    BY <1>10, <2>1, <2>2 DEF RejectByOrganizer, TypeOK, Tell, Message
<1>11. CASE UNCHANGED vars
  BY <1>11 DEF vars, TypeOK
<1> QED
  BY <1>1, <1>2, <1>3, <1>4, <1>5, <1>6, <1>7, <1>8, <1>9, <1>10, <1>11
     DEF Next, GuestNext, OrganizerNext

\* Every reachable state is well formed: each handler stages rows of the
\* table they are written to (all of registration.service.ts).
THEOREM TypeCorrect == Spec => []TypeOK
<1> QED
  BY InitType, StepType, PTL DEF Spec

-----------------------------------------------------------------------------
(* What a commit does to the tables, for each shape of a write set.        *)

\* Overlaying one row replaces that row of the table, and nothing else.
LEMMA OverlayRegs ==
    ASSUME TypeOK, NEW i \in RegIds, NEW row, row # NoReg
    PROVE  /\ Overlay(NoRegs, reg, NoReg) = reg
           /\ Overlay([NoRegs EXCEPT ![i] = row], reg, NoReg) = [reg EXCEPT ![i] = row]
BY DEF Overlay, NoRegs, TypeOK

LEMMA OverlayEntries ==
    ASSUME TypeOK, NEW e \in EntryIds, NEW row, row # NoEntry
    PROVE  /\ Overlay(NoEntries, wait, NoEntry) = wait
           /\ Overlay([NoEntries EXCEPT ![e] = row], wait, NoEntry) = [wait EXCEPT ![e] = row]
BY DEF Overlay, NoEntries, TypeOK

LEMMA OverlayNothing ==
    ASSUME TypeOK
    PROVE  /\ Overlay(NoRegs, reg, NoReg) = reg
           /\ Overlay(NoEntries, wait, NoEntry) = wait
BY DEF Overlay, NoRegs, NoEntries, TypeOK

LEMMA CommitSeat ==
    ASSUME TypeOK, NEW r \in Requests, Commit(r),
           NEW i \in RegIds, NEW u \in Users, StagesSeat(r, i, u)
    PROVE  /\ reg' = [reg EXCEPT ![i] = [user |-> u, status |-> NewStatus, from |-> None]]
           /\ wait' = wait
<1> DEFINE row == [user |-> u, status |-> NewStatus, from |-> None]
<1>1. row # NoReg
  BY DEF NoReg, NewStatus
<1>2. reg' = Overlay([NoRegs EXCEPT ![i] = row], reg, NoReg) /\ wait' = Overlay(NoEntries, wait, NoEntry)
  BY DEF Commit, StagesSeat
<1> HIDE DEF row
<1>3. reg' = [reg EXCEPT ![i] = row] /\ wait' = wait
  BY <1>1, <1>2, OverlayRegs, OverlayNothing
<1> QED
  BY <1>3 DEF row

LEMMA CommitJoin ==
    ASSUME TypeOK, NEW r \in Requests, Commit(r),
           NEW e \in EntryIds, NEW u \in Users, NEW p \in NextPositions, StagesJoin(r, e, u, p)
    PROVE  /\ reg' = reg
           /\ wait' = [wait EXCEPT ![e] = [user |-> u, position |-> p, state |-> "waiting"]]
<1> DEFINE row == [user |-> u, position |-> p, state |-> "waiting"]
<1>1. row # NoEntry
  BY DEF NoEntry
<1>2. reg' = Overlay(NoRegs, reg, NoReg) /\ wait' = Overlay([NoEntries EXCEPT ![e] = row], wait, NoEntry)
  BY DEF Commit, StagesJoin
<1> HIDE DEF row
<1>3. reg' = reg /\ wait' = [wait EXCEPT ![e] = row]
  BY <1>1, <1>2, OverlayEntries, OverlayNothing
<1> QED
  BY <1>3 DEF row

LEMMA CommitCancel ==
    ASSUME TypeOK, NEW r \in Requests, Commit(r), NEW i \in RegIds, StagesCancel(r, i)
    PROVE  /\ reg' = [reg EXCEPT ![i] = WithStatus(i, "CANCELLED")]
           /\ wait' = wait
<1> DEFINE row == WithStatus(i, "CANCELLED")
<1>1. row # NoReg
  BY DEF NoReg, WithStatus, TypeOK, RegRow
<1>2. reg' = Overlay([NoRegs EXCEPT ![i] = row], reg, NoReg) /\ wait' = Overlay(NoEntries, wait, NoEntry)
  BY DEF Commit, StagesCancel
<1> HIDE DEF row
<1>3. reg' = [reg EXCEPT ![i] = row] /\ wait' = wait
  BY <1>1, <1>2, OverlayRegs, OverlayNothing
<1> QED
  BY <1>3 DEF row

LEMMA CommitPromotion ==
    ASSUME TypeOK, NEW r \in Requests, Commit(r),
           NEW i \in RegIds, NEW j \in RegIds, NEW e \in EntryIds, StagesPromotion(r, i, j, e)
    PROVE  /\ i # j
           /\ reg' = [reg EXCEPT ![i] = WithStatus(i, "CANCELLED"),
                                 ![j] = [user |-> wait[e].user, status |-> NewStatus, from |-> e]]
           /\ wait' = [wait EXCEPT ![e] = [wait[e] EXCEPT !.state = "promoted"]]
<1> DEFINE row == WithStatus(i, "CANCELLED")
           new == [user |-> wait[e].user, status |-> NewStatus, from |-> e]
           gone == [wait[e] EXCEPT !.state = "promoted"]
<1>1. row # NoReg
  BY DEF NoReg, WithStatus, TypeOK, RegRow
<1>2. new # NoReg
  BY DEF NoReg, NewStatus
<1>3. gone # NoEntry
  BY DEF NoEntry, TypeOK, WaitRow
<1>4. i # j
  BY DEF StagesPromotion
<1>5. /\ reg' = Overlay([NoRegs EXCEPT ![i] = row, ![j] = new], reg, NoReg)
      /\ wait' = Overlay([NoEntries EXCEPT ![e] = gone], wait, NoEntry)
  BY DEF Commit, StagesPromotion
<1> HIDE DEF row, new, gone
<1>6. Overlay([NoRegs EXCEPT ![i] = row, ![j] = new], reg, NoReg) = [reg EXCEPT ![i] = row, ![j] = new]
  BY <1>1, <1>2, <1>4 DEF Overlay, NoRegs, TypeOK
<1>7. reg' = [reg EXCEPT ![i] = row, ![j] = new]
  BY <1>5, <1>6, Zenon
<1>8. wait' = [wait EXCEPT ![e] = gone]
  BY <1>3, <1>5, OverlayEntries
<1> QED
  BY <1>4, <1>7, <1>8 DEF row, new, gone

\* After a commit every transaction still open is stale.
LEMMA CommitOvertakes ==
    ASSUME TypeOK, NEW r \in Requests, Commit(r), NEW q \in Requests, tx'[q].open
    PROVE  tx'[q].stale
BY DEF TypeOK, Transaction, Commit, Closed

-----------------------------------------------------------------------------
(* The waitlist: QueueInv is inductive for guests and organizers.          *)

LEMMA QueueInit == Init => QueueInv
<1> SUFFICES ASSUME Init PROVE QueueInv
  OBVIOUS
<1>1. TypeOK
  BY InitType
<1>2. PromotedExactlyOnce /\ WaitlistIsAQueue
  BY NoneIsNoRow DEF Init, PromotedExactlyOnce, WaitlistIsAQueue, Waiting,
                     NoRegs, NoReg, NoEntries, NoEntry
<1>3. \A i \in RegIds : reg[i] = NoReg
  BY DEF Init, NoRegs
<1>4. \A r \in Requests : ~tx[r].open
  BY DEF Init, Closed
<1>5. \A a \in Approvals : approving[a] \notin FreeRegs
  BY NoneIsNoRow DEF Init, FreeRegs
<1> QED
  BY <1>1, <1>2, <1>3, <1>4, <1>5 DEF QueueInv

\* A step that leaves the tables alone keeps a write set current that it
\* leaves alone.
LEMMA StillCurrent ==
    ASSUME UNCHANGED <<reg, wait>>, NEW q \in Requests, tx'[q] = tx[q], IsCurrent(q)
    PROVE  IsCurrent(q)'
<1>1. /\ FreeRegs' = FreeRegs /\ FreeEntries' = FreeEntries
      /\ Waiting' = Waiting /\ NextPositions' = NextPositions
  BY DEF FreeRegs, FreeEntries, Waiting, NextPositions, IsNextPosition
<1>2. \A i \in RegIds, u \in Users : StagesSeat(q, i, u) => StagesSeat(q, i, u)'
  BY <1>1 DEF StagesSeat
<1>3. \A e \in EntryIds, u \in Users, p \in NextPositions : StagesJoin(q, e, u, p) => StagesJoin(q, e, u, p)'
  BY <1>1 DEF StagesJoin
<1>4. \A i \in RegIds : StagesCancel(q, i) => StagesCancel(q, i)'
  BY <1>1 DEF StagesCancel, WithStatus
<1>5. \A i, j \in RegIds, e \in EntryIds : StagesPromotion(q, i, j, e) => StagesPromotion(q, i, j, e)'
  BY <1>1 DEF StagesPromotion, WithStatus, IsLowest
<1> QED
  BY <1>1, <1>2, <1>3, <1>4, <1>5 DEF IsCurrent

\* So does the invariant, if the one transaction that stages is current.
LEMMA StageKeepsQueue ==
    ASSUME QueueInv, TypeOK', NEW r \in Requests, NEW rw, NEW ww, Stage(r, rw, ww),
           IsCurrent(r)'
    PROVE  QueueInv'
<1>1. UNCHANGED <<reg, wait>>
  BY DEF Stage
<1>2. ASSUME NEW q \in Requests, tx'[q].open, ~tx'[q].stale PROVE IsCurrent(q)'
  <2>1. CASE q = r
    BY <2>1
  <2>2. CASE q # r
    <3>1. tx'[q] = tx[q]
      BY <2>2 DEF Stage, QueueInv, TypeOK
    <3> QED
      BY <1>1, <1>2, <3>1, StillCurrent DEF QueueInv
  <2> QED
    BY <2>1, <2>2
<1>3. PromotedExactlyOnce' /\ WaitlistIsAQueue'
  BY <1>1 DEF QueueInv, PromotedExactlyOnce, WaitlistIsAQueue, Waiting
<1>4. (\A i \in RegIds : reg[i].status = "absent" => reg[i] = NoReg)'
  BY <1>1 DEF QueueInv
<1>5. (\A a \in Approvals : approving[a] \notin FreeRegs)'
  BY DEF QueueInv, Stage, FreeRegs
<1> QED
  BY <1>2, <1>3, <1>4, <1>5 DEF QueueInv

\* A statement outside any transaction changes the status of a row i that
\* exists.
LEMMA UpdateKeepsQueue ==
    ASSUME QueueInv, TypeOK', NEW i \in RegIds, i \notin FreeRegs,
           NEW s \in {"CONFIRMED", "CANCELLED"},
           reg' = [reg EXCEPT ![i] = WithStatus(i, s)], wait' = wait, Overtake(i),
           \A a \in Approvals : approving'[a] \in {approving[a], None}
    PROVE  QueueInv'
<1>1. /\ reg \in [RegIds -> RegRow]
      /\ tx \in [Requests -> Transaction]
  BY DEF QueueInv, TypeOK
<1>2. /\ reg'[i].user = reg[i].user /\ reg'[i].from = reg[i].from /\ reg'[i].status = s
      /\ \A j \in RegIds : j # i => reg'[j] = reg[j]
  BY <1>1 DEF WithStatus, RegRow
<1>3. FreeRegs' = FreeRegs
  BY <1>2 DEF FreeRegs
<1>4. PromotedExactlyOnce'
  BY <1>2 DEF QueueInv, PromotedExactlyOnce
<1>5. WaitlistIsAQueue'
  BY DEF QueueInv, WaitlistIsAQueue, Waiting
<1>6. (\A j \in RegIds : reg[j].status = "absent" => reg[j] = NoReg)'
  BY <1>2 DEF QueueInv
<1>7. ASSUME NEW q \in Requests, tx'[q].open, ~tx'[q].stale PROVE IsCurrent(q)'
  <2>1. /\ tx[q].open /\ ~tx[q].stale /\ tx[q].reg[i] = NoReg
        /\ tx'[q].reg = tx[q].reg /\ tx'[q].wait = tx[q].wait
    BY <1>1, <1>7 DEF Overtake, Transaction
  <2>2. FreeEntries' = FreeEntries /\ Waiting' = Waiting /\ NextPositions' = NextPositions
    BY DEF FreeEntries, Waiting, NextPositions, IsNextPosition
  <2>3. ASSUME NEW j \in RegIds, NEW u \in Users, StagesSeat(q, j, u) PROVE IsCurrent(q)'
    <3>1. StagesSeat(q, j, u)'
      BY <2>1, <2>3, <1>3 DEF StagesSeat
    <3> QED
      BY <3>1 DEF IsCurrent
  <2>4. ASSUME NEW e \in EntryIds, NEW u \in Users, NEW p \in NextPositions, StagesJoin(q, e, u, p)
        PROVE IsCurrent(q)'
    <3>1. StagesJoin(q, e, u, p)'
      BY <2>1, <2>2, <2>4 DEF StagesJoin
    <3> QED
      BY <2>2, <3>1 DEF IsCurrent
  <2>5. ASSUME NEW j \in RegIds, StagesCancel(q, j) PROVE IsCurrent(q)'
    <3>1. tx[q].reg[j] = WithStatus(j, "CANCELLED")
      BY <2>5 DEF StagesCancel, NoRegs
    <3>2. WithStatus(j, "CANCELLED") # NoReg
      BY <1>1 DEF WithStatus, NoReg, RegRow
    <3>3. j # i
      BY <2>1, <3>1, <3>2
    <3>4. StagesCancel(q, j)'
      BY <2>1, <2>5, <1>2, <1>3, <3>3 DEF StagesCancel, WithStatus
    <3> QED
      BY <3>4 DEF IsCurrent
  <2>6. ASSUME NEW j \in RegIds, NEW k \in RegIds, NEW e \in EntryIds, StagesPromotion(q, j, k, e)
        PROVE IsCurrent(q)'
    <3>0. j # k
      BY <2>6 DEF StagesPromotion
    <3>1. tx[q].reg[j] = WithStatus(j, "CANCELLED")
      BY <2>6, <3>0 DEF StagesPromotion, NoRegs
    <3>2. WithStatus(j, "CANCELLED") # NoReg
      BY <1>1 DEF WithStatus, NoReg, RegRow
    <3>3. j # i
      BY <2>1, <3>1, <3>2
    <3>4. WithStatus(j, "CANCELLED")' = WithStatus(j, "CANCELLED")
      BY <1>2, <3>3 DEF WithStatus
    <3>5. IsLowest(e)'
      BY <2>2, <2>6 DEF StagesPromotion, IsLowest
    <3>6. StagesPromotion(q, j, k, e)'
      BY <2>1, <2>6, <1>3, <3>4, <3>5 DEF StagesPromotion
    <3> QED
      BY <3>6 DEF IsCurrent
  <2> QED
    BY <2>1, <2>3, <2>4, <2>5, <2>6 DEF QueueInv, IsCurrent
<1>8. (\A a \in Approvals : approving[a] \notin FreeRegs)'
  BY <1>3, NoneIsNoRow DEF QueueInv, FreeRegs
<1> QED
  BY <1>4, <1>5, <1>6, <1>7, <1>8 DEF QueueInv

\* A commit of each shape keeps the waitlist a queue whose entries are
\* promoted exactly once.
LEMMA CommitKeepsQueue ==
    ASSUME QueueInv, TypeOK', NEW r \in Requests, Commit(r)
    PROVE  QueueInv'
<1>1. /\ reg \in [RegIds -> RegRow]
      /\ wait \in [EntryIds -> WaitRow]
      /\ TypeOK
  BY DEF QueueInv, TypeOK
<1>2. \A q \in Requests : tx'[q].open => tx'[q].stale
  BY <1>1, CommitOvertakes
<1>0. ASSUME \A j \in RegIds : reg'[j].status = "absent" => reg[j].status = "absent"
      PROVE  (\A a \in Approvals : approving[a] \notin FreeRegs)'
  BY <1>0 DEF Commit, QueueInv, FreeRegs
<1>3. ASSUME NEW i \in RegIds, NEW u \in Users, StagesSeat(r, i, u) PROVE QueueInv'
  <2>1. /\ reg' = [reg EXCEPT ![i] = [user |-> u, status |-> NewStatus, from |-> None]]
        /\ wait' = wait
    BY <1>1, <1>3, CommitSeat
  <2>2. reg[i].from = None /\ reg'[i].from = None /\ reg'[i].status # "absent"
    BY <1>1, <1>3, <2>1 DEF QueueInv, StagesSeat, FreeRegs, NoReg, NewStatus
  <2>3. \A j \in RegIds : j # i => reg'[j] = reg[j]
    BY <1>1, <2>1
  <2>4. PromotedExactlyOnce'
    BY <2>1, <2>2, <2>3, NoneIsNoRow DEF QueueInv, PromotedExactlyOnce
  <2>5. WaitlistIsAQueue'
    BY <2>1 DEF QueueInv, WaitlistIsAQueue, Waiting
  <2>6. (\A j \in RegIds : reg[j].status = "absent" => reg[j] = NoReg)'
    BY <2>2, <2>3 DEF QueueInv
  <2>7. (\A a \in Approvals : approving[a] \notin FreeRegs)'
    BY <1>0, <2>2, <2>3
  <2> QED
    BY <1>2, <2>4, <2>5, <2>6, <2>7 DEF QueueInv
<1>4. ASSUME NEW e \in EntryIds, NEW u \in Users, NEW p \in NextPositions, StagesJoin(r, e, u, p)
      PROVE QueueInv'
  <2>1. /\ reg' = reg
        /\ wait' = [wait EXCEPT ![e] = [user |-> u, position |-> p, state |-> "waiting"]]
    BY <1>1, <1>4, CommitJoin
  <2>2. wait[e].state = "absent" /\ wait'[e].state = "waiting" /\ wait'[e].user = u /\ wait'[e].position = p
    BY <1>1, <1>4, <2>1 DEF StagesJoin, FreeEntries
  <2>3. \A f \in EntryIds : f # e => wait'[f] = wait[f]
    BY <1>1, <2>1
  <2>4. PromotedExactlyOnce'
    BY <2>1, <2>2, <2>3 DEF QueueInv, PromotedExactlyOnce
  <2>5. Waiting' = Waiting \cup {e} /\ e \notin Waiting
    BY <2>2, <2>3 DEF Waiting
  <2>6. \A f \in Waiting : wait'[f].position # p /\ wait'[f].user # u
    <3>1. \A f \in Waiting : wait[f].position < p /\ wait[f].position \in Nat
      BY <1>1 DEF NextPositions, IsNextPosition, Waiting, WaitRow
    <3>2. p \in Nat
      BY <1>1 DEF NextPositions, Waiting, WaitRow
    <3> QED
      BY <1>4, <2>3, <2>5, <3>1, <3>2 DEF StagesJoin, Waiting
  <2>7. WaitlistIsAQueue'
    BY <2>2, <2>3, <2>5, <2>6 DEF QueueInv, WaitlistIsAQueue, Waiting
  <2> QED
    BY <1>2, <1>0, <2>1, <2>4, <2>7 DEF QueueInv
<1>5. ASSUME NEW i \in RegIds, StagesCancel(r, i) PROVE QueueInv'
  <2>1. reg' = [reg EXCEPT ![i] = WithStatus(i, "CANCELLED")] /\ wait' = wait
    BY <1>1, <1>5, CommitCancel
  <2>2. reg'[i].user = reg[i].user /\ reg'[i].from = reg[i].from /\ reg'[i].status = "CANCELLED"
    BY <1>1, <2>1 DEF WithStatus, RegRow
  <2>3. \A j \in RegIds : j # i => reg'[j] = reg[j]
    BY <1>1, <2>1
  <2>4. PromotedExactlyOnce'
    BY <2>1, <2>2, <2>3 DEF QueueInv, PromotedExactlyOnce
  <2>5. WaitlistIsAQueue'
    BY <2>1 DEF QueueInv, WaitlistIsAQueue, Waiting
  <2>6. (\A j \in RegIds : reg[j].status = "absent" => reg[j] = NoReg)'
    BY <2>2, <2>3 DEF QueueInv
  <2>7. (\A a \in Approvals : approving[a] \notin FreeRegs)'
    BY <1>0, <2>2, <2>3
  <2> QED
    BY <1>2, <2>4, <2>5, <2>6, <2>7 DEF QueueInv
<1>6. ASSUME NEW i \in RegIds, NEW j \in RegIds, NEW e \in EntryIds, StagesPromotion(r, i, j, e)
      PROVE QueueInv'
  <2>1. /\ i # j
        /\ reg' = [reg EXCEPT ![i] = WithStatus(i, "CANCELLED"),
                              ![j] = [user |-> wait[e].user, status |-> NewStatus, from |-> e]]
        /\ wait' = [wait EXCEPT ![e] = [wait[e] EXCEPT !.state = "promoted"]]
    BY <1>1, <1>6, CommitPromotion
  <2>2. reg'[i].user = reg[i].user /\ reg'[i].from = reg[i].from /\ reg'[i].status = "CANCELLED"
    BY <1>1, <2>1 DEF WithStatus, RegRow
  <2>3. reg'[j].user = wait[e].user /\ reg'[j].from = e /\ reg'[j].status # "absent" /\ reg[j].from = None
    BY <1>1, <1>6, <2>1 DEF NewStatus, StagesPromotion, FreeRegs, QueueInv, NoReg
  <2>4. \A k \in RegIds : k # i /\ k # j => reg'[k] = reg[k]
    BY <1>1, <2>1
  <2>5. /\ wait[e].state = "waiting" /\ wait'[e].state = "promoted"
        /\ wait'[e].user = wait[e].user /\ wait'[e].position = wait[e].position
        /\ \A f \in EntryIds : f # e => wait'[f] = wait[f]
    BY <1>1, <1>6, <2>1 DEF StagesPromotion, IsLowest, Waiting, WaitRow
  <2>6. \A k \in RegIds : reg[k].from # e
    BY <2>5 DEF QueueInv, PromotedExactlyOnce
  <2>7. \A k \in RegIds : k # j => reg'[k].from = reg[k].from /\ reg'[k].user = reg[k].user
    BY <2>2, <2>4
  <2>8. PromotedExactlyOnce'
    <3> SUFFICES ASSUME NEW f \in EntryIds
                 PROVE  /\ \A k, l \in RegIds : reg'[k].from = f /\ reg'[l].from = f => k = l
                        /\ wait'[f].state = "promoted" <=> \E k \in RegIds : reg'[k].from = f
                        /\ \A k \in RegIds : reg'[k].from = f => reg'[k].user = wait'[f].user
      BY DEF PromotedExactlyOnce
    <3>1. CASE f = e
      BY <2>3, <2>5, <2>6, <2>7, <3>1
    <3>2. CASE f # e
      <4>1. \A k \in RegIds : reg'[k].from = f <=> reg[k].from = f
        BY <2>3, <2>7, <3>2, NoneIsNoRow
      <4>2. /\ \A k, l \in RegIds : reg[k].from = f /\ reg[l].from = f => k = l
            /\ wait[f].state = "promoted" <=> \E k \in RegIds : reg[k].from = f
            /\ \A k \in RegIds : reg[k].from = f => reg[k].user = wait[f].user
        BY DEF QueueInv, PromotedExactlyOnce
      <4>3. j \in RegIds /\ reg'[j].from # f
        BY <2>3, <3>2
      <4> QED
        BY <2>5, <2>7, <3>2, <4>1, <4>2, <4>3
    <3> QED
      BY <3>1, <3>2
  <2>9. WaitlistIsAQueue'
    BY <2>5 DEF QueueInv, WaitlistIsAQueue, Waiting
  <2>10. (\A k \in RegIds : reg[k].status = "absent" => reg[k] = NoReg)'
    BY <2>2, <2>3, <2>4 DEF QueueInv
  <2>11. (\A a \in Approvals : approving[a] \notin FreeRegs)'
    BY <1>0, <2>2, <2>3, <2>4
  <2> QED
    BY <1>2, <2>8, <2>9, <2>10, <2>11 DEF QueueInv
<1>7. IsCurrent(r)
  BY DEF QueueInv, Commit
<1> QED
  BY <1>3, <1>4, <1>5, <1>6, <1>7 DEF IsCurrent

\* What the bodies stage is current at the moment they stage it.
LEMMA RegisterKeepsQueue ==
    ASSUME QueueInv, TypeOK', NEW r \in Requests, NEW u \in Users, Register(r, u)
    PROVE  QueueInv'
<1>1. CASE TakeSeat(r, u)
  <2>1. PICK i \in FreeRegs :
           Stage(r, [NoRegs EXCEPT ![i] = [user |-> u, status |-> NewStatus, from |-> None]], NoEntries)
    BY <1>1 DEF TakeSeat
  <2>2. StagesSeat(r, i, u)'
    BY <2>1 DEF Stage, StagesSeat, FreeRegs, QueueInv, TypeOK
  <2>3. IsCurrent(r)'
    BY <2>2 DEF IsCurrent, FreeRegs
  <2> QED
    BY <2>1, <2>3, StageKeepsQueue
<1>2. CASE AddToWaitlist(r, u)
  <2>1. PICK e \in FreeEntries, p \in NextPositions :
           Stage(r, NoRegs, [NoEntries EXCEPT ![e] = [user |-> u, position |-> p, state |-> "waiting"]])
    BY <1>2 DEF AddToWaitlist
  <2>2. NextPositions' = NextPositions /\ Waiting' = Waiting /\ FreeEntries' = FreeEntries
    BY <2>1 DEF Stage, NextPositions, IsNextPosition, Waiting, FreeEntries
  <2>3. StagesJoin(r, e, u, p)'
    BY <1>2, <2>1, <2>2 DEF Stage, AddToWaitlist, StagesJoin, QueueInv, TypeOK
  <2>4. IsCurrent(r)'
    BY <2>2, <2>3 DEF IsCurrent, FreeEntries
  <2> QED
    BY <2>1, <2>4, StageKeepsQueue
<1> QED
  BY <1>1, <1>2 DEF Register

LEMMA PromoteNextKeepsQueue ==
    ASSUME QueueInv, TypeOK', NEW r \in Requests, NEW i \in RegIds, i \notin FreeRegs, NEW base,
           PromoteNext(r, i, WithStatus(i, "CANCELLED"), base)
    PROVE  QueueInv'
<1>1. PICK e \in EntryIds, j \in FreeRegs :
         /\ IsLowest(e)
         /\ Stage(r, [NoRegs EXCEPT ![i] = WithStatus(i, "CANCELLED"),
                         ![j] = [user |-> wait[e].user, status |-> NewStatus, from |-> e]],
                     [NoEntries EXCEPT ![e] = [wait[e] EXCEPT !.state = "promoted"]])
  BY DEF PromoteNext
<1>2. reg' = reg /\ wait' = wait
  BY <1>1 DEF Stage
<1>3. FreeRegs' = FreeRegs /\ IsLowest(e)' /\ WithStatus(i, "CANCELLED")' = WithStatus(i, "CANCELLED")
  BY <1>1, <1>2 DEF FreeRegs, IsLowest, Waiting, WithStatus
<1>4. StagesPromotion(r, i, j, e)'
  BY <1>1, <1>2, <1>3 DEF Stage, StagesPromotion, QueueInv, TypeOK
<1>5. IsCurrent(r)'
  BY <1>4 DEF IsCurrent, FreeRegs
<1> QED
  BY <1>1, <1>5, StageKeepsQueue

LEMMA CancelOnlyKeepsQueue ==
    ASSUME QueueInv, TypeOK', NEW r \in Requests, NEW i \in RegIds, i \notin FreeRegs, NEW base,
           CancelOnly(r, i, base)
    PROVE  QueueInv'
<1>1. Stage(r, [NoRegs EXCEPT ![i] = WithStatus(i, "CANCELLED")], NoEntries)
  BY DEF CancelOnly
<1>2. reg' = reg /\ FreeRegs' = FreeRegs /\ WithStatus(i, "CANCELLED")' = WithStatus(i, "CANCELLED")
  BY <1>1 DEF Stage, FreeRegs, WithStatus
<1>3. StagesCancel(r, i)'
  BY <1>1, <1>2 DEF Stage, StagesCancel, QueueInv, TypeOK
<1>4. IsCurrent(r)'
  BY <1>3 DEF IsCurrent
<1> QED
  BY <1>1, <1>4, StageKeepsQueue

LEMMA QueueStep == QueueInv /\ [Next]_vars => QueueInv'
<1> SUFFICES ASSUME QueueInv, [Next]_vars PROVE QueueInv'
  OBVIOUS
<1>1. TypeOK /\ TypeOK'
  BY StepType DEF QueueInv
<1>2. ASSUME NEW r \in Requests, NEW u \in Users, Register(r, u) PROVE QueueInv'
  BY <1>1, <1>2, RegisterKeepsQueue
<1>3. ASSUME NEW r \in Requests, NEW i \in RegIds, CancelByGuest(r, i) PROVE QueueInv'
  <2>1. i \notin FreeRegs
    BY <1>3 DEF CancelByGuest, IsActive, FreeRegs
  <2> QED
    BY <1>1, <1>3, <2>1, PromoteNextKeepsQueue, CancelOnlyKeepsQueue DEF CancelByGuest
<1>4. ASSUME NEW r \in Requests, Commit(r) PROVE QueueInv'
  BY <1>1, <1>4, CommitKeepsQueue
<1>5. ASSUME NEW r \in Requests, Abort(r) PROVE QueueInv'
  <2>1. UNCHANGED <<reg, wait>> /\ tx' = [tx EXCEPT ![r] = Closed]
    BY <1>5 DEF Abort
  <2>2. ASSUME NEW q \in Requests, tx'[q].open, ~tx'[q].stale PROVE IsCurrent(q)'
    <3>1. q # r /\ tx'[q] = tx[q]
      BY <1>1, <2>1, <2>2 DEF TypeOK, Closed
    <3> QED
      BY <2>1, <2>2, <3>1, StillCurrent DEF QueueInv
  <2> QED
    BY <1>1, <1>5, <2>1, <2>2 DEF Abort, QueueInv, PromotedExactlyOnce, WaitlistIsAQueue, Waiting, FreeRegs
<1>6. ASSUME UNCHANGED <<reg, wait, tx>>, \A a \in Approvals : approving'[a] \notin FreeRegs
      PROVE  QueueInv'
  <2>1. ASSUME NEW q \in Requests, tx'[q].open, ~tx'[q].stale PROVE IsCurrent(q)'
    BY <1>6, <2>1, StillCurrent DEF QueueInv
  <2> QED
    BY <1>1, <1>6, <2>1 DEF QueueInv, PromotedExactlyOnce, WaitlistIsAQueue, Waiting, FreeRegs
<1>7. ASSUME NEW r \in Requests, NEW i \in RegIds, RemoveByOrganizer(r, i) PROVE QueueInv'
  <2>1. i \notin FreeRegs
    BY <1>7 DEF RemoveByOrganizer
  <2> QED
    BY <1>1, <1>7, <2>1, PromoteNextKeepsQueue, CancelOnlyKeepsQueue DEF RemoveByOrganizer
<1>8. ASSUME NEW a \in Approvals, ApproveUpdate(a) PROVE QueueInv'
  <2>1. approving[a] \in RegIds /\ approving[a] \notin FreeRegs
    BY <1>1, <1>8 DEF ApproveUpdate, QueueInv, TypeOK
  <2>2. \A b \in Approvals : approving'[b] \in {approving[b], None}
    BY <1>1, <1>8 DEF ApproveUpdate, TypeOK
  <2> QED
    BY <1>1, <1>8, <2>1, <2>2, UpdateKeepsQueue DEF ApproveUpdate
<1>9. ASSUME NEW i \in RegIds, RejectByOrganizer(i) PROVE QueueInv'
  BY <1>1, <1>9, UpdateKeepsQueue DEF RejectByOrganizer
<1>10. ASSUME NEW a \in Approvals, NEW i \in RegIds, ApproveCheck(a, i) PROVE QueueInv'
  BY <1>1, <1>6, <1>10 DEF ApproveCheck, QueueInv, TypeOK
<1>11. ASSUME NEW a \in Approvals, ApproveLost(a) PROVE QueueInv'
  <2>1. None \notin FreeRegs
    BY NoneIsNoRow DEF FreeRegs
  <2> QED
    BY <1>1, <1>6, <1>11, <2>1 DEF ApproveLost, QueueInv, TypeOK
<1>12. CASE EventEnds
  BY <1>6, <1>12 DEF EventEnds, QueueInv
<1>13. CASE UNCHANGED vars
  BY <1>6, <1>13 DEF vars, QueueInv
<1> QED
  BY <1>2, <1>3, <1>4, <1>5, <1>7, <1>8, <1>9, <1>10, <1>11, <1>12, <1>13
     DEF Next, GuestNext, OrganizerNext

\* Every reachable state keeps the waitlist a queue: no two entries share a
\* position or a guest, and each entry that left it was promoted into exactly
\* one registration of its guest, whatever organizers do meanwhile
\* (waitlist.service.ts addToWaitlist and promoteNext).
THEOREM QueueCorrect == Spec => []WaitlistIsKept
<1>1. QueueInv => WaitlistIsKept
  BY DEF QueueInv, WaitlistIsKept
<1> QED
  BY <1>1, QueueInit, QueueStep, PTL DEF Spec

-----------------------------------------------------------------------------
(* The seats: SeatInv is inductive for guests, given QueueInv.             *)

LEMMA ConfirmedFinite == IsFiniteSet(Confirmed) /\ Cardinality(Confirmed) \in Nat
<1>1. Confirmed \in SUBSET RegIds
  BY DEF Confirmed
<1>2. IsFiniteSet(Confirmed)
  BY <1>1, FiniteRegIds, FS_Subset
<1> QED
  BY <1>2, FS_CardinalityType

LEMMA SeatInit == Init => SeatInv
<1> SUFFICES ASSUME Init PROVE SeatInv
  OBVIOUS
<1>1. Confirmed = {} /\ Waiting = {} /\ \A i \in RegIds : ~IsActive(i)
  BY DEF Init, Confirmed, Waiting, IsActive, NoRegs, NoReg, NoEntries, NoEntry
<1>2. Cardinality(Confirmed) = 0
  BY <1>1, FS_EmptySet
<1>3. \A r \in Requests : ~tx[r].open
  BY DEF Init, Closed
<1> QED
  BY <1>1, <1>2, <1>3, CapacityIsNat
     DEF SeatInv, CapacityRespected, OneActiveRegistration, WaitingGuestsHoldNoSeat,
         NoIdleSeatWhileGuestsWait

\* What SeatInv says of the tables alone.
SeatTables ==
    /\ RequiresApproval => Confirmed = {}
    /\ CapacityRespected
    /\ OneActiveRegistration
    /\ WaitingGuestsHoldNoSeat
    /\ NoIdleSeatWhileGuestsWait

LEMMA SeatTablesUnchanged ==
    ASSUME SeatTables, UNCHANGED <<reg, wait>>
    PROVE  SeatTables'
BY DEF SeatTables, CapacityRespected, OneActiveRegistration, WaitingGuestsHoldNoSeat,
       NoIdleSeatWhileGuestsWait, Confirmed, Waiting, IsActive, Active

LEMMA StillKeepsSeats ==
    ASSUME UNCHANGED <<reg, wait>>, NEW q \in Requests, tx'[q] = tx[q], KeepsSeats(q)
    PROVE  KeepsSeats(q)'
<1>1. /\ FreeRegs' = FreeRegs /\ FreeEntries' = FreeEntries
      /\ Waiting' = Waiting /\ NextPositions' = NextPositions
      /\ Confirmed' = Confirmed /\ \A u \in Users : Active(u)' = Active(u)
  BY DEF FreeRegs, FreeEntries, Waiting, NextPositions, IsNextPosition, Confirmed, Active, IsActive
<1>2. \A i \in RegIds, u \in Users : StagesSeat(q, i, u) => StagesSeat(q, i, u)'
  BY <1>1 DEF StagesSeat
<1>3. \A e \in EntryIds, u \in Users, p \in NextPositions : StagesJoin(q, e, u, p) => StagesJoin(q, e, u, p)'
  BY <1>1 DEF StagesJoin
<1>4. \A i \in RegIds : StagesCancel(q, i) => StagesCancel(q, i)'
  BY <1>1 DEF StagesCancel, WithStatus
<1>5. \A i, j \in RegIds, e \in EntryIds : StagesPromotion(q, i, j, e) => StagesPromotion(q, i, j, e)'
  BY <1>1 DEF StagesPromotion, WithStatus, IsLowest
<1>6. \A i \in RegIds : reg'[i].status = reg[i].status
  OBVIOUS
<1> QED
  BY <1>1, <1>2, <1>3, <1>4, <1>5, <1>6 DEF KeepsSeats

LEMMA StageKeepsSeats ==
    ASSUME TypeOK, SeatInv, NEW r \in Requests, NEW rw, NEW ww, Stage(r, rw, ww), KeepsSeats(r)'
    PROVE  SeatInv'
<1>1. UNCHANGED <<reg, wait>> /\ \A q \in Requests : q # r => tx'[q] = tx[q]
  BY DEF Stage, TypeOK
<1>2. SeatTables'
  BY <1>1, SeatTablesUnchanged DEF SeatInv, SeatTables
<1>3. ASSUME NEW q \in Requests, tx'[q].open, ~tx'[q].stale PROVE KeepsSeats(q)'
  BY <1>1, <1>3, StillKeepsSeats DEF SeatInv
<1> QED
  BY <1>2, <1>3 DEF SeatInv, SeatTables

\* A free seat is taken.
LEMMA SeatKeepsSeats ==
    ASSUME TypeOK, SeatTables, NEW r \in Requests, Commit(r),
           NEW i \in RegIds, NEW u \in Users, StagesSeat(r, i, u),
           Active(u) = {}, Cardinality(Confirmed) < Capacity
    PROVE  SeatTables'
<1>1. /\ reg' = [reg EXCEPT ![i] = [user |-> u, status |-> NewStatus, from |-> None]]
      /\ wait' = wait
  BY CommitSeat
<1>2. /\ reg[i].status = "absent" /\ reg'[i].user = u /\ reg'[i].status = NewStatus
      /\ \A j \in RegIds : j # i => reg'[j] = reg[j]
  BY <1>1 DEF TypeOK, StagesSeat, FreeRegs
<1>3. Waiting = {} /\ Waiting' = {}
  BY <1>1, ConfirmedFinite, CapacityIsNat DEF SeatTables, NoIdleSeatWhileGuestsWait, Waiting
<1>4. CapacityRespected' /\ (RequiresApproval => Confirmed' = {})
  <2>1. CASE RequiresApproval
    <3>1. Confirmed' = Confirmed
      BY <1>2, <2>1 DEF Confirmed, NewStatus
    <3> QED
      BY <2>1, <3>1 DEF SeatTables, CapacityRespected
  <2>2. CASE ~RequiresApproval
    <3>1. Confirmed' = Confirmed \cup {i} /\ i \notin Confirmed
      BY <1>2, <2>2 DEF Confirmed, NewStatus
    <3>2. Cardinality(Confirmed') = Cardinality(Confirmed) + 1
      BY <3>1, ConfirmedFinite, FS_AddElement
    <3> QED
      BY <2>2, <3>2, ConfirmedFinite, CapacityIsNat DEF CapacityRespected
  <2> QED
    BY <2>1, <2>2
<1>5. OneActiveRegistration'
  BY <1>2 DEF SeatTables, OneActiveRegistration, IsActive, Active
<1> QED
  BY <1>3, <1>4, <1>5 DEF SeatTables, WaitingGuestsHoldNoSeat, NoIdleSeatWhileGuestsWait

\* A guest joins the waitlist of a full event.
LEMMA JoinKeepsSeats ==
    ASSUME TypeOK, SeatTables, NEW r \in Requests, Commit(r),
           NEW e \in EntryIds, NEW u \in Users, NEW p \in NextPositions, StagesJoin(r, e, u, p),
           Active(u) = {}, Cardinality(Confirmed) >= Capacity
    PROVE  SeatTables'
<1>1. /\ reg' = reg
      /\ wait' = [wait EXCEPT ![e] = [user |-> u, position |-> p, state |-> "waiting"]]
  BY CommitJoin
<1>2. Confirmed' = Confirmed /\ (\A v : Active(v)' = Active(v)) /\ \A i \in RegIds : IsActive(i)' = IsActive(i)
  BY <1>1 DEF Confirmed, Active, IsActive
<1>3. wait'[e].user = u /\ \A f \in Waiting' : f # e => f \in Waiting /\ wait'[f] = wait[f]
  BY <1>1 DEF TypeOK, Waiting
<1>4. WaitingGuestsHoldNoSeat'
  BY <1>2, <1>3 DEF SeatTables, WaitingGuestsHoldNoSeat
<1> QED
  BY <1>1, <1>2, <1>4
     DEF SeatTables, CapacityRespected, OneActiveRegistration, NoIdleSeatWhileGuestsWait

\* A registration is cancelled, and nobody waits if it held a seat.
LEMMA CancelKeepsSeats ==
    ASSUME TypeOK, SeatTables, NEW r \in Requests, Commit(r),
           NEW i \in RegIds, StagesCancel(r, i), reg[i].status = "CONFIRMED" => Waiting = {}
    PROVE  SeatTables'
<1>1. reg' = [reg EXCEPT ![i] = WithStatus(i, "CANCELLED")] /\ wait' = wait
  BY CommitCancel
<1>2. /\ reg'[i].status = "CANCELLED" /\ reg'[i].user = reg[i].user
      /\ \A j \in RegIds : j # i => reg'[j] = reg[j]
  BY <1>1 DEF TypeOK, WithStatus, RegRow
<1>3. Waiting' = Waiting
  BY <1>1 DEF Waiting
<1>4. Confirmed' = Confirmed \ {i}
  BY <1>2 DEF Confirmed
<1>5. Cardinality(Confirmed') <= Cardinality(Confirmed) /\ Cardinality(Confirmed') \in Nat
  <2>1. Confirmed' \in SUBSET Confirmed
    BY <1>4
  <2>2. IsFiniteSet(Confirmed') /\ Cardinality(Confirmed') <= Cardinality(Confirmed)
    BY <2>1, ConfirmedFinite, FS_Subset
  <2> QED
    BY <2>2, FS_CardinalityType
<1>6. CapacityRespected' /\ (RequiresApproval => Confirmed' = {})
  BY <1>4, <1>5, ConfirmedFinite, CapacityIsNat DEF SeatTables, CapacityRespected
<1>7. NoIdleSeatWhileGuestsWait'
  <2>1. CASE reg[i].status = "CONFIRMED"
    BY <1>3, <2>1 DEF NoIdleSeatWhileGuestsWait
  <2>2. CASE reg[i].status # "CONFIRMED"
    <3>1. Confirmed' = Confirmed
      BY <1>4, <2>2 DEF Confirmed
    <3> QED
      BY <1>3, <3>1 DEF SeatTables, NoIdleSeatWhileGuestsWait
  <2> QED
    BY <2>1, <2>2
<1>8. OneActiveRegistration' /\ WaitingGuestsHoldNoSeat'
  BY <1>1, <1>2, <1>3
     DEF SeatTables, OneActiveRegistration, WaitingGuestsHoldNoSeat, IsActive, Active
<1> QED
  BY <1>6, <1>7, <1>8 DEF SeatTables

\* A seat is passed on to the first guest of the waitlist.
LEMMA PromotionKeepsSeats ==
    ASSUME TypeOK, WaitlistIsAQueue, SeatTables, NEW r \in Requests, Commit(r),
           NEW i \in RegIds, NEW j \in RegIds, NEW e \in EntryIds, StagesPromotion(r, i, j, e),
           reg[i].status = "CONFIRMED"
    PROVE  SeatTables'
<1>1. /\ i # j
      /\ reg' = [reg EXCEPT ![i] = WithStatus(i, "CANCELLED"),
                            ![j] = [user |-> wait[e].user, status |-> NewStatus, from |-> e]]
      /\ wait' = [wait EXCEPT ![e] = [wait[e] EXCEPT !.state = "promoted"]]
  BY CommitPromotion
<1>2. i \in Confirmed /\ ~RequiresApproval /\ NewStatus = "CONFIRMED"
  BY ApprovalFlag DEF Confirmed, SeatTables, NewStatus
<1>3. /\ reg'[i].status = "CANCELLED"
      /\ reg[j].status = "absent" /\ reg'[j].status = "CONFIRMED" /\ reg'[j].user = wait[e].user
      /\ \A k \in RegIds : k # i /\ k # j => reg'[k] = reg[k]
  BY <1>1, <1>2 DEF TypeOK, WithStatus, RegRow, StagesPromotion, FreeRegs
<1>4. /\ e \in Waiting /\ Waiting' = Waiting \ {e}
      /\ \A f \in Waiting' : wait'[f] = wait[f]
  BY <1>1 DEF TypeOK, StagesPromotion, IsLowest, Waiting, WaitRow
<1>5. Confirmed' = (Confirmed \ {i}) \cup {j} /\ j \notin Confirmed
  BY <1>1, <1>3 DEF Confirmed
<1>6. Cardinality(Confirmed') = Cardinality(Confirmed)
  <2>1. /\ IsFiniteSet(Confirmed \ {i})
        /\ Cardinality(Confirmed \ {i}) = Cardinality(Confirmed) - 1
    BY <1>2, ConfirmedFinite, FS_RemoveElement
  <2>2. Cardinality((Confirmed \ {i}) \cup {j}) = Cardinality(Confirmed \ {i}) + 1
    BY <1>5, <2>1, FS_AddElement
  <2> QED
    BY <1>5, <2>1, <2>2, ConfirmedFinite
<1>7. CapacityRespected' /\ NoIdleSeatWhileGuestsWait'
  BY <1>4, <1>6 DEF SeatTables, CapacityRespected, NoIdleSeatWhileGuestsWait
<1>8. Active(wait[e].user) = {}
  BY <1>4 DEF SeatTables, WaitingGuestsHoldNoSeat
<1>9. OneActiveRegistration'
  BY <1>1, <1>3, <1>8 DEF SeatTables, OneActiveRegistration, IsActive, Active
<1>10. WaitingGuestsHoldNoSeat'
  <2> SUFFICES ASSUME NEW f \in Waiting', NEW k \in RegIds, reg'[k].user = wait'[f].user, IsActive(k)'
               PROVE  FALSE
    BY DEF WaitingGuestsHoldNoSeat, Active
  <2>1. f \in Waiting /\ f # e /\ wait[f].user # wait[e].user /\ wait'[f].user = wait[f].user
    BY <1>4 DEF WaitlistIsAQueue
  <2>2. k # i /\ k # j
    BY <1>3, <2>1 DEF IsActive
  <2>3. reg[k].user = wait[f].user /\ IsActive(k)
    BY <1>3, <2>1, <2>2 DEF IsActive
  <2> QED
    BY <2>1, <2>3 DEF SeatTables, WaitingGuestsHoldNoSeat, Active
<1> QED
  BY <1>2, <1>7, <1>9, <1>10 DEF SeatTables

LEMMA CommitKeepsSeats ==
    ASSUME QueueInv, SeatInv, NEW r \in Requests, Commit(r)
    PROVE  SeatInv'
<1>1. TypeOK /\ WaitlistIsAQueue /\ SeatTables /\ KeepsSeats(r)
  BY DEF QueueInv, SeatInv, SeatTables, Commit
<1>2. SeatTables'
  BY <1>1, SeatKeepsSeats, JoinKeepsSeats, CancelKeepsSeats, PromotionKeepsSeats DEF KeepsSeats
<1>3. \A q \in Requests : tx'[q].open => tx'[q].stale
  BY <1>1, CommitOvertakes
<1> QED
  BY <1>2, <1>3 DEF SeatInv, SeatTables

\* What a guest's call stages keeps the seats at the moment it stages it.
LEMMA RegisterKeepsSeats ==
    ASSUME TypeOK, SeatInv, NEW r \in Requests, NEW u \in Users, Register(r, u)
    PROVE  SeatInv'
<1>1. Active(u) = {}
  BY DEF Register
<1>2. CASE TakeSeat(r, u)
  <2>1. PICK i \in FreeRegs :
           Stage(r, [NoRegs EXCEPT ![i] = [user |-> u, status |-> NewStatus, from |-> None]], NoEntries)
    BY <1>2 DEF TakeSeat
  <2>2. StagesSeat(r, i, u)'
    BY <2>1 DEF Stage, StagesSeat, FreeRegs, TypeOK
  <2>3. Active(u)' = {} /\ (Cardinality(Confirmed) < Capacity)'
    BY <1>1, <1>2, <2>1 DEF TakeSeat, Stage, Active, IsActive, Confirmed
  <2>4. KeepsSeats(r)'
    BY <2>2, <2>3 DEF KeepsSeats, FreeRegs
  <2> QED
    BY <2>1, <2>4, StageKeepsSeats
<1>3. CASE AddToWaitlist(r, u)
  <2>1. PICK e \in FreeEntries, p \in NextPositions :
           Stage(r, NoRegs, [NoEntries EXCEPT ![e] = [user |-> u, position |-> p, state |-> "waiting"]])
    BY <1>3 DEF AddToWaitlist
  <2>2. NextPositions' = NextPositions /\ Waiting' = Waiting /\ FreeEntries' = FreeEntries
    BY <2>1 DEF Stage, NextPositions, IsNextPosition, Waiting, FreeEntries
  <2>3. StagesJoin(r, e, u, p)'
    BY <1>3, <2>1, <2>2 DEF Stage, AddToWaitlist, StagesJoin, TypeOK
  <2>4. Active(u)' = {} /\ (Cardinality(Confirmed) >= Capacity)'
    BY <1>1, <1>3, <2>1 DEF AddToWaitlist, Stage, Active, IsActive, Confirmed
  <2>5. KeepsSeats(r)'
    BY <2>2, <2>3, <2>4 DEF KeepsSeats, FreeEntries
  <2> QED
    BY <2>1, <2>5, StageKeepsSeats
<1> QED
  BY <1>2, <1>3 DEF Register

LEMMA CancelByGuestKeepsSeats ==
    ASSUME TypeOK, SeatInv, NEW r \in Requests, NEW i \in RegIds, CancelByGuest(r, i)
    PROVE  SeatInv'
<1>1. i \notin FreeRegs
  BY DEF CancelByGuest, IsActive, FreeRegs
<1>2. CASE reg[i].status = "CONFIRMED" /\ Waiting # {}
  <2>1. PICK e \in EntryIds, j \in FreeRegs :
           /\ IsLowest(e)
           /\ Stage(r, [NoRegs EXCEPT ![i] = WithStatus(i, "CANCELLED"),
                           ![j] = [user |-> wait[e].user, status |-> NewStatus, from |-> e]],
                       [NoEntries EXCEPT ![e] = [wait[e] EXCEPT !.state = "promoted"]])
    BY <1>2 DEF CancelByGuest, PromoteNext
  <2>2. reg' = reg /\ wait' = wait
    BY <2>1 DEF Stage
  <2>3. FreeRegs' = FreeRegs /\ IsLowest(e)' /\ WithStatus(i, "CANCELLED")' = WithStatus(i, "CANCELLED")
    BY <2>1, <2>2 DEF FreeRegs, IsLowest, Waiting, WithStatus
  <2>4. StagesPromotion(r, i, j, e)'
    BY <1>1, <2>1, <2>2, <2>3 DEF Stage, StagesPromotion, TypeOK
  <2>5. KeepsSeats(r)'
    BY <1>2, <2>2, <2>4 DEF KeepsSeats, FreeRegs
  <2> QED
    BY <2>1, <2>5, StageKeepsSeats
<1>3. CASE ~(reg[i].status = "CONFIRMED" /\ Waiting # {})
  <2>1. Stage(r, [NoRegs EXCEPT ![i] = WithStatus(i, "CANCELLED")], NoEntries)
    BY <1>3 DEF CancelByGuest, CancelOnly
  <2>2. /\ reg' = reg /\ FreeRegs' = FreeRegs /\ Waiting' = Waiting
        /\ WithStatus(i, "CANCELLED")' = WithStatus(i, "CANCELLED")
    BY <2>1 DEF Stage, FreeRegs, Waiting, WithStatus
  <2>3. StagesCancel(r, i)'
    BY <1>1, <2>1, <2>2 DEF Stage, StagesCancel, TypeOK
  <2>4. KeepsSeats(r)'
    BY <1>3, <2>2, <2>3 DEF KeepsSeats
  <2> QED
    BY <2>1, <2>4, StageKeepsSeats
<1> QED
  BY <1>2, <1>3

LEMMA SeatStep == QueueInv /\ SeatInv /\ [GuestNext]_vars => SeatInv'
<1> SUFFICES ASSUME QueueInv, SeatInv, [GuestNext]_vars PROVE SeatInv'
  OBVIOUS
<1>0. TypeOK
  BY DEF QueueInv
<1>1. ASSUME NEW r \in Requests, NEW u \in Users, Register(r, u) PROVE SeatInv'
  BY <1>0, <1>1, RegisterKeepsSeats
<1>2. ASSUME NEW r \in Requests, NEW i \in RegIds, CancelByGuest(r, i) PROVE SeatInv'
  BY <1>0, <1>2, CancelByGuestKeepsSeats
<1>3. ASSUME NEW r \in Requests, Commit(r) PROVE SeatInv'
  BY <1>3, CommitKeepsSeats
<1>4. ASSUME UNCHANGED <<reg, wait>>,
             \A q \in Requests : tx'[q].open /\ ~tx'[q].stale => tx'[q] = tx[q]
      PROVE  SeatInv'
  <2>1. SeatTables'
    BY <1>4, SeatTablesUnchanged DEF SeatInv, SeatTables
  <2>2. ASSUME NEW q \in Requests, tx'[q].open, ~tx'[q].stale PROVE KeepsSeats(q)'
    BY <1>4, <2>2, StillKeepsSeats DEF SeatInv
  <2> QED
    BY <2>1, <2>2 DEF SeatInv, SeatTables
<1>5. ASSUME NEW r \in Requests, Abort(r) PROVE SeatInv'
  BY <1>0, <1>4, <1>5 DEF Abort, TypeOK, Closed
<1>6. CASE EventEnds
  BY <1>4, <1>6 DEF EventEnds
<1>7. CASE UNCHANGED vars
  BY <1>4, <1>7 DEF vars
<1> QED
  BY <1>1, <1>2, <1>3, <1>5, <1>6, <1>7 DEF GuestNext

\* What the three theorems below have in common: as long as only guests act,
\* for every capacity and every number of overlapping transactions.
LEMMA SeatsHold == GuestSpec => []SeatInv
<1>1. Init => QueueInv /\ SeatInv
  BY QueueInit, SeatInit
<1>2. QueueInv /\ SeatInv /\ [GuestNext]_vars => (QueueInv /\ SeatInv)'
  BY QueueStep, SeatStep DEF Next
<1> QED
  BY <1>1, <1>2, PTL DEF GuestSpec

\* As long as only guests act, the CONFIRMED registrations never exceed the
\* capacity (registration.service.ts register).
THEOREM CapacityCorrect == GuestSpec => []CapacityRespected
<1>1. SeatInv => CapacityRespected
  BY DEF SeatInv
<1> QED
  BY <1>1, SeatsHold, PTL

\* No guest holds two active registrations, or waits while holding one
\* (registration.service.ts register, waitlist.service.ts addToWaitlist).
THEOREM StandingCorrect == GuestSpec => []OneStandingPerGuest
<1>1. SeatInv => OneStandingPerGuest
  BY DEF SeatInv, OneStandingPerGuest
<1> QED
  BY <1>1, SeatsHold, PTL

\* No seat is idle while guests wait: whoever leaves passes the seat on in the
\* same transaction (registration.service.ts cancelByGuest).
THEOREM NoIdleSeatCorrect == GuestSpec => []NoIdleSeatWhileGuestsWait
<1>1. SeatInv => NoIdleSeatWhileGuestsWait
  BY DEF SeatInv
<1> QED
  BY <1>1, SeatsHold, PTL

-----------------------------------------------------------------------------
(* The order of the waitlist.                                              *)

LEMMA CommitKeepsOrder ==
    ASSUME QueueInv, NEW r \in Requests, Commit(r)
    PROVE  KeepsOrder
<1>1. TypeOK /\ WaitlistIsAQueue /\ IsCurrent(r)
  BY DEF QueueInv, Commit
<1>2. \A f \in Waiting : wait[f].position \in Nat
  BY <1>1 DEF TypeOK, Waiting, WaitRow
<1>3. ASSUME wait' = wait PROVE KeepsOrder
  BY <1>3 DEF KeepsOrder
<1>4. ASSUME NEW e \in EntryIds, NEW u \in Users, NEW p \in NextPositions, StagesJoin(r, e, u, p)
      PROVE  KeepsOrder
  <2>1. wait' = [wait EXCEPT ![e] = [user |-> u, position |-> p, state |-> "waiting"]]
    BY <1>1, <1>4, CommitJoin
  <2>2. wait'[e].position = p /\ \A f \in EntryIds : f # e => wait'[f] = wait[f]
    BY <1>1, <2>1 DEF TypeOK
  <2>3. p \in Nat /\ \A f \in Waiting : wait[f].position < p
    BY <1>1, <1>2 DEF NextPositions, IsNextPosition
  <2>4. wait[e].state = "absent"
    BY <1>4 DEF StagesJoin, FreeEntries
  <2>5. ASSUME NEW x \in EntryIds, NEW f \in EntryIds, x # f,
               wait[f].state = "waiting", wait[x].state = "absent", wait'[x].state = "waiting"
        PROVE  wait'[x].position > wait[f].position
    <3>1. x = e /\ f \in Waiting
      BY <2>2, <2>5 DEF Waiting
    <3>2. wait[f].position \in Nat /\ wait[f].position < p
      BY <1>2, <2>3, <3>1
    <3> QED
      BY <2>2, <2>3, <3>1, <3>2
  <2>6. ASSUME NEW x \in EntryIds, wait[x].state = "waiting" PROVE wait'[x].state # "promoted"
    BY <2>2, <2>4, <2>6
  <2> QED
    BY <2>5, <2>6 DEF KeepsOrder
<1>5. ASSUME NEW i \in RegIds, NEW j \in RegIds, NEW e \in EntryIds, StagesPromotion(r, i, j, e)
      PROVE  KeepsOrder
  <2>1. wait' = [wait EXCEPT ![e] = [wait[e] EXCEPT !.state = "promoted"]]
    BY <1>1, <1>5, CommitPromotion
  <2>2. \A f \in EntryIds : f # e => wait'[f] = wait[f]
    BY <1>1, <2>1 DEF TypeOK
  <2>3. e \in Waiting /\ \A f \in Waiting : f # e => wait[e].position < wait[f].position
    BY <1>1, <1>2, <1>5 DEF StagesPromotion, IsLowest, WaitlistIsAQueue
  <2> QED
    BY <2>2, <2>3 DEF KeepsOrder, Waiting
<1> QED
  BY <1>1, <1>3, <1>4, <1>5, CommitSeat, CommitCancel DEF IsCurrent

LEMMA StepKeepsOrder == QueueInv /\ [Next]_vars => [KeepsOrder]_vars
<1> SUFFICES ASSUME QueueInv, Next PROVE KeepsOrder
  OBVIOUS
<1>1. ASSUME wait' = wait PROVE KeepsOrder
  BY <1>1 DEF KeepsOrder
<1>2. ASSUME NEW r \in Requests, NEW u \in Users, Register(r, u) PROVE wait' = wait
  BY <1>2 DEF Register, TakeSeat, AddToWaitlist, Stage
<1>3. ASSUME NEW r, NEW i, NEW row, NEW base, PromoteNext(r, i, row, base) \/ CancelOnly(r, i, base)
      PROVE  wait' = wait
  BY <1>3 DEF PromoteNext, CancelOnly, Stage
<1>4. ASSUME NEW r \in Requests, NEW i \in RegIds, CancelByGuest(r, i) \/ RemoveByOrganizer(r, i)
      PROVE  wait' = wait
  BY <1>3, <1>4 DEF CancelByGuest, RemoveByOrganizer
<1>5. ASSUME NEW r \in Requests, Abort(r) PROVE wait' = wait
  BY <1>5 DEF Abort
<1>6. ASSUME EventEnds \/ (OrganizerNext /\ ~\E r \in Requests, i \in RegIds : RemoveByOrganizer(r, i))
      PROVE  wait' = wait
  BY <1>6 DEF EventEnds, OrganizerNext, ApproveCheck, ApproveUpdate, ApproveLost, RejectByOrganizer
<1> QED
  BY <1>1, <1>2, <1>4, <1>5, <1>6, CommitKeepsOrder DEF Next, GuestNext

\* Whatever organizers do and however transactions overlap, the waitlist is
\* first come, first promoted (waitlist.service.ts addToWaitlist and
\* promoteNext).
THEOREM OrderCorrect == Spec => FirstComeFirstPromoted
<1> QED
  BY QueueInit, QueueStep, StepKeepsOrder, PTL DEF Spec, FirstComeFirstPromoted

-----------------------------------------------------------------------------
(* The seat book: SeatBook's state is read off the committed tables, every *)
(* commit of a guest's transaction is one of its steps and every other     *)
(* step of the service a stutter.                                          *)

\* Every row belongs to a guest.
Owned ==
    /\ \A i \in RegIds : reg[i].status # "absent" => reg[i].user \in Users
    /\ \A e \in EntryIds : wait[e].state # "absent" => wait[e].user \in Users

\* What the refinement needs of a state.
BookInv == QueueInv /\ SeatInv /\ Owned

\* SeatBook counts as Registration does.
LEMMA SameCardinality == \A S : Book!Cardinality(S) = Cardinality(S)
BY Zenon DEF Book!Cardinality, Cardinality

LEMMA OwnedUnchanged == Owned /\ UNCHANGED <<reg, wait>> => Owned'
BY DEF Owned

\* Apart from commits, no call of a guest changes the committed tables.
LEMMA OnlyCommitsWrite ==
    ASSUME [GuestNext]_vars, ~\E r \in Requests : Commit(r)
    PROVE  UNCHANGED <<reg, wait>>
<1>1. ASSUME NEW r \in Requests, NEW u \in Users, Register(r, u) PROVE UNCHANGED <<reg, wait>>
  BY <1>1 DEF Register, TakeSeat, AddToWaitlist, Stage
<1>2. ASSUME NEW r \in Requests, NEW i \in RegIds, CancelByGuest(r, i) PROVE UNCHANGED <<reg, wait>>
  BY <1>2 DEF CancelByGuest, PromoteNext, CancelOnly, Stage
<1>3. ASSUME NEW r \in Requests, Abort(r) PROVE UNCHANGED <<reg, wait>>
  BY <1>3 DEF Abort
<1>4. CASE EventEnds
  BY <1>4 DEF EventEnds
<1>5. CASE UNCHANGED vars
  BY <1>5 DEF vars
<1> QED
  BY <1>1, <1>2, <1>3, <1>4, <1>5 DEF GuestNext

LEMMA StutterOfBook == UNCHANGED <<reg, wait>> => UNCHANGED <<Holders, Waiters, Precedes>>
BY DEF Holders, Waiters, Precedes, Confirmed, Waiting

\* A guest holds at most one seat, so seats and seated guests are as many.
LEMMA HoldersCount ==
    ASSUME OneActiveRegistration
    PROVE  Cardinality(Holders) = Cardinality(Confirmed)
<1> DEFINE seat == [i \in Confirmed |-> reg[i].user]
<1>1. seat \in [Confirmed -> Holders]
  BY DEF Holders
<1>2. \A i, j \in Confirmed : seat[i] = seat[j] => i = j
  BY DEF OneActiveRegistration, Confirmed, IsActive
<1>3. \A u \in Holders : \E i \in Confirmed : seat[i] = u
  BY DEF Holders
<1> HIDE DEF seat
<1>4. seat \in Bijection(Confirmed, Holders)
  BY <1>1, <1>2, <1>3 DEF Bijection, Injection, Surjection, IsInjective
<1> QED
  BY <1>4, ConfirmedFinite, FS_Bijection DEF ExistsBijection

\* A free seat is taken: Sit.
LEMMA CommitSits ==
    ASSUME BookInv, ~RequiresApproval, NEW r \in Requests, Commit(r),
           NEW i \in RegIds, NEW u \in Users, StagesSeat(r, i, u),
           Active(u) = {}, Cardinality(Confirmed) < Capacity
    PROVE  Book!Sit(u) /\ Owned'
<1>1. TypeOK /\ OneActiveRegistration /\ NoIdleSeatWhileGuestsWait
  BY DEF BookInv, QueueInv, SeatInv
<1>2. /\ reg' = [reg EXCEPT ![i] = [user |-> u, status |-> "CONFIRMED", from |-> None]]
      /\ wait' = wait
  BY <1>1, CommitSeat DEF NewStatus
<1>3. /\ reg[i].status = "absent" /\ reg'[i].user = u /\ reg'[i].status = "CONFIRMED"
      /\ \A j \in RegIds : j # i => reg'[j] = reg[j]
  BY <1>1, <1>2 DEF TypeOK, StagesSeat, FreeRegs
<1>4. Waiting = {}
  BY <1>1, ConfirmedFinite, CapacityIsNat DEF NoIdleSeatWhileGuestsWait
<1>5. u \notin Holders \cup Waiters
  BY <1>4 DEF Holders, Waiters, Confirmed, Active, IsActive
<1>6. Cardinality(Holders) < Capacity
  BY <1>1, HoldersCount
<1>7. Confirmed' = Confirmed \cup {i} /\ i \notin Confirmed
  BY <1>3 DEF Confirmed
<1>8. Holders' = Holders \cup {u}
  <2>1. \A j \in Confirmed : j # i /\ reg'[j] = reg[j]
    BY <1>3, <1>7 DEF Confirmed
  <2> QED
    BY <1>3, <1>7, <2>1 DEF Holders
<1>9. UNCHANGED <<Waiters, Precedes>>
  BY <1>2 DEF Waiters, Precedes, Waiting
<1>10. Owned'
  BY <1>2, <1>3 DEF BookInv, Owned
<1> QED
  BY <1>5, <1>6, <1>8, <1>9, <1>10, SameCardinality DEF Book!Sit

\* A guest joins the end of the waitlist of a full event: Wait.
LEMMA CommitWaits ==
    ASSUME BookInv, NEW r \in Requests, Commit(r),
           NEW e \in EntryIds, NEW u \in Users, NEW p \in NextPositions, StagesJoin(r, e, u, p),
           Active(u) = {}, Cardinality(Confirmed) >= Capacity
    PROVE  Book!Wait(u) /\ Owned'
<1>1. TypeOK /\ OneActiveRegistration
  BY DEF BookInv, QueueInv, SeatInv
<1>2. /\ reg' = reg
      /\ wait' = [wait EXCEPT ![e] = [user |-> u, position |-> p, state |-> "waiting"]]
  BY <1>1, CommitJoin
<1>3. /\ wait'[e].user = u /\ wait'[e].position = p /\ wait'[e].state = "waiting"
      /\ \A f \in EntryIds : f # e => wait'[f] = wait[f]
  BY <1>1, <1>2 DEF TypeOK
<1>4. Waiting' = Waiting \cup {e} /\ e \notin Waiting
  BY <1>3 DEF Waiting, StagesJoin, FreeEntries
<1>5. \A f \in Waiting : wait[f].position < p /\ wait[f].position \in Nat
  BY <1>1 DEF NextPositions, IsNextPosition, Waiting, TypeOK, WaitRow
<1>6. p \in Nat
  BY <1>1 DEF NextPositions, Waiting, TypeOK, WaitRow
<1>7. u \notin Holders \cup Waiters
  BY DEF Holders, Waiters, Confirmed, Active, IsActive, StagesJoin
<1>8. Cardinality(Holders) >= Capacity
  BY <1>1, HoldersCount
<1>9. Waiters' = Waiters \cup {u}
  BY <1>3, <1>4 DEF Waiters, Waiting
<1>10. Precedes' = Precedes \cup (Waiters \X {u})
  <2>1. ASSUME NEW a \in Waiting', NEW b \in Waiting', wait'[a].position < wait'[b].position
        PROVE  <<wait'[a].user, wait'[b].user>> \in Precedes \cup (Waiters \X {u})
    <3>1. a # e
      <4>1. ~(p < p) /\ \A f \in Waiting : ~(p < wait[f].position)
        BY <1>5, <1>6
      <4> QED
        BY <2>1, <1>3, <1>4, <4>1 DEF Waiting
    <3>2. a \in Waiting /\ wait'[a] = wait[a]
      BY <1>3, <1>4, <3>1 DEF Waiting
    <3>3. CASE b = e
      BY <1>3, <3>2, <3>3 DEF Waiters
    <3>4. CASE b # e
      <4>1. b \in Waiting /\ wait'[b] = wait[b]
        BY <1>3, <1>4, <3>4 DEF Waiting
      <4>2. <<a, b>> \in {q \in Waiting \X Waiting : wait[q[1]].position < wait[q[2]].position}
        BY <2>1, <3>2, <4>1
      <4> QED
        BY <3>2, <4>1, <4>2 DEF Precedes
    <3> QED
      BY <3>3, <3>4
  <2>2. ASSUME NEW a \in Waiting, NEW b \in Waiting, wait[a].position < wait[b].position
        PROVE  <<wait[a].user, wait[b].user>> \in Precedes'
    <3>1. /\ a \in Waiting' /\ b \in Waiting' /\ wait'[a] = wait[a] /\ wait'[b] = wait[b]
      BY <1>3, <1>4 DEF Waiting
    <3>2. <<a, b>> \in {q \in Waiting' \X Waiting' : wait'[q[1]].position < wait'[q[2]].position}
      BY <2>2, <3>1
    <3> QED
      BY <3>1, <3>2 DEF Precedes
  <2>3. ASSUME NEW a \in Waiting PROVE <<wait[a].user, u>> \in Precedes'
    <3>1. a \in Waiting' /\ e \in Waiting' /\ wait'[a] = wait[a] /\ wait'[a].position < wait'[e].position
      BY <1>3, <1>4, <1>5 DEF Waiting
    <3>2. <<a, e>> \in {q \in Waiting' \X Waiting' : wait'[q[1]].position < wait'[q[2]].position}
      BY <3>1
    <3> QED
      BY <1>3, <3>1, <3>2 DEF Precedes
  <2>4. Precedes' \subseteq Precedes \cup (Waiters \X {u})
    BY <2>1 DEF Precedes
  <2>5. Precedes \subseteq Precedes'
    BY <2>2 DEF Precedes
  <2>6. Waiters \X {u} \subseteq Precedes'
    BY <2>3 DEF Waiters
  <2> QED
    BY <2>4, <2>5, <2>6
<1>11. UNCHANGED Holders
  BY <1>2 DEF Holders, Confirmed
<1>12. Owned'
  BY <1>2, <1>3 DEF BookInv, Owned
<1> QED
  BY <1>7, <1>8, <1>9, <1>10, <1>11, <1>12, SameCardinality DEF Book!Wait

\* A seat nobody waits for is given up: Leave; other rows change nothing that
\* the book shows.
LEMMA CommitLeaves ==
    ASSUME BookInv, NEW r \in Requests, Commit(r), NEW i \in RegIds, StagesCancel(r, i),
           reg[i].status = "CONFIRMED" => Waiting = {}
    PROVE  /\ \/ \E u \in Users : Book!Leave(u)
              \/ UNCHANGED <<Holders, Waiters, Precedes>>
           /\ Owned'
<1>1. TypeOK /\ OneActiveRegistration
  BY DEF BookInv, QueueInv, SeatInv
<1>2. reg' = [reg EXCEPT ![i] = WithStatus(i, "CANCELLED")] /\ wait' = wait
  BY <1>1, CommitCancel
<1>3. /\ reg'[i].status = "CANCELLED" /\ reg'[i].user = reg[i].user
      /\ \A j \in RegIds : j # i => reg'[j] = reg[j]
  BY <1>1, <1>2 DEF TypeOK, WithStatus, RegRow
<1>4. Confirmed' = Confirmed \ {i}
  BY <1>3 DEF Confirmed
<1>5. UNCHANGED <<Waiters, Precedes>>
  BY <1>2 DEF Waiters, Precedes, Waiting
<1>6. Owned'
  BY <1>2, <1>3 DEF BookInv, Owned, StagesCancel, FreeRegs
<1>7. CASE reg[i].status = "CONFIRMED"
  <2>1. i \in Confirmed /\ \A j \in Confirmed : j # i => reg[j].user # reg[i].user
    BY <1>1, <1>7 DEF Confirmed, OneActiveRegistration, IsActive
  <2>2. reg[i].user \in Users /\ reg[i].user \in Holders
    BY <1>7, <2>1 DEF BookInv, Owned, Holders
  <2>3. \A j \in Confirmed' : j \in Confirmed /\ j # i /\ reg'[j].user = reg[j].user
    BY <1>3, <1>4 DEF Confirmed
  <2>4. Holders' = Holders \ {reg[i].user}
    BY <1>3, <1>4, <2>1, <2>3 DEF Holders
  <2>5. Waiters = {}
    BY <1>7 DEF Waiters
  <2>6. Book!Leave(reg[i].user)
    BY <1>5, <2>2, <2>4, <2>5 DEF Book!Leave
  <2> QED
    BY <1>6, <2>2, <2>6
<1>8. CASE reg[i].status # "CONFIRMED"
  <2>1. Confirmed' = Confirmed /\ \A j \in Confirmed : reg'[j] = reg[j]
    BY <1>3, <1>4, <1>8 DEF Confirmed
  <2>2. UNCHANGED Holders
    BY <2>1 DEF Holders
  <2> QED
    BY <1>5, <1>6, <2>2
<1> QED
  BY <1>7, <1>8

\* A seat goes to the first guest of the waitlist: PassOn.
LEMMA CommitPassesOn ==
    ASSUME BookInv, ~RequiresApproval, NEW r \in Requests, Commit(r),
           NEW i \in RegIds, NEW j \in RegIds, NEW e \in EntryIds, StagesPromotion(r, i, j, e),
           reg[i].status = "CONFIRMED"
    PROVE  (\E u, v \in Users : Book!PassOn(u, v)) /\ Owned'
<1> DEFINE u == reg[i].user
           v == wait[e].user
<1>1. TypeOK /\ OneActiveRegistration /\ WaitlistIsAQueue /\ Owned
  BY DEF BookInv, QueueInv, SeatInv
<1>2. /\ i # j
      /\ reg' = [reg EXCEPT ![i] = WithStatus(i, "CANCELLED"),
                            ![j] = [user |-> v, status |-> "CONFIRMED", from |-> e]]
      /\ wait' = [wait EXCEPT ![e] = [wait[e] EXCEPT !.state = "promoted"]]
  BY <1>1, CommitPromotion DEF NewStatus
<1>3. /\ reg'[i].status = "CANCELLED" /\ reg'[i].user = u
      /\ reg[j].status = "absent" /\ reg'[j].status = "CONFIRMED" /\ reg'[j].user = v
      /\ \A k \in RegIds : k # i /\ k # j => reg'[k] = reg[k]
  BY <1>1, <1>2 DEF TypeOK, WithStatus, RegRow, StagesPromotion, FreeRegs
<1>4. /\ e \in Waiting /\ Waiting' = Waiting \ {e} /\ wait'[e].user = v
      /\ \A f \in EntryIds : f # e => wait'[f] = wait[f]
  BY <1>1, <1>2 DEF TypeOK, StagesPromotion, IsLowest, Waiting, WaitRow
<1>5. i \in Confirmed /\ Confirmed' = (Confirmed \ {i}) \cup {j} /\ j \notin Confirmed
  BY <1>2, <1>3 DEF Confirmed
<1>6. \A k \in Confirmed : k # i => reg[k].user # u /\ reg'[k] = reg[k]
  BY <1>1, <1>3, <1>5 DEF Confirmed, OneActiveRegistration, IsActive
<1>7. \A f \in Waiting : f # e => wait[f].user # v /\ wait'[f] = wait[f] /\ ~(wait[f].position < wait[e].position)
  <2>1. \A f \in Waiting : wait[f].position \in Nat /\ wait[e].position <= wait[f].position
    BY <1>1 DEF TypeOK, WaitRow, Waiting, StagesPromotion, IsLowest
  <2> QED
    BY <1>1, <1>4, <2>1 DEF WaitlistIsAQueue, Waiting
<1>8. u \in Users /\ v \in Users
  BY <1>1, <1>4 DEF Owned, Waiting
<1>9. u \in Holders /\ v \in Waiters
  BY <1>4, <1>5 DEF Holders, Waiters
<1>10. Holders' = (Holders \ {u}) \cup {v}
  <2>1. ASSUME NEW w \in Holders' PROVE w \in (Holders \ {u}) \cup {v}
    BY <1>3, <1>5, <1>6 DEF Holders
  <2>2. ASSUME NEW w \in Holders, w # u PROVE w \in Holders'
    BY <1>5, <1>6, <2>2 DEF Holders
  <2>3. v \in Holders'
    BY <1>3, <1>5 DEF Holders
  <2> QED
    BY <2>1, <2>2, <2>3
<1>11. Waiters' = Waiters \ {v}
  BY <1>4, <1>7 DEF Waiters
<1>12. \A w \in Waiters : <<w, v>> \notin Precedes
  <2> SUFFICES ASSUME NEW a \in Waiting, NEW b \in Waiting, wait[a].position < wait[b].position,
                      wait[b].user = v
               PROVE  FALSE
    BY DEF Precedes
  <2>1. b = e
    BY <1>7
  <2>2. wait[e].position \in Nat
    BY <1>1, <1>4 DEF TypeOK, WaitRow, Waiting
  <2> QED
    BY <1>7, <2>1, <2>2
<1>13. Precedes' = Precedes \ ({v} \X Waiters)
  <2>1. ASSUME NEW a \in Waiting', NEW b \in Waiting', wait'[a].position < wait'[b].position
        PROVE  <<wait'[a].user, wait'[b].user>> \in Precedes \ ({v} \X Waiters)
    <3>1. /\ a \in Waiting /\ b \in Waiting /\ a # e /\ wait'[a] = wait[a] /\ wait'[b] = wait[b]
          /\ wait[a].user # v
      BY <1>4, <1>7
    <3>2. <<a, b>> \in {q \in Waiting \X Waiting : wait[q[1]].position < wait[q[2]].position}
      BY <2>1, <3>1
    <3>3. <<wait[a].user, wait[b].user>> \in Precedes
      BY <3>2 DEF Precedes
    <3> QED
      BY <3>1, <3>3
  <2>2. ASSUME NEW a \in Waiting, NEW b \in Waiting, wait[a].position < wait[b].position,
               <<wait[a].user, wait[b].user>> \notin {v} \X Waiters
        PROVE  <<wait[a].user, wait[b].user>> \in Precedes'
    <3>1. wait[b].user \in Waiters
      BY DEF Waiters
    <3>2. a # e
      BY <2>2, <3>1
    <3>3. b # e
      BY <1>7, <2>2, <3>2
    <3>4. a \in Waiting' /\ b \in Waiting' /\ wait'[a] = wait[a] /\ wait'[b] = wait[b]
      BY <1>4, <1>7, <3>2, <3>3
    <3>5. <<a, b>> \in {q \in Waiting' \X Waiting' : wait'[q[1]].position < wait'[q[2]].position}
      BY <2>2, <3>4
    <3> QED
      BY <3>4, <3>5 DEF Precedes
  <2>3. Precedes' \subseteq Precedes \ ({v} \X Waiters)
    BY <2>1 DEF Precedes
  <2>4. Precedes \ ({v} \X Waiters) \subseteq Precedes'
    BY <2>2 DEF Precedes
  <2> QED
    BY <2>3, <2>4
<1>14. Book!PassOn(u, v)
  BY <1>9, <1>10, <1>11, <1>12, <1>13 DEF Book!PassOn
<1>15. Owned'
  BY <1>1, <1>3, <1>4, <1>8 DEF Owned, Waiting
<1> QED
  BY <1>8, <1>14, <1>15

\* Every step of the service is a step of the book or a stutter.
LEMMA BookStep ==
    ASSUME ~RequiresApproval, BookInv, [GuestNext]_vars
    PROVE  [Book!Next]_<<Holders, Waiters, Precedes>> /\ Owned'
<1>1. CASE ~\E r \in Requests : Commit(r)
  <2>1. UNCHANGED <<reg, wait>>
    BY <1>1, OnlyCommitsWrite
  <2> QED
    BY <2>1, StutterOfBook, OwnedUnchanged DEF BookInv
<1>2. ASSUME NEW r \in Requests, Commit(r)
      PROVE  [Book!Next]_<<Holders, Waiters, Precedes>> /\ Owned'
  <2>1. KeepsSeats(r)
    BY <1>2 DEF BookInv, SeatInv, Commit
  <2>2. ASSUME NEW i \in RegIds, NEW u \in Users, StagesSeat(r, i, u),
               Active(u) = {}, Cardinality(Confirmed) < Capacity
        PROVE  Book!Next /\ Owned'
    BY <1>2, <2>2, CommitSits DEF Book!Next
  <2>3. ASSUME NEW e \in EntryIds, NEW u \in Users, NEW p \in NextPositions, StagesJoin(r, e, u, p),
               Active(u) = {}, Cardinality(Confirmed) >= Capacity
        PROVE  Book!Next /\ Owned'
    BY <1>2, <2>3, CommitWaits DEF Book!Next
  <2>4. ASSUME NEW i \in RegIds, StagesCancel(r, i), reg[i].status = "CONFIRMED" => Waiting = {}
        PROVE  (Book!Next \/ UNCHANGED <<Holders, Waiters, Precedes>>) /\ Owned'
    BY <1>2, <2>4, CommitLeaves DEF Book!Next
  <2>5. ASSUME NEW i \in RegIds, NEW j \in RegIds, NEW e \in EntryIds, StagesPromotion(r, i, j, e),
               reg[i].status = "CONFIRMED"
        PROVE  Book!Next /\ Owned'
    BY <1>2, <2>5, CommitPassesOn DEF Book!Next
  <2> QED
    BY <2>1, <2>2, <2>3, <2>4, <2>5 DEF KeepsSeats
<1> QED
  BY <1>1, <1>2

LEMMA BookInit == Init => Book!Init /\ Owned
<1> SUFFICES ASSUME Init PROVE Book!Init /\ Owned
  OBVIOUS
<1>1. Confirmed = {} /\ Waiting = {}
  BY DEF Init, Confirmed, Waiting, NoRegs, NoReg, NoEntries, NoEntry
<1>2. Holders = {} /\ Waiters = {} /\ Precedes = {}
  BY <1>1 DEF Holders, Waiters, Precedes
<1>3. Owned
  BY DEF Init, Owned, NoRegs, NoReg, NoEntries, NoEntry
<1> QED
  BY <1>2, <1>3 DEF Book!Init

\* For an event without approval, and as long as only guests act, the
\* serializable transactions of the service implement the seat book, for
\* every capacity and every number of overlapping, conflicting and aborted
\* transactions (registration.service.ts register and cancelByGuest,
\* waitlist.service.ts addToWaitlist and promoteNext).
THEOREM BookCorrect ==
    ASSUME ~RequiresApproval
    PROVE  GuestSpec => ImplementsSeatBook
<1>1. Init => BookInv /\ Book!Init
  BY QueueInit, SeatInit, BookInit DEF BookInv
<1>2. BookInv /\ [GuestNext]_vars => BookInv' /\ [Book!Next]_<<Holders, Waiters, Precedes>>
  BY QueueStep, SeatStep, BookStep DEF Next, BookInv
<1> QED
  BY <1>1, <1>2, PTL DEF GuestSpec, ImplementsSeatBook, Book!Spec, Book!bookVars
=============================================================================
