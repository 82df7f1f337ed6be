--------------------------- MODULE EntranceProofs ---------------------------
(***************************************************************************)
(* Theorems about Entrance, for any number of gates, attendees, guests,    *)
(* parents and claims.                                                     *)
(***************************************************************************)
EXTENDS Entrance, GraduationProofs

\* The types of the entrance, and what the calls of inviteGuests are about.
DoorType ==
    /\ confirmed \in SUBSET Users
    /\ invitedBy \in [Emails -> Users \cup {None}]
    /\ ticketed \in SUBSET Emails
    /\ inviting \in [Inviters -> [pc : {"none", "next", "create"}, user : Users \cup {None},
                                  left : SUBSET Emails, email : Emails \cup {None}]]
    /\ scan \in [Gates -> Keys \cup {None}]
    /\ attendance \in [Keys -> Nat]
    /\ raced \in SUBSET Keys
    /\ overbooked \in SUBSET Users
    /\ \A i \in Inviters :
          /\ inviting[i].pc = "none" => inviting[i] = NoInviting
          /\ inviting[i].pc # "none" => inviting[i].user \in Users
          /\ inviting[i].pc = "create" => inviting[i].email \in Emails

\* A ticket in the hand of a gate has no row yet, and is in no other gate's hand.
AtMostOneGate ==
    \A k \in Keys \ raced :
       /\ attendance[k] <= 1
       /\ \A o \in Gates : scan[o] = k => /\ attendance[k] = 0
                                          /\ \A q \in Gates : scan[q] = k => q = o

\* Parents at the gate or inside hold passes of the table.
ParentsHoldPasses ==
    \A p \in Passes :
       /\ attendance[<<p, None>>] > 0 => pass[p].state = "stored"
       /\ \A o \in Gates : scan[o] = <<p, None>> => pass[p].state = "stored"

\* What a user has invited and is about to invite is within the limit.
Inviting(i, u) == inviting[i].pc # "none" /\ inviting[i].user = u

Announced(i) == Cardinality(inviting[i].left) + (IF inviting[i].pc = "create" THEN 1 ELSE 0)

Counted ==
    \A u \in Users \ overbooked :
       /\ Cardinality(InvitedBy(u)) <= GuestLimit
       /\ \A i \in Inviters :
             Inviting(i, u) => /\ Cardinality(InvitedBy(u)) + Announced(i) <= GuestLimit
                               /\ \A j \in Inviters : Inviting(j, u) => j = i

DoorInv == SlotInv /\ DoorType /\ AtMostOneGate /\ ParentsHoldPasses /\ Counted

LEMMA NobodyIsInviting ==
    NoInviting \in [pc : {"none", "next", "create"}, user : Users \cup {None},
                    left : SUBSET Emails, email : Emails \cup {None}]
BY DEF NoInviting

LEMMA ParentKeys == \A p \in Passes : <<p, None>> \in Keys
BY DEF Keys

LEMMA InvitedAreFinite ==
    \A u : IsFiniteSet(InvitedBy(u)) /\ Cardinality(InvitedBy(u)) \in Nat
<1> SUFFICES ASSUME NEW u
             PROVE  IsFiniteSet(InvitedBy(u)) /\ Cardinality(InvitedBy(u)) \in Nat
  OBVIOUS
<1>1. InvitedBy(u) \in SUBSET Emails
  BY DEF InvitedBy
<1> QED
  BY <1>1, EmailsAreFinite, FS_Subset, FS_CardinalityType

LEMMA DoorInit == EntranceInit => DoorInv
<1> SUFFICES ASSUME EntranceInit PROVE DoorInv
  OBVIOUS
<1>1. SlotInv
  BY SlotInit DEF EntranceInit
<1>2. DoorType
  BY NobodyIsInviting DEF EntranceInit, DoorType, NoInviting
<1>3. AtMostOneGate /\ ParentsHoldPasses
  BY NoneIsNoKey, ParentKeys DEF EntranceInit, AtMostOneGate, ParentsHoldPasses
<1>4. Counted
  <2>1. \A u \in Users : InvitedBy(u) = {}
    BY NoneIsNobody DEF EntranceInit, InvitedBy
  <2>2. \A i \in Inviters : inviting[i].pc = "none"
    BY DEF EntranceInit, NoInviting
  <2> QED
    BY <2>1, <2>2, FS_EmptySet, LimitsAreNat DEF Counted, Inviting
<1> QED
  BY <1>1, <1>2, <1>3, <1>4 DEF DoorInv

-----------------------------------------------------------------------------
(* The entrance leaves graduation alone, and the other way round.          *)

LEMMA EntranceStepsNext == EntranceNext => [Next]_vars
BY DEF EntranceNext, RestartAll, Next

LEMMA GraduationStep == SlotInv /\ [Next]_vars => SlotInv' /\ PassesLast
BY SlotStep, PassStep DEF SlotInv

LEMMA ClaimsPass ==
    ASSUME DoorInv, PassesLast, UNCHANGED door
    PROVE  DoorType' /\ AtMostOneGate' /\ ParentsHoldPasses' /\ Counted'
<1>1. DoorType' /\ AtMostOneGate'
  BY DEF door, DoorInv, DoorType, AtMostOneGate
<1>2. ParentsHoldPasses'
  BY DEF door, DoorInv, ParentsHoldPasses, PassesLast
<1>3. Counted'
  BY DEF door, DoorInv, Counted, Inviting, Announced, InvitedBy
<1> QED
  BY <1>1, <1>2, <1>3

LEMMA RestartPass ==
    ASSUME DoorInv, PassesLast, RestartAll
    PROVE  DoorType' /\ AtMostOneGate' /\ ParentsHoldPasses' /\ Counted'
<1>1. DoorType'
  BY NobodyIsInviting DEF RestartAll, DoorInv, DoorType, NoInviting
<1>2. AtMostOneGate'
  BY NoneIsNoKey DEF RestartAll, DoorInv, AtMostOneGate
<1>3. ParentsHoldPasses'
  BY NoneIsNoKey, ParentKeys DEF RestartAll, DoorInv, ParentsHoldPasses, PassesLast
<1>4. Counted'
  BY DEF RestartAll, DoorInv, Counted, Inviting, NoInviting, InvitedBy
<1> QED
  BY <1>1, <1>2, <1>3, <1>4

-----------------------------------------------------------------------------
(* The gates.                                                              *)

LEMMA ScanCheckStep ==
    ASSUME DoorInv, UNCHANGED vars, NEW o \in Gates, NEW k \in Keys, ScanCheck(o, k)
    PROVE  DoorType' /\ AtMostOneGate' /\ ParentsHoldPasses' /\ Counted'
<1>1. /\ attendance[k] = 0 /\ Valid(k) /\ scan[o] = None
      /\ scan'[o] = k /\ \A q \in Gates \ {o} : scan'[q] = scan[q]
      /\ raced \subseteq raced' /\ UNCHANGED <<attendance, pass>>
  BY DEF vars, ScanCheck, DoorInv, DoorType
<1>2. DoorType'
  BY DEF ScanCheck, DoorInv, DoorType
<1>3. AtMostOneGate'
  <2>1. k \notin raced' => \A q \in Gates \ {o} : scan[q] # k
    BY DEF ScanCheck
  <2>2. ASSUME NEW l \in Keys \ raced'
        PROVE  /\ attendance'[l] <= 1
               /\ \A q \in Gates : scan'[q] = l =>
                     /\ attendance'[l] = 0
                     /\ \A r \in Gates : scan'[r] = l => r = q
    <3>1. CASE l = k
      BY <1>1, <2>1, <3>1
    <3>2. CASE l # k
      BY <1>1, <3>2 DEF DoorInv, AtMostOneGate
    <3> QED
      BY <3>1, <3>2
  <2> QED
    BY <2>2 DEF AtMostOneGate
<1>4. ParentsHoldPasses'
  <2>1. ASSUME NEW p \in Passes, k = <<p, None>> PROVE pass[p].state = "stored"
    BY <1>1, <2>1, HoldersDiffer DEF Valid, DoorInv, DoorType
  <2> QED
    BY <1>1, <2>1 DEF DoorInv, ParentsHoldPasses
<1>5. Counted'
  BY DEF ScanCheck, DoorInv, Counted, Inviting, Announced, InvitedBy
<1> QED
  BY <1>2, <1>3, <1>4, <1>5

LEMMA ScanAdmitStep ==
    ASSUME DoorInv, UNCHANGED vars, NEW o \in Gates, ScanAdmit(o)
    PROVE  DoorType' /\ AtMostOneGate' /\ ParentsHoldPasses' /\ Counted'
<1>1. PICK k \in Keys : scan[o] = k
  BY DEF ScanAdmit, DoorInv, DoorType
<1>2. /\ attendance[k] \in Nat /\ attendance'[k] = attendance[k] + 1
      /\ \A l \in Keys \ {k} : attendance'[l] = attendance[l]
      /\ scan'[o] = None /\ \A q \in Gates \ {o} : scan'[q] = scan[q]
      /\ UNCHANGED <<raced, pass>>
  BY <1>1 DEF vars, ScanAdmit, DoorInv, DoorType
<1>3. DoorType'
  BY <1>1, <1>2 DEF ScanAdmit, DoorInv, DoorType
<1>4. AtMostOneGate'
  <2> SUFFICES ASSUME NEW l \in Keys \ raced
               PROVE  /\ attendance'[l] <= 1
                      /\ \A q \in Gates : scan'[q] = l =>
                            /\ attendance'[l] = 0
                            /\ \A r \in Gates : scan'[r] = l => r = q
    BY <1>2 DEF AtMostOneGate
  <2>1. CASE l = k
    <3>1. attendance[k] = 0 /\ \A q \in Gates : scan[q] = k => q = o
      BY <1>1, <2>1 DEF DoorInv, AtMostOneGate
    <3>2. \A q \in Gates : scan'[q] # k
      BY <1>2, <3>1, NoneIsNoKey
    <3> QED
      BY <1>2, <2>1, <3>1, <3>2
  <2>2. CASE l # k
    BY <1>2, <2>2, NoneIsNoKey DEF DoorInv, AtMostOneGate
  <2> QED
    BY <2>1, <2>2
<1>5. ParentsHoldPasses'
  <2>1. ASSUME NEW p \in Passes, k = <<p, None>> PROVE pass[p].state = "stored"
    BY <1>1, <2>1 DEF DoorInv, ParentsHoldPasses
  <2>2. ASSUME NEW p \in Passes PROVE <<p, None>> \in Keys /\ <<p, None>> # None
    BY ParentKeys, NoneIsNoKey
  <2> QED
    BY <1>2, <2>1, <2>2 DEF DoorInv, ParentsHoldPasses
<1>6. Counted'
  BY DEF ScanAdmit, DoorInv, Counted, Inviting, Announced, InvitedBy
<1> QED
  BY <1>3, <1>4, <1>5, <1>6

-----------------------------------------------------------------------------
(* Invitations.                                                            *)

\* Steps that leave the gates alone.
LEMMA GatesRest ==
    ASSUME DoorInv, UNCHANGED vars, UNCHANGED <<scan, attendance, raced>>
    PROVE  AtMostOneGate' /\ ParentsHoldPasses'
BY DEF vars, DoorInv, AtMostOneGate, ParentsHoldPasses

LEMMA LeftIsFinite ==
    ASSUME DoorType, NEW i \in Inviters
    PROVE  IsFiniteSet(inviting[i].left) /\ Cardinality(inviting[i].left) \in Nat
<1>1. inviting[i].left \in SUBSET Emails
  BY DEF DoorType
<1> QED
  BY <1>1, EmailsAreFinite, FS_Subset, FS_CardinalityType

LEMMA InviteCheckStep ==
    ASSUME DoorInv, NEW i \in Inviters, NEW u \in Users, NEW E \in SUBSET Emails,
           InviteCheck(i, u, E)
    PROVE  DoorType' /\ Counted'
<1>1. /\ inviting[i] = NoInviting
      /\ inviting'[i] = [pc |-> "next", user |-> u, left |-> E, email |-> None]
      /\ \A j \in Inviters \ {i} : inviting'[j] = inviting[j]
      /\ overbooked \subseteq overbooked' /\ UNCHANGED invitedBy
      /\ Cardinality(InvitedBy(u)) + Cardinality(E) <= GuestLimit
  BY DEF InviteCheck, DoorInv, DoorType
<1>2. DoorType'
  BY DEF InviteCheck, DoorInv, DoorType
<1>3. u \notin overbooked' => \A j \in Inviters : ~Inviting(j, u)
  BY DEF InviteCheck, Inviting
<1>4. Announced(i)' = Cardinality(E)
  <2>1. Cardinality(E) \in Nat
    BY EmailsAreFinite, FS_Subset, FS_CardinalityType
  <2> QED
    BY <1>1, <2>1 DEF Announced
<1>5. \A v : InvitedBy(v)' = InvitedBy(v)
  BY <1>1 DEF InvitedBy
<1>6. Counted'
  <2> SUFFICES ASSUME NEW v \in Users \ overbooked'
               PROVE  /\ Cardinality(InvitedBy(v)) <= GuestLimit
                      /\ \A j \in Inviters : Inviting(j, v)' =>
                            /\ Cardinality(InvitedBy(v)) + Announced(j)' <= GuestLimit
                            /\ \A l \in Inviters : Inviting(l, v)' => l = j
    BY <1>5 DEF Counted
  <2>1. /\ Cardinality(InvitedBy(v)) <= GuestLimit
        /\ \A j \in Inviters : Inviting(j, v) =>
              /\ Cardinality(InvitedBy(v)) + Announced(j) <= GuestLimit
              /\ \A l \in Inviters : Inviting(l, v) => l = j
    BY <1>1 DEF DoorInv, Counted
  <2>2. \A j \in Inviters \ {i} : Announced(j)' = Announced(j) /\ (Inviting(j, v)' <=> Inviting(j, v))
    BY <1>1 DEF Announced, Inviting
  <2>3. CASE v = u
    <3>1. \A j \in Inviters : Inviting(j, v)' => j = i
      BY <1>3, <2>2, <2>3
    <3> QED
      BY <1>1, <1>4, <2>1, <2>3, <3>1
  <2>4. CASE v # u
    <3>1. ~Inviting(i, v)'
      BY <1>1, <2>4 DEF Inviting
    <3> QED
      BY <2>1, <2>2, <3>1
  <2> QED
    BY <2>3, <2>4
<1> QED
  BY <1>2, <1>6

\* A call goes on for its user, and what it did invite it no longer announces.
LEMMA InviteOn ==
    ASSUME DoorInv, NEW i \in Inviters, NEW u \in Users, Inviting(i, u),
           \A j \in Inviters \ {i} : inviting'[j] = inviting[j],
           UNCHANGED overbooked,
           inviting'[i].pc # "none" => inviting'[i].user = u,
           \A v \in Users \ {u} : InvitedBy(v)' = InvitedBy(v),
           inviting'[i].pc = "none" => InvitedBy(u)' = InvitedBy(u),
           inviting'[i].pc # "none" =>
              Cardinality(InvitedBy(u)') + Announced(i)' <= Cardinality(InvitedBy(u)) + Announced(i),
           Announced(i) \in Nat, Announced(i)' \in Nat
    PROVE  Counted'
<1> SUFFICES ASSUME NEW v \in Users \ overbooked
             PROVE  /\ Cardinality(InvitedBy(v)') <= GuestLimit
                    /\ \A j \in Inviters : Inviting(j, v)' =>
                          /\ Cardinality(InvitedBy(v)') + Announced(j)' <= GuestLimit
                          /\ \A l \in Inviters : Inviting(l, v)' => l = j
  BY DEF Counted
<1>1. /\ Cardinality(InvitedBy(v)) <= GuestLimit
      /\ \A j \in Inviters : Inviting(j, v) =>
            /\ Cardinality(InvitedBy(v)) + Announced(j) <= GuestLimit
            /\ \A l \in Inviters : Inviting(l, v) => l = j
  BY DEF DoorInv, Counted
<1>2. \A j \in Inviters \ {i} : Announced(j)' = Announced(j) /\ (Inviting(j, v)' <=> Inviting(j, v))
  BY DEF Announced, Inviting
<1>3. CASE v = u
  <2>1. \A j \in Inviters : Inviting(j, v)' => j = i
    BY <1>1, <1>2, <1>3
  <2>2. Cardinality(InvitedBy(u)) + Announced(i) <= GuestLimit
    BY <1>1, <1>3
  <2>3. CASE inviting'[i].pc = "none"
    BY <1>1, <1>3, <2>1, <2>3 DEF Inviting
  <2>4. CASE inviting'[i].pc # "none"
    <3>1. IsFiniteSet(InvitedBy(u)') /\ Cardinality(InvitedBy(u)') \in Nat
      <4>1. InvitedBy(u)' \in SUBSET Emails
        BY DEF InvitedBy
      <4> QED
        BY <4>1, EmailsAreFinite, FS_Subset, FS_CardinalityType
    <3>2. Cardinality(InvitedBy(u)') + Announced(i)' <= GuestLimit
      BY <2>2, <2>4, <3>1, InvitedAreFinite, LimitsAreNat
    <3>3. Cardinality(InvitedBy(u)') <= GuestLimit
      BY <3>1, <3>2, LimitsAreNat
    <3> QED
      BY <1>3, <2>1, <3>2, <3>3
  <2> QED
    BY <2>3, <2>4
<1>4. CASE v # u
  <2>1. ~Inviting(i, v) /\ ~Inviting(i, v)' /\ InvitedBy(v)' = InvitedBy(v)
    BY <1>4 DEF Inviting
  <2> QED
    BY <1>1, <1>2, <2>1
<1> QED
  BY <1>3, <1>4

LEMMA InviteFindStep ==
    ASSUME DoorInv, NEW i \in Inviters, NEW e \in Emails, InviteFind(i, e)
    PROVE  DoorType' /\ Counted'
<1>1. PICK u \in Users : Inviting(i, u)
  BY DEF InviteFind, DoorInv, DoorType, Inviting
<1>2. /\ inviting[i].pc = "next" /\ e \in inviting[i].left
      /\ inviting'[i].left = inviting[i].left \ {e}
      /\ inviting'[i].pc = (IF invitedBy[e] = None THEN "create" ELSE "next")
      /\ inviting'[i].email = (IF invitedBy[e] = None THEN e ELSE None)
      /\ inviting'[i].user = u
      /\ \A j \in Inviters \ {i} : inviting'[j] = inviting[j]
      /\ UNCHANGED <<overbooked, invitedBy>>
  BY <1>1 DEF InviteFind, DoorInv, DoorType, Inviting
<1>3. DoorType'
  <2> DEFINE Calls == [pc : {"none", "next", "create"}, user : Users \cup {None},
                       left : SUBSET Emails, email : Emails \cup {None}]
  <2>1. inviting' = [inviting EXCEPT ![i] = inviting'[i]]
    BY <1>2 DEF InviteFind, DoorInv, DoorType
  <2>2. inviting[i] \in Calls
    BY DEF DoorInv, DoorType
  <2>3. inviting'[i] = [pc |-> IF invitedBy[e] = None THEN "create" ELSE "next", user |-> u,
                        left |-> inviting[i].left \ {e},
                        email |-> IF invitedBy[e] = None THEN e ELSE None]
    BY <1>2, <2>2 DEF InviteFind, DoorInv, DoorType
  <2>4. inviting'[i] \in Calls
    BY <2>2, <2>3
  <2>5. inviting' \in [Inviters -> Calls]
    BY <2>1, <2>4 DEF DoorInv, DoorType
  <2>6. \A j \in Inviters :
           /\ inviting'[j].pc = "none" => inviting'[j] = NoInviting
           /\ inviting'[j].pc # "none" => inviting'[j].user \in Users
           /\ inviting'[j].pc = "create" => inviting'[j].email \in Emails
    BY <1>1, <1>2, <2>3 DEF DoorInv, DoorType
  <2> QED
    BY <2>5, <2>6 DEF InviteFind, DoorInv, DoorType
<1>4. \A v : InvitedBy(v)' = InvitedBy(v)
  BY <1>2 DEF InvitedBy
<1>5. /\ Cardinality(inviting[i].left) \in Nat
      /\ Cardinality(inviting'[i].left) = Cardinality(inviting[i].left) - 1
      /\ Cardinality(inviting'[i].left) \in Nat
  <2>1. IsFiniteSet(inviting[i].left) /\ Cardinality(inviting[i].left) \in Nat
    BY LeftIsFinite DEF DoorInv
  <2> QED
    BY <1>2, <2>1, FS_RemoveElement, FS_CardinalityType
<1>6. /\ Announced(i) = Cardinality(inviting[i].left)
      /\ Announced(i)' <= Announced(i)
      /\ Announced(i) \in Nat /\ Announced(i)' \in Nat
      /\ inviting'[i].pc # "none"
  BY <1>2, <1>5 DEF Announced
<1>7. Cardinality(InvitedBy(u)') + Announced(i)' <= Cardinality(InvitedBy(u)) + Announced(i)
  BY <1>4, <1>6, InvitedAreFinite
<1> QED
  BY <1>1, <1>2, <1>3, <1>4, <1>6, <1>7, InviteOn

LEMMA InviteCreateStep ==
    ASSUME DoorInv, NEW i \in Inviters, InviteCreate(i)
    PROVE  DoorType' /\ Counted'
<1>1. PICK u \in Users, e \in Emails : Inviting(i, u) /\ inviting[i].email = e
  BY DEF InviteCreate, DoorInv, DoorType, Inviting
<1>2. /\ inviting[i].pc = "create" /\ inviting[i].user = u
      /\ UNCHANGED overbooked
      /\ Cardinality(inviting[i].left) \in Nat
  BY <1>1, LeftIsFinite DEF InviteCreate, Inviting, DoorInv
<1>3. Announced(i) = Cardinality(inviting[i].left) + 1 /\ Announced(i) \in Nat
  BY <1>2 DEF Announced
<1>4. CASE invitedBy[e] # None
  <2>1. /\ inviting'[i] = NoInviting
        /\ \A j \in Inviters \ {i} : inviting'[j] = inviting[j]
        /\ UNCHANGED invitedBy
    BY <1>1, <1>4 DEF InviteCreate, DoorInv, DoorType
  <2>2. DoorType'
    BY <1>1, <1>4, NobodyIsInviting DEF InviteCreate, DoorInv, DoorType, NoInviting
  <2>3. Announced(i)' \in Nat
    <3>1. inviting'[i].left = {} /\ inviting'[i].pc = "none"
      BY <2>1 DEF NoInviting
    <3>2. Cardinality({}) = 0
      BY FS_EmptySet
    <3>3. Announced(i)' = 0
      BY <3>1, <3>2 DEF Announced
    <3> QED
      BY <3>3
  <2>4. inviting'[i].pc = "none"
    BY <2>1 DEF NoInviting
  <2>5. \A v : InvitedBy(v)' = InvitedBy(v)
    BY <2>1 DEF InvitedBy
  <2>6. Counted'
    BY <1>1, <1>2, <1>3, <2>1, <2>3, <2>4, <2>5, InviteOn
  <2> QED
    BY <2>2, <2>6
<1>5. CASE invitedBy[e] = None
  <2>1. /\ inviting'[i].pc = "next" /\ inviting'[i].user = u
        /\ inviting'[i].left = inviting[i].left
        /\ \A j \in Inviters \ {i} : inviting'[j] = inviting[j]
        /\ invitedBy' = [invitedBy EXCEPT ![e] = u]
    BY <1>1, <1>2, <1>5 DEF InviteCreate, DoorInv, DoorType
  <2>2. DoorType'
    <3>1. ticketed' \in SUBSET Emails
      BY <1>1, <1>5 DEF InviteCreate, DoorInv, DoorType
    <3>2. inviting' = [inviting EXCEPT ![i].pc = "next", ![i].email = None]
      BY <1>1, <1>5 DEF InviteCreate
    <3> QED
      BY <1>1, <1>2, <2>1, <3>1, <3>2 DEF InviteCreate, DoorInv, DoorType
  <2>3. u # None /\ e \notin InvitedBy(u)
    BY <1>5, NoneIsNobody DEF InvitedBy
  <2>4. InvitedBy(u)' = InvitedBy(u) \cup {e}
    BY <2>1 DEF InvitedBy, DoorInv, DoorType
  <2>5. Cardinality(InvitedBy(u)') = Cardinality(InvitedBy(u)) + 1
    BY <2>3, <2>4, InvitedAreFinite, FS_AddElement
  <2>6. \A v \in Users \ {u} : InvitedBy(v)' = InvitedBy(v)
    BY <1>5, <2>1, NoneIsNobody DEF InvitedBy, DoorInv, DoorType
  <2>7. Announced(i)' = Cardinality(inviting[i].left) /\ Announced(i)' \in Nat
    BY <1>2, <2>1 DEF Announced
  <2>8. Cardinality(InvitedBy(u)') + Announced(i)' <= Cardinality(InvitedBy(u)) + Announced(i)
    BY <1>2, <1>3, <2>5, <2>7, InvitedAreFinite
  <2>9. Counted'
    BY <1>1, <1>2, <1>3, <2>1, <2>6, <2>7, <2>8, InviteOn
  <2> QED
    BY <2>2, <2>9
<1> QED
  BY <1>4, <1>5

LEMMA InviteDoneStep ==
    ASSUME DoorInv, NEW i \in Inviters, InviteDone(i)
    PROVE  DoorType' /\ Counted'
<1>1. /\ inviting'[i].pc = "none"
      /\ \A j \in Inviters \ {i} : inviting'[j] = inviting[j]
      /\ UNCHANGED <<overbooked, invitedBy>>
  BY DEF InviteDone, DoorInv, DoorType, NoInviting
<1>2. DoorType'
  BY NobodyIsInviting DEF InviteDone, DoorInv, DoorType, NoInviting
<1>3. \A v : InvitedBy(v)' = InvitedBy(v)
  BY <1>1 DEF InvitedBy
<1>4. \A j \in Inviters, v \in Users :
         Inviting(j, v)' => Inviting(j, v) /\ Announced(j)' = Announced(j)
  BY <1>1 DEF Inviting, Announced
<1>5. Counted'
  BY <1>1, <1>3, <1>4 DEF DoorInv, Counted
<1> QED
  BY <1>2, <1>5

-----------------------------------------------------------------------------

LEMMA DoorStep == DoorInv /\ [EntranceNext]_<<vars, door>> => DoorInv'
<1> SUFFICES ASSUME DoorInv, [EntranceNext]_<<vars, door>> PROVE DoorInv'
  OBVIOUS
<1>1. SlotInv' /\ PassesLast
  <2>1. [Next]_vars
    BY EntranceStepsNext
  <2> QED
    BY <2>1, GraduationStep DEF DoorInv
<1>2. ASSUME UNCHANGED vars, UNCHANGED <<scan, attendance, raced>>, DoorType' /\ Counted'
      PROVE  DoorInv'
  BY <1>1, <1>2, GatesRest DEF DoorInv
<1>3. ASSUME UNCHANGED vars, NEW u \in Users, Confirm(u) \/ Cancel(u) PROVE DoorInv'
  <2>1. DoorType'
    BY <1>3 DEF Confirm, Cancel, DoorInv, DoorType
  <2>2. Counted'
    BY <1>3 DEF Confirm, Cancel, DoorInv, Counted, Inviting, Announced, InvitedBy
  <2> QED
    BY <1>2, <1>3, <2>1, <2>2 DEF Confirm, Cancel
<1>4. ASSUME UNCHANGED vars, NEW i \in Inviters, NEW u \in Users, NEW E \in SUBSET Emails,
             InviteCheck(i, u, E)
      PROVE  DoorInv'
  BY <1>2, <1>4, InviteCheckStep DEF InviteCheck
<1>5. ASSUME UNCHANGED vars, NEW i \in Inviters, NEW e \in Emails, InviteFind(i, e)
      PROVE  DoorInv'
  BY <1>2, <1>5, InviteFindStep DEF InviteFind
<1>6. ASSUME UNCHANGED vars, NEW i \in Inviters, InviteCreate(i) PROVE DoorInv'
  BY <1>2, <1>6, InviteCreateStep DEF InviteCreate
<1>7. ASSUME UNCHANGED vars, NEW i \in Inviters, InviteDone(i) PROVE DoorInv'
  BY <1>2, <1>7, InviteDoneStep DEF InviteDone
<1>8. ASSUME UNCHANGED vars, NEW o \in Gates, NEW k \in Keys, ScanCheck(o, k) PROVE DoorInv'
  BY <1>1, <1>8, ScanCheckStep DEF DoorInv
<1>9. ASSUME UNCHANGED vars, NEW o \in Gates, ScanAdmit(o) PROVE DoorInv'
  BY <1>1, <1>9, ScanAdmitStep DEF DoorInv
<1>10. CASE UNCHANGED door
  BY <1>1, <1>10, ClaimsPass DEF DoorInv
<1>11. CASE RestartAll
  BY <1>1, <1>11, RestartPass DEF DoorInv
<1> QED
  BY <1>3, <1>4, <1>5, <1>6, <1>7, <1>8, <1>9, <1>10, <1>11 DEF EntranceNext, AtTheDoor

\* Attendees, invitations, calls and rows of the entrance stay well formed for any
\* number of gates, rows, claims and restarts.
THEOREM EntranceTypeCorrect == EntranceSpec => []EntranceTypeOK
<1>1. DoorInv => EntranceTypeOK
  BY DEF DoorInv, SlotInv, ClaimInv, TypeInv, DoorType, EntranceTypeOK
<1> QED
  BY DoorInit, DoorStep, <1>1, PTL DEF EntranceSpec

\* A ticket that only one gate had in hand at a time gives one attendance row
\* (checkIn, manualCheckIn), for any number of gates and tickets.
THEOREM AdmissionCorrect == EntranceSpec => []AdmittedOnce
<1>1. DoorInv => AdmittedOnce
  BY DEF DoorInv, AtMostOneGate, AdmittedOnce
<1> QED
  BY DoorInit, DoorStep, <1>1, PTL DEF EntranceSpec

\* A user whose calls of inviteGuests did not overlap brings no more guests
\* than the event allows.
THEOREM GuestsCorrect == EntranceSpec => []GuestsWithinLimit
<1>1. DoorInv => GuestsWithinLimit
  BY DEF DoorInv, Counted, GuestsWithinLimit
<1> QED
  BY DoorInit, DoorStep, <1>1, PTL DEF EntranceSpec

\* Parents get in with passes of a claim that succeeded, and no more of them
\* than the graduate has slots (submitClaim, checkIn).
THEOREM ParentsCorrect == EntranceSpec => []ParentsAdmittedWithinSlots
<1>1. DoorInv => ParentsAdmittedWithinSlots
  <2> SUFFICES ASSUME DoorInv, NEW g \in Graduates \ overlapped,
                      NEW parents \in SUBSET Passes, parents # {},
                      \A p \in parents : attendance[<<p, None>>] > 0 /\ pass[p].record = g
               PROVE  /\ \A p \in parents : pass[p].state = "stored"
                      /\ Cardinality(parents) <= slots[g]
    BY DEF ParentsAdmittedWithinSlots
  <2>1. parents \subseteq Stored(g)
    BY DEF DoorInv, ParentsHoldPasses, Stored
  <2>2. Cardinality(Stored(g)) <= slots[g]
    BY <2>1 DEF DoorInv, SlotInv, PassesWithinSlots
  <2>3. slots[g] \in Nat
    BY <2>1, BoundsAreNat DEF DoorInv, SlotInv, Granted, ClaimInv, ClaimedIffPassesStored
  <2>4. IsFiniteSet(Stored(g))
    <3>1. Stored(g) \in SUBSET Passes
      BY DEF Stored
    <3> QED
      BY <3>1, PassesAreFinite, FS_Subset
  <2>5. /\ Cardinality(parents) <= Cardinality(Stored(g))
        /\ Cardinality(parents) \in Nat /\ Cardinality(Stored(g)) \in Nat
    BY <2>1, <2>4, FS_Subset, FS_CardinalityType
  <2> QED
    BY <2>1, <2>2, <2>3, <2>5 DEF Stored
<1> QED
  BY DoorInit, DoorStep, <1>1, PTL DEF EntranceSpec
=============================================================================
