------------------------------ MODULE SeatBook ------------------------------
(***************************************************************************)
(* What the registration service promises guests of an event that needs no *)
(* approval, with nothing said of rows, transactions or conflicts: every   *)
(* request takes effect at one instant; a guest sits, waits or is out; a   *)
(* guest who joins while the seats are taken waits behind all who wait     *)
(* already; a seat that is given up goes to the guest who has nobody       *)
(* ahead.                                                                  *)
(***************************************************************************)
EXTENDS Naturals, FiniteSets

CONSTANTS
    Users,   \* guests
    Capacity \* seats

VARIABLES
    seated,  \* guests who hold a seat
    waiting, \* guests on the waitlist
    ahead    \* pairs <<u, v>> of waiting guests, u before v

bookVars == <<seated, waiting, ahead>>

Init ==
    /\ seated = {}
    /\ waiting = {}
    /\ ahead = {}

Sit(u) ==
    /\ u \notin seated \cup waiting
    /\ Cardinality(seated) < Capacity
    /\ seated' = seated \cup {u}
    /\ UNCHANGED <<waiting, ahead>>

Wait(u) ==
    /\ u \notin seated \cup waiting
    /\ Cardinality(seated) >= Capacity
    /\ waiting' = waiting \cup {u}
    /\ ahead' = ahead \cup (waiting \X {u})
    /\ UNCHANGED seated

Leave(u) ==
    /\ u \in seated
    /\ waiting = {}
    /\ seated' = seated \ {u}
    /\ UNCHANGED <<waiting, ahead>>

\* u's seat goes to v, whom nobody precedes.
PassOn(u, v) ==
    /\ u \in seated
    /\ v \in waiting
    /\ \A w \in waiting : <<w, v>> \notin ahead
    /\ seated' = (seated \ {u}) \cup {v}
    /\ waiting' = waiting \ {v}
    /\ ahead' = ahead \ ({v} \X waiting)

Next ==
    \/ \E u \in Users : Sit(u) \/ Wait(u) \/ Leave(u)
    \/ \E u, v \in Users : PassOn(u, v)

Spec == Init /\ [][Next]_bookVars
=============================================================================
