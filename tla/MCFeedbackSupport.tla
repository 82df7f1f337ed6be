------------------------- MODULE MCFeedbackSupport -------------------------
(***************************************************************************)
(* Feedback and support tickets for TLC: a behaviour is one of the two.    *)
(* Visitors of feedback links and replies to a ticket share their names,   *)
(* so that a permutation of one is a permutation of the other.             *)
(***************************************************************************)
EXTENDS MCFeedback

CONSTANT MaxLosses

ASSUME LossesAreNat == MaxLosses \in Nat

VARIABLES part, status, owner, reply, view, unseen, late, losses

ticket == <<status, owner, reply, view, unseen, late, losses>>

S == INSTANCE Support WITH Replies <- Visitors, missed <- unseen

\* Fewer permutations than there are: all of them would save fewer states than
\* they cost time.
PartSymmetry == Permutations(Users) \cup Permutations(Visitors)

PartInit == Init /\ S!Init /\ part \in {"feedback", "support"}

PartNext ==
    /\ UNCHANGED part
    /\ \/ part = "feedback" /\ Next /\ UNCHANGED ticket
       \/ part = "support" /\ S!Next /\ UNCHANGED vars

PartSpec == PartInit /\ [][PartNext]_<<vars, ticket, part>>

-----------------------------------------------------------------------------
(* See Support.                                                            *)

SettledStaysSettled == [][(part = "support") => S!StaysSettled]_<<ticket, part>>
ConversationIsShown == part = "support" => S!ConversationIsShown
=============================================================================
