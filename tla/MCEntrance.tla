----------------------------- MODULE MCEntrance -----------------------------
(***************************************************************************)
(* Entrance and Graduation for TLC.  A behaviour is one of two parts: the  *)
(* door, where one claim of few passes meets gates and guests, or the      *)
(* claims, where several claims, the bot and the resend meet and the door  *)
(* is closed.                                                              *)
(***************************************************************************)
EXTENDS Entrance, Functions, TLC

CONSTANTS
    FewPasses, \* the passes of the door
    MaxRows    \* attendance rows (bound)

VARIABLE part

PartInit == EntranceInit /\ part \in {"door", "claims"}

\* The bounds of the door: few rows, one claim at a time, of a graduate with one
\* slot, few passes, no bot.
AtBounds ==
    /\ SumFunction(attendance) <= MaxRows
    /\ \A c, d \in Claims : claim[c] # NoCall /\ claim[d] # NoCall => c = d
    /\ \A g \in Graduates : slots[g] \in {1, None}
    /\ \A p \in Passes \ FewPasses : pass[p] = NoPass
    /\ \A h \in Chats : chat[h] = NoChat

PartNext ==
    \/ part = "door" /\ EntranceNext /\ AtBounds' /\ UNCHANGED part
    \/ part = "claims" /\ Next /\ UNCHANGED <<door, part>>

PartSpec == PartInit /\ [][PartNext]_<<vars, door, part>>

Symmetry ==
    Permutations(FewPasses) \cup Permutations(Passes \ FewPasses) \cup Permutations(Claims)
       \cup Permutations(Emails)
=============================================================================
