----------------------------- MODULE MCFeedback -----------------------------
(* Instances of Feedback for TLC.                                          *)
EXTENDS Feedback, TLC

Symmetry ==
    Permutations(Events) \cup Permutations(Users) \cup Permutations(Templates)
       \cup Permutations(Dispatchers) \cup Permutations(Visitors)
=============================================================================
