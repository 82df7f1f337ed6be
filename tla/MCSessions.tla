----------------------------- MODULE MCSessions -----------------------------
(* Instances of Sessions for TLC.                                          *)
EXTENDS Sessions, TLC

Symmetry ==
    Permutations(Users) \cup Permutations(Sessions) \cup Permutations(Tabs)
       \cup Permutations(Links) \cup Permutations(Resetters)
=============================================================================
