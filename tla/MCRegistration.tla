--------------------------- MODULE MCRegistration ---------------------------
(***************************************************************************)
(* Instances of Registration for TLC.  Users, row ids, requests and        *)
(* approvals are interchangeable: no action names one of them.             *)
(***************************************************************************)
EXTENDS Registration, TLC

Symmetry ==
    Permutations(Users) \cup Permutations(RegIds) \cup Permutations(EntryIds)
       \cup Permutations(Requests) \cup Permutations(Approvals)

=============================================================================
