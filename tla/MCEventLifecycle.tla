-------------------------- MODULE MCEventLifecycle --------------------------
(* Instances of EventLifecycle for TLC.                                    *)
EXTENDS EventLifecycle, TLC

\* Events and callers are interchangeable in the safety runs.
Symmetry == Permutations(Events) \cup Permutations(Callers)

Plan(v, s, t) == [venue |-> v, start |-> s, end |-> t]

\* One plan, and two edits that move its start behind its end or its end
\* before its start.
FewPlans ==
    {Plan(v, 1, 2) : v \in Venues} \cup {Plan(None, 2, None), Plan(None, None, 1)}

\* Plans that overlap and plans that touch, whole and in part.
OverlappingPlans ==
    {Plan(v, s, t) : v \in Venues, s \in {1, 2}, t \in {2, 3}}
       \cup {Plan(None, 2, None), Plan(None, None, 3)}
=============================================================================
