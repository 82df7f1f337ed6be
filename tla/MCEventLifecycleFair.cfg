SPECIFICATION FairSpec
CONSTANTS
    e1 = e1
    v1 = v1
    c1 = c1
    c2 = c2
    k1 = k1
    None = None
    Events = {e1}
    Venues = {v1}
    Callers = {c1, c2}
    Crons = {k1}
    MaxTime = 2
    MaxFaults = 1
    Plans <- FewPlans
CHECK_DEADLOCK FALSE
INVARIANT TypeOK
INVARIANT NoStepSkipped
PROPERTY EventsMoveOn
PROPERTY FollowUpsHappen
