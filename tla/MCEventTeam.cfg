\* The events: two in one venue, one request at a time.  The team: two
\* handlers, the creator and a member.
SPECIFICATION PartSpec
CONSTANTS
    e1 = e1
    e2 = e2
    v1 = v1
    c1 = c1
    None = None
    Events = {e1, e2}
    Venues = {v1}
    Callers = {c1}
    Crons = {}
    MaxTime = 3
    MaxFaults = 0
    Plans <- OverlappingPlans
    Members = {u0, u1}
    Creator = u0
    OrgIds = {o1}
    InviteIds = {k1, k2}
    Strangers = {}
    Posts = {post1}
    Calls = {d1, d2}
SYMMETRY PartSymmetry
CHECK_DEADLOCK FALSE
PROPERTY TransitionsAllowed
PROPERTY EditsOnlyBeforeApproval
PROPERTY NeverMovesIntoABookedSlot
PROPERTY TeamIsKept
