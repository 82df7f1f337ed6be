\* Guests only; two transactions overlap, three guests compete for one seat.
SPECIFICATION GuestSpec
CONSTANTS
    Users = {u1, u2, u3}
    RegIds = {r1, r2, r3, r4}
    EntryIds = {e1, e2, e3}
    Requests = {q1, q2}
    Approvals = {a1}
    Capacity = 1
    RequiresApproval = FALSE
    None = None
SYMMETRY Symmetry
CHECK_DEADLOCK FALSE
INVARIANT CapacityRespected
INVARIANT OneStandingPerGuest
INVARIANT NoIdleSeatWhileGuestsWait
PROPERTY ImplementsSeatBook
