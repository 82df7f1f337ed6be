\* Guests and organizers: every operation, approvals outside any transaction.
SPECIFICATION Spec
CONSTANTS
    Users = {u1, u2, u3}
    RegIds = {r1, r2, r3}
    EntryIds = {e1, e2}
    Requests = {q1, q2}
    Approvals = {a1}
    Capacity = 1
    RequiresApproval = TRUE
    None = None
SYMMETRY Symmetry
CHECK_DEADLOCK FALSE
INVARIANT TypeOK
INVARIANT WaitlistIsKept
PROPERTY FirstComeFirstPromoted
