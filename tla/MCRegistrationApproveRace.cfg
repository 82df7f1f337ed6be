\* Two approvals in flight at once.
SPECIFICATION Spec
CONSTANTS
    Users = {u1, u2, u3}
    RegIds = {r1, r2, r3, r4}
    EntryIds = {e1, e2}
    Requests = {q1}
    Approvals = {a1, a2}
    Capacity = 1
    RequiresApproval = TRUE
    None = None
SYMMETRY Symmetry
CHECK_DEADLOCK FALSE
INVARIANT CapacityRespected
