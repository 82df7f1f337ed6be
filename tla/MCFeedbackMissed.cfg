SPECIFICATION Spec
CONSTANTS
    Events = {e1}
    Users = {u1, u2}
    Templates = {t1, t2}
    Dispatchers = {d1, d2}
    Visitors = {}
    MaxFaults = 0
    None = None
SYMMETRY Symmetry
CHECK_DEADLOCK FALSE
INVARIANT NobodyMissed
