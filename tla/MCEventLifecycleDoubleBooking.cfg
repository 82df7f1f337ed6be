SPECIFICATION Spec
CONSTANTS
    e1 = e1
    e2 = e2
    v1 = v1
    c1 = c1
    None = None
    Events = {e1, e2}
    Venues = {v1}
    Callers = {c1}
    Crons = {}
    MaxTime = 3
    MaxFaults = 0
    Plans <- OverlappingPlans
CHECK_DEADLOCK FALSE
INVARIANT NoDoubleBooking
