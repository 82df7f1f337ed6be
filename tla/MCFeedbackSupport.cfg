SPECIFICATION PartSpec
CONSTANTS
    Events = {e1}
    Users = {u1, u2}
    Templates = {t1, t2}
    Dispatchers = {d1, d2}
    Visitors = {v1, v2}
    MaxFaults = 1
    None = None
    MaxLosses = 1
SYMMETRY PartSymmetry
CHECK_DEADLOCK FALSE
INVARIANT OneResponsePerLink
INVARIANT NoPlaceholderStays
INVARIANT ConversationIsShown
PROPERTY SettledStaysSettled
