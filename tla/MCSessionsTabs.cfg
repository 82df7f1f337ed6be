SPECIFICATION Spec
CONSTANTS
    Users = {u1}
    Sessions = {s1, s2}
    Tabs = {b1, b2}
    Links = {k1}
    Resetters = {r1}
    MaxToken = 2
    MaxLosses = 1
    None = None
SYMMETRY Symmetry
CHECK_DEADLOCK FALSE
INVARIANT ResetEndsOlderSessions
INVARIANT TokensAreBackedByAHash
INVARIANT KickedOnlyIfDisturbed
