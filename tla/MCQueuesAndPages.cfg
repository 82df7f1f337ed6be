SPECIFICATION Spec
CONSTANTS
    Users = {u1}
    Jobs = {j1, j2}
    MaxFailures = 3
    Artifacts = {a1, a2}
    Model = a1
    MaxTrainings = 2
    MaxBreaks = 1
    MaxVisits = 2
    MaxPages = 2
    MaxSends = 1
    Items = {i1, i2}
    Codes = {c1, c2}
    MaxClicks = 4
    MaxScans = 4
    None = None
CHECK_DEADLOCK FALSE
INVARIANT StoredOncePerAttempt
INVARIANT AnswersAreCurrent
INVARIANT PagesAreCurrent
INVARIANT ClientIsSteady
PROPERTY QueuesDrain
