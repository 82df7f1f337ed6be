\* Gates, inviteGuests calls and claims share their names, and so do
\* addresses and chats: a permutation of one is a permutation of all.
SPECIFICATION PartSpec
CONSTANTS
    Graduates = {g1}
    Passes = {p1, p2, p3}
    FewPasses = {p1, p2}
    Claims = {c1, c2}
    Chats = {e1, e2}
    Slots = {1, 2}
    MaxFaults = 1
    None = None
    Users = {u1}
    Emails = {e1, e2}
    Sessions = {}
    Gates = {c1, c2}
    Inviters = {c1, c2}
    GuestLimit = 1
    MaxRows = 2
SYMMETRY Symmetry
CHECK_DEADLOCK FALSE
INVARIANT EntranceTypeOK
INVARIANT AdmittedOnce
INVARIANT GuestsWithinLimit
INVARIANT ParentsAdmittedWithinSlots
INVARIANT PassesWithinSlots
INVARIANT ClaimedIffPassesStored
INVARIANT DeliveriesAreTrue
