SPECIFICATION Spec
CONSTANTS
    Chats = {t1, t2}
    Cards = {m1}
    MaxDeaths = 1
    Profiles = {p1}
    Indexed = {}
    Items = {x1}
    Cases = {lower, upper}
    PlainCase = lower
    Users = {u1}
    Keys = {k1, k2}
    Names = {a1, a2}
    Calls = {c1, c2}
    MaxRequests = 3
    MaxRuns = 3
    Times = {2, 9}
    DayLength = 2
    WeekLength = 2
    Presets = {1, 2}
    MostDays = 2
    MaxChanges = 3
    Members = {n1, n2}
    Gatherings = {e1, e2}
    Creator <- ByTwo
    CoOrganizers <- AllOfOne
    Admins <- ButOne
    CategoryOf <- CategoriesOfOne
    DepartmentOf <- DepartmentPerMember
    None = None
CHECK_DEADLOCK FALSE
SYMMETRY Symmetry
INVARIANT TypesOK
INVARIANT LinksVerify
INVARIANT AccessIsAsGiven
INVARIANT CatalogueIsConsistent
INVARIANT FiguresAreCurrent
PROPERTY ChatsAreKept
