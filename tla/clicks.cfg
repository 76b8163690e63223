\* Three visits at a time of two visitors, four visits in all; reports on
\* two links with two clicks; a link near its end, and two users.
CONSTANTS
    r1 = r1
    r2 = r2
    r3 = r3
    v1 = v1
    v2 = v2
    Requests = {r1, r2, r3}
    Visitors = {v1, v2}
    MaxVisits = 4
    x1 = x1
    x2 = x2
    p1 = p1
    p2 = p2
    g1 = g1
    ph = ph
    Viewers = {x1, x2}
    Posts = {p1, p2}
    Guests = {g1}
    Countries = {ph}
    LastDay = 2
    Months <- OneDayMonths
    MaxRows = 2
    TopLinks = 1
    TopCountries = 1
    FreeDays = 0
    ProDays = 1
    PageRows = 1
    h1 = h1
    h2 = h2
    i1 = i1
    Holders = {h1, h2}
    Items = {i1}
    WarnFrom = 83
    WarnTo = 89
    KeepLeast = 89
    KeepMost = 92
    NoticeDays = 3
    MaxMisses = 2
SPECIFICATION RecordsSpec
INVARIANTS
    RecordsTypeOK
    ReportCoheres
    GoneWereWarned
    ReportedOnce
    StatisticsAgree
    NobodyMissed
    UniqueUnlessOverlapped
    DuplicatesBounded
SYMMETRY Symmetric
