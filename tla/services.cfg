\* One administrator and one user, two instances, three links, two requests at a
\* time, two consumers; the parts share nothing and are explored apart.
CONSTANTS
    u1 = u1
    ad = ad
    s1 = s1
    s2 = s2
    i1 = i1
    i2 = i2
    c1 = c1
    c2 = c2
    r1 = r1
    r2 = r2
    a1 = a1
    a2 = a2
    Accounts = {u1, ad}
    AdminAccounts = {ad}
    Sockets = {s1, s2}
    Instances = {i1, i2}
    MaxStarts = 2
    MaxFailures = 1
    Clients = {u1}
    Admin = ad
    Chats = {c1, c2}
    Requests = {r1, r2}
    MaxMessages = 3
    MaxJobs = 1
    Limit = 1
    Orders = {"asc", "desc"}
    Readers = {u1}
    Notices = {a1}
    Calls = {r1, r2}
    o1 = o1
    g1 = g1
    l1 = l1
    l2 = l2
    l3 = l3
    n1 = n1
    n2 = n2
    t1 = t1
    k1 = k1
    k2 = k2
    Owners = {o1}
    Addresses = {g1}
    Links = {l1, l2, l3}
    Names = {n1, n2}
    Tags = {t1}
    Tasks = {k1, k2}
    FreeLimit = 1
    GuestLimit = 1
    MaxAttempts = 2
    p1 = p1
    w1 = w1
    w2 = w2
    Scanned = {l1, l2}
    Urls = {p1}
    Consumers = {w1, w2}
    MaxScans = 3
    MaxStops = 1
SPECIFICATION Spec
INVARIANTS
    ServicesTypeOK
    MembersExact
    EventsRight
    OneChat
    DeletedTextKept
    WalkComplete
    ShownIsMarked
    DigestReaches
    DismissedStaysHidden
    LimitsHold
    NamesResolveAlone
    QrLeadsHere
    LinksCohere
    PendingIsUnderway
    VerdictsAdvance
PROPERTIES
    GhostsExpire
CHECK_DEADLOCK FALSE
