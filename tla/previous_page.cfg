\* One client, three messages, pages of one row.
CONSTANTS
    u1 = u1
    ad = ad
    c1 = c1
    r1 = r1
    Clients = {u1}
    Admin = ad
    Chats = {c1}
    Requests = {r1}
    MaxMessages = 3
    MaxJobs = 2
    Limit = 1
    Orders = {"asc", "desc"}
SPECIFICATION ChatSpec
INVARIANTS
    PageBeforePrecedes
CHECK_DEADLOCK FALSE
