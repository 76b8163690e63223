\* One instance, one user with one socket: no call of the connection fails, the instance stops.
CONSTANTS
    u1 = u1
    s1 = s1
    i1 = i1
    Accounts = {u1}
    AdminAccounts = {}
    Sockets = {s1}
    Instances = {i1}
    MaxStarts = 1
    MaxFailures = 0
SPECIFICATION PresenceSpec
INVARIANTS
    KeysHaveTtl
CHECK_DEADLOCK FALSE
