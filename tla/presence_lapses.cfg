\* One instance, one user with one socket.
CONSTANTS
    u1 = u1
    s1 = s1
    i1 = i1
    Accounts = {u1}
    AdminAccounts = {}
    Sockets = {s1}
    Instances = {i1}
    MaxStarts = 1
    MaxFailures = 1
SPECIFICATION PresenceSpec
INVARIANTS
    ConnectedIsOnline
CHECK_DEADLOCK FALSE
