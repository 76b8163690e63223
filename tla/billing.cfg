\* Two requests, two webhooks, two checkouts and three customers, those a part
\* uses; two logins and two mails of one user.
CONSTANTS
    c1 = c1
    c2 = c2
    w1 = w1
    w2 = w2
    k1 = k1
    k2 = k2
    k3 = k3
    s1 = s1
    s2 = s2
    Callers = {c1, c2}
    Hooks = {w1, w2}
    Customers = {k1, k2, k3}
    Subscriptions = {s1, s2}
    Ops = {"me", "checkout", "cancel", "delete"}
    AdminTiers = {"PRO", "FREE"}
    MaxEvents = 6
    u1 = u1
    l1 = l1
    l2 = l2
    m1 = m1
    m2 = m2
    Persons = {u1}
    Logins = {l1, l2}
    Senders = {m1, m2}
    MaxMails = 2
    MaxCreations = 2
SPECIFICATION AccountsSpec
INVARIANTS
    AccountsTypeOK
    WelcomedPerAccount
    OptOutRespected
    TierFollowsStripe
    TypesAgree
    BilledCanCancel
    WelcomedOnce
    CustomersBounded
SYMMETRY Symmetric
\* A deleted user whose events are answered makes no further step.
CHECK_DEADLOCK FALSE
