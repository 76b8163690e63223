\* One request at a time, every event in its turn: two sessions are paid, and the
\* end of one subscription takes PRO from the user who pays for the other.
CONSTANTS
    c1 = c1
    w1 = w1
    k1 = k1
    k2 = k2
    s1 = s1
    s2 = s2
    Callers = {c1}
    Hooks = {w1}
    Customers = {k1, k2}
    Subscriptions = {s1, s2}
    Ops = {"checkout", "cancel"}
    AdminTiers = {}
    MaxEvents = 6
SPECIFICATION OrderlySpec
INVARIANT BilledIsPro
\* Once Stripe has sent MaxEvents events, all answered, and no session is left, there is nothing to do.
CHECK_DEADLOCK FALSE
