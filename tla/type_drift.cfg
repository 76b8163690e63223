\* Two webhooks at one time write the two tables in opposite orders.
CONSTANTS
    c1 = c1
    w1 = w1
    w2 = w2
    k1 = k1
    s1 = s1
    Callers = {c1}
    Hooks = {w1, w2}
    Customers = {k1}
    Subscriptions = {s1}
    Ops = {"checkout", "cancel"}
    AdminTiers = {}
    MaxEvents = 4
SPECIFICATION Spec
INVARIANT UserTypeInSync
\* Once Stripe has sent MaxEvents events, all answered, and no session is left, there is nothing to do.
CHECK_DEADLOCK FALSE
