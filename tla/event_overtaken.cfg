\* One webhook at a time, events in any order: what is sent again after the end of
\* the subscription gives PRO back.
CONSTANTS
    c1 = c1
    w1 = w1
    k1 = k1
    s1 = s1
    Callers = {c1}
    Hooks = {w1}
    Customers = {k1}
    Subscriptions = {s1}
    Ops = {"checkout", "cancel"}
    AdminTiers = {}
    MaxEvents = 4
SPECIFICATION Spec
INVARIANT EndedIsFree
\* Once Stripe has sent MaxEvents events, all answered, and no session is left, there is nothing to do.
CHECK_DEADLOCK FALSE
