\* Two visits at a time, one owner or administrator request at a time.
CONSTANTS
    r1 = r1
    r2 = r2
    h1 = h1
    Requests = {r1, r2}
    Handlers = {h1}
    Drafts <- MCDrafts
    Updates <- MCUpdates
    AdminEdits <- MCAdminEdits
    Limits = {0, 1, 2}
    MaxTime = 2
    MaxServes = 3
SPECIFICATION Spec
INVARIANTS
    TypeOK
    ClosedDrains
    LimitOverrunBounded
    ClicksConserved
PROPERTIES
    ImplementsGate
    ReopenedByHand
SYMMETRY Symmetric
