\* What the code does to one promise of its documentation.
CONSTANTS
    r1 = r1
    h1 = h1
    Requests = {r1}
    Handlers = {h1}
    Drafts <- MCDrafts
    Updates <- MCUpdates
    AdminEdits <- MCAdminEdits
    Limits = {0, 1, 2}
    MaxTime = 2
    MaxServes = 4
SPECIFICATION Spec
INVARIANT BlockHolds
