\* One visit at a time, one owner or administrator request at a time, three ticks.
CONSTANTS
    r1 = r1
    h1 = h1
    Requests = {r1}
    Handlers = {h1}
    Drafts <- MCDrafts
    Updates <- MCUpdates
    AdminEdits <- MCAdminEdits
    Limits = {0, 1, 2}
    MaxTime = 3
    MaxServes = 1
SPECIFICATION FairSpec
PROPERTIES
    ScheduledOpens
    ExpiryEnforced
