SPECIFICATION FairSpec
CONSTANTS
    Drafts = {d1}
    Prices = {1, 2}
    MaxAge = 0
    MaxToday = 1
    MaxCalls = 2
    MaxChanges = 2
CHECK_DEADLOCK FALSE
INVARIANTS
    SalesMatchEvidence
PROPERTIES
    DeliverySpec
    PendingIsSettled
