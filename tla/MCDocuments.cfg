SPECIFICATION FairSpec
CONSTANTS
    Documents = {d1}
    DraftSources = {invoice}
    StockSources = {sheet}
    Files = {1, 2}
    Variants = {v1, v2}
    MaxAttempts = 2
    Owners = {owner}
    Managers = {owner}
CHECK_DEADLOCK FALSE
INVARIANTS
    AvailableIsWhole
    ConfirmedSourceIsKept
PROPERTIES
    BytesGo
