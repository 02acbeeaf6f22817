SPECIFICATION Spec
CONSTANTS
    Documents = {d1}
    DraftSources = {invoice}
    StockSources = {sheet}
    Files = {1}
    Variants = {v1}
    MaxAttempts = 3
    Owners = {owner}
    Managers = {owner}
CHECK_DEADLOCK FALSE
INVARIANTS
    OneLiveTarget
