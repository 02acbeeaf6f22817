SPECIFICATION Spec
CONSTANTS
    receipt = receipt
    sale = sale
    restored = restored
    taken = taken
    Quanta = 2
    Branches = {b1}
    Variants = {v1}
    Keys = {k1}
    CountKeys = {}
    Sources = {receipt, sale, restored, taken}
    SourceType <- MCSourceType
    Counts = {}
    Managers = {owner}
    Staff = {}
    Assigned <- MCAssigned
    MaxQuantity = 3
    MaxCost = 2
CHECK_DEADLOCK FALSE
INVARIANTS
    BalanceMatchesLedger
    NoStockNoValue
    ValueDriftBounded
