SPECIFICATION Spec
CONSTANTS
    receipt = receipt
    sale = sale
    restored = restored
    taken = taken
    Quanta = 1
    Branches = {b1}
    Variants = {v1}
    Keys = {k1}
    CountKeys = {x1}
    Sources = {receipt}
    SourceType <- MCSourceType
    Counts = {c1}
    Managers = {owner}
    Staff = {}
    Assigned <- MCAssigned
    MaxQuantity = 3
    MaxCost = 3
SYMMETRY Interchangeable
CHECK_DEADLOCK FALSE
INVARIANTS
    ReviewedCountCanReconcile
