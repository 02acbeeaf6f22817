SPECIFICATION Spec
CONSTANTS
    receipt = receipt
    sale = sale
    restored = restored
    taken = taken
    Quanta = 1
    Branches = {b1}
    Variants = {v1,v2}
    Keys = {k1}
    CountKeys = {x1, x2, x3}
    Sources = {}
    SourceType <- MCSourceType
    Counts = {c1, c2}
    Managers = {owner}
    Staff = {clerk}
    Assigned <- MCAssigned
    MaxQuantity = 1
    MaxCost = 1
SYMMETRY InterchangeableGoods
CHECK_DEADLOCK FALSE
INVARIANTS
    TypeOK
    FreezeSound
    ReviewMatchesCount
    ReversalCancelsCount
    KeyAnswersOnce
PROPERTIES
    ApprovalMakesStockPhysical
