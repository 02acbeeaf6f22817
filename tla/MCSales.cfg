SPECIFICATION Spec
CONSTANTS
    Quanta = 2
    Variants = {v1}
    Sales = {s1, s2}
    Returns = {r1, r2}
    SaleKeys = {k1, k2}
    ReturnKeys = {x1, x2, x3}
    References = {t1}
    Managers = {owner}
    Cashiers = {cashier}
    Restocked <- OneDelivery
    MaxPrice = 2
    MaxQuantity = 2
    MaxFloat = 0
    MaxReceipts = 1
SYMMETRY Interchangeable
CHECK_DEADLOCK FALSE
INVARIANTS
    TypeOK
    ReturnsWithinSale
    RefundsNearSale
    StockMatchesDocuments
    KeyAnswersOnce
