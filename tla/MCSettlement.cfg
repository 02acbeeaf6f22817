SPECIFICATION Spec
CONSTANTS
    Quanta = 1
    Variants = {v1}
    Purchases = {p1}
    Returns = {r1, r2}
    ReceiptKeys = {g1, g2}
    ReturnKeys = {x1, x2}
    SettlementKeys = {k1, k2, k3}
    Managers = {owner}
    Staff = {clerk}
    MaxQuantity = 2
    MaxCost = 2
    MaxTaken = 1
    References = {t1}
    MoneyQuanta = 2
    MaxFloat = 1
    MaxSession = 2
SYMMETRY Interchangeable
CHECK_DEADLOCK FALSE
INVARIANTS
    TypeOK
    AgreedWithinReference
    SettledDocumentsStand
    DrawerMatchesEvidence
    KeyAnswersOnce
    StatusMatchesReceipts
    ReturnedWithinReceived
    StockMatchesDocuments
