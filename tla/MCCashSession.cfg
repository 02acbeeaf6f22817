SPECIFICATION Spec
CONSTANTS
    b1 = b1
    b2 = b2
    payment = payment
    refund = refund
    owner = owner
    cashier = cashier
    Branches = {b1, b2}
    Sessions = {s1, s2}
    Keys = {k1, k2, k3, k4, k5}
    Sources = {payment, refund}
    SourceType <- MCSourceType
    Managers = {owner}
    Cashiers = {cashier}
    Assigned <- MCAssigned
    MaxMoney = 1
    MaxDay = 2
SYMMETRY Interchangeable
CHECK_DEADLOCK FALSE
INVARIANTS
    TypeOK
    OpenSessionIsLatest
    ExpectedNeverNegative
    ClosureHistorySound
    KeyAnswersOnce
    SourceRecordedOnce
PROPERTIES
    ClosedLedgerFrozen
    DrawerSpec
