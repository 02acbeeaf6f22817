----------------------------- MODULE MCSettlement -----------------------------
(* Small branches for TLC: see the cfg files that name this module.        *)
EXTENDS SupplierSettlement

Interchangeable ==
    Permutations(Purchases) \cup Permutations(Returns) \cup Permutations(ReceiptKeys)
        \cup Permutations(ReturnKeys) \cup Permutations(SettlementKeys)
InterchangeableGoods == Interchangeable \cup Permutations(Variants)

=============================================================================
