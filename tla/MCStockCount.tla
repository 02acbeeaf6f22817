---------------------------- MODULE MCStockCount ----------------------------
(* Small businesses for TLC: see the MCStockCount...cfg files.             *)
EXTENDS StockCount, TLC

CONSTANTS receipt, sale, restored, taken

Purposes ==
    receipt :> "PURCHASE_RECEIPT" @@ sale :> "SALE" @@
    restored :> "SALE_RETURN" @@ taken :> "SALE_RETURN_REVERSAL"
MCSourceType == [s \in Sources |-> Purposes[s]]
MCAssigned == [s \in Staff |-> {CHOOSE b \in Branches : TRUE}]

Interchangeable == Permutations(Counts) \cup Permutations(CountKeys)
InterchangeableGoods == Interchangeable \cup Permutations(Variants)

=============================================================================
