--------------------------- MODULE MCCashSession ---------------------------
(* A small business for TLC: see MCCashSession.cfg.                        *)
EXTENDS CashDrawerRefinement, TLC

CONSTANTS b1, b2, payment, refund, owner, cashier

MCSourceType == payment :> "CASH_SALE" @@ refund :> "CASH_REFUND"
MCAssigned == [c \in Cashiers |-> {b1}]

Interchangeable == Permutations(Sessions) \cup Permutations(Keys)

=============================================================================
