------------------------------- MODULE MCSales -------------------------------
(* Small branches for TLC: see MCSales.cfg.                                 *)
EXTENDS Sales, TLC

OneDelivery == {[quantity |-> Quanta, cost |-> 1]}

Interchangeable ==
    Permutations(Sales) \cup Permutations(Returns) \cup Permutations(SaleKeys)
        \cup Permutations(ReturnKeys)

=============================================================================
