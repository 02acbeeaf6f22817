----------------------------- MODULE NewestDrawer -----------------------------
(***************************************************************************)
(* What the other apps see of the cash sessions of one branch: the newest. *)
(* Cash is in it while it is open, it may be closed and reopened, and once *)
(* a later one is opened the sessions before it are never heard of again.  *)
(* CashSession keeps this promise for every branch, and SupplierSettlement *)
(* moves cash by it.                                                       *)
(***************************************************************************)
EXTENDS Naturals

VARIABLES
    newest,    \* a number that tells the newest session, 0 before the first
    open,
    expected   \* the cash it should hold

vars == <<newest, open, expected>>

Init == newest = 0 /\ open = FALSE /\ expected = 0

Open ==
    /\ ~open
    /\ newest' \in Nat /\ newest' > newest
    /\ open' = TRUE
    /\ expected' \in Nat

Move ==
    /\ open
    /\ expected' \in Nat
    /\ UNCHANGED <<newest, open>>

Close ==
    /\ open
    /\ open' = FALSE
    /\ UNCHANGED <<newest, expected>>

Reopen ==
    /\ ~open
    /\ newest > 0
    /\ open' = TRUE
    /\ UNCHANGED <<newest, expected>>

Next == Open \/ Move \/ Close \/ Reopen
Spec == Init /\ [][Next]_vars

=============================================================================
