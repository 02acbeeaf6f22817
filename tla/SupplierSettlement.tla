------------------------- MODULE SupplierSettlement -------------------------
(***************************************************************************)
(* Payments to suppliers and what suppliers accept for returned goods: the *)
(* supplier half of src/apps/expenses/services.py, over the purchases and  *)
(* returns of Purchasing and the cash session of the branch.  Every        *)
(* service locks the purchase row before it derives the totals it decides  *)
(* on, so that a call is one action.                                       *)
(*                                                                         *)
(* A payment or settlement is named by its idempotency key: a posting key  *)
(* is the key of one record, and is lost when the record is not written.   *)
(* Money counts 0.01 ETB, which is MoneyQuanta quanta of a stock value.    *)
(* Only the newest cash session of a branch is ever open (NewestDrawer), so *)
(* that a session is its number.                                           *)
(***************************************************************************)
EXTENDS Purchasing

CONSTANTS
    References,     \* normalized Telebirr references
    MoneyQuanta,
    MaxFloat,       \* bound on an opening float
    MaxSession      \* bound on the number of cash sessions

ASSUME MoneyAssumption ==
    MoneyQuanta \in Nat \ {0} /\ MaxFloat \in Nat /\ MaxSession \in Nat

VARIABLE drawer    \* the newest cash session of the branch

vars == <<procurementVars, evidenceVars, drawer, answers>>

\* What CashSession promises of every branch (EachBranchHasADrawer) is all that is
\* taken from it here.
BranchDrawer == INSTANCE NewestDrawer WITH
    newest <- drawer.session, open <- drawer.open, expected <- drawer.expected

Methods == {"CASH"} \cup References

\* purchase_settlement_totals, purchase_return_settlement_totals
Sum(rows) == SumFunction([x \in rows |-> x.amount])
Paid(p) == Sum({x \in Active(payments) : x.purchase = p})
Settled(p, type) ==
    Sum({x \in Active(settlements) : return[x.return].purchase = p /\ x.type = type})
GrossReference(p) ==
    LET lines == purchase[p].lines
        exact == SumFunction([v \in DOMAIN lines |-> lines[v].ordered * lines[v].cost])
    IN  (2 * exact + Quanta * MoneyQuanta) \div (2 * Quanta * MoneyQuanta)
ReturnReference(r) ==
    LET lines == return[r].lines
        exact == SumFunction([l \in DOMAIN lines |-> Priced(lines[l], ReceiptCost(l))])
    IN  (2 * exact + MoneyQuanta) \div (2 * MoneyQuanta)

RemainingAfterTransfers(p) ==
    GrossReference(p) - Settled(p, "CREDIT") - (Paid(p) - Settled(p, "REFUND"))
RemainingReference(p) ==
    GrossReference(p) - (Settled(p, "CREDIT") + Settled(p, "REFUND"))
        - (Paid(p) - Settled(p, "REFUND"))
Unresolved(r, type) == ReturnReference(r) - Sum({x \in Active(settlements) : x.return = r})

MaxAmount == (2 * MaxQuantity * MaxCost + Quanta * MoneyQuanta) \div (2 * Quanta * MoneyQuanta)
Amounts == 1 .. MaxAmount * Cardinality(Variants)
Sessions == 0 .. MaxSession
PaymentRow == [key : SettlementKeys, purchase : Purchases, amount : Nat \ {0},
               method : Methods, session : Sessions]
SettlementRow == [key : SettlementKeys, return : Returns, type : {"CREDIT", "REFUND"},
                  amount : Nat \ {0}, method : Methods \cup {""}, session : Sessions]

TypeOK ==
    /\ ProcurementTypeOK
    /\ payments \subseteq PaymentRow
    /\ settlements \subseteq SettlementRow
    /\ reversals \subseteq [of : SettlementKeys, key : SettlementKeys, op : {"PAYMENT", "SETTLEMENT"}]
    /\ drawer \in [session : Sessions, open : BOOLEAN, float : Nat, expected : Nat]

Init ==
    /\ ProcurementInit
    /\ payments = {}
    /\ settlements = {}
    /\ reversals = {}
    /\ drawer = [session |-> 0, open |-> FALSE, float |-> 0, expected |-> 0]

-----------------------------------------------------------------------------

\* _claim_posting_key and _require_exact_source
KeyFreeForReversal(k) == \A x \in payments \cup settlements : x.key # k
KeyFree(k) == \A x \in payments \cup settlements \cup reversals : x.key # k

\* _lock_purchase
Settleable(p) == purchase[p].status \in {"APPROVED", "PARTIALLY_RECEIVED", "RECEIVED"}

\* Unique among the payments, and among the refunds, reversed or not.
Unused(rows, method) == method \in References => \A x \in rows : x.method # method

OverdraftTaken(delta) == drawer.open
\* lock_open_cash_session and record_source_cash_movement
Takes(delta) == drawer.open /\ (delta < 0 => drawer.expected + delta >= 0)
MoveCash(method, delta) ==
    IF method = "CASH" THEN Takes(delta) /\ drawer' = [drawer EXCEPT !.expected = @ + delta]
                       ELSE UNCHANGED drawer
SessionOf(method) == IF method = "CASH" THEN drawer.session ELSE 0

InOpenSession(x) == x.method = "CASH" => drawer.open
\* _locked_original_cash_session
InOriginalSession(x) == x.method = "CASH" => drawer.open /\ x.session = drawer.session

ReplayPayment(p, amount, method, k) ==
    /\ \E x \in payments :
           x.key = k /\ x.purchase = p /\ x.amount = amount /\ x.method = method
    /\ Answer("SETTLEMENT", k, "PAYMENT", k)
    /\ UNCHANGED <<procurementVars, evidenceVars, drawer>>

CreatePayment(p, amount, method, k) ==
    /\ KeyFree(k)
    /\ amount <= RemainingReference(p)
    /\ Unused(payments, method)
    /\ MoveCash(method, -amount)
    /\ payments' = payments \cup {[key |-> k, purchase |-> p, amount |-> amount,
                                   method |-> method, session |-> SessionOf(method)]}
    /\ Answer("SETTLEMENT", k, "PAYMENT", k)
    /\ UNCHANGED <<procurementVars, settlements, reversals>>

PostSupplierPayment(a, p, amount, method, k) ==
    /\ a \in Managers
    /\ Settleable(p)
    /\ \/ ReplayPayment(p, amount, method, k)
       \/ CreatePayment(p, amount, method, k)

Reversal(x, k, op) == [of |-> x.key, key |-> k, op |-> op]

\* What a reversal of a payment and one of a settlement have in common.
ReverseEvidence(x, k, op, delta) ==
    \/ /\ Reversal(x, k, op) \in reversals
       /\ Answer("SETTLEMENT", k, op, x.key)
       /\ UNCHANGED <<procurementVars, evidenceVars, drawer>>
    \/ /\ \A reversal \in reversals : reversal.of # x.key
       /\ InOriginalSession(x)
       /\ KeyFree(k)
       /\ MoveCash(x.method, delta)
       /\ reversals' = reversals \cup {Reversal(x, k, op)}
       /\ Answer("SETTLEMENT", k, op, x.key)
       /\ UNCHANGED <<procurementVars, payments, settlements>>

ReverseSupplierPayment(a, x, k) ==
    /\ a \in Managers
    /\ Settleable(x.purchase)
    /\ ReverseEvidence(x, k, "PAYMENT", x.amount)

ReplaySettlement(r, type, amount, method, k) ==
    /\ \E x \in settlements :
           x.key = k /\ x.return = r /\ x.type = type /\ x.amount = amount /\ x.method = method
    /\ Answer("SETTLEMENT", k, "SETTLEMENT", k)
    /\ UNCHANGED <<procurementVars, evidenceVars, drawer>>

\* A credit reduces what is owed; a refund is money that comes back.
CreateSettlement(r, type, amount, method, k) ==
    LET p == return[r].purchase
    IN  /\ KeyFree(k)
        /\ amount <= Unresolved(r, type)
        /\ \/ /\ type = "CREDIT"
              /\ method = ""
              /\ amount <= RemainingReference(p)
           \/ /\ type = "REFUND"
              /\ method \in Methods
              /\ amount <= Paid(p) - Settled(p, "REFUND")
        /\ Unused(settlements, method)
        /\ MoveCash(method, amount)
        /\ settlements' = settlements \cup
               {[key |-> k, return |-> r, type |-> type, amount |-> amount,
                 method |-> method, session |-> SessionOf(method)]}
        /\ Answer("SETTLEMENT", k, "SETTLEMENT", k)
        /\ UNCHANGED <<procurementVars, payments, reversals>>

PostSupplierReturnSettlement(a, r, type, amount, method, k) ==
    /\ a \in Managers
    /\ return[r].status = "POSTED"
    /\ Settleable(return[r].purchase)
    /\ \/ ReplaySettlement(r, type, amount, method, k)
       \/ CreateSettlement(r, type, amount, method, k)

ReverseSupplierReturnSettlement(a, x, k) ==
    /\ a \in Managers
    /\ Settleable(return[x.return].purchase)
    /\ ReverseEvidence(x, k, "SETTLEMENT", -x.amount)

-----------------------------------------------------------------------------
(* The cash session: see CashSession.                                      *)

OpenDrawer(float) ==
    /\ ~drawer.open
    /\ drawer.session < MaxSession
    /\ drawer' = [session |-> drawer.session + 1, open |-> TRUE,
                  float |-> float, expected |-> float]
    /\ UNCHANGED <<procurementVars, evidenceVars, answers>>

\* Closed, or the closed one reopened.
CloseOrReopenDrawer ==
    /\ drawer.session > 0
    /\ drawer' = [drawer EXCEPT !.open = ~@]
    /\ UNCHANGED <<procurementVars, evidenceVars, answers>>

Next ==
    \/ ProcurementNext /\ UNCHANGED drawer
    \/ \E a \in Actors, p \in Purchases, amount \in Amounts, method \in Methods,
          k \in SettlementKeys :
           PostSupplierPayment(a, p, amount, method, k)
    \/ \E a \in Actors, x \in payments, k \in SettlementKeys : ReverseSupplierPayment(a, x, k)
    \/ \E a \in Actors, r \in Returns, type \in {"CREDIT", "REFUND"}, amount \in Amounts,
          method \in Methods \cup {""}, k \in SettlementKeys :
           PostSupplierReturnSettlement(a, r, type, amount, method, k)
    \/ \E a \in Actors, x \in settlements, k \in SettlementKeys :
           ReverseSupplierReturnSettlement(a, x, k)
    \/ \E float \in 0 .. MaxFloat : OpenDrawer(float)
    \/ CloseOrReopenDrawer

Spec == Init /\ [][Next]_vars

-----------------------------------------------------------------------------

\* However payments, credits, refunds and their reversals follow one another,
\* payments and credits together never exceed the purchase: "A negative remaining
\* balance is rejected rather than silently reclassified".
NothingOverpaid ==
    \A p \in Purchases : purchase[p] # Absent =>
        Paid(p) + Settled(p, "CREDIT") <= GrossReference(p)

\* A supplier never accepts more for a return than its reference, in credits and
\* refunds together.
AcceptedWithinReturn ==
    \A r \in PostedReturns :
        Sum({x \in Active(settlements) : x.return = r}) <= ReturnReference(r)

\* A supplier refunds no more than it was ever paid.  The document promises more,
\* payments that still stand (docs/features/stage-4b-expenses-supplier-settlement.md:151),
\* but reverse_supplier_payment does not look at refunds.
RefundsOfPayments ==
    \A p \in Purchases : purchase[p] # Absent =>
        Settled(p, "REFUND") <= Sum({x \in payments : x.purchase = p})

\* Together: what is paid, credited and refunded stays within what was bought,
\* returned and paid.
AgreedWithinReference == NothingOverpaid /\ AcceptedWithinReturn /\ RefundsOfPayments

\* Two services of two apps agree: no settlement stands for a return that was
\* reversed, whichever of the two was called first.
SettledReturnsStand ==
    \A x \in Active(settlements) : return[x.return].status = "POSTED"

\* No payment stands for a purchase that was cancelled.
PaidPurchasesStand ==
    \A x \in Active(payments) : purchase[x.purchase].status # "CANCELLED"

\* Together: no evidence outlives the document it stands on.
SettledDocumentsStand == SettledReturnsStand /\ PaidPurchasesStand

\* The drawer holds its float, less the payments out of it and plus the refunds
\* into it that stand: a reversal goes to the session of what it reverses.
DrawerMatchesEvidence ==
    LET inSession(rows) == {x \in Active(rows) : x.method = "CASH" /\ x.session = drawer.session}
    IN  drawer.expected = drawer.float - Sum(inSession(payments)) + Sum(inSession(settlements))

=============================================================================
