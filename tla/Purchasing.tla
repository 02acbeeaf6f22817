----------------------------- MODULE Purchasing -----------------------------
(***************************************************************************)
(* Purchases of one branch, their goods receipts and their returns to the  *)
(* supplier: src/apps/purchasing/services.py with what its postings do to  *)
(* the stock.  Every service locks the purchase row (the joined one, when  *)
(* it starts from a return), so that a call is one action; a call that     *)
(* raises is none.  The payments and settlements that some services look   *)
(* at are posted by the module SupplierSettlement, which extends this one. *)
(*                                                                         *)
(* A goods receipt is named by its idempotency key and a receipt line by   *)
(* <<key, variant>>.  Purchases of variants have the same branch; sales,   *)
(* counts and the catalogue appear as what a purchase sees of them.        *)
(***************************************************************************)
EXTENDS Valuation, FiniteSetsExt, TLC

CONSTANTS
    Variants, Purchases, Returns,
    ReceiptKeys, ReturnKeys,  \* idempotency keys of GoodsReceipt, PurchaseReturnPostingKey
    SettlementKeys,           \* idempotency keys of ExpenseSettlementPostingKey
    Managers, Staff,          \* Staff receive and prepare, Managers do everything
    MaxQuantity, MaxCost,     \* bounds on the quantity and unit cost of a purchase line
    MaxTaken                  \* bound on the quantity sold

ASSUME BoundsAssumption ==
    MaxQuantity \in Nat \ {0} /\ MaxCost \in Nat /\ MaxTaken \in Nat
\* A catalogue and a table have finitely many rows.
ASSUME FiniteAssumption == IsFiniteSet(Variants) /\ IsFiniteSet(Returns)

VARIABLES
    active,       \* ProductVariant.is_active
    stock,        \* InventoryBalance by variant
    frozen,       \* a stock count of the branch is in progress
    taken,        \* history: the quantity sold of each variant
    purchase,     \* Purchase and PurchaseLine rows
    receipts,     \* GoodsReceipt and GoodsReceiptLine rows
    return,       \* PurchaseReturn and PurchaseReturnLine rows
    returnKeys,   \* PurchaseReturnPostingKey rows
    payments,     \* SupplierPayment rows
    settlements,  \* SupplierReturnSettlement rows
    reversals,    \* SupplierPaymentReversal, SupplierReturnSettlementReversal rows
    answers       \* history: the record each keyed call has answered with

branchVars == <<active, stock, frozen, taken>>
procurementVars == <<branchVars, purchase, receipts, return, returnKeys>>
evidenceVars == <<payments, settlements, reversals>>

Actors == Managers \cup Staff
Quantities == 1 .. MaxQuantity
ReceiptLines == ReceiptKeys \X Variants

\* The nonempty choices of lines among S, with a member of T for each.
Chosen(S, T) == UNION {[D -> T] : D \in (SUBSET S) \ {{}}}

Absent == [status |-> "ABSENT"]
Unreceived == {"DRAFT", "APPROVED", "CANCELLED"}
PurchaseRow ==
    [status : Unreceived \cup {"PARTIALLY_RECEIVED", "RECEIVED"},
     lines : Chosen(Variants, [ordered : Quantities, cost : 0 .. MaxCost])]
ReceiptRow == [key : ReceiptKeys, purchase : Purchases, lines : Chosen(Variants, Quantities)]
ReturnColumns == {"status", "purchase", "lines", "key", "costs"}
IsReturnRow(x) ==
    /\ x.status \in {"DRAFT", "CANCELLED", "POSTED", "REVERSED"}
    /\ x.purchase \in Purchases
    /\ x.lines \in Chosen(ReceiptLines, Quantities)
    /\ IF x.status \in {"DRAFT", "CANCELLED"} THEN DOMAIN x = ReturnColumns \ {"key", "costs"}
       ELSE /\ DOMAIN x = ReturnColumns
            /\ x.key \in ReturnKeys
            /\ \A l \in DOMAIN x.lines : x.costs[l] \in Nat

ProcurementTypeOK ==
    /\ active \subseteq Variants
    /\ stock \in [Variants -> Balance]
    /\ frozen \in BOOLEAN
    /\ taken \in [Variants -> Nat]
    /\ purchase \in [Purchases -> PurchaseRow \cup {Absent}]
    /\ receipts \subseteq ReceiptRow
    /\ DOMAIN return = Returns /\ \A r \in Returns : return[r] = Absent \/ IsReturnRow(return[r])
    /\ returnKeys \subseteq [key : ReturnKeys, op : {"RETURN", "REVERSAL"}, return : Returns]

ProcurementInit ==
    /\ active = Variants
    /\ stock = [v \in Variants |-> Nothing]
    /\ frozen = FALSE
    /\ taken = [v \in Variants |-> 0]
    /\ purchase = [p \in Purchases |-> Absent]
    /\ receipts = {}
    /\ return = [r \in Returns |-> Absent]
    /\ returnKeys = {}
    /\ answers = {}

-----------------------------------------------------------------------------

ReceiptsOf(p) == {g \in receipts : g.purchase = p}
Brought(rows, v) == SumFunction([g \in {g \in rows : v \in DOMAIN g.lines} |-> g.lines[v]])
ReceivedQuantity(p, v) == Brought(ReceiptsOf(p), v)
PostedReturns == {r \in Returns : return[r].status = "POSTED"}
ReturnsOf(l) == {r \in PostedReturns : l \in DOMAIN return[r].lines}
ReturnedQuantity(l) == SumFunction([r \in ReturnsOf(l) |-> return[r].lines[l]])
LineOf(l) == CHOOSE g \in receipts : g.key = l[1]
ReceiptQuantity(l) == LineOf(l).lines[l[2]]
ReceiptCost(l) == purchase[LineOf(l).purchase].lines[l[2]].cost
LinesIn(rows) == UNION {{g.key} \X DOMAIN g.lines : g \in rows}
LinesOf(p) == LinesIn(ReceiptsOf(p))
OfVariant(S, v) == {l \in S : l[2] = v}

\* purchase_line_progress: a return does not make a line receivable again.
RemainingNet(p, v) ==
    purchase[p].lines[v].ordered - ReceivedQuantity(p, v)
        + SumFunction([l \in OfVariant(LinesOf(p), v) |-> ReturnedQuantity(l)])
Remaining(p, v) == purchase[p].lines[v].ordered - ReceivedQuantity(p, v)

\* A draft is not among the posted returns.
ReturnableAlone(lines) == \A l \in DOMAIN lines : lines[l] <= ReceiptQuantity(l)
Returnable(lines) ==
    \A l \in DOMAIN lines : lines[l] <= ReceiptQuantity(l) - ReturnedQuantity(l)

\* The evidence without a reversal.
Active(rows) == {x \in rows : \A reversal \in reversals : reversal.of # x.key}
Unpaid(p) == \A x \in Active(payments) : x.purchase # p
Unrefunded(r) == \A x \in Active(settlements) : x.type = "REFUND" => x.return # r
Unsettled(r) == \A x \in Active(settlements) : x.return # r

Reversible(r) == return[r].status = "POSTED"

ReturnKeyFree(k, op, r) == \A row \in returnKeys : row.key # k
ClaimReturnKey(k, op, r) ==
    returnKeys' = returnKeys \cup {[key |-> k, op |-> op, return |-> r]}

Answer(table, k, op, of) ==
    answers' = answers \cup {[table |-> table, key |-> k, op |-> op, of |-> of]}

-----------------------------------------------------------------------------
(* Purchases.                                                              *)

SetPurchaseStatus(p, status) == purchase' = [purchase EXCEPT ![p] = [@ EXCEPT !.status = status]]

CreatePurchaseDraft(a, p, lines) ==
    /\ a \in Managers
    /\ purchase[p] = Absent
    /\ DOMAIN lines \subseteq active
    /\ purchase' = [purchase EXCEPT ![p] = [status |-> "DRAFT", lines |-> lines]]
    /\ UNCHANGED <<branchVars, evidenceVars, receipts, return, returnKeys, answers>>

ApprovePurchase(a, p) ==
    /\ a \in Managers
    /\ purchase[p].status = "DRAFT"
    /\ DOMAIN purchase[p].lines \subseteq active
    /\ SetPurchaseStatus(p, "APPROVED")
    /\ UNCHANGED <<branchVars, evidenceVars, receipts, return, returnKeys, answers>>

CancelPurchase(a, p) ==
    /\ a \in Managers
    /\ purchase[p].status \in {"DRAFT", "APPROVED"}
    /\ ReceiptsOf(p) = {}
    /\ Unpaid(p)
    /\ SetPurchaseStatus(p, "CANCELLED")
    /\ UNCHANGED <<branchVars, evidenceVars, receipts, return, returnKeys, answers>>

ReplayReceipt(p, k) ==
    /\ \E g \in receipts : g.key = k /\ g.purchase = p
    /\ Answer("RECEIPT", k, "RECEIVE", p)
    /\ UNCHANGED <<procurementVars, evidenceVars>>

CreateReceipt(p, quantities, k) ==
    LET lines == purchase[p].lines
        now(v) == IF v \in DOMAIN quantities THEN quantities[v] ELSE 0
        complete == \A v \in DOMAIN lines : now(v) = Remaining(p, v)
    IN  /\ \A g \in receipts : g.key # k
        /\ purchase[p].status \in {"APPROVED", "PARTIALLY_RECEIVED"}
        /\ DOMAIN quantities \subseteq DOMAIN lines \cap active
        /\ \A v \in DOMAIN quantities : quantities[v] <= Remaining(p, v)
        /\ ~frozen
        /\ receipts' = receipts \cup {[key |-> k, purchase |-> p, lines |-> quantities]}
        /\ stock' = [v \in Variants |->
               IF v \in DOMAIN quantities THEN Inbound(stock[v], quantities[v], lines[v].cost)
                                          ELSE stock[v]]
        /\ SetPurchaseStatus(p, IF complete THEN "RECEIVED" ELSE "PARTIALLY_RECEIVED")
        /\ Answer("RECEIPT", k, "RECEIVE", p)
        /\ UNCHANGED <<active, frozen, taken, evidenceVars, return, returnKeys>>

ReceivePurchase(p, quantities, k) ==
    \/ ReplayReceipt(p, k)
    \/ CreateReceipt(p, quantities, k)

-----------------------------------------------------------------------------
(* Returns to the supplier.                                                *)

\* A new draft, or an edited one whose lines are replaced.
SaveReturnDraft(r, p, lines) ==
    /\ DOMAIN lines \subseteq LinesOf(p)
    /\ Returnable(lines)
    /\ \/ return[r] = Absent
       \/ return[r].status = "DRAFT" /\ return[r].purchase = p
    /\ return' = [return EXCEPT ![r] = [status |-> "DRAFT", purchase |-> p, lines |-> lines]]
    /\ UNCHANGED <<branchVars, evidenceVars, purchase, receipts, returnKeys, answers>>

CancelPurchaseReturn(a, r) ==
    /\ a \in Managers
    /\ return[r].status = "DRAFT"
    /\ return' = [return EXCEPT ![r] = [@ EXCEPT !.status = "CANCELLED"]]
    /\ UNCHANGED <<branchVars, evidenceVars, purchase, receipts, returnKeys, answers>>

ReplayReturnKey(k, op, r) ==
    /\ [key |-> k, op |-> op, return |-> r] \in returnKeys
    /\ Answer("RETURN", k, op, r)
    /\ UNCHANGED <<procurementVars, evidenceVars>>

\* Each line leaves at the average it finds and keeps that cost.
TakeLine(lines, l, so) ==
    [stock |-> [so.stock EXCEPT ![l[2]] = Outbound(@, lines[l])],
     costs |-> [m \in DOMAIN so.costs \cup {l} |->
                   IF m = l THEN so.stock[l[2]].average ELSE so.costs[m]]]
PutBackReceived(row, l, balances) ==
    [balances EXCEPT ![l[2]] = Inbound(@, ReceiptQuantity(l), row.costs[l])]
PutBackLine(row, l, balances) ==
    [balances EXCEPT ![l[2]] = Inbound(@, row.lines[l], row.costs[l])]

CreateReturnPosting(r, k) ==
    LET lines == return[r].lines
        leaving(v) == SumFunction([l \in OfVariant(DOMAIN lines, v) |-> lines[l]])
        done == FoldSet(LAMBDA l, so : TakeLine(lines, l, so),
                        [stock |-> stock, costs |-> <<>>], DOMAIN lines)
    IN  /\ ReturnKeyFree(k, "RETURN", r)
        /\ return[r].status = "DRAFT"
        /\ Returnable(lines)
        /\ ~frozen
        /\ \A v \in Variants : Leaves(stock[v], leaving(v))
        /\ stock' = done.stock
        /\ return' = [return EXCEPT ![r] =
               [status |-> "POSTED", purchase |-> return[r].purchase, lines |-> lines,
                key |-> k, costs |-> done.costs]]
        /\ ClaimReturnKey(k, "RETURN", r)
        /\ Answer("RETURN", k, "RETURN", r)
        /\ UNCHANGED <<active, frozen, taken, evidenceVars, purchase, receipts>>

PostPurchaseReturn(a, r, k) ==
    /\ a \in Managers
    /\ \/ ReplayReturnKey(k, "RETURN", r)
       \/ CreateReturnPosting(r, k)

CreateReturnReversal(r, k) ==
    LET row == return[r]
    IN  /\ ReturnKeyFree(k, "REVERSAL", r)
        /\ Reversible(r)
        /\ Unsettled(r)
        /\ ~frozen
        /\ stock' = FoldSet(LAMBDA l, balances : PutBackLine(row, l, balances),
                            stock, DOMAIN row.lines)
        /\ return' = [return EXCEPT ![r] = [@ EXCEPT !.status = "REVERSED"]]
        /\ ClaimReturnKey(k, "REVERSAL", r)
        /\ Answer("RETURN", k, "REVERSAL", r)
        /\ UNCHANGED <<active, frozen, taken, evidenceVars, purchase, receipts>>

ReversePurchaseReturn(a, r, k) ==
    /\ a \in Managers
    /\ \/ ReplayReturnKey(k, "REVERSAL", r)
       \/ CreateReturnReversal(r, k)

-----------------------------------------------------------------------------
(* What happens around purchases.                                          *)

documents == <<purchase, receipts, return, returnKeys, evidenceVars, answers>>

SetActive(v, is) ==
    /\ active' = IF is THEN active \cup {v} ELSE active \ {v}
    /\ UNCHANGED <<documents, stock, frozen, taken>>

\* A stock count begins, or ends without a difference.
Freeze ==
    /\ frozen' = ~frozen
    /\ UNCHANGED <<documents, active, stock, taken>>

Sell(v, quantity) ==
    /\ ~frozen
    /\ Leaves(stock[v], quantity)
    /\ taken[v] + quantity <= MaxTaken
    /\ stock' = [stock EXCEPT ![v] = Outbound(@, quantity)]
    /\ taken' = [taken EXCEPT ![v] = @ + quantity]
    /\ UNCHANGED <<documents, active, frozen>>

ProcurementNext ==
    \/ \E a \in Actors, p \in Purchases,
          lines \in Chosen(Variants, [ordered : Quantities, cost : 0 .. MaxCost]) :
           CreatePurchaseDraft(a, p, lines)
    \/ \E a \in Actors, p \in Purchases : ApprovePurchase(a, p) \/ CancelPurchase(a, p)
    \/ \E p \in Purchases, quantities \in Chosen(Variants, Quantities), k \in ReceiptKeys :
           ReceivePurchase(p, quantities, k)
    \/ \E r \in Returns, p \in Purchases : \E lines \in Chosen(LinesOf(p), Quantities) :
           SaveReturnDraft(r, p, lines)
    \/ \E a \in Actors, r \in Returns : CancelPurchaseReturn(a, r)
    \/ \E a \in Actors, r \in Returns, k \in ReturnKeys :
           PostPurchaseReturn(a, r, k) \/ ReversePurchaseReturn(a, r, k)
    \/ \E v \in Variants, is \in BOOLEAN : SetActive(v, is)
    \/ Freeze
    \/ \E v \in Variants, quantity \in Quantities : Sell(v, quantity)

-----------------------------------------------------------------------------

\* Receiving state is about receipts alone: through partial receipts, returns and
\* their reversals a purchase counts as received exactly when every line is, and
\* nothing beyond the order ever arrives.
StatusMatchesReceipts ==
    \A p \in Purchases : purchase[p] # Absent =>
        LET lines == purchase[p].lines
            complete == \A v \in DOMAIN lines : ReceivedQuantity(p, v) = lines[v].ordered
        IN  /\ \A v \in DOMAIN lines : ReceivedQuantity(p, v) <= lines[v].ordered
            /\ purchase[p].status \in Unreceived <=> ReceiptsOf(p) = {}
            /\ purchase[p].status = "RECEIVED" <=> complete

\* Several drafts of returns of a receipt line, posted and reversed in any order,
\* never send back more than the receipt brought.
ReturnedWithinReceived ==
    \A g \in receipts : \A v \in DOMAIN g.lines :
        ReturnedQuantity(<<g.key, v>>) <= g.lines[v]

\* The shelf agrees with the documents: what the receipts brought, less what was
\* sold and what the posted returns that were not reversed took away.
StockMatchesDocuments ==
    \A v \in Variants :
        stock[v].quantity =
            Brought(receipts, v)
            - SumFunction([l \in OfVariant(LinesIn(receipts), v) |-> ReturnedQuantity(l)])
            - taken[v]

\* Keyed calls are exactly-once: within a table a key answers with one receipt,
\* return, reversal, payment or settlement, however often it is sent again.
KeyAnswersOnce ==
    \A x, y \in answers : x.table = y.table /\ x.key = y.key => x = y

=============================================================================
