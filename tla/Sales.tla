-------------------------------- MODULE Sales --------------------------------
(***************************************************************************)
(* Sales and sale returns of one branch: src/apps/sales/services.py with   *)
(* what its postings do to the stock and to the cash session of the        *)
(* branch.  A service locks the sale (a return locks its sale too) and the *)
(* branch row before it reads what it decides on, so that one call is one  *)
(* action; a call that raises is none.                                     *)
(*                                                                         *)
(* Money counts 0.01 ETB and quantities 1/Quanta of a unit.  Stock counts, *)
(* cash sessions and the catalogue are modelled in full or in part by      *)
(* other modules and appear here as what a sale sees of them: whether the  *)
(* branch is frozen, the open drawer, prices and active variants.          *)
(***************************************************************************)
EXTENDS Valuation, FiniteSetsExt

CONSTANTS
    Variants, Sales, Returns,
    SaleKeys, ReturnKeys,      \* idempotency keys of SalePostingKey, SaleReturnPostingKey
    References,                \* normalized Telebirr references
    Managers, Cashiers,
    Restocked,                 \* the balances a receipt may bring in, by variant
    MaxPrice, MaxQuantity,     \* bounds on a price and on the quantity of a line
    MaxFloat, MaxReceipts      \* bounds on an opening float and on the receipts

ASSUME BoundsAssumption ==
    /\ MaxPrice \in Nat \ {0} /\ MaxQuantity \in Nat \ {0}
    /\ MaxFloat \in Nat /\ MaxReceipts \in Nat
\* A catalogue and a table have finitely many rows.
ASSUME FiniteAssumption == IsFiniteSet(Variants) /\ IsFiniteSet(Sales) /\ IsFiniteSet(Returns)
ASSUME RestockedAssumption == Restocked \subseteq [quantity : Nat \ {0}, cost : Nat]

VARIABLES
    catalog,      \* selling_price and is_active of the variants
    stock,        \* InventoryBalance by variant
    frozen,       \* a stock count of the branch is in progress
    drawer,       \* the open cash session of the branch and its expected cash
    sale,         \* Sale and SaleLine rows
    return,       \* SaleReturn and SaleReturnLine rows
    saleKeys, returnKeys,
    receipts,     \* history: how often stock was received
    received,     \* history: the quantity received of each variant
    answers       \* history: the document each keyed call has answered with

outside == <<catalog, frozen, receipts, received>>
vars == <<outside, stock, drawer, sale, return, saleKeys, returnKeys, answers>>

Actors == Managers \cup Cashiers
Quantities == 1 .. MaxQuantity
Prices == 1 .. MaxPrice
Methods == {"CASH"} \cup References
Purposes == {"CUSTOMER_RETURN", "SALE_REVERSAL"}

Chosen == UNION {[D -> Quantities] : D \in (SUBSET Variants) \ {{}}}

LineRow == [quantity : Quantities, price : Prices, cost : Nat]
NoSale == [status |-> "ABSENT"]
IsSaleRow(x) ==
    /\ \/ /\ x.status \in {"DRAFT", "CANCELLED"}
          /\ DOMAIN x = {"status", "lines"}
       \/ /\ x.status = "POSTED"
          /\ DOMAIN x = {"status", "lines", "key", "method"}
          /\ x.key \in SaleKeys /\ x.method \in Methods
    /\ DOMAIN x.lines \subseteq Variants
    /\ \A v \in DOMAIN x.lines : x.lines[v] \in LineRow
NoReturn == [status |-> "ABSENT"]
ReturnRow == [status : {"DRAFT", "CANCELLED"}, sale : Sales, purpose : Purposes, lines : Chosen] \cup
             [status : {"POSTED", "REVERSED"}, sale : Sales, purpose : Purposes, lines : Chosen,
              key : ReturnKeys, method : Methods]

TypeOK ==
    /\ catalog \in [Variants -> [price : Prices, active : BOOLEAN]]
    /\ stock \in [Variants -> Balance]
    /\ frozen \in BOOLEAN
    /\ drawer \in [open : BOOLEAN, expected : Nat]
    /\ DOMAIN sale = Sales /\ \A s \in Sales : sale[s] = NoSale \/ IsSaleRow(sale[s])
    /\ return \in [Returns -> {NoReturn} \cup ReturnRow]
    /\ saleKeys \subseteq [key : SaleKeys, sale : Sales]
    /\ returnKeys \subseteq [key : ReturnKeys, op : {"RETURN", "REVERSAL"}, return : Returns]
    /\ receipts \in Nat
    /\ received \in [Variants -> Nat]

Init ==
    /\ catalog = [v \in Variants |-> [price |-> 1, active |-> TRUE]]
    /\ stock = [v \in Variants |-> Nothing]
    /\ frozen = FALSE
    /\ drawer = [open |-> FALSE, expected |-> 0]
    /\ sale = [s \in Sales |-> NoSale]
    /\ return = [r \in Returns |-> NoReturn]
    /\ saleKeys = {}
    /\ returnKeys = {}
    /\ receipts = 0
    /\ received = [v \in Variants |-> 0]
    /\ answers = {}

-----------------------------------------------------------------------------

\* calculate_sale_line_total: rounded half up to 0.01, like Priced to its quantum.
LineTotal(quantity, price) == Priced(quantity, price)
SaleTotal(s) ==
    SumFunction([v \in DOMAIN sale[s].lines |->
                    LineTotal(sale[s].lines[v].quantity, sale[s].lines[v].price)])
RefundOfWholeUnits(r) ==
    LET units(quantity) == (quantity + Quanta - 1) \div Quanta
    IN  SumFunction([v \in DOMAIN return[r].lines |->
                        units(return[r].lines[v]) * sale[return[r].sale].lines[v].price])
RefundTotal(r) ==
    SumFunction([v \in DOMAIN return[r].lines |->
                    LineTotal(return[r].lines[v], sale[return[r].sale].lines[v].price)])

PostedReturns(s) == {r \in Returns : return[r].status = "POSTED" /\ return[r].sale = s}
ReturnsOf(s, v) == {r \in PostedReturns(s) : v \in DOMAIN return[r].lines}
ReturnedQuantity(s, v) == SumFunction([r \in ReturnsOf(s, v) |-> return[r].lines[v]])
ReturnedByCustomers(s, v) ==
    SumFunction([r \in {r \in ReturnsOf(s, v) : return[r].purpose = "CUSTOMER_RETURN"} |->
                    return[r].lines[v]])
Returned(s, v) == ReturnedQuantity(s, v)

\* _validate_return_quantities; a draft is not among the posted returns.
Returnable(s, purpose, lines) ==
    /\ \A v \in DOMAIN lines : lines[v] <= sale[s].lines[v].quantity - Returned(s, v)
    /\ purpose = "SALE_REVERSAL" =>
           /\ PostedReturns(s) = {}
           /\ lines = [v \in DOMAIN sale[s].lines |-> sale[s].lines[v].quantity]

EditableUnlessCancelled(s) == sale[s].status # "CANCELLED"
Editable(s) == sale[s].status \in {"ABSENT", "DRAFT"}

\* A reference is used for one payment and for one refund.
UnusedForPayment(method) ==
    method \in References =>
        \A s \in Sales : sale[s].status = "POSTED" => sale[s].method # method
UnusedForRefund(method) ==
    method \in References =>
        \A r \in Returns : return[r].status \in {"POSTED", "REVERSED"} => return[r].method # method

AffordsOverdraft(amount) == drawer.open
Affords(amount) == drawer.open /\ amount <= drawer.expected

SaleKeyFree(k, s) == \A row \in saleKeys : row.key = k => row.sale = s
ReturnKeyFreeForOperation(k, op, r) ==
    \A row \in returnKeys : row.key = k => row.op = op
ReturnKeyFree(k, op, r) ==
    \A row \in returnKeys : row.key = k => row.op = op /\ row.return = r

Answer(table, k, op, of) ==
    answers' = answers \cup {[table |-> table, key |-> k, op |-> op, of |-> of]}

-----------------------------------------------------------------------------
(* Sales.                                                                  *)

\* A new draft, or an edited one: the lines are replaced at the prices of today.
SaveSaleDraft(s, quantities) ==
    LET line(v) == [quantity |-> quantities[v], price |-> catalog[v].price, cost |-> 0]
    IN  /\ Editable(s)
        /\ \A v \in DOMAIN quantities :
               /\ catalog[v].active
               /\ LineTotal(quantities[v], catalog[v].price) > 0
        /\ sale' = [sale EXCEPT ![s] =
               [status |-> "DRAFT", lines |-> [v \in DOMAIN quantities |-> line(v)]]]
        /\ UNCHANGED <<outside, stock, drawer, return, saleKeys, returnKeys, answers>>

CancelSale(s) ==
    /\ sale[s].status = "DRAFT"
    /\ sale' = [sale EXCEPT ![s] = [@ EXCEPT !.status = "CANCELLED"]]
    /\ UNCHANGED <<outside, stock, drawer, return, saleKeys, returnKeys, answers>>

\* A posted sale answers the key it was posted with.
ReplaySale(s, k) ==
    /\ sale[s].status = "POSTED"
    /\ sale[s].key = k
    /\ Answer("SALE", k, "POST", s)
    /\ UNCHANGED <<outside, stock, drawer, sale, return, saleKeys, returnKeys>>

CreatePosting(s, method, k) ==
    LET lines == sale[s].lines
    IN  /\ sale[s].status = "DRAFT"
        /\ SaleKeyFree(k, s)
        /\ \A v \in DOMAIN lines :
               /\ catalog[v].active
               /\ lines[v].price = catalog[v].price
               /\ Leaves(stock[v], lines[v].quantity)
        /\ ~frozen
        /\ UnusedForPayment(method)
        /\ method = "CASH" => drawer.open
        /\ stock' = [v \in Variants |->
               IF v \in DOMAIN lines THEN Outbound(stock[v], lines[v].quantity) ELSE stock[v]]
        /\ drawer' = IF method = "CASH" THEN [drawer EXCEPT !.expected = @ + SaleTotal(s)]
                                        ELSE drawer
        /\ sale' = [sale EXCEPT ![s] =
               [status |-> "POSTED", key |-> k, method |-> method,
                lines |-> [v \in DOMAIN lines |->
                    [lines[v] EXCEPT !.cost = stock[v].average]]]]
        /\ saleKeys' = saleKeys \cup {[key |-> k, sale |-> s]}
        /\ Answer("SALE", k, "POST", s)
        /\ UNCHANGED <<outside, return, returnKeys>>

PostSale(s, method, k) ==
    \/ ReplaySale(s, k)
    \/ CreatePosting(s, method, k)

-----------------------------------------------------------------------------
(* Returns.                                                                *)

\* A cashier prepares customer returns only.
MayPrepare(a, purpose) == purpose = "SALE_REVERSAL" => a \in Managers

SaveReturnDraft(a, r, s, purpose, lines) ==
    /\ MayPrepare(a, purpose)
    /\ sale[s].status = "POSTED"
    /\ DOMAIN lines \subseteq DOMAIN sale[s].lines
    /\ \A v \in DOMAIN lines : LineTotal(lines[v], sale[s].lines[v].price) > 0
    /\ Returnable(s, purpose, lines)
    /\ \/ return[r].status = "ABSENT"
       \/ return[r].status = "DRAFT" /\ return[r].sale = s /\ return[r].purpose = purpose
    /\ return' = [return EXCEPT ![r] =
           [status |-> "DRAFT", sale |-> s, purpose |-> purpose, lines |-> lines]]
    /\ UNCHANGED <<outside, stock, drawer, sale, saleKeys, returnKeys, answers>>

CancelSaleReturn(a, r) ==
    /\ return[r].status = "DRAFT"
    /\ MayPrepare(a, return[r].purpose)
    /\ return' = [return EXCEPT ![r] = [@ EXCEPT !.status = "CANCELLED"]]
    /\ UNCHANGED <<outside, stock, drawer, sale, saleKeys, returnKeys, answers>>

ReplayReturn(r, k) ==
    /\ return[r].status = "POSTED"
    /\ return[r].key = k
    /\ Answer("RETURN", k, "RETURN", r)
    /\ UNCHANGED <<outside, stock, drawer, sale, return, saleKeys, returnKeys>>

\* The goods come back at the cost they left with.
CreateReturnPosting(r, method, k) ==
    LET row == return[r]
    IN  /\ row.status = "DRAFT"
        /\ Returnable(row.sale, row.purpose, row.lines)
        /\ ReturnKeyFree(k, "RETURN", r)
        /\ ~frozen
        /\ UnusedForRefund(method)
        /\ method = "CASH" => Affords(RefundTotal(r))
        /\ stock' = [v \in Variants |->
               IF v \in DOMAIN row.lines
               THEN Inbound(stock[v], row.lines[v], sale[row.sale].lines[v].cost)
               ELSE stock[v]]
        /\ drawer' = IF method = "CASH" THEN [drawer EXCEPT !.expected = @ - RefundTotal(r)]
                                        ELSE drawer
        /\ return' = [return EXCEPT ![r] =
               [status |-> "POSTED", sale |-> row.sale, purpose |-> row.purpose,
                lines |-> row.lines, key |-> k, method |-> method]]
        /\ returnKeys' = returnKeys \cup {[key |-> k, op |-> "RETURN", return |-> r]}
        /\ Answer("RETURN", k, "RETURN", r)
        /\ UNCHANGED <<outside, sale, saleKeys>>

PostSaleReturn(a, r, method, k) ==
    /\ a \in Managers
    /\ \/ ReplayReturn(r, k)
       \/ CreateReturnPosting(r, method, k)

ReplayReversal(r, k) ==
    /\ return[r].status = "REVERSED"
    /\ [key |-> k, op |-> "REVERSAL", return |-> r] \in returnKeys
    /\ Answer("RETURN", k, "REVERSAL", r)
    /\ UNCHANGED <<outside, stock, drawer, sale, return, saleKeys, returnKeys>>

\* The goods leave again, at the cost they came back with; no cash moves.
CreateReversal(r, k) ==
    LET row == return[r]
        cost(v) == sale[row.sale].lines[v].cost
    IN  /\ row.status = "POSTED"
        /\ \A known \in returnKeys : known.key # k
        /\ ~frozen
        /\ \A v \in DOMAIN row.lines : LeavesAtCost(stock[v], row.lines[v], cost(v))
        /\ stock' = [v \in Variants |->
               IF v \in DOMAIN row.lines THEN OutboundAtCost(stock[v], row.lines[v], cost(v))
                                         ELSE stock[v]]
        /\ return' = [return EXCEPT ![r] = [@ EXCEPT !.status = "REVERSED"]]
        /\ returnKeys' = returnKeys \cup {[key |-> k, op |-> "REVERSAL", return |-> r]}
        /\ Answer("RETURN", k, "REVERSAL", r)
        /\ UNCHANGED <<outside, drawer, sale, saleKeys>>

ReverseSaleReturn(a, r, k) ==
    /\ a \in Managers
    /\ \/ ReplayReversal(r, k)
       \/ CreateReversal(r, k)

-----------------------------------------------------------------------------
(* What happens around sales.                                              *)

documents == <<sale, return, saleKeys, returnKeys, answers>>

ReceiveStock(v, goods) ==
    /\ ~frozen
    /\ receipts < MaxReceipts
    /\ stock' = [stock EXCEPT ![v] = Inbound(@, goods.quantity, goods.cost)]
    /\ receipts' = receipts + 1
    /\ received' = [received EXCEPT ![v] = @ + goods.quantity]
    /\ UNCHANGED <<documents, catalog, frozen, drawer>>

ChangeVariant(v, price, active) ==
    /\ catalog' = [catalog EXCEPT ![v] = [price |-> price, active |-> active]]
    /\ UNCHANGED <<documents, frozen, stock, drawer, receipts, received>>

\* A stock count begins, or ends without a difference.
Freeze ==
    /\ frozen' = ~frozen
    /\ UNCHANGED <<documents, catalog, stock, drawer, receipts, received>>

OpenDrawer(float) ==
    /\ ~drawer.open
    /\ drawer' = [open |-> TRUE, expected |-> float]
    /\ UNCHANGED <<documents, outside, stock>>

CloseDrawer ==
    /\ drawer.open
    /\ drawer' = [drawer EXCEPT !.open = FALSE]
    /\ UNCHANGED <<documents, outside, stock>>

Next ==
    \/ \E s \in Sales, quantities \in Chosen : SaveSaleDraft(s, quantities)
    \/ \E s \in Sales : CancelSale(s)
    \/ \E s \in Sales, method \in Methods, k \in SaleKeys : PostSale(s, method, k)
    \/ \E a \in Actors, r \in Returns, s \in Sales, purpose \in Purposes, lines \in Chosen :
           SaveReturnDraft(a, r, s, purpose, lines)
    \/ \E a \in Actors, r \in Returns : CancelSaleReturn(a, r)
    \/ \E a \in Actors, r \in Returns, method \in Methods, k \in ReturnKeys :
           PostSaleReturn(a, r, method, k)
    \/ \E a \in Actors, r \in Returns, k \in ReturnKeys : ReverseSaleReturn(a, r, k)
    \/ \E v \in Variants, goods \in Restocked : ReceiveStock(v, goods)
    \/ \E v \in Variants, price \in Prices, active \in BOOLEAN : ChangeVariant(v, price, active)
    \/ Freeze
    \/ \E float \in 0 .. MaxFloat : OpenDrawer(float)
    \/ CloseDrawer

Spec == Init /\ [][Next]_vars

-----------------------------------------------------------------------------

PostedSales == {s \in Sales : sale[s].status = "POSTED"}
SalesOf(v) == {s \in PostedSales : v \in DOMAIN sale[s].lines}

\* Several drafts of returns against one sale, posted and reversed in any order,
\* never take back more of a line than was sold.
ReturnedWithinSold ==
    \A s \in PostedSales : \A v \in DOMAIN sale[s].lines :
        ReturnedQuantity(s, v) <= sale[s].lines[v].quantity

\* A full reversal stands alone: while it is posted no other return of the sale
\* is, whatever drafts were prepared before it.
FullReversalAlone ==
    \A s \in Sales : \A r \in PostedReturns(s) :
        return[r].purpose = "SALE_REVERSAL" => PostedReturns(s) = {r}

\* Together: returns stay within the sale, one by one and as a full reversal.
ReturnsWithinSale == ReturnedWithinSold /\ FullReversalAlone

\* The shelf agrees with the documents: what came in, less what the posted sales
\* took, plus what the posted returns that were not reversed brought back.
StockMatchesDocuments ==
    \A v \in Variants :
        stock[v].quantity =
            received[v]
            - SumFunction([s \in SalesOf(v) |-> sale[s].lines[v].quantity])
            + SumFunction([s \in PostedSales |-> ReturnedQuantity(s, v)])

\* Keyed calls are exactly-once: a key answers with one sale, one return or one
\* reversal, however often and for whatever document it is sent again.
KeyAnswersOnce ==
    \A x, y \in answers : x.table = y.table /\ x.key = y.key => x = y

\* Refunds are rounded line by line and return by return, so that together they may
\* exceed what was paid ("Stage 3B has no ... refund above the original selling
\* amount", docs/features/stage-3b-sales-returns-refunds.md:84-86), but never by more
\* than half a cent for each line that was sold or returned.
RefundsNearSale ==
    \A s \in PostedSales :
        LET lines == Cardinality(DOMAIN sale[s].lines)
                         + SumFunction([r \in PostedReturns(s) |-> Cardinality(DOMAIN return[r].lines)])
            refunds == SumFunction([r \in PostedReturns(s) |-> RefundTotal(r)])
        IN  2 * (refunds - SaleTotal(s)) <= lines

=============================================================================
