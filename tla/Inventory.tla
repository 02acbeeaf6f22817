------------------------------ MODULE Inventory ------------------------------
(***************************************************************************)
(* Stock balances and the inventory ledger of one business: the posting    *)
(* services of src/apps/inventory/services.py.  Each runs in a transaction *)
(* that locks the branch row first (lock_inventory_posting_branch) and the *)
(* balances it changes, so that a call is one action.  The stock counts    *)
(* that freeze a branch are the module StockCount, which extends this one. *)
(*                                                                         *)
(* A StockOperation and its only movement are one row here, named by the   *)
(* idempotency key; the lines of one call are a function from the variants *)
(* it moves.  A return may name a variant twice: its two lines are applied *)
(* one after the other, which is two calls here.                           *)
(***************************************************************************)
EXTENDS Valuation, FiniteSetsExt

CONSTANTS
    Branches, Variants,
    Keys,            \* idempotency keys of openings and adjustments
    CountKeys,       \* idempotency keys of stock counts
    Sources,         \* goods receipts, sales, returns and their reversals
    SourceType,      \* the movement type each source is posted with
    Counts,          \* pool of primary keys for StockCountSession rows
    Managers,        \* memberships with the management permissions
    Staff,           \* cashiers and stock employees
    Assigned,        \* the branch a member of staff is assigned to: {b}, or {}
    MaxQuantity, MaxCost   \* bounds on what one line moves and costs

InboundTypes == {"PURCHASE_RECEIPT", "PURCHASE_RETURN_REVERSAL", "SALE_RETURN",
                 "OPENING", "ADJUSTMENT_IN", "STOCK_COUNT_ADJUSTMENT_IN",
                 "STOCK_COUNT_REVERSAL_IN"}
AverageTypes == {"SALE", "PURCHASE_RETURN", "ADJUSTMENT_OUT"}
ExactTypes   == {"SALE_RETURN_REVERSAL", "STOCK_COUNT_ADJUSTMENT_OUT",
                 "STOCK_COUNT_REVERSAL_OUT"}
MovementTypes == InboundTypes \cup AverageTypes \cup ExactTypes
OperationTypes == {"OPENING", "ADJUSTMENT_IN", "ADJUSTMENT_OUT"}
\* posted by staff, for active variants; the others by managers, for any variant
StaffTypes == {"PURCHASE_RECEIPT", "SALE"}
SourceTypes == StaffTypes \cup {"PURCHASE_RETURN", "PURCHASE_RETURN_REVERSAL",
                                "SALE_RETURN", "SALE_RETURN_REVERSAL"}
ActiveCounts == {"COUNTING", "SUBMITTED"}

Actors == Managers \cup Staff
Quantities == 1 .. MaxQuantity
Costs == 0 .. MaxCost

ASSUME BoundsAssumption == MaxQuantity \in Nat /\ MaxCost \in Nat
ASSUME SourceTypeAssumption == SourceType \in [Sources -> SourceTypes]
\* Primary keys of different tables and chosen keys are different things.
ASSUME CountsAssumption == Counts \cap (Sources \cup Keys) = {}
ASSUME AssignedAssumption == Assigned \in [Staff -> SUBSET Branches]

VARIABLES
    active,         \* ProductVariant.is_active
    stock,          \* InventoryBalance by branch and variant
    movements,      \* InventoryMovement rows
    countStatus,    \* StockCountSession.status, ABSENT before creation
    countBranch,    \* StockCountSession.branch
    answers         \* history: the record each keyed call has answered with

MovementRow == [branch : Branches, variant : Variants, type : MovementTypes,
                source : Sources \cup Keys \cup Counts, quantity : Int, value : Int]
AnswerRow == [table : {"OPERATION", "COUNT"}, key : Keys \cup CountKeys,
              op : OperationTypes \cup {"START", "APPROVE", "REVERSE"},
              branch : Branches, of : Variants \cup Counts]

InventoryTypeOK ==
    /\ active \subseteq Variants
    /\ stock \in [Branches -> [Variants -> Balance]]
    /\ movements \subseteq MovementRow
    /\ answers \subseteq AnswerRow

InventoryInit ==
    /\ active = Variants
    /\ stock = [b \in Branches |-> [v \in Variants |-> Nothing]]
    /\ movements = {}
    /\ answers = {}

-----------------------------------------------------------------------------

\* ensure_branch_operation_access, ensure_sale_branch_access and
\* ensure_stock_count_branch_access without management_required
CanUse(a, b) ==
    \/ a \in Managers
    \/ a \in Staff /\ Assigned[a] = {b}
    \/ a \in Staff /\ Assigned[a] = {} /\ Branches = {b}

FreezingWhileCounting(b) ==
    {c \in Counts : countStatus[c] = "COUNTING" /\ countBranch[c] = b}
\* _active_stock_count
Freezing(b) == {c \in Counts : countStatus[c] \in ActiveCounts /\ countBranch[c] = b}
Frozen(b) == Freezing(b) # {}

Line(type, quantity, cost) == [type |-> type, quantity |-> quantity, cost |-> cost]

FitsUnlessExact(x, line) ==
    line.type \in ExactTypes => LeavesAtCost(x, line.quantity, line.cost)
Fits(x, line) ==
    /\ line.type \in AverageTypes => Leaves(x, line.quantity)
    /\ line.type \in ExactTypes => LeavesAtCost(x, line.quantity, line.cost)

After(x, line) ==
    IF line.type \in InboundTypes THEN Inbound(x, line.quantity, line.cost)
    ELSE IF line.type \in AverageTypes THEN Outbound(x, line.quantity)
    ELSE OutboundAtCost(x, line.quantity, line.cost)

QuantityDelta(line) ==
    IF line.type \in InboundTypes THEN line.quantity ELSE -line.quantity

ValueDeltaAtAverage(x, line) ==
    IF line.type \in InboundTypes THEN Priced(line.quantity, line.cost)
    ELSE IF line.type \in AverageTypes THEN -Priced(line.quantity, x.average)
    ELSE -Priced(line.quantity, line.cost)
\* What the apply functions return to be written into the movement.
ValueDelta(x, line) ==
    IF line.type \in InboundTypes THEN Priced(line.quantity, line.cost)
    ELSE IF line.type \in AverageTypes THEN After(x, line).value - x.value
    ELSE -Priced(line.quantity, line.cost)

\* All lines of a call or none: the balances and one movement per line.
Post(b, source, lines) ==
    /\ \A v \in DOMAIN lines : Fits(stock[b][v], lines[v])
    /\ stock' = [stock EXCEPT ![b] =
           [v \in Variants |-> IF v \in DOMAIN lines THEN After(stock[b][v], lines[v])
                                                     ELSE stock[b][v]]]
    /\ movements' = movements \cup
           {[branch |-> b, variant |-> v, type |-> lines[v].type, source |-> source,
             quantity |-> QuantityDelta(lines[v]),
             value |-> ValueDelta(stock[b][v], lines[v])] : v \in DOMAIN lines}

Answer(table, k, op, b, of) ==
    answers' = answers \cup
        {[table |-> table, key |-> k, op |-> op, branch |-> b, of |-> of]}

Operations == {m \in movements : m.type \in OperationTypes}

-----------------------------------------------------------------------------

\* The six record_..._inventory services, in the transaction of the document
\* that calls them: a receipt, a sale, a return or the reversal of a return.
RecordSource(a, b, source, lines) ==
    LET type == SourceType[source]
    IN  /\ CanUse(a, b)
        /\ type \notin StaffTypes => a \in Managers
        /\ ~Frozen(b)
        /\ type \in StaffTypes => DOMAIN lines \subseteq active
        /\ \A m \in movements : m.source # source
        /\ Post(b, source,
                [v \in DOMAIN lines |-> Line(type, lines[v].quantity, lines[v].cost)])
        /\ UNCHANGED <<active, answers>>

\* A key that already posted this operation answers with it, but not while the
\* branch is frozen, and for this branch and variant only.
ReplayOperation(b, v, op, k) ==
    /\ \E m \in Operations :
           m.source = k /\ m.type = op /\ m.branch = b /\ m.variant = v
    /\ Answer("OPERATION", k, op, b, v)
    /\ UNCHANGED <<active, stock, movements>>

CreateOperation(b, v, op, quantity, cost, k) ==
    /\ \A m \in Operations : m.source # k
    /\ op = "OPENING" => \A m \in movements : ~(m.branch = b /\ m.variant = v)
    /\ Post(b, k, [x \in {v} |-> Line(op, quantity, cost)])
    /\ Answer("OPERATION", k, op, b, v)
    /\ UNCHANGED active

\* post_opening_balance and post_inventory_adjustment
PostOperation(a, b, v, op, quantity, cost, k) ==
    /\ a \in Managers
    /\ ~Frozen(b)
    /\ v \in active
    /\ \/ ReplayOperation(b, v, op, k)
       \/ CreateOperation(b, v, op, quantity, cost, k)

\* The catalogue form: a variant is retired or put back, whatever its stock.
SetActive(v) ==
    /\ active' = IF v \in active THEN active \ {v} ELSE active \cup {v}
    /\ UNCHANGED <<stock, movements, answers>>

SourceLines == UNION {[S -> [quantity : Quantities, cost : Costs]] :
                         S \in (SUBSET Variants) \ {{}}}

InventoryNext ==
    \/ \E a \in Actors, b \in Branches, source \in Sources, lines \in SourceLines :
           RecordSource(a, b, source, lines)
    \/ \E a \in Actors, b \in Branches, v \in Variants, op \in OperationTypes,
          quantity \in Quantities, cost \in Costs, k \in Keys :
           PostOperation(a, b, v, op, quantity, cost, k)
    \/ \E v \in Variants : SetActive(v)

-----------------------------------------------------------------------------
(* What the ledger says.                                                   *)

LedgerOf(b, v) == {m \in movements : m.branch = b /\ m.variant = v}
TotalQuantity(rows) == SumFunction([m \in rows |-> m.quantity])
TotalValue(rows) == SumFunction([m \in rows |-> m.value])

\* A balance is the sum of its movements, in quantity and in value, although
\* the two are computed apart and the value is rounded, clamped at zero and
\* swept away with the last units.
BalanceMatchesLedger ==
    \A b \in Branches, v \in Variants :
        /\ stock[b][v].quantity = TotalQuantity(LedgerOf(b, v))
        /\ stock[b][v].value = TotalValue(LedgerOf(b, v))

\* Stock that is gone is worth nothing: inventory_zero_balance_has_zero_cost_and_value
\* refuses no step that the services would otherwise take.
NoStockNoValue ==
    \A b \in Branches, v \in Variants :
        stock[b][v].quantity = 0 => stock[b][v] = Nothing

\* The average cost explains the value up to rounding: half a quantum of cost
\* for every quantum that was averaged and half a quantum of value for every
\* movement out since.
ValueDriftBounded ==
    \A b \in Branches, v \in Variants :
        LET x == stock[b][v]
            drift == x.value * Quanta - x.quantity * x.average
            received == {m \in LedgerOf(b, v) : m.quantity > 0}
            issued == LedgerOf(b, v) \ received
            bound == TotalQuantity(received) + Quanta * Cardinality(issued)
        IN  -bound <= 2 * drift /\ 2 * drift <= bound

=============================================================================
