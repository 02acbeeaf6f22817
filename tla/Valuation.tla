------------------------------ MODULE Valuation ------------------------------
(***************************************************************************)
(* Moving-average valuation of one variant at one branch: the arithmetic   *)
(* of _apply_inbound, _apply_outbound and _apply_outbound_at_cost in       *)
(* src/apps/inventory/services.py.                                         *)
(*                                                                         *)
(* Decimals are integers of their quantum: a quantity counts 0.001 units,  *)
(* a cost and a value 0.000001 ETB, so that a unit is Quanta = 1000        *)
(* quantities.  Rounding is ROUND_HALF_UP of nonnegative numbers.          *)
(***************************************************************************)
EXTENDS Integers

CONSTANT Quanta    \* quantity quanta in one stock unit

ASSUME QuantaAssumption == Quanta \in Nat \ {0}

\* A row of InventoryBalance; a variant without a row holds nothing.
Balance == [quantity : Nat, value : Nat, average : Nat]
Nothing == [quantity |-> 0, value |-> 0, average |-> 0]

\* _value(quantity * cost) and _cost(value / quantity)
Priced(quantity, cost) == (2 * quantity * cost + Quanta) \div (2 * Quanta)
Averaged(value, quantity) == (2 * value * Quanta + quantity) \div (2 * quantity)

InboundAtLastCost(x, quantity, cost) ==
    [quantity |-> x.quantity + quantity, value |-> x.value + Priced(quantity, cost),
     average |-> cost]
Inbound(x, quantity, cost) ==
    LET value == x.value + Priced(quantity, cost)
    IN  [quantity |-> x.quantity + quantity, value |-> value,
         average |-> Averaged(value, x.quantity + quantity)]

Leaves(x, quantity) == quantity <= x.quantity

OutboundKeepingValue(x, quantity) ==
    LET left == x.value - Priced(quantity, x.average)
        value == IF left < 0 THEN 0 ELSE left
    IN  [quantity |-> x.quantity - quantity, value |-> value,
         average |-> IF value = 0 THEN 0 ELSE x.average]
\* The last units take the whole value with them, whatever the average says.
Outbound(x, quantity) ==
    LET left == x.value - Priced(quantity, x.average)
        value == IF quantity = x.quantity \/ left < 0 THEN 0 ELSE left
    IN  [quantity |-> x.quantity - quantity, value |-> value,
         average |-> IF value = 0 THEN 0 ELSE x.average]

LeavesAtCost(x, quantity, cost) ==
    /\ Leaves(x, quantity)
    /\ Priced(quantity, cost) <= x.value
    /\ quantity = x.quantity => Priced(quantity, cost) = x.value

OutboundAtCost(x, quantity, cost) ==
    LET value == x.value - Priced(quantity, cost)
    IN  [quantity |-> x.quantity - quantity, value |-> value,
         average |-> IF value = 0 THEN 0 ELSE Averaged(value, x.quantity - quantity)]

=============================================================================
