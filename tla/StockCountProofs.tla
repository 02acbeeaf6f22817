--------------------------- MODULE StockCountProofs ---------------------------
(***************************************************************************)
(* Theorems about StockCount, for every set of branches, variants, keys,   *)
(* sources and counts and every bound.                                     *)
(***************************************************************************)
EXTENDS StockCount, SumTheorems, TLAPS

\* Prices and averages of nonnegative numbers are nonnegative.
LEMMA PricedIsNat ==
    ASSUME NEW q \in Nat, NEW c \in Nat
    PROVE  Priced(q, c) \in Nat
<1>1. q * c \in Nat
  OBVIOUS
<1>2. 2 * q * c + Quanta \in Nat /\ 2 * Quanta \in Nat \ {0}
  BY <1>1, QuantaAssumption
<1> QED
  BY <1>2 DEF Priced

LEMMA AveragedIsNat ==
    ASSUME NEW value \in Nat, NEW q \in Nat \ {0}
    PROVE  Averaged(value, q) \in Nat
<1>1. value * Quanta \in Nat
  BY QuantaAssumption
<1>2. 2 * value * Quanta + q \in Nat /\ 2 * q \in Nat \ {0}
  BY <1>1, QuantaAssumption
<1> QED
  BY <1>2 DEF Averaged

\* The three ways stock moves keep a balance a balance, and leave nothing of a
\* value where no quantity is left.
LEMMA InboundBalance ==
    ASSUME NEW x \in Balance, NEW q \in Nat \ {0}, NEW c \in Nat
    PROVE  Inbound(x, q, c) \in Balance /\ Inbound(x, q, c).quantity = x.quantity + q
<1>1. Priced(q, c) \in Nat
  BY PricedIsNat
<1>2. x.value + Priced(q, c) \in Nat /\ x.quantity + q \in Nat \ {0}
  BY <1>1 DEF Balance
<1>3. Averaged(x.value + Priced(q, c), x.quantity + q) \in Nat
  BY <1>2, AveragedIsNat
<1> QED
  BY <1>2, <1>3 DEF Inbound, Balance

LEMMA OutboundBalance ==
    ASSUME NEW x \in Balance, NEW q \in Nat \ {0}, Leaves(x, q)
    PROVE  /\ Outbound(x, q) \in Balance
           /\ Outbound(x, q).quantity = x.quantity - q
           /\ Outbound(x, q).quantity = 0 => Outbound(x, q) = Nothing
<1>1. Priced(q, x.average) \in Nat
  BY PricedIsNat DEF Balance
<1> DEFINE left == x.value - Priced(q, x.average)
           value == IF q = x.quantity \/ left < 0 THEN 0 ELSE left
<1>2. value \in Nat
  BY <1>1 DEF Balance
<1>3. x.quantity - q \in Nat
  BY DEF Balance, Leaves
<1>4. Outbound(x, q) = [quantity |-> x.quantity - q, value |-> value,
                        average |-> IF value = 0 THEN 0 ELSE x.average]
  BY DEF Outbound
<1>5. q = x.quantity => value = 0
  OBVIOUS
<1> HIDE DEF value
<1> QED
  BY <1>2, <1>3, <1>4, <1>5 DEF Balance, Nothing

LEMMA OutboundAtCostBalance ==
    ASSUME NEW x \in Balance, NEW q \in Nat \ {0}, NEW c \in Nat, LeavesAtCost(x, q, c)
    PROVE  /\ OutboundAtCost(x, q, c) \in Balance
           /\ OutboundAtCost(x, q, c).quantity = x.quantity - q
           /\ OutboundAtCost(x, q, c).quantity = 0 => OutboundAtCost(x, q, c) = Nothing
<1>1. Priced(q, c) \in Nat
  BY PricedIsNat
<1> DEFINE value == x.value - Priced(q, c)
<1>2. value \in Nat /\ x.quantity - q \in Nat
  BY <1>1 DEF Balance, LeavesAtCost, Leaves
<1>3. q = x.quantity => value = 0
  BY <1>1 DEF LeavesAtCost, Balance
<1>4. OutboundAtCost(x, q, c) =
          [quantity |-> x.quantity - q, value |-> value,
           average |-> IF value = 0 THEN 0 ELSE Averaged(value, x.quantity - q)]
  BY DEF OutboundAtCost
<1> HIDE DEF value
<1>5. value # 0 => x.quantity - q \in Nat \ {0}
  BY <1>2, <1>3 DEF Balance
<1>6. value # 0 => Averaged(value, x.quantity - q) \in Nat
  BY <1>2, <1>5, AveragedIsNat
<1> QED
  BY <1>2, <1>3, <1>4, <1>6 DEF Balance, Nothing

\* A line of a call: what Post takes for a variant.
LineSet == [type : MovementTypes, quantity : Nat \ {0}, cost : Nat]

LEMMA AfterBalance ==
    ASSUME NEW x \in Balance, NEW line \in LineSet, Fits(x, line)
    PROVE  /\ After(x, line) \in Balance
           /\ After(x, line).quantity = x.quantity + QuantityDelta(line)
           /\ After(x, line).quantity = 0 => After(x, line) = Nothing
           /\ QuantityDelta(line) \in Int
           /\ ValueDelta(x, line) \in Int
<1>0. /\ line.quantity \in Nat \ {0} /\ line.cost \in Nat
      /\ line.type \in InboundTypes \cup AverageTypes \cup ExactTypes
      /\ InboundTypes \cap AverageTypes = {}
  BY DEF LineSet, MovementTypes, InboundTypes, AverageTypes
<1>1. CASE line.type \in InboundTypes
  <2>1. After(x, line) = Inbound(x, line.quantity, line.cost)
    BY <1>1 DEF After
  <2>2. /\ Inbound(x, line.quantity, line.cost) \in Balance
        /\ Inbound(x, line.quantity, line.cost).quantity = x.quantity + line.quantity
        /\ Priced(line.quantity, line.cost) \in Nat
    BY <1>0, InboundBalance, PricedIsNat
  <2> QED
    BY <1>0, <1>1, <2>1, <2>2 DEF QuantityDelta, ValueDelta, Balance
<1>2. CASE line.type \in AverageTypes
  <2>1. line.type \notin InboundTypes /\ Leaves(x, line.quantity)
    BY <1>0, <1>2 DEF Fits
  <2>2. After(x, line) = Outbound(x, line.quantity)
    BY <1>2, <2>1 DEF After
  <2>3. /\ Outbound(x, line.quantity) \in Balance
        /\ Outbound(x, line.quantity).quantity = x.quantity - line.quantity
        /\ Outbound(x, line.quantity).quantity = 0 => Outbound(x, line.quantity) = Nothing
    BY <1>0, <2>1, OutboundBalance
  <2> QED
    BY <1>0, <1>2, <2>1, <2>2, <2>3 DEF QuantityDelta, ValueDelta, Balance
<1>3. CASE line.type \in ExactTypes
  <2>1. /\ line.type \notin InboundTypes /\ line.type \notin AverageTypes
        /\ LeavesAtCost(x, line.quantity, line.cost)
    BY <1>3 DEF Fits, InboundTypes, AverageTypes, ExactTypes
  <2>2. After(x, line) = OutboundAtCost(x, line.quantity, line.cost)
    BY <2>1 DEF After
  <2>3. /\ OutboundAtCost(x, line.quantity, line.cost) \in Balance
        /\ OutboundAtCost(x, line.quantity, line.cost).quantity = x.quantity - line.quantity
        /\ OutboundAtCost(x, line.quantity, line.cost).quantity = 0
               => OutboundAtCost(x, line.quantity, line.cost) = Nothing
        /\ Priced(line.quantity, line.cost) \in Nat
    BY <1>0, <2>1, OutboundAtCostBalance, PricedIsNat
  <2> QED
    BY <1>0, <2>1, <2>2, <2>3 DEF QuantityDelta, ValueDelta, Balance
<1> QED
  BY <1>0, <1>1, <1>2, <1>3

-----------------------------------------------------------------------------
(* Rounding.                                                               *)

LEMMA DivisionBounds ==
    ASSUME NEW a \in Nat, NEW d \in Nat \ {0}
    PROVE  /\ a \div d \in Nat
           /\ d * (a \div d) <= a
           /\ a < d * (a \div d) + d
OBVIOUS

\* A rounded value or cost is off by half a quantum at most.
LEMMA PricedIsClose ==
    ASSUME NEW q \in Nat, NEW c \in Nat
    PROVE  /\ 2 * (Priced(q, c) * Quanta - q * c) <= Quanta
           /\ -Quanta <= 2 * (Priced(q, c) * Quanta - q * c)
<1> DEFINE p == Priced(q, c)
           a == 2 * (q * c) + Quanta
<1>1. Quanta \in Nat \ {0} /\ q * c \in Nat
  BY QuantaAssumption
<1>2. 2 * q * c + Quanta = a
  BY <1>1
<1>3. a \in Nat /\ 2 * Quanta \in Nat \ {0} /\ p = a \div (2 * Quanta)
  BY <1>1, <1>2 DEF Priced
<1> HIDE DEF p, a
<1>4. p \in Nat /\ (2 * Quanta) * p <= a /\ a < (2 * Quanta) * p + 2 * Quanta
  BY <1>3, DivisionBounds
<1>5. p * Quanta \in Int /\ (2 * Quanta) * p = 2 * (p * Quanta)
  BY <1>1, <1>4
<1> QED BY <1>1, <1>4, <1>5 DEF p, a

LEMMA AveragedIsClose ==
    ASSUME NEW value \in Nat, NEW q \in Nat \ {0}
    PROVE  /\ 2 * (value * Quanta - q * Averaged(value, q)) <= q
           /\ -q <= 2 * (value * Quanta - q * Averaged(value, q))
<1> DEFINE average == Averaged(value, q)
           a == 2 * (value * Quanta) + q
<1>1. Quanta \in Nat \ {0} /\ value * Quanta \in Nat
  BY QuantaAssumption
<1>2. 2 * value * Quanta + q = a
  BY <1>1
<1>3. a \in Nat /\ 2 * q \in Nat \ {0} /\ average = a \div (2 * q)
  BY <1>1, <1>2 DEF Averaged
<1> HIDE DEF average, a
<1>4. average \in Nat /\ (2 * q) * average <= a /\ a < (2 * q) * average + 2 * q
  BY <1>3, DivisionBounds
<1>5. q * average \in Int /\ (2 * q) * average = 2 * (q * average)
  BY <1>1, <1>4
<1> QED BY <1>1, <1>4, <1>5 DEF average, a

\* How far the value of a balance is from what its average cost explains.
Drift(x) == x.value * Quanta - x.quantity * x.average

\* A new average starts again at half a quantum of cost for each quantity.
LEMMA DriftOfAverage ==
    ASSUME NEW line \in LineSet, NEW x \in Balance, Fits(x, line),
           line.type \in InboundTypes \cup ExactTypes
    PROVE  LET y == After(x, line) IN -y.quantity <= 2 * Drift(y) /\ 2 * Drift(y) <= y.quantity
<1>0. /\ line.quantity \in Nat \ {0} /\ line.cost \in Nat /\ line.type \notin AverageTypes
      /\ x.quantity \in Nat /\ x.value \in Nat /\ Priced(line.quantity, line.cost) \in Nat
  BY PricedIsNat DEF LineSet, Balance, InboundTypes, AverageTypes, ExactTypes
<1>1. ASSUME NEW value \in Nat, NEW quantity \in Nat \ {0}, NEW y,
             y = [quantity |-> quantity, value |-> value, average |-> Averaged(value, quantity)]
      PROVE  -y.quantity <= 2 * Drift(y) /\ 2 * Drift(y) <= y.quantity
  BY <1>1, AveragedIsClose DEF Drift
<1>2. CASE line.type \in InboundTypes
  <2> DEFINE value == x.value + Priced(line.quantity, line.cost)
             quantity == x.quantity + line.quantity
  <2>1. value \in Nat /\ quantity \in Nat \ {0}
    BY <1>0
  <2>2. After(x, line) = [quantity |-> quantity, value |-> value,
                          average |-> Averaged(value, quantity)]
    BY <1>2 DEF After, Inbound
  <2> HIDE DEF value, quantity
  <2> QED BY <1>1, <2>1, <2>2
<1>3. CASE line.type \in ExactTypes
  <2> DEFINE value == x.value - Priced(line.quantity, line.cost)
             quantity == x.quantity - line.quantity
  <2>1. LeavesAtCost(x, line.quantity, line.cost) /\ line.type \notin InboundTypes
    BY <1>3 DEF Fits, InboundTypes, ExactTypes
  <2>2. value \in Nat /\ quantity \in Nat /\ (quantity = 0 => value = 0)
    BY <1>0, <2>1 DEF LeavesAtCost, Leaves
  <2>3. After(x, line) = [quantity |-> quantity, value |-> value,
                          average |-> IF value = 0 THEN 0 ELSE Averaged(value, quantity)]
    BY <1>0, <2>1 DEF After, OutboundAtCost
  <2> HIDE DEF value, quantity
  <2>4. CASE value = 0
    <3>1. /\ After(x, line).quantity = quantity /\ After(x, line).value = 0
          /\ After(x, line).average = 0
      BY <2>3, <2>4
    <3>2. Drift(After(x, line)) = 0
      BY <2>2, <3>1, QuantaAssumption DEF Drift
    <3> QED BY <2>2, <3>1, <3>2
  <2>5. CASE value # 0
    BY <1>1, <2>2, <2>3, <2>5
  <2> QED BY <2>4, <2>5
<1> QED BY <1>2, <1>3

\* An issue at the average adds half a quantum of value.
LEMMA DriftOfIssue ==
    ASSUME NEW line \in LineSet, NEW x \in Balance, Fits(x, line), line.type \in AverageTypes,
           NEW bound \in Nat, -bound <= 2 * Drift(x), 2 * Drift(x) <= bound
    PROVE  LET y == After(x, line)
           IN  -(bound + Quanta) <= 2 * Drift(y) /\ 2 * Drift(y) <= bound + Quanta
<1> DEFINE q == line.quantity
           p == Priced(q, x.average)
           value == IF q = x.quantity \/ x.value - p < 0 THEN 0 ELSE x.value - p
           y == After(x, line)
<1>1. /\ q \in Nat \ {0} /\ x.average \in Nat /\ x.quantity \in Nat /\ x.value \in Nat
      /\ Quanta \in Nat \ {0} /\ line.type \notin InboundTypes /\ q <= x.quantity
  BY QuantaAssumption DEF LineSet, Balance, Fits, Leaves, InboundTypes, AverageTypes
<1>2. p \in Nat /\ 2 * (p * Quanta - q * x.average) <= Quanta
      /\ -Quanta <= 2 * (p * Quanta - q * x.average)
  BY <1>1, PricedIsNat, PricedIsClose
<1>3. y = [quantity |-> x.quantity - q, value |-> value,
           average |-> IF value = 0 THEN 0 ELSE x.average]
  BY <1>1 DEF After, Outbound
<1> HIDE DEF y, p, q
<1>4. CASE value = 0
  <2>1. y.value = 0 /\ y.average = 0 /\ y.quantity = x.quantity - q
    BY <1>3, <1>4
  <2>2. Drift(y) = 0
    BY <1>1, <2>1 DEF Drift
  <2> QED BY <1>1, <2>2 DEF y
<1>5. CASE value # 0
  <2>1. y.value = x.value - p /\ y.average = x.average /\ y.quantity = x.quantity - q
    BY <1>3, <1>5
  <2>2. Drift(y) = (x.value - p) * Quanta - (x.quantity - q) * x.average
    BY <2>1 DEF Drift
  <2>3. (x.value - p) * Quanta = x.value * Quanta - p * Quanta
        /\ (x.quantity - q) * x.average = x.quantity * x.average - q * x.average
        /\ x.value * Quanta \in Int /\ p * Quanta \in Int
        /\ x.quantity * x.average \in Int /\ q * x.average \in Int
    BY <1>1, <1>2
  <2>4. Drift(y) = Drift(x) - (p * Quanta - q * x.average) /\ Drift(x) \in Int
    BY <2>2, <2>3 DEF Drift
  <2> QED BY <1>1, <1>2, <2>3, <2>4 DEF y
<1> QED BY <1>4, <1>5

-----------------------------------------------------------------------------
(* The ledger of a balance.                                                *)

Received(rows) == {m \in rows : m.quantity > 0}

LEMMA RowsAddUp ==
    ASSUME NEW rows, IsFiniteSet(rows), \A m \in rows : m.quantity \in Int /\ m.value \in Int,
           NEW new, new \notin rows, new.quantity \in Int, new.value \in Int
    PROVE  /\ TotalQuantity(rows) \in Int /\ TotalValue(rows) \in Int
           /\ TotalQuantity(rows \cup {new}) = TotalQuantity(rows) + new.quantity
           /\ TotalValue(rows \cup {new}) = TotalValue(rows) + new.value
<1> DEFINE all == rows \cup {new}
           q == [m \in rows |-> m.quantity]
           w == [m \in rows |-> m.value]
           qq == [m \in all |-> m.quantity]
           ww == [m \in all |-> m.value]
<1>1. /\ IntegerSum(q) /\ DOMAIN q = rows /\ IntegerSum(w) /\ DOMAIN w = rows
      /\ DOMAIN qq = rows \cup {new} /\ DOMAIN ww = rows \cup {new}
      /\ qq[new] = new.quantity /\ ww[new] = new.value
      /\ \A m \in rows : qq[m] = q[m] /\ ww[m] = w[m]
  BY DEF IntegerSum
<1>2. /\ TotalQuantity(rows) = SumFunction(q) /\ TotalValue(rows) = SumFunction(w)
      /\ TotalQuantity(all) = SumFunction(qq) /\ TotalValue(all) = SumFunction(ww)
  BY DEF TotalQuantity, TotalValue
<1> HIDE DEF q, w, qq, ww
<1>3. /\ SumFunction(qq) = SumFunction(q) + qq[new]
      /\ SumFunction(ww) = SumFunction(w) + ww[new]
  <2>1. /\ new \notin DOMAIN q /\ DOMAIN qq = DOMAIN q \cup {new} /\ qq[new] \in Int
        /\ \A m \in DOMAIN q : qq[m] = q[m]
    BY <1>1
  <2>2. /\ new \notin DOMAIN w /\ DOMAIN ww = DOMAIN w \cup {new} /\ ww[new] \in Int
        /\ \A m \in DOMAIN w : ww[m] = w[m]
    BY <1>1
  <2>3. IntegerSum(q) /\ IntegerSum(w)
    BY <1>1
  <2>4. SumFunction(qq) = SumFunction(q) + qq[new]
    BY <2>1, <2>3, SumFunctionAdd
  <2> QED BY <2>2, <2>3, <2>4, SumFunctionAdd
<1>4. SumFunction(q) \in Int /\ SumFunction(w) \in Int
  BY <1>1, SumFunctionType
<1>5. /\ TotalQuantity(all) = TotalQuantity(rows) + new.quantity
      /\ TotalValue(all) = TotalValue(rows) + new.value
  <2> HIDE DEF all
  <2> QED BY <1>1, <1>2, <1>3
<1> QED BY <1>2, <1>4, <1>5

LEMMA NoRows == TotalQuantity({}) = 0 /\ TotalValue({}) = 0
<1>1. DOMAIN [m \in {} |-> m.quantity] = {} /\ DOMAIN [m \in {} |-> m.value] = {}
  OBVIOUS
<1> QED BY <1>1, SumFunctionOfNothing DEF TotalQuantity, TotalValue

\* What the rows of a branch and a variant say of its balance.
Explains(rows, x) ==
    LET bound == TotalQuantity(Received(rows)) + Quanta * Cardinality(rows \ Received(rows))
    IN  /\ IsFiniteSet(rows)
        /\ \A m \in rows : m.quantity \in Int /\ m.value \in Int
        /\ x.quantity = TotalQuantity(rows)
        /\ x.value = TotalValue(rows)
        /\ x.quantity <= TotalQuantity(Received(rows))
        /\ -bound <= 2 * Drift(x)
        /\ 2 * Drift(x) <= bound

LEMMA AfterValue ==
    ASSUME NEW x \in Balance, NEW line \in LineSet, Fits(x, line)
    PROVE  After(x, line).value = x.value + ValueDelta(x, line)
<1>0. /\ line.quantity \in Nat \ {0} /\ line.cost \in Nat
      /\ line.type \in InboundTypes \cup AverageTypes \cup ExactTypes
      /\ x.value \in Nat /\ Priced(line.quantity, line.cost) \in Nat
  BY PricedIsNat DEF LineSet, MovementTypes, Balance
<1>1. CASE line.type \in InboundTypes
  BY <1>0, <1>1 DEF After, Inbound, ValueDelta
<1>2. CASE line.type \in AverageTypes
  <2>1. line.type \notin InboundTypes /\ After(x, line) \in Balance
    BY <1>2, AfterBalance DEF InboundTypes, AverageTypes
  <2>2. After(x, line).value \in Nat
    BY <2>1 DEF Balance
  <2> QED BY <1>0, <1>2, <2>1, <2>2 DEF ValueDelta
<1>3. CASE line.type \in ExactTypes
  <2>1. line.type \notin InboundTypes /\ line.type \notin AverageTypes
    BY <1>3 DEF InboundTypes, AverageTypes, ExactTypes
  <2> QED BY <1>0, <2>1 DEF After, OutboundAtCost, ValueDelta
<1> QED BY <1>0, <1>1, <1>2, <1>3

\* A movement explains what its line does to the balance.
LEMMA MovementExplains ==
    ASSUME NEW rows, NEW x \in Balance, Explains(rows, x), NEW line \in LineSet, Fits(x, line),
           NEW m, m \notin rows, m.quantity = QuantityDelta(line), m.value = ValueDelta(x, line)
    PROVE  Explains(rows \cup {m}, After(x, line))
<1> DEFINE all == rows \cup {m}
           y == After(x, line)
           in == Received(rows)
           out == rows \ in
           bound == TotalQuantity(in) + Quanta * Cardinality(out)
           allIn == Received(all)
           allOut == all \ allIn
           allBound == TotalQuantity(allIn) + Quanta * Cardinality(allOut)
<1>1. /\ y \in Balance /\ y.quantity = x.quantity + m.quantity /\ y.value = x.value + m.value
      /\ m.quantity \in Int /\ m.value \in Int
  BY AfterBalance, AfterValue
<1>2. /\ IsFiniteSet(rows) /\ \A n \in rows : n.quantity \in Int /\ n.value \in Int
      /\ x.quantity = TotalQuantity(rows) /\ x.value = TotalValue(rows)
      /\ x.quantity <= TotalQuantity(in) /\ -bound <= 2 * Drift(x) /\ 2 * Drift(x) <= bound
  BY DEF Explains
<1>3. IsFiniteSet(all) /\ \A n \in all : n.quantity \in Int /\ n.value \in Int
  BY <1>1, <1>2, FS_AddElement
<1>4. y.quantity = TotalQuantity(all) /\ y.value = TotalValue(all)
  BY <1>1, <1>2, RowsAddUp
<1>5. /\ IsFiniteSet(in) /\ IsFiniteSet(out) /\ in \subseteq rows /\ m \notin in /\ m \notin out
      /\ \A n \in in : n.quantity \in Int /\ n.value \in Int
  BY <1>2, FS_Subset DEF Received
<1>6. /\ line.quantity \in Nat \ {0} /\ Quanta \in Nat \ {0} /\ x.quantity \in Nat
      /\ y.quantity \in Nat /\ Cardinality(out) \in Nat /\ TotalQuantity(in) \in Int
  BY <1>1, <1>5, RowsAddUp, FS_CardinalityType, QuantaAssumption DEF LineSet, Balance
<1>7. Quanta * Cardinality(out) \in Nat /\ bound \in Nat
  BY <1>2, <1>6
<1>8. CASE line.type \in InboundTypes
  <2>1. m.quantity = line.quantity /\ m.quantity > 0
    BY <1>6, <1>8 DEF QuantityDelta
  <2>2. allIn = in \cup {m} /\ allOut = out
    BY <1>2, <2>1 DEF Received
  <2> HIDE DEF in, out, allIn, allOut, all, y
  <2>3. TotalQuantity(allIn) = TotalQuantity(in) + m.quantity
    BY <1>1, <1>5, <2>2, RowsAddUp
  <2>4. allBound \in Nat /\ y.quantity <= TotalQuantity(allIn) /\ TotalQuantity(allIn) <= allBound
    BY <1>1, <1>2, <1>6, <1>7, <2>1, <2>2, <2>3
  <2>5. -y.quantity <= 2 * Drift(y) /\ 2 * Drift(y) <= y.quantity
    BY <1>8, DriftOfAverage DEF y
  <2>6. Drift(y) \in Int
    <3>1. y.value \in Nat /\ y.average \in Nat
      BY <1>1 DEF Balance
    <3>2. y.value * Quanta \in Int /\ y.quantity * y.average \in Int
      BY <1>6, <3>1
    <3> QED BY <3>2 DEF Drift
  <2>7. -allBound <= 2 * Drift(y) /\ 2 * Drift(y) <= allBound
    <3> HIDE DEF allBound
    <3>1. TotalQuantity(allIn) \in Int
      BY <1>1, <1>6, <2>3
    <3> QED BY <1>6, <2>4, <2>5, <2>6, <3>1
  <2> QED BY <1>3, <1>4, <2>4, <2>7 DEF Explains, all, y, allIn, allOut
<1>9. CASE line.type \notin InboundTypes
  <2>1. m.quantity = -line.quantity /\ ~(m.quantity > 0)
    BY <1>6, <1>9 DEF QuantityDelta
  <2>2. allIn = in /\ allOut = out \cup {m}
    BY <1>2, <2>1 DEF Received
  <2>3. Cardinality(allOut) = Cardinality(out) + 1
    BY <1>5, <2>2, FS_AddElement
  <2> HIDE DEF in, out, allIn, allOut, all, y
  <2>4. Quanta * Cardinality(allOut) = Quanta * Cardinality(out) + Quanta
    BY <1>6, <2>3
  <2>5. allBound = bound + Quanta /\ y.quantity <= TotalQuantity(allIn)
    BY <1>1, <1>2, <1>6, <1>7, <2>1, <2>2, <2>4
  <2>6. -allBound <= 2 * Drift(y) /\ 2 * Drift(y) <= allBound
    <3>1. CASE line.type \in AverageTypes
      <4> HIDE DEF bound, allBound
      <4>1. -(bound + Quanta) <= 2 * Drift(y) /\ 2 * Drift(y) <= bound + Quanta
        BY <1>2, <1>7, <3>1, DriftOfIssue DEF y
      <4> QED BY <2>5, <4>1
    <3>2. CASE line.type \in ExactTypes
      <4>1. -y.quantity <= 2 * Drift(y) /\ 2 * Drift(y) <= y.quantity
        BY <3>2, DriftOfAverage DEF y
      <4>2. Drift(y) \in Int
        <5>1. y.value \in Nat /\ y.average \in Nat
          BY <1>1 DEF Balance
        <5>2. y.value * Quanta \in Int /\ y.quantity * y.average \in Int
          BY <1>6, <5>1
        <5> QED BY <5>2 DEF Drift
      <4>3. y.quantity <= allBound /\ allBound \in Int
        BY <1>6, <1>7, <2>2, <2>4, <2>5
      <4> HIDE DEF allBound
      <4> QED BY <1>6, <4>1, <4>2, <4>3
    <3>3. line.type \in AverageTypes \cup ExactTypes
      BY <1>9 DEF LineSet, MovementTypes
    <3> QED BY <3>1, <3>2, <3>3
  <2> QED BY <1>3, <1>4, <2>5, <2>6 DEF Explains, all, y, allIn, allOut
<1> QED BY <1>8, <1>9

-----------------------------------------------------------------------------
(* One call posts lines to one branch.                                     *)

LinesOK(lines) == DOMAIN lines \subseteq Variants /\ \A v \in DOMAIN lines : lines[v] \in LineSet

LEMMA PostBalances ==
    ASSUME InventoryTypeOK, NEW b \in Branches, NEW source \in Sources \cup Keys \cup Counts,
           NEW lines, LinesOK(lines), Post(b, source, lines)
    PROVE  /\ stock' \in [Branches -> [Variants -> Balance]]
           /\ movements' \subseteq MovementRow
           /\ \A d \in Branches : d # b => stock'[d] = stock[d]
           /\ \A v \in Variants : v \notin DOMAIN lines => stock'[b][v] = stock[b][v]
           /\ \A v \in DOMAIN lines :
                  /\ stock'[b][v].quantity = stock[b][v].quantity + QuantityDelta(lines[v])
                  /\ stock'[b][v].quantity = 0 => stock'[b][v] = Nothing
<1> DEFINE new == [v \in Variants |-> IF v \in DOMAIN lines
                                      THEN After(stock[b][v], lines[v]) ELSE stock[b][v]]
<1>1. stock' = [stock EXCEPT ![b] = new]
  BY DEF Post
<1>2. \A v \in Variants : stock[b][v] \in Balance
  BY DEF InventoryTypeOK
<1>3. \A v \in DOMAIN lines :
          /\ v \in Variants
          /\ After(stock[b][v], lines[v]) \in Balance
          /\ After(stock[b][v], lines[v]).quantity
                 = stock[b][v].quantity + QuantityDelta(lines[v])
          /\ After(stock[b][v], lines[v]).quantity = 0
                 => After(stock[b][v], lines[v]) = Nothing
          /\ QuantityDelta(lines[v]) \in Int
          /\ ValueDelta(stock[b][v], lines[v]) \in Int
          /\ lines[v].type \in MovementTypes
  <2> TAKE v \in DOMAIN lines
  <2>1. v \in Variants /\ lines[v] \in LineSet /\ Fits(stock[b][v], lines[v])
    BY DEF LinesOK, Post
  <2> QED
    BY <1>2, <2>1, AfterBalance DEF LineSet
<1>4. new \in [Variants -> Balance]
  BY <1>2, <1>3
<1>5. stock' \in [Branches -> [Variants -> Balance]] /\ stock'[b] = new
  BY <1>1, <1>4 DEF InventoryTypeOK
<1>6. \A d \in Branches : d # b => stock'[d] = stock[d]
  BY <1>1 DEF InventoryTypeOK
<1>7. movements' \subseteq MovementRow
  <2> DEFINE Row(v) ==
          [branch |-> b, variant |-> v, type |-> lines[v].type, source |-> source,
           quantity |-> QuantityDelta(lines[v]), value |-> ValueDelta(stock[b][v], lines[v])]
  <2>1. \A v \in DOMAIN lines : Row(v) \in MovementRow
    BY <1>3 DEF MovementRow
  <2>2. movements' = movements \cup {Row(v) : v \in DOMAIN lines}
    BY DEF Post
  <2> HIDE DEF Row
  <2> QED
    BY <2>1, <2>2 DEF InventoryTypeOK
<1>8. \A v \in Variants : v \notin DOMAIN lines => stock'[b][v] = stock[b][v]
  BY <1>5
<1>9. \A v \in DOMAIN lines :
          /\ stock'[b][v].quantity = stock[b][v].quantity + QuantityDelta(lines[v])
          /\ stock'[b][v].quantity = 0 => stock'[b][v] = Nothing
  BY <1>3, <1>5
<1> QED
  BY <1>5, <1>6, <1>7, <1>8, <1>9

LEMMA TheOnly ==
    ASSUME NEW option, AtMostOne(option), option # {}
    PROVE  The(option) \in option /\ option = {The(option)}
BY DEF AtMostOne, The

\* The lines that approval and reversal post are lines.
LEMMA DifferenceLinesOK ==
    ASSUME TypeOK, NEW c \in Counts, NEW more \in MovementTypes, NEW less \in MovementTypes,
           \A v \in Differences(c) : review[c][v].variance # {} /\ review[c][v].cost # {}
    PROVE  /\ LinesOK(DifferenceLines(c, more, less))
           /\ DOMAIN DifferenceLines(c, more, less) = Differences(c)
<1>1. DOMAIN DifferenceLines(c, more, less) = Differences(c)
  BY DEF DifferenceLines
<1>2. Differences(c) \subseteq Variants
  BY DEF Differences, TypeOK
<1>3. ASSUME NEW v \in Differences(c)
      PROVE  DifferenceLines(c, more, less)[v] \in LineSet
  <2> DEFINE variance == The(review[c][v].variance)
             cost == The(review[c][v].cost)
  <2>1. review[c][v] \in ReviewRow /\ AtMostOne(review[c][v].variance)
        /\ AtMostOne(review[c][v].cost)
    BY <1>2 DEF TypeOK
  <2>2. variance \in Int /\ review[c][v].variance = {variance}
    BY <2>1, TheOnly DEF ReviewRow
  <2>3. cost \in Nat
    BY <2>1, TheOnly DEF ReviewRow
  <2>4. variance # 0
    BY <2>2 DEF Differences
  <2>5. DifferenceLines(c, more, less)[v] =
            IF variance > 0 THEN Line(more, variance, cost) ELSE Line(less, -variance, cost)
    BY DEF DifferenceLines
  <2> HIDE DEF variance, cost
  <2> QED
    BY <2>2, <2>3, <2>4, <2>5 DEF Line, LineSet
<1> QED
  BY <1>1, <1>2, <1>3 DEF LinesOK

-----------------------------------------------------------------------------
(* Type correctness.                                                       *)

LEMMA NothingIsBalance == Nothing \in Balance
BY DEF Nothing, Balance

LEMMA TypeInit == Init => TypeOK
BY NothingIsBalance
   DEF Init, InventoryInit, TypeOK, InventoryTypeOK, Started, ReviewRow, NotReviewed, AtMostOne

\* The columns of the counts, which only the count services write.
CountsOK ==
    /\ countStatus \in [Counts -> ActiveCounts \cup {"ABSENT", "APPROVED", "CANCELLED"}]
    /\ countBranch \in [Counts -> Branches \cup {"NOWHERE"}]
    /\ \A c \in Counts : Started(c) => countBranch[c] \in Branches
    /\ countLines \in [Counts -> SUBSET Variants]
    /\ snapshot \in [Counts -> [Variants -> Balance]]
SheetsOK ==
    /\ physical \in [Counts -> [Variants -> SUBSET Nat]]
    /\ review \in [Counts -> [Variants -> ReviewRow]]
    /\ \A c \in Counts, v \in Variants :
           /\ AtMostOne(physical[c][v])
           /\ AtMostOne(review[c][v].variance)
           /\ AtMostOne(review[c][v].cost)
KeysOK ==
    /\ countKeys \subseteq [key : CountKeys, op : {"START", "APPROVE", "REVERSE"}, count : Counts]
    /\ approvals \subseteq [count : Counts, key : CountKeys]
    /\ reversals \subseteq [count : Counts, key : CountKeys]

LEMMA TypeParts == TypeOK <=> InventoryTypeOK /\ CountsOK /\ SheetsOK /\ KeysOK
BY DEF TypeOK, CountsOK, SheetsOK, KeysOK

\* A source posts lines, an operation posts one line.
LEMMA SourceLinesOK ==
    ASSUME NEW source \in Sources, NEW lines \in SourceLines
    PROVE  LinesOK([v \in DOMAIN lines |->
               Line(SourceType[source], lines[v].quantity, lines[v].cost)])
<1>1. PICK S \in SUBSET Variants : lines \in [S -> [quantity : Quantities, cost : Costs]]
  BY DEF SourceLines
<1>2. \A v \in S : lines[v].quantity \in Nat \ {0} /\ lines[v].cost \in Nat
  BY <1>1, BoundsAssumption DEF Quantities, Costs
<1>3. SourceType[source] \in MovementTypes
  BY SourceTypeAssumption DEF SourceTypes, StaffTypes, MovementTypes, InboundTypes,
     AverageTypes, ExactTypes
<1> QED
  BY <1>1, <1>2, <1>3 DEF LinesOK, Line, LineSet

LEMMA OperationLinesOK ==
    ASSUME NEW v \in Variants, NEW op \in OperationTypes, NEW quantity \in Quantities,
           NEW cost \in Costs
    PROVE  LinesOK([x \in {v} |-> Line(op, quantity, cost)])
BY BoundsAssumption DEF LinesOK, Line, LineSet, OperationTypes, MovementTypes, InboundTypes,
   AverageTypes, Quantities, Costs

LEMMA TypeInventory == TypeOK /\ InventoryNext => InventoryTypeOK'
<1> SUFFICES ASSUME TypeOK, InventoryNext PROVE InventoryTypeOK'
  OBVIOUS
<1>0. InventoryTypeOK
  BY DEF TypeOK
<1>1. ASSUME NEW a \in Actors, NEW b \in Branches, NEW source \in Sources,
             NEW lines \in SourceLines, RecordSource(a, b, source, lines)
      PROVE  InventoryTypeOK'
  <2>1. Post(b, source, [v \in DOMAIN lines |->
               Line(SourceType[source], lines[v].quantity, lines[v].cost)])
        /\ UNCHANGED <<active, answers>>
    BY <1>1 DEF RecordSource
  <2>2. stock' \in [Branches -> [Variants -> Balance]] /\ movements' \subseteq MovementRow
    BY <1>0, <2>1, SourceLinesOK, PostBalances
  <2> QED
    BY <1>0, <2>1, <2>2 DEF InventoryTypeOK
<1>2. ASSUME NEW b \in Branches, NEW v \in Variants, NEW op \in OperationTypes, NEW k \in Keys,
             ReplayOperation(b, v, op, k)
      PROVE  InventoryTypeOK'
  BY <1>0, <1>2 DEF ReplayOperation, Answer, AnswerRow, InventoryTypeOK
<1>3. ASSUME NEW b \in Branches, NEW v \in Variants, NEW op \in OperationTypes, NEW k \in Keys,
             NEW quantity \in Quantities, NEW cost \in Costs,
             CreateOperation(b, v, op, quantity, cost, k)
      PROVE  InventoryTypeOK'
  <2>1. Post(b, k, [x \in {v} |-> Line(op, quantity, cost)]) /\ UNCHANGED active
        /\ Answer("OPERATION", k, op, b, v)
    BY <1>3 DEF CreateOperation
  <2>2. stock' \in [Branches -> [Variants -> Balance]] /\ movements' \subseteq MovementRow
    BY <1>0, <2>1, OperationLinesOK, PostBalances
  <2> QED
    BY <1>0, <2>1, <2>2 DEF Answer, AnswerRow, InventoryTypeOK
<1>4. ASSUME NEW v \in Variants, SetActive(v)
      PROVE  InventoryTypeOK'
  BY <1>0, <1>4 DEF SetActive, InventoryTypeOK
<1> QED
  BY <1>1, <1>2, <1>3, <1>4 DEF InventoryNext, PostOperation

LEMMA TypeStart ==
    ASSUME TypeOK, NEW b \in Branches, NEW k \in CountKeys, ReplayStart(b, k) \/ CreateCount(b, k)
    PROVE  TypeOK'
<1>0. InventoryTypeOK /\ CountsOK /\ SheetsOK /\ KeysOK
  BY TypeParts
<1>1. CASE ReplayStart(b, k)
  <2>1. PICK row \in countKeys : Answer("COUNT", k, "START", b, row.count)
    BY <1>1 DEF ReplayStart
  <2>2. UNCHANGED <<active, stock, movements, countBranch, countLines, snapshot, countKeys,
                    approvals, reversals, countStatus, physical, review>>
    BY <1>1 DEF ReplayStart, inventoryVars, worksheetVars, evidenceVars
  <2>3. InventoryTypeOK'
    BY <1>0, <2>1, <2>2 DEF InventoryTypeOK, KeysOK, Answer, AnswerRow
  <2>4. CountsOK' /\ SheetsOK' /\ KeysOK'
    BY <1>0, <2>2 DEF CountsOK, SheetsOK, KeysOK, Started
  <2> QED
    BY <2>3, <2>4, TypeParts DEF TypeOK, CountsOK, SheetsOK, KeysOK
<1>2. CASE CreateCount(b, k)
  <2>1. PICK c \in Counts :
            /\ countStatus' = [countStatus EXCEPT ![c] = "COUNTING"]
            /\ countBranch' = [countBranch EXCEPT ![c] = b]
            /\ countLines' = [countLines EXCEPT ![c] = Scope(b)]
            /\ snapshot' = [snapshot EXCEPT ![c] = stock[b]]
            /\ Claim(k, "START", c)
            /\ Answer("COUNT", k, "START", b, c)
    BY <1>2 DEF CreateCount, SetStatus
  <2>2. UNCHANGED <<active, stock, movements, approvals, reversals, physical, review>>
    BY <1>2 DEF CreateCount, inventoryVars
  <2>3. Scope(b) \in SUBSET Variants
    BY <1>0 DEF Scope, InventoryTypeOK
  <2>4. InventoryTypeOK'
    BY <1>0, <2>1, <2>2 DEF InventoryTypeOK, Answer, AnswerRow
  <2>5. CountsOK'
    <3>1. /\ countStatus' \in [Counts -> ActiveCounts \cup {"ABSENT", "APPROVED", "CANCELLED"}]
          /\ countBranch' \in [Counts -> Branches \cup {"NOWHERE"}]
      BY <1>0, <2>1 DEF CountsOK, ActiveCounts
    <3>2. \A d \in Counts : Started(d)' => countBranch'[d] \in Branches
      BY <1>0, <2>1 DEF CountsOK, Started
    <3>3. countLines' \in [Counts -> SUBSET Variants]
      BY <1>0, <2>1, <2>3 DEF CountsOK
    <3>4. snapshot' \in [Counts -> [Variants -> Balance]]
      BY <1>0, <2>1 DEF CountsOK, InventoryTypeOK
    <3> QED
      BY <3>1, <3>2, <3>3, <3>4 DEF CountsOK, Started
  <2>6. SheetsOK' /\ KeysOK'
    BY <1>0, <2>1, <2>2 DEF SheetsOK, KeysOK, Claim
  <2> QED
    BY <2>4, <2>5, <2>6, TypeParts DEF TypeOK, CountsOK, SheetsOK, KeysOK
<1> QED
  BY <1>1, <1>2

\* A step that moves a count along and leaves stock, keys and evidence alone.
LEMMA TypeWorksheet ==
    ASSUME TypeOK, SheetsOK', NEW c \in Counts, NEW status,
           \/ /\ Started(c)
              /\ status \in {"COUNTING", "SUBMITTED", "CANCELLED"}
              /\ SetStatus(c, status)
           \/ UNCHANGED countStatus,
           UNCHANGED <<inventoryVars, worksheetVars, evidenceVars, answers>>
    PROVE  TypeOK'
<1>0. InventoryTypeOK /\ CountsOK /\ KeysOK
  BY TypeParts
<1>1. InventoryTypeOK' /\ KeysOK'
  BY <1>0 DEF InventoryTypeOK, KeysOK, inventoryVars, evidenceVars
<1>2. CountsOK'
  BY <1>0 DEF CountsOK, worksheetVars, SetStatus, Started, ActiveCounts
<1> QED
  BY <1>1, <1>2 DEF TypeOK, CountsOK, SheetsOK, KeysOK

LEMMA TypeRecord ==
    ASSUME TypeOK, NEW a \in Actors, NEW c \in Counts, NEW v \in Variants,
           NEW quantity \in 0 .. MaxQuantity, NEW reasoned \in BOOLEAN,
           RecordStockCountQuantity(a, c, v, quantity, reasoned)
    PROVE  TypeOK'
<1>1. /\ physical' = [physical EXCEPT ![c] = [@ EXCEPT ![v] = {quantity}]]
      /\ review' = [review EXCEPT ![c] = [@ EXCEPT ![v] = NotReviewed]]
      /\ UNCHANGED <<inventoryVars, worksheetVars, evidenceVars, countStatus, answers>>
  BY DEF RecordStockCountQuantity
<1>2. quantity \in Nat /\ NotReviewed \in ReviewRow
      /\ AtMostOne({quantity}) /\ AtMostOne(NotReviewed.variance)
      /\ AtMostOne(NotReviewed.cost)
  BY BoundsAssumption DEF NotReviewed, ReviewRow, AtMostOne
<1>3. SheetsOK'
  BY <1>1, <1>2, TypeParts DEF SheetsOK, AtMostOne
<1> QED
  BY <1>1, <1>3, TypeWorksheet

LEMMA TypeSubmit ==
    ASSUME TypeOK, NEW a \in Actors, NEW c \in Counts, SubmitStockCount(a, c)
    PROVE  TypeOK'
<1>0. SheetsOK /\ CountsOK
  BY TypeParts
<1> DEFINE row(v) ==
        IF v \in countLines[c]
        THEN [variance |-> {Variance(c, v)}, explained |-> review[c][v].explained,
              cost |-> SnapshotCost(c, v), evidenced |-> review[c][v].evidenced]
        ELSE review[c][v]
<1>1. /\ review' = [review EXCEPT ![c] = [v \in Variants |-> row(v)]]
      /\ SetStatus(c, "SUBMITTED") /\ Started(c) /\ UNCHANGED physical
      /\ UNCHANGED <<inventoryVars, worksheetVars, evidenceVars, answers>>
  BY DEF SubmitStockCount, Started
<1>2. ASSUME NEW v \in Variants
      PROVE  /\ row(v) \in ReviewRow
             /\ AtMostOne(row(v).variance) /\ AtMostOne(row(v).cost)
  <2>1. CASE v \in countLines[c]
    <3>1. physical[c][v] # {} /\ physical[c][v] \subseteq Nat /\ AtMostOne(physical[c][v])
      BY <1>0, <2>1 DEF SubmitStockCount, SheetsOK
    <3>2. The(physical[c][v]) \in Nat
      BY <3>1, TheOnly
    <3>3. snapshot[c][v].quantity \in Nat /\ snapshot[c][v].average \in Nat
      BY <1>0 DEF CountsOK, Balance
    <3>4. Variance(c, v) \in Int
      BY <3>2, <3>3 DEF Variance
    <3>5. SnapshotCost(c, v) \subseteq Nat /\ AtMostOne(SnapshotCost(c, v))
      BY <3>3 DEF SnapshotCost, AtMostOne
    <3>6. review[c][v].explained \in BOOLEAN /\ review[c][v].evidenced \in BOOLEAN
      BY <1>0 DEF SheetsOK, ReviewRow
    <3> QED
      BY <2>1, <3>4, <3>5, <3>6 DEF ReviewRow, AtMostOne
  <2>2. CASE v \notin countLines[c]
    BY <1>0, <2>2 DEF SheetsOK
  <2> QED
    BY <2>1, <2>2
<1> HIDE DEF row
<1>3. SheetsOK'
  BY <1>0, <1>1, <1>2 DEF SheetsOK
<1> QED
  BY <1>1, <1>3, TypeWorksheet

LEMMA TypeReturnOrCancel ==
    ASSUME TypeOK, NEW a \in Actors, NEW c \in Counts,
           ReturnStockCountForRecount(a, c) \/ CancelStockCount(a, c)
    PROVE  TypeOK'
<1>0. SheetsOK /\ CountsOK
  BY TypeParts
<1>1. CASE ReturnStockCountForRecount(a, c)
  <2>1. /\ review' = [review EXCEPT ![c] = [v \in Variants |-> NotReviewed]]
        /\ SetStatus(c, "COUNTING") /\ Started(c) /\ UNCHANGED physical
        /\ UNCHANGED <<inventoryVars, worksheetVars, evidenceVars, answers>>
    BY <1>1 DEF ReturnStockCountForRecount, Cleared, Started
  <2>2. NotReviewed \in ReviewRow
        /\ AtMostOne(NotReviewed.variance) /\ AtMostOne(NotReviewed.cost)
    BY DEF NotReviewed, ReviewRow, AtMostOne
  <2>3. SheetsOK'
    BY <1>0, <2>1, <2>2 DEF SheetsOK
  <2> QED
    BY <2>1, <2>3, TypeWorksheet
<1>2. CASE CancelStockCount(a, c)
  <2>1. /\ SetStatus(c, "CANCELLED") /\ UNCHANGED <<physical, review>> /\ Holds(c)
        /\ UNCHANGED <<inventoryVars, worksheetVars, evidenceVars, answers>>
    BY <1>2 DEF CancelStockCount
  <2>2. Started(c)
    BY <2>1 DEF Holds, Freezing, Started, ActiveCounts
  <2>3. SheetsOK'
    BY <1>0, <2>1 DEF SheetsOK
  <2> QED
    BY <2>1, <2>2, <2>3, TypeWorksheet
<1> QED
  BY <1>1, <1>2

LEMMA TypeReview ==
    ASSUME TypeOK, NEW a \in Actors, NEW c \in Counts, NEW v \in Variants,
           NEW explained \in BOOLEAN, NEW cost \in Optional(Costs), NEW evidenced \in BOOLEAN,
           RecordStockCountReviewEvidence(a, c, v, explained, cost, evidenced)
    PROVE  TypeOK'
<1>0. SheetsOK /\ CountsOK
  BY TypeParts
<1> DEFINE variance == review[c][v].variance
           assigned == IF Exceptional(c, v) THEN cost
                       ELSE IF The(variance) = 0 THEN {} ELSE {snapshot[c][v].average}
           row == [variance |-> variance, explained |-> explained, evidenced |-> evidenced,
                   cost |-> assigned]
<1>1. /\ review' = [review EXCEPT ![c] = [@ EXCEPT ![v] = row]]
      /\ UNCHANGED <<physical, countStatus>>
      /\ UNCHANGED <<inventoryVars, worksheetVars, evidenceVars, answers>>
  BY DEF RecordStockCountReviewEvidence
<1>2. variance \subseteq Int /\ AtMostOne(variance)
  BY <1>0 DEF SheetsOK, ReviewRow
<1>3. snapshot[c][v].average \in Nat
  BY <1>0 DEF CountsOK, Balance
<1>4. cost \subseteq Nat /\ AtMostOne(cost)
  BY BoundsAssumption DEF Optional, Costs
<1>5. assigned \subseteq Nat /\ AtMostOne(assigned)
  BY <1>3, <1>4 DEF AtMostOne
<1> HIDE DEF variance, assigned
<1>6. row \in ReviewRow /\ AtMostOne(row.variance) /\ AtMostOne(row.cost)
  BY <1>2, <1>5 DEF ReviewRow
<1> HIDE DEF row
<1>7. SheetsOK'
  BY <1>0, <1>1, <1>6 DEF SheetsOK
<1> QED
  BY <1>1, <1>7, TypeWorksheet

LEMMA TypeApprove ==
    ASSUME TypeOK, NEW c \in Counts, NEW k \in CountKeys, Started(c),
           ReplayApproval(c, k) \/ CreateApproval(c, k)
    PROVE  TypeOK'
<1>0. InventoryTypeOK /\ CountsOK /\ SheetsOK /\ KeysOK /\ countBranch[c] \in Branches
  BY TypeParts DEF CountsOK
<1>1. CASE ReplayApproval(c, k)
  BY <1>0, <1>1 DEF ReplayApproval, Answer, AnswerRow, TypeOK, InventoryTypeOK, Started,
     inventoryVars, worksheetVars, evidenceVars
<1>2. CASE CreateApproval(c, k)
  <2> DEFINE lines == DifferenceLines(c, "STOCK_COUNT_ADJUSTMENT_IN",
                                         "STOCK_COUNT_ADJUSTMENT_OUT")
  <2>1. /\ Post(countBranch[c], c, lines)
        /\ \A v \in countLines[c] :
               /\ review[c][v].variance = {Variance(c, v)}
               /\ v \in Differences(c) => Reviewed(c, v)
        /\ approvals' = approvals \cup {[count |-> c, key |-> k]}
        /\ Claim(k, "APPROVE", c)
        /\ countStatus' = [countStatus EXCEPT ![c] = "APPROVED"]
        /\ Answer("COUNT", k, "APPROVE", countBranch[c], c)
        /\ UNCHANGED <<active, worksheetVars, reversals, physical, review>>
    BY <1>2 DEF CreateApproval, SetStatus
  <2>2. \A v \in Differences(c) : review[c][v].variance # {} /\ review[c][v].cost # {}
    BY <2>1 DEF Differences, Reviewed
  <2>3. LinesOK(lines)
    BY <2>2, DifferenceLinesOK DEF MovementTypes, InboundTypes, ExactTypes
  <2> HIDE DEF lines
  <2>4. stock' \in [Branches -> [Variants -> Balance]] /\ movements' \subseteq MovementRow
    BY <1>0, <2>1, <2>3, PostBalances
  <2>5. InventoryTypeOK'
    BY <1>0, <2>1, <2>4 DEF InventoryTypeOK, Answer, AnswerRow
  <2>6. CountsOK'
    BY <1>0, <2>1 DEF CountsOK, worksheetVars, Started, ActiveCounts
  <2>7. SheetsOK' /\ KeysOK'
    BY <1>0, <2>1 DEF SheetsOK, KeysOK, Claim
  <2> QED
    BY <2>5, <2>6, <2>7 DEF TypeOK, CountsOK, SheetsOK, KeysOK
<1> QED
  BY <1>1, <1>2

LEMMA TypeReverse ==
    ASSUME TypeOK, NEW c \in Counts, NEW k \in CountKeys, Started(c),
           ReplayReversal(c, k) \/ CreateReversal(c, k)
    PROVE  TypeOK'
<1>0. InventoryTypeOK /\ CountsOK /\ SheetsOK /\ KeysOK /\ countBranch[c] \in Branches
  BY TypeParts DEF CountsOK
<1>1. CASE ReplayReversal(c, k)
  BY <1>0, <1>1 DEF ReplayReversal, Answer, AnswerRow, TypeOK, InventoryTypeOK, Started,
     inventoryVars, worksheetVars, evidenceVars
<1>2. CASE CreateReversal(c, k)
  <2> DEFINE lines == DifferenceLines(c, "STOCK_COUNT_REVERSAL_OUT", "STOCK_COUNT_REVERSAL_IN")
  <2>1. /\ Post(countBranch[c], c, lines)
        /\ \A v \in Differences(c) : review[c][v].variance # {} /\ review[c][v].cost # {}
        /\ reversals' = reversals \cup {[count |-> c, key |-> k]}
        /\ Claim(k, "REVERSE", c)
        /\ Answer("COUNT", k, "REVERSE", countBranch[c], c)
        /\ UNCHANGED <<active, worksheetVars, approvals, countStatus, physical, review>>
    BY <1>2 DEF CreateReversal
  <2>2. LinesOK(lines)
    BY <2>1, DifferenceLinesOK DEF MovementTypes, InboundTypes, ExactTypes
  <2> HIDE DEF lines
  <2>3. stock' \in [Branches -> [Variants -> Balance]] /\ movements' \subseteq MovementRow
    BY <1>0, <2>1, <2>2, PostBalances
  <2>4. InventoryTypeOK'
    BY <1>0, <2>1, <2>3 DEF InventoryTypeOK, Answer, AnswerRow
  <2>5. CountsOK' /\ SheetsOK' /\ KeysOK'
    BY <1>0, <2>1 DEF CountsOK, worksheetVars, Started, SheetsOK, KeysOK, Claim
  <2> QED
    BY <2>4, <2>5 DEF TypeOK, CountsOK, SheetsOK, KeysOK
<1> QED
  BY <1>1, <1>2

\* A step answers a known key, or is one of these.
Idle == UNCHANGED <<inventoryVars, worksheetVars, evidenceVars, countStatus, physical, review>>
Posting == InventoryNext /\ UNCHANGED <<worksheetVars, evidenceVars, countStatus, physical, review>>
Reversing(c, k) == CreateReversal(c, k) /\ ~Frozen(countBranch[c])
                   /\ \E approval \in approvals : approval.count = c

LEMMA StepCases ==
    ASSUME [Next]_vars
    PROVE  \/ Idle
           \/ Posting
           \/ \E b \in Branches, k \in CountKeys : CreateCount(b, k)
           \/ \E a \in Actors, c \in Counts, v \in Variants, quantity \in 0 .. MaxQuantity,
                 reasoned \in BOOLEAN : RecordStockCountQuantity(a, c, v, quantity, reasoned)
           \/ \E a \in Actors, c \in Counts : SubmitStockCount(a, c)
           \/ \E a \in Actors, c \in Counts : ReturnStockCountForRecount(a, c)
           \/ \E a \in Actors, c \in Counts : CancelStockCount(a, c)
           \/ \E a \in Actors, c \in Counts, v \in Variants, explained \in BOOLEAN,
                 cost \in Optional(Costs), evidenced \in BOOLEAN :
                  RecordStockCountReviewEvidence(a, c, v, explained, cost, evidenced)
           \/ \E c \in Counts, k \in CountKeys : Started(c) /\ CreateApproval(c, k)
           \/ \E c \in Counts, k \in CountKeys : Reversing(c, k)
<1>1. CASE UNCHANGED vars
  BY <1>1 DEF vars, Idle
<1>2. ASSUME NEW a \in Actors, NEW b \in Branches, NEW noted \in BOOLEAN, NEW k \in CountKeys,
             StartStockCount(a, b, noted, k)
      PROVE  Idle \/ CreateCount(b, k)
  BY <1>2 DEF StartStockCount, ReplayStart, Idle
<1>3. ASSUME NEW a \in Actors, NEW c \in Counts, NEW k \in CountKeys, ApproveStockCount(a, c, k)
      PROVE  Idle \/ (Started(c) /\ CreateApproval(c, k))
  BY <1>3 DEF ApproveStockCount, ReplayApproval, Idle
<1>4. ASSUME NEW a \in Actors, NEW c \in Counts, NEW k \in CountKeys, ReverseStockCount(a, c, k)
      PROVE  Idle \/ Reversing(c, k)
  BY <1>4 DEF ReverseStockCount, ReplayReversal, Idle, Reversing
<1> QED
  BY <1>1, <1>2, <1>3, <1>4 DEF Next, Posting

\* A count with an approval is approved, and stays so.
ApprovedCounts == \A r \in approvals : countStatus[r.count] = "APPROVED"

LEMMA ApprovedStep == TypeOK /\ ApprovedCounts /\ [Next]_vars => ApprovedCounts'
<1> SUFFICES ASSUME TypeOK, ApprovedCounts, [Next]_vars PROVE ApprovedCounts'
  OBVIOUS
<1>0. KeysOK /\ CountsOK
  BY TypeParts
<1>1. ASSUME NEW c \in Counts, NEW status, UNCHANGED approvals,
             countStatus[c] # "APPROVED", SetStatus(c, status)
      PROVE  ApprovedCounts'
  BY <1>0, <1>1 DEF ApprovedCounts, SetStatus, KeysOK, CountsOK
<1>2. ASSUME UNCHANGED <<approvals, countStatus>>
      PROVE  ApprovedCounts'
  BY <1>2 DEF ApprovedCounts
<1>3. ASSUME NEW b \in Branches, NEW k \in CountKeys, CreateCount(b, k)
      PROVE  ApprovedCounts'
  <2>1. PICK c \in Counts : ~Started(c) /\ SetStatus(c, "COUNTING")
    BY <1>3 DEF CreateCount
  <2>2. UNCHANGED approvals
    BY <1>3 DEF CreateCount
  <2> QED
    BY <1>1, <2>1, <2>2 DEF Started
<1>4. ASSUME NEW a \in Actors, NEW c \in Counts,
             \/ SubmitStockCount(a, c) \/ ReturnStockCountForRecount(a, c)
             \/ CancelStockCount(a, c)
      PROVE  ApprovedCounts'
  <2>1. countStatus[c] # "APPROVED" /\ UNCHANGED approvals
    BY <1>4 DEF SubmitStockCount, ReturnStockCountForRecount, CancelStockCount, Holds, Freezing,
       ActiveCounts, evidenceVars
  <2>2. \/ SetStatus(c, "SUBMITTED") \/ SetStatus(c, "COUNTING") \/ SetStatus(c, "CANCELLED")
    BY <1>4 DEF SubmitStockCount, ReturnStockCountForRecount, CancelStockCount
  <2> QED
    BY <1>1, <2>1, <2>2
<1>5. ASSUME NEW c \in Counts, NEW k \in CountKeys, CreateApproval(c, k)
      PROVE  ApprovedCounts'
  <2>1. approvals' = approvals \cup {[count |-> c, key |-> k]}
        /\ countStatus' = [countStatus EXCEPT ![c] = "APPROVED"]
    BY <1>5 DEF CreateApproval, SetStatus
  <2>2. \A r \in approvals : r.count \in Counts
    BY <1>0 DEF KeysOK
  <2> QED
    BY <1>0, <2>1, <2>2 DEF ApprovedCounts, CountsOK
<1>6. ASSUME NEW a \in Actors, NEW c \in Counts, NEW v \in Variants,
             \/ \E quantity \in 0 .. MaxQuantity, reasoned \in BOOLEAN :
                    RecordStockCountQuantity(a, c, v, quantity, reasoned)
             \/ \E explained \in BOOLEAN, cost \in Optional(Costs), evidenced \in BOOLEAN :
                    RecordStockCountReviewEvidence(a, c, v, explained, cost, evidenced)
      PROVE  ApprovedCounts'
  BY <1>2, <1>6 DEF RecordStockCountQuantity, RecordStockCountReviewEvidence, evidenceVars
<1>7. ASSUME Idle \/ Posting \/ \E c \in Counts, k \in CountKeys : CreateReversal(c, k)
      PROVE  ApprovedCounts'
  BY <1>2, <1>7 DEF Idle, Posting, CreateReversal, evidenceVars
<1> QED
  BY <1>3, <1>4, <1>5, <1>6, <1>7, StepCases DEF Reversing

LEMMA TypeStep == TypeOK /\ ApprovedCounts /\ [Next]_vars => TypeOK'
<1> SUFFICES ASSUME TypeOK, ApprovedCounts, [Next]_vars PROVE TypeOK'
  OBVIOUS
<1>1. CASE InventoryNext /\ UNCHANGED <<worksheetVars, evidenceVars, countStatus, physical, review>>
  BY <1>1, TypeInventory, TypeParts
     DEF CountsOK, SheetsOK, KeysOK, worksheetVars, evidenceVars, Started, TypeOK
<1>2. CASE UNCHANGED vars
  BY <1>2, TypeParts DEF vars, inventoryVars, worksheetVars, evidenceVars, TypeOK,
     InventoryTypeOK, Started
<1>3. ASSUME NEW a \in Actors, NEW c \in Counts, NEW k \in CountKeys, ApproveStockCount(a, c, k)
      PROVE  TypeOK'
  BY <1>3, TypeApprove DEF ApproveStockCount
<1>4. ASSUME NEW a \in Actors, NEW c \in Counts, NEW k \in CountKeys, ReverseStockCount(a, c, k)
      PROVE  TypeOK'
  <2>1. Started(c)
    BY <1>4 DEF ReverseStockCount, ApprovedCounts, Started
  <2> QED
    BY <1>4, <2>1, TypeReverse DEF ReverseStockCount
<1> QED
  BY <1>1, <1>2, <1>3, <1>4, TypeStart, TypeRecord, TypeSubmit, TypeReturnOrCancel, TypeReview
     DEF Next, StartStockCount

\* Every column keeps its type; balances stay nonnegative through any mixture of
\* postings, counts and reversals.
THEOREM TypeCorrect == Spec => []TypeOK
<1>1. Init => TypeOK /\ ApprovedCounts
  BY TypeInit DEF Init, ApprovedCounts
<1>2. TypeOK /\ ApprovedCounts /\ [Next]_vars => (TypeOK /\ ApprovedCounts)'
  BY TypeStep, ApprovedStep
<1> QED
  BY <1>1, <1>2, PTL DEF Spec

-----------------------------------------------------------------------------
(* The freeze.                                                             *)

\* Until it is submitted a count has no review columns.
FreshSheets == \A c \in Counts : countStatus[c] \in {"ABSENT", "COUNTING"} =>
                   \A v \in Variants : review[c][v] = NotReviewed

\* A posting outside the counts leaves frozen branches alone.
LEMMA PostingSparesFrozen ==
    ASSUME TypeOK, Posting, NEW d \in Branches, Frozen(d)
    PROVE  stock'[d] = stock[d]
<1>0. InventoryTypeOK
  BY DEF TypeOK
<1>1. ASSUME NEW a \in Actors, NEW b \in Branches, NEW source \in Sources,
             NEW lines \in SourceLines, RecordSource(a, b, source, lines)
      PROVE  stock'[d] = stock[d]
  <2>1. d # b
    BY <1>1 DEF RecordSource
  <2>2. Post(b, source, [v \in DOMAIN lines |->
               Line(SourceType[source], lines[v].quantity, lines[v].cost)])
    BY <1>1 DEF RecordSource
  <2> QED
    BY <1>0, <2>1, <2>2, SourceLinesOK, PostBalances
<1>2. ASSUME NEW a \in Actors, NEW b \in Branches, NEW v \in Variants, NEW op \in OperationTypes,
             NEW quantity \in Quantities, NEW cost \in Costs, NEW k \in Keys,
             PostOperation(a, b, v, op, quantity, cost, k)
      PROVE  stock'[d] = stock[d]
  <2>1. d # b
    BY <1>2 DEF PostOperation
  <2>2. CASE ReplayOperation(b, v, op, k)
    BY <2>2 DEF ReplayOperation
  <2>3. CASE CreateOperation(b, v, op, quantity, cost, k)
    <3>1. Post(b, k, [x \in {v} |-> Line(op, quantity, cost)])
      BY <2>3 DEF CreateOperation
    <3> QED
      BY <1>0, <2>1, <3>1, OperationLinesOK, PostBalances
  <2> QED
    BY <1>2, <2>2, <2>3 DEF PostOperation
<1>3. ASSUME NEW v \in Variants, SetActive(v)
      PROVE  stock'[d] = stock[d]
  BY <1>3 DEF SetActive
<1> QED
  BY <1>1, <1>2, <1>3 DEF Posting, InventoryNext

FreezeInv ==
    /\ TypeOK
    /\ ApprovedCounts
    /\ OneActiveCountPerBranch
    /\ FrozenStockIsSnapshot
    /\ FreshSheets
    /\ ReviewMatchesCount

\* What the count services do with stock: only approval and reversal move it,
\* and only at the branch of their count.
LEMMA ApprovalSparesOthers ==
    ASSUME TypeOK, NEW c \in Counts, NEW k \in CountKeys, Started(c), CreateApproval(c, k),
           NEW d \in Branches, d # countBranch[c]
    PROVE  stock'[d] = stock[d]
<1> DEFINE lines == DifferenceLines(c, "STOCK_COUNT_ADJUSTMENT_IN",
                                       "STOCK_COUNT_ADJUSTMENT_OUT")
<1>1. Post(countBranch[c], c, lines)
  BY DEF CreateApproval
<1>2. \A v \in Differences(c) : review[c][v].variance # {} /\ review[c][v].cost # {}
  BY DEF CreateApproval, Differences, Reviewed
<1>3. LinesOK(lines)
  BY <1>2, DifferenceLinesOK DEF MovementTypes, InboundTypes, ExactTypes
<1>4. InventoryTypeOK /\ countBranch[c] \in Branches
  BY DEF TypeOK
<1> HIDE DEF lines
<1> QED
  BY <1>1, <1>3, <1>4, PostBalances

LEMMA ReversalSparesFrozen ==
    ASSUME TypeOK, ApprovedCounts, NEW c \in Counts, NEW k \in CountKeys, Reversing(c, k),
           NEW d \in Branches, Frozen(d)
    PROVE  stock'[d] = stock[d]
<1> DEFINE lines == DifferenceLines(c, "STOCK_COUNT_REVERSAL_OUT", "STOCK_COUNT_REVERSAL_IN")
<1>1. Post(countBranch[c], c, lines) /\ d # countBranch[c]
  BY DEF Reversing, CreateReversal
<1>2. \A v \in Differences(c) : review[c][v].variance # {} /\ review[c][v].cost # {}
  BY DEF Reversing, CreateReversal
<1>3. LinesOK(lines)
  BY <1>2, DifferenceLinesOK DEF MovementTypes, InboundTypes, ExactTypes
<1>4. InventoryTypeOK /\ countBranch[c] \in Branches
  BY DEF TypeOK, Reversing, ApprovedCounts, Started
<1> HIDE DEF lines
<1> QED
  BY <1>1, <1>3, <1>4, PostBalances

\* Stock of frozen branches and the counts themselves stand still.
LEMMA StillFrozen ==
    ASSUME FreezeInv, UNCHANGED <<countStatus, worksheetVars>>,
           \A c \in Counts : countStatus[c] \in ActiveCounts =>
               stock'[countBranch[c]] = stock[countBranch[c]]
    PROVE  OneActiveCountPerBranch' /\ FrozenStockIsSnapshot'
BY DEF FreezeInv, OneActiveCountPerBranch, FrozenStockIsSnapshot, worksheetVars

\* One count moves along or ends, and stock stands still.
LEMMA MovesAlong ==
    ASSUME FreezeInv, NEW c \in Counts, NEW status, UNCHANGED worksheetVars,
           SetStatus(c, status), countStatus[c] \in ActiveCounts,
           \A d \in Counts \ {c} : countStatus[d] \in ActiveCounts =>
               stock'[countBranch[d]] = stock[countBranch[d]],
           status \in ActiveCounts => UNCHANGED stock
    PROVE  OneActiveCountPerBranch' /\ FrozenStockIsSnapshot'
<1>1. countStatus' = [countStatus EXCEPT ![c] = status] /\ countStatus'[c] = status
      /\ \A d \in Counts : d # c => countStatus'[d] = countStatus[d]
  BY DEF FreezeInv, TypeOK, SetStatus
<1>2. UNCHANGED <<countBranch, countLines, snapshot>>
  BY DEF worksheetVars
<1>3. OneActiveCountPerBranch'
  BY <1>1, <1>2 DEF FreezeInv, OneActiveCountPerBranch
<1>4. FrozenStockIsSnapshot'
  BY <1>1, <1>2 DEF FreezeInv, FrozenStockIsSnapshot
<1> QED
  BY <1>3, <1>4

LEMMA FreezeStart ==
    ASSUME FreezeInv, NEW b \in Branches, NEW k \in CountKeys, CreateCount(b, k)
    PROVE  OneActiveCountPerBranch' /\ FrozenStockIsSnapshot'
<1>1. PICK c \in Counts :
          /\ ~Started(c)
          /\ countStatus' = [countStatus EXCEPT ![c] = "COUNTING"]
          /\ countBranch' = [countBranch EXCEPT ![c] = b]
          /\ countLines' = [countLines EXCEPT ![c] = Scope(b)]
          /\ snapshot' = [snapshot EXCEPT ![c] = stock[b]]
  BY DEF CreateCount, SetStatus
<1>2. UNCHANGED stock /\ ~Frozen(b)
  BY DEF CreateCount, inventoryVars
<1>3. /\ countStatus'[c] = "COUNTING" /\ countBranch'[c] = b
      /\ countLines'[c] = Scope(b) /\ snapshot'[c] = stock[b]
      /\ \A d \in Counts : d # c =>
             /\ countStatus'[d] = countStatus[d] /\ countBranch'[d] = countBranch[d]
             /\ countLines'[d] = countLines[d] /\ snapshot'[d] = snapshot[d]
  BY <1>1 DEF FreezeInv, TypeOK
<1>4. \A d \in Counts : countStatus[d] \in ActiveCounts => countBranch[d] # b
  BY <1>2 DEF Frozen, Freezing
<1>5. OneActiveCountPerBranch'
  BY <1>3, <1>4 DEF FreezeInv, OneActiveCountPerBranch
<1>6. \A v \in Variants : v \notin Scope(b) => stock[b][v].quantity = 0
  BY DEF Scope
<1>7. FrozenStockIsSnapshot'
  BY <1>2, <1>3, <1>6 DEF FreezeInv, FrozenStockIsSnapshot
<1> QED
  BY <1>5, <1>7

LEMMA FreezeStep == FreezeInv /\ [Next]_vars => OneActiveCountPerBranch' /\ FrozenStockIsSnapshot'
<1> SUFFICES ASSUME FreezeInv, [Next]_vars
             PROVE  OneActiveCountPerBranch' /\ FrozenStockIsSnapshot'
  OBVIOUS
<1>0. TypeOK /\ ApprovedCounts
  BY DEF FreezeInv
<1>1. \A c \in Counts : countStatus[c] \in ActiveCounts =>
          countBranch[c] \in Branches /\ Frozen(countBranch[c]) /\ Started(c)
  BY <1>0 DEF TypeOK, Started, ActiveCounts, Frozen, Freezing
<1>2. CASE Idle
  BY <1>2, StillFrozen DEF Idle, inventoryVars
<1>3. CASE Posting
  BY <1>0, <1>1, <1>3, PostingSparesFrozen, StillFrozen DEF Posting
<1>4. ASSUME NEW c \in Counts, NEW k \in CountKeys, Reversing(c, k)
      PROVE  OneActiveCountPerBranch' /\ FrozenStockIsSnapshot'
  <2>1. UNCHANGED <<countStatus, worksheetVars>>
    BY <1>4 DEF Reversing, CreateReversal
  <2> QED
    BY <1>0, <1>1, <1>4, <2>1, ReversalSparesFrozen, StillFrozen
<1>5. ASSUME NEW a \in Actors, NEW c \in Counts, NEW v \in Variants,
             \/ \E quantity \in 0 .. MaxQuantity, reasoned \in BOOLEAN :
                    RecordStockCountQuantity(a, c, v, quantity, reasoned)
             \/ \E explained \in BOOLEAN, cost \in Optional(Costs), evidenced \in BOOLEAN :
                    RecordStockCountReviewEvidence(a, c, v, explained, cost, evidenced)
      PROVE  OneActiveCountPerBranch' /\ FrozenStockIsSnapshot'
  <2>1. UNCHANGED <<inventoryVars, worksheetVars, countStatus>>
    BY <1>5 DEF RecordStockCountQuantity, RecordStockCountReviewEvidence
  <2> QED
    BY <2>1, StillFrozen DEF inventoryVars
<1>6. ASSUME NEW a \in Actors, NEW c \in Counts,
             \/ SubmitStockCount(a, c) \/ ReturnStockCountForRecount(a, c)
             \/ CancelStockCount(a, c)
      PROVE  OneActiveCountPerBranch' /\ FrozenStockIsSnapshot'
  <2>1. countStatus[c] \in ActiveCounts /\ UNCHANGED worksheetVars /\ UNCHANGED stock
    BY <1>6 DEF SubmitStockCount, ReturnStockCountForRecount, CancelStockCount, Holds, Freezing,
       inventoryVars
  <2>2. \/ SetStatus(c, "SUBMITTED") \/ SetStatus(c, "COUNTING") \/ SetStatus(c, "CANCELLED")
    BY <1>6 DEF SubmitStockCount, ReturnStockCountForRecount, CancelStockCount
  <2> QED
    BY <2>1, <2>2, MovesAlong
<1>7. ASSUME NEW c \in Counts, NEW k \in CountKeys, Started(c), CreateApproval(c, k)
      PROVE  OneActiveCountPerBranch' /\ FrozenStockIsSnapshot'
  <2>1. UNCHANGED worksheetVars /\ SetStatus(c, "APPROVED") /\ countStatus[c] \in ActiveCounts
        /\ Holds(c)
    BY <1>7 DEF CreateApproval, ActiveCounts
  <2>2. \A d \in Counts \ {c} : countStatus[d] \in ActiveCounts => countBranch[d] # countBranch[c]
    BY <2>1 DEF Holds, Freezing
  <2>3. \A d \in Counts \ {c} : countStatus[d] \in ActiveCounts =>
            stock'[countBranch[d]] = stock[countBranch[d]]
    BY <1>0, <1>1, <1>7, <2>2, ApprovalSparesOthers
  <2> QED
    BY <2>1, <2>3, MovesAlong DEF ActiveCounts
<1> QED
  BY <1>2, <1>3, <1>4, <1>5, <1>6, <1>7, FreezeStart, StepCases

-----------------------------------------------------------------------------
(* The review.                                                             *)

Sheets == FreshSheets /\ ReviewMatchesCount

\* A sheet that keeps its status, lines, quantities and variances stays sound.
SheetOK(c) ==
    /\ countStatus[c] \in {"ABSENT", "COUNTING"} =>
           \A v \in Variants : review[c][v] = NotReviewed
    /\ \A v \in countLines[c] : countStatus[c] \in {"SUBMITTED", "APPROVED"} =>
           physical[c][v] # {} /\ review[c][v].variance = {Variance(c, v)}

LEMMA SheetsAreOK == TypeOK => (Sheets <=> \A c \in Counts : SheetOK(c))
BY DEF TypeOK, Sheets, FreshSheets, ReviewMatchesCount, SheetOK

LEMMA SheetStays ==
    ASSUME NEW c \in Counts, SheetOK(c),
           countStatus'[c] = countStatus[c], countLines'[c] = countLines[c],
           snapshot'[c] = snapshot[c], physical'[c] = physical[c], review'[c] = review[c]
    PROVE  SheetOK(c)'
BY DEF SheetOK, Variance

LEMMA SheetStep == FreezeInv /\ TypeOK' /\ [Next]_vars => Sheets'
<1> SUFFICES ASSUME FreezeInv, TypeOK', [Next]_vars, NEW d \in Counts PROVE SheetOK(d)'
  BY DEF TypeOK, Sheets, FreshSheets, ReviewMatchesCount, SheetOK
<1>0. TypeOK /\ SheetOK(d)
  BY SheetsAreOK DEF FreezeInv, Sheets
<1>1. CASE UNCHANGED <<worksheetVars, countStatus, physical, review>>
  BY <1>0, <1>1, SheetStays DEF worksheetVars
<1>2. ASSUME NEW b \in Branches, NEW k \in CountKeys, CreateCount(b, k)
      PROVE  SheetOK(d)'
  <2>1. PICK c \in Counts :
            /\ ~Started(c)
            /\ countStatus' = [countStatus EXCEPT ![c] = "COUNTING"]
            /\ countLines' = [countLines EXCEPT ![c] = Scope(b)]
            /\ snapshot' = [snapshot EXCEPT ![c] = stock[b]]
    BY <1>2 DEF CreateCount, SetStatus
  <2>2. UNCHANGED <<physical, review>>
    BY <1>2 DEF CreateCount
  <2>3. CASE c = d
    BY <1>0, <2>1, <2>2, <2>3 DEF SheetOK, Started, TypeOK
  <2>4. CASE c # d
    BY <1>0, <2>1, <2>2, <2>4, SheetStays DEF TypeOK
  <2> QED
    BY <2>3, <2>4
<1>3. ASSUME NEW a \in Actors, NEW c \in Counts, NEW v \in Variants,
             NEW quantity \in 0 .. MaxQuantity, NEW reasoned \in BOOLEAN,
             RecordStockCountQuantity(a, c, v, quantity, reasoned)
      PROVE  SheetOK(d)'
  <2>1. /\ countStatus[c] = "COUNTING" /\ UNCHANGED <<countStatus, worksheetVars>>
        /\ physical' = [physical EXCEPT ![c] = [@ EXCEPT ![v] = {quantity}]]
        /\ review' = [review EXCEPT ![c] = [@ EXCEPT ![v] = NotReviewed]]
    BY <1>3 DEF RecordStockCountQuantity
  <2>2. CASE c = d
    <3>1. \A w \in Variants : review'[d][w] = NotReviewed
      BY <1>0, <2>1, <2>2 DEF SheetOK, TypeOK
    <3> QED
      BY <2>1, <2>2, <3>1 DEF SheetOK
  <2>3. CASE c # d
    BY <1>0, <2>1, <2>3, SheetStays DEF TypeOK, worksheetVars
  <2> QED
    BY <2>2, <2>3
<1>4. ASSUME NEW a \in Actors, NEW c \in Counts, SubmitStockCount(a, c)
      PROVE  SheetOK(d)'
  <2>1. /\ countStatus' = [countStatus EXCEPT ![c] = "SUBMITTED"]
        /\ \A v \in countLines[c] : physical[c][v] # {}
        /\ UNCHANGED <<worksheetVars, physical>>
    BY <1>4 DEF SubmitStockCount, SetStatus
  <2>2. \A e \in Counts : e # c => review'[e] = review[e]
    BY <1>0, <1>4 DEF SubmitStockCount, TypeOK
  <2>3. CASE c = d
    <3>1. countStatus'[d] = "SUBMITTED"
      BY <1>0, <2>1, <2>3 DEF TypeOK
    <3>2. \A v \in countLines[d] : review'[d][v].variance = {Variance(d, v)}
      BY <1>0, <1>4, <2>3 DEF SubmitStockCount, TypeOK
    <3>3. UNCHANGED <<countLines, snapshot, physical>>
      BY <2>1 DEF worksheetVars
    <3> QED
      BY <2>1, <2>3, <3>1, <3>2, <3>3 DEF SheetOK, Variance
  <2>4. CASE c # d
    BY <1>0, <2>1, <2>2, <2>4, SheetStays DEF TypeOK, worksheetVars
  <2> QED
    BY <2>3, <2>4
<1>5. ASSUME NEW a \in Actors, NEW c \in Counts, ReturnStockCountForRecount(a, c)
      PROVE  SheetOK(d)'
  <2>1. /\ countStatus' = [countStatus EXCEPT ![c] = "COUNTING"]
        /\ review' = [review EXCEPT ![c] = [v \in Variants |-> NotReviewed]]
        /\ UNCHANGED <<worksheetVars, physical>>
    BY <1>5 DEF ReturnStockCountForRecount, SetStatus, Cleared
  <2>2. CASE c = d
    BY <1>0, <2>1, <2>2 DEF TypeOK, SheetOK
  <2>3. CASE c # d
    BY <1>0, <2>1, <2>3, SheetStays DEF TypeOK, worksheetVars
  <2> QED
    BY <2>2, <2>3
<1>6. ASSUME NEW a \in Actors, NEW c \in Counts, CancelStockCount(a, c)
      PROVE  SheetOK(d)'
  <2>1. /\ countStatus' = [countStatus EXCEPT ![c] = "CANCELLED"]
        /\ UNCHANGED <<worksheetVars, physical, review>>
    BY <1>6 DEF CancelStockCount, SetStatus
  <2>2. CASE c = d
    BY <1>0, <2>1, <2>2 DEF TypeOK, SheetOK
  <2>3. CASE c # d
    BY <1>0, <2>1, <2>3, SheetStays DEF TypeOK, worksheetVars
  <2> QED
    BY <2>2, <2>3
<1>7. ASSUME NEW a \in Actors, NEW c \in Counts, NEW v \in Variants,
             NEW explained \in BOOLEAN, NEW cost \in Optional(Costs), NEW evidenced \in BOOLEAN,
             RecordStockCountReviewEvidence(a, c, v, explained, cost, evidenced)
      PROVE  SheetOK(d)'
  <2>1. countStatus[c] = "SUBMITTED" /\ UNCHANGED <<countStatus, worksheetVars, physical>>
    BY <1>7 DEF RecordStockCountReviewEvidence
  <2>2. /\ \A e \in Counts : e # c => review'[e] = review[e]
        /\ \A w \in Variants : review'[c][w].variance = review[c][w].variance
    BY <1>0, <1>7 DEF RecordStockCountReviewEvidence, TypeOK
  <2>3. countLines[d] \subseteq Variants /\ UNCHANGED <<countLines, snapshot, physical>>
    BY <1>0, <2>1 DEF worksheetVars, TypeOK
  <2>4. CASE c = d
    BY <1>0, <2>1, <2>2, <2>3, <2>4 DEF SheetOK, Variance
  <2>5. CASE c # d
    BY <1>0, <2>1, <2>2, <2>5, SheetStays DEF worksheetVars
  <2> QED
    BY <2>4, <2>5
<1>8. ASSUME NEW c \in Counts, NEW k \in CountKeys, Started(c), CreateApproval(c, k)
      PROVE  SheetOK(d)'
  <2>1. /\ countStatus' = [countStatus EXCEPT ![c] = "APPROVED"] /\ countStatus[c] = "SUBMITTED"
        /\ UNCHANGED <<worksheetVars, physical, review>>
    BY <1>8 DEF CreateApproval, SetStatus
  <2>2. CASE c = d
    BY <1>0, <2>1, <2>2 DEF TypeOK, SheetOK, Variance, worksheetVars
  <2>3. CASE c # d
    BY <1>0, <2>1, <2>3, SheetStays DEF TypeOK, worksheetVars
  <2> QED
    BY <2>2, <2>3
<1>9. ASSUME Idle \/ Posting \/ \E c \in Counts, k \in CountKeys : Reversing(c, k)
      PROVE  UNCHANGED <<worksheetVars, countStatus, physical, review>>
  BY <1>9 DEF Idle, Posting, Reversing, CreateReversal
<1> QED
  BY <1>1, <1>2, <1>3, <1>4, <1>5, <1>6, <1>7, <1>8, <1>9, StepCases

LEMMA FreezeInitially == Init => FreezeInv
<1> SUFFICES ASSUME Init PROVE FreezeInv
  OBVIOUS
<1>1. TypeOK
  BY TypeInit
<1>2. \A c \in Counts : countStatus[c] = "ABSENT" /\ countLines[c] = {}
                        /\ \A v \in Variants : review[c][v] = NotReviewed
  BY DEF Init
<1>3. approvals = {}
  BY DEF Init
<1> QED
  BY <1>1, <1>2, <1>3 DEF FreezeInv, ApprovedCounts, OneActiveCountPerBranch,
     FrozenStockIsSnapshot, FreshSheets, ReviewMatchesCount, ActiveCounts

LEMMA FreezeInvariant == Spec => []FreezeInv
<1>1. FreezeInv /\ [Next]_vars => FreezeInv'
  <2> SUFFICES ASSUME FreezeInv, [Next]_vars PROVE FreezeInv'
    OBVIOUS
  <2>1. TypeOK' /\ ApprovedCounts'
    BY TypeStep, ApprovedStep DEF FreezeInv
  <2>2. OneActiveCountPerBranch' /\ FrozenStockIsSnapshot'
    BY FreezeStep
  <2>3. FreshSheets' /\ ReviewMatchesCount'
    BY <2>1, SheetStep DEF Sheets
  <2> QED
    BY <2>1, <2>2, <2>3 DEF FreezeInv
<1> QED
  BY <1>1, FreezeInitially, PTL DEF Spec

\* A branch has one active count, and from its start to its end the stock of the
\* branch is its snapshot: no posting, no other count and no reversal gets past
\* the freeze.
THEOREM FreezeHolds == Spec => []FreezeSound
<1>1. FreezeInv => FreezeSound
  BY DEF FreezeInv, FreezeSound
<1> QED
  BY <1>1, FreezeInvariant, PTL

\* However often a count is corrected and returned for recount, the variances
\* under review are those of its quantities.
THEOREM ReviewIsOfCount == Spec => []ReviewMatchesCount
<1>1. FreezeInv => ReviewMatchesCount
  BY DEF FreezeInv
<1> QED
  BY <1>1, FreezeInvariant, PTL

-----------------------------------------------------------------------------
(* The value of what is gone.                                              *)

ApprovalTypes == {"STOCK_COUNT_ADJUSTMENT_IN", "STOCK_COUNT_ADJUSTMENT_OUT"}
ReversalTypes == {"STOCK_COUNT_REVERSAL_IN", "STOCK_COUNT_REVERSAL_OUT"}
CountTypes == ApprovalTypes \cup ReversalTypes

\* What lets a call post its lines: each source, each operation's key, each approval and
\* each reversal does so once.
Once(source, lines) ==
    \/ /\ \A v \in DOMAIN lines : lines[v].type \notin CountTypes
       /\ \A m \in movements : m.source # source
    \/ /\ \A v \in DOMAIN lines : lines[v].type \in OperationTypes
       /\ \A m \in Operations : m.source # source
    \/ /\ \A v \in DOMAIN lines : lines[v].type \in ApprovalTypes
       /\ source \in Counts /\ countStatus[source] = "SUBMITTED"
       /\ countStatus'[source] = "APPROVED"
    \/ /\ \A v \in DOMAIN lines : lines[v].type \in ReversalTypes
       /\ source \in Counts /\ \A r \in reversals : r.count # source
       /\ \E r \in reversals' : r.count = source

\* The postings of a step, whoever makes them.
Posts == \E b \in Branches, source \in Sources \cup Keys \cup Counts :
             \E lines : LinesOK(lines) /\ Post(b, source, lines) /\ Once(source, lines)

LEMMA DifferenceTypes ==
    ASSUME NEW c \in Counts, NEW more, NEW less
    PROVE  \A v \in DOMAIN DifferenceLines(c, more, less) :
               DifferenceLines(c, more, less)[v].type \in {more, less}
BY DEF DifferenceLines, Line

LEMMA StepPosts ==
    ASSUME TypeOK, ApprovedCounts, [Next]_vars
    PROVE  UNCHANGED <<stock, movements>> \/ Posts
<1>1. CASE Posting
  <2>1. ASSUME NEW a \in Actors, NEW b \in Branches, NEW source \in Sources,
               NEW lines \in SourceLines, RecordSource(a, b, source, lines)
        PROVE  Posts
    <3> DEFINE posted == [v \in DOMAIN lines |->
                             Line(SourceType[source], lines[v].quantity, lines[v].cost)]
    <3>1. Post(b, source, posted)
      BY <2>1 DEF RecordSource
    <3>2. LinesOK(posted)
      BY SourceLinesOK
    <3>3. SourceType[source] \notin CountTypes
      BY SourceTypeAssumption DEF SourceTypes, StaffTypes, CountTypes, ApprovalTypes, ReversalTypes
    <3>4. Once(source, posted)
      BY <2>1, <3>3 DEF RecordSource, Once, Line
    <3> HIDE DEF posted
    <3> QED BY <3>1, <3>2, <3>4 DEF Posts
  <2>2. ASSUME NEW a \in Actors, NEW b \in Branches, NEW v \in Variants,
               NEW op \in OperationTypes, NEW quantity \in Quantities, NEW cost \in Costs,
               NEW k \in Keys, PostOperation(a, b, v, op, quantity, cost, k)
        PROVE  UNCHANGED <<stock, movements>> \/ Posts
    <3> DEFINE posted == [x \in {v} |-> Line(op, quantity, cost)]
    <3>1. \/ UNCHANGED <<stock, movements>>
          \/ Post(b, k, posted) /\ \A m \in Operations : m.source # k
      BY <2>2 DEF PostOperation, ReplayOperation, CreateOperation
    <3>2. LinesOK(posted)
      BY OperationLinesOK
    <3>3. (\A m \in Operations : m.source # k) => Once(k, posted)
      BY DEF Once, Line
    <3> HIDE DEF posted
    <3> QED BY <3>1, <3>2, <3>3 DEF Posts
  <2>3. ASSUME NEW v \in Variants, SetActive(v) PROVE UNCHANGED <<stock, movements>>
    BY <2>3 DEF SetActive
  <2> QED
    BY <1>1, <2>1, <2>2, <2>3 DEF Posting, InventoryNext
<1>2. ASSUME NEW c \in Counts, NEW k \in CountKeys, Started(c), CreateApproval(c, k)
      PROVE  Posts
  <2>1. /\ Post(countBranch[c], c, DifferenceLines(c, "STOCK_COUNT_ADJUSTMENT_IN",
                                                      "STOCK_COUNT_ADJUSTMENT_OUT"))
        /\ \A v \in countLines[c] :
               /\ review[c][v].variance = {Variance(c, v)}
               /\ v \in Differences(c) => Reviewed(c, v)
    BY <1>2 DEF CreateApproval
  <2>2. \A v \in Differences(c) : review[c][v].variance # {} /\ review[c][v].cost # {}
    BY <2>1 DEF Differences, Reviewed
  <2>3. LinesOK(DifferenceLines(c, "STOCK_COUNT_ADJUSTMENT_IN", "STOCK_COUNT_ADJUSTMENT_OUT"))
    BY <2>2, DifferenceLinesOK DEF MovementTypes, InboundTypes, ExactTypes
  <2>4. countBranch[c] \in Branches
    BY <1>2 DEF TypeOK
  <2>5. Once(c, DifferenceLines(c, "STOCK_COUNT_ADJUSTMENT_IN", "STOCK_COUNT_ADJUSTMENT_OUT"))
    <3>1. countStatus[c] = "SUBMITTED" /\ countStatus'[c] = "APPROVED"
      BY <1>2 DEF CreateApproval, SetStatus, TypeOK
    <3> QED BY <3>1, DifferenceTypes DEF Once, ApprovalTypes
  <2> QED BY <2>1, <2>3, <2>4, <2>5 DEF Posts
<1>3. ASSUME NEW c \in Counts, NEW k \in CountKeys, Reversing(c, k)
      PROVE  Posts
  <2>1. /\ Post(countBranch[c], c, DifferenceLines(c, "STOCK_COUNT_REVERSAL_OUT",
                                                      "STOCK_COUNT_REVERSAL_IN"))
        /\ \A v \in Differences(c) : review[c][v].variance # {} /\ review[c][v].cost # {}
    BY <1>3 DEF Reversing, CreateReversal
  <2>2. LinesOK(DifferenceLines(c, "STOCK_COUNT_REVERSAL_OUT", "STOCK_COUNT_REVERSAL_IN"))
    BY <2>1, DifferenceLinesOK DEF MovementTypes, InboundTypes, ExactTypes
  <2>3. countBranch[c] \in Branches
    BY <1>3 DEF Reversing, ApprovedCounts, Started, TypeOK
  <2>4. Once(c, DifferenceLines(c, "STOCK_COUNT_REVERSAL_OUT", "STOCK_COUNT_REVERSAL_IN"))
    <3>1. (\A r \in reversals : r.count # c) /\ [count |-> c, key |-> k] \in reversals'
      BY <1>3 DEF Reversing, CreateReversal
    <3> QED BY <3>1, DifferenceTypes DEF Once, ReversalTypes
  <2> QED BY <2>1, <2>2, <2>3, <2>4 DEF Posts
<1>4. ASSUME NEW b \in Branches, NEW k \in CountKeys, CreateCount(b, k)
      PROVE  UNCHANGED <<stock, movements>>
  BY <1>4 DEF CreateCount, inventoryVars
<1>5. ASSUME NEW a \in Actors, NEW c \in Counts,
             \/ SubmitStockCount(a, c) \/ ReturnStockCountForRecount(a, c)
             \/ CancelStockCount(a, c)
      PROVE  UNCHANGED <<stock, movements>>
  BY <1>5 DEF SubmitStockCount, ReturnStockCountForRecount, CancelStockCount, inventoryVars
<1>6. ASSUME NEW a \in Actors, NEW c \in Counts, NEW v \in Variants,
             \/ \E quantity \in 0 .. MaxQuantity, reasoned \in BOOLEAN :
                    RecordStockCountQuantity(a, c, v, quantity, reasoned)
             \/ \E explained \in BOOLEAN, cost \in Optional(Costs), evidenced \in BOOLEAN :
                    RecordStockCountReviewEvidence(a, c, v, explained, cost, evidenced)
      PROVE  UNCHANGED <<stock, movements>>
  BY <1>6 DEF RecordStockCountQuantity, RecordStockCountReviewEvidence, inventoryVars
<1>7. CASE Idle
  BY <1>7 DEF Idle, inventoryVars
<1> QED
  BY <1>1, <1>2, <1>3, <1>4, <1>5, <1>6, <1>7, StepCases

\* _apply_inbound, _apply_outbound and _apply_outbound_at_cost: what takes the last units
\* takes the last of the value and the average with them, for any rounding.
THEOREM GoneStockIsWorthNothing == Spec => []NoStockNoValue
<1>1. Init => NoStockNoValue
  BY DEF Init, InventoryInit, NoStockNoValue
<1>2. TypeOK /\ ApprovedCounts /\ NoStockNoValue /\ [Next]_vars => NoStockNoValue'
  <2> SUFFICES ASSUME TypeOK, ApprovedCounts, NoStockNoValue, [Next]_vars
               PROVE  NoStockNoValue'
    OBVIOUS
  <2>1. CASE UNCHANGED <<stock, movements>>
    BY <2>1 DEF NoStockNoValue, Nothing
  <2>2. ASSUME NEW b \in Branches, NEW source \in Sources \cup Keys \cup Counts, NEW lines,
               LinesOK(lines), Post(b, source, lines)
        PROVE  NoStockNoValue'
    <3>1. /\ \A d \in Branches : d # b => stock'[d] = stock[d]
          /\ \A v \in Variants : v \notin DOMAIN lines => stock'[b][v] = stock[b][v]
          /\ \A v \in DOMAIN lines : stock'[b][v].quantity = 0 => stock'[b][v] = Nothing
      BY <2>2, PostBalances DEF TypeOK
    <3>2. ASSUME NEW d \in Branches, NEW v \in Variants, stock'[d][v].quantity = 0
          PROVE  stock'[d][v] = Nothing
      BY <3>1, <3>2 DEF NoStockNoValue
    <3> QED BY <3>2 DEF NoStockNoValue, Nothing
  <2> QED BY <2>1, <2>2, StepPosts DEF Posts
<1>3. Init => TypeOK /\ ApprovedCounts
  BY TypeInit DEF Init, ApprovedCounts
<1>4. TypeOK /\ ApprovedCounts /\ [Next]_vars => (TypeOK /\ ApprovedCounts)'
  BY TypeStep, ApprovedStep
<1> QED BY <1>1, <1>2, <1>3, <1>4, PTL DEF Spec

-----------------------------------------------------------------------------
(* What an approval leaves.                                                *)

LEMMA OnlyApprovalApproves ==
    ASSUME TypeOK, [Next]_vars, NEW c \in Counts,
           countStatus[c] # "APPROVED", countStatus'[c] = "APPROVED"
    PROVE  \E k \in CountKeys : Started(c) /\ CreateApproval(c, k)
<1>1. ASSUME NEW d \in Counts, NEW status, SetStatus(d, status), status # "APPROVED"
      PROVE  FALSE
  BY <1>1 DEF SetStatus, TypeOK
<1>2. ASSUME UNCHANGED countStatus PROVE FALSE
  BY <1>2
<1>3. ASSUME NEW b \in Branches, NEW k \in CountKeys, CreateCount(b, k) PROVE FALSE
  BY <1>1, <1>3 DEF CreateCount
<1>4. ASSUME NEW a \in Actors, NEW d \in Counts,
             \/ SubmitStockCount(a, d) \/ ReturnStockCountForRecount(a, d)
             \/ CancelStockCount(a, d)
      PROVE  FALSE
  BY <1>1, <1>4 DEF SubmitStockCount, ReturnStockCountForRecount, CancelStockCount
<1>5. ASSUME NEW a \in Actors, NEW d \in Counts, NEW v \in Variants,
             \/ \E quantity \in 0 .. MaxQuantity, reasoned \in BOOLEAN :
                    RecordStockCountQuantity(a, d, v, quantity, reasoned)
             \/ \E explained \in BOOLEAN, cost \in Optional(Costs), evidenced \in BOOLEAN :
                    RecordStockCountReviewEvidence(a, d, v, explained, cost, evidenced)
      PROVE  FALSE
  BY <1>2, <1>5 DEF RecordStockCountQuantity, RecordStockCountReviewEvidence
<1>6. ASSUME Idle \/ Posting \/ \E d \in Counts, k \in CountKeys : Reversing(d, k)
      PROVE  FALSE
  BY <1>2, <1>6 DEF Idle, Posting, Reversing, CreateReversal
<1>7. ASSUME NEW d \in Counts, NEW k \in CountKeys, CreateApproval(d, k) PROVE d = c
  <2>1. countStatus' = [countStatus EXCEPT ![d] = "APPROVED"]
    BY <1>7 DEF CreateApproval, SetStatus
  <2> QED BY <2>1 DEF TypeOK
<1> QED BY <1>3, <1>4, <1>5, <1>6, <1>7, StepCases

LEMMA ApprovalLeavesCounted ==
    ASSUME FreezeInv, NEW c \in Counts, NEW k \in CountKeys, Started(c), CreateApproval(c, k),
           NEW v \in Variants
    PROVE  stock'[countBranch[c]][v].quantity =
               IF v \in countLines[c] THEN The(physical[c][v]) ELSE 0
<1> DEFINE lines == DifferenceLines(c, "STOCK_COUNT_ADJUSTMENT_IN",
                                       "STOCK_COUNT_ADJUSTMENT_OUT")
<1>1. /\ Post(countBranch[c], c, lines) /\ countStatus[c] = "SUBMITTED"
      /\ \A w \in countLines[c] :
             /\ physical[c][w] # {}
             /\ review[c][w].variance = {Variance(c, w)}
             /\ w \in Differences(c) => Reviewed(c, w)
  BY DEF CreateApproval
<1>2. TypeOK /\ InventoryTypeOK /\ countBranch[c] \in Branches
  BY DEF FreezeInv, TypeOK
<1>3. \A w \in Differences(c) : review[c][w].variance # {} /\ review[c][w].cost # {}
  BY <1>1 DEF Differences, Reviewed
<1>4. LinesOK(lines) /\ DOMAIN lines = Differences(c)
  BY <1>2, <1>3, DifferenceLinesOK DEF MovementTypes, InboundTypes, ExactTypes
<1>5. \A w \in Differences(c) :
          QuantityDelta(lines[w]) = The(review[c][w].variance)
  <2> SUFFICES ASSUME NEW w \in Differences(c)
               PROVE  QuantityDelta(lines[w]) = The(review[c][w].variance)
    OBVIOUS
  <2> DEFINE variance == The(review[c][w].variance)
             cost == The(review[c][w].cost)
  <2>1. lines[w] = IF variance > 0 THEN Line("STOCK_COUNT_ADJUSTMENT_IN", variance, cost)
                                   ELSE Line("STOCK_COUNT_ADJUSTMENT_OUT", -variance, cost)
    BY DEF DifferenceLines
  <2>2. w \in Variants /\ w \in countLines[c]
    BY <1>2 DEF Differences, TypeOK
  <2>3. review[c][w] \in ReviewRow /\ review[c][w].variance # {}
        /\ AtMostOne(review[c][w].variance)
    BY <1>2, <1>3, <2>2 DEF TypeOK
  <2>4. variance \in Int
    BY <2>3, TheOnly DEF ReviewRow
  <2> HIDE DEF variance, cost, lines
  <2>5. QuantityDelta(lines[w]) = variance
    BY <2>1, <2>4 DEF Line, QuantityDelta, InboundTypes
  <2> QED BY <2>5 DEF variance
<1> HIDE DEF lines
<1>6. /\ v \notin Differences(c) => stock'[countBranch[c]][v] = stock[countBranch[c]][v]
      /\ v \in Differences(c) => stock'[countBranch[c]][v].quantity
             = stock[countBranch[c]][v].quantity + The(review[c][v].variance)
  BY <1>1, <1>2, <1>4, <1>5, PostBalances
<1>7. /\ stock[countBranch[c]][v] = snapshot[c][v]
      /\ v \notin countLines[c] => snapshot[c][v].quantity = 0
  BY <1>1 DEF FreezeInv, FrozenStockIsSnapshot, ActiveCounts
<1>8. CASE v \notin countLines[c]
  BY <1>6, <1>7, <1>8 DEF Differences
<1>9. CASE v \in countLines[c]
  <2>1. The(physical[c][v]) \in Nat /\ snapshot[c][v].quantity \in Nat
    <3>1. physical[c][v] \in SUBSET Nat /\ AtMostOne(physical[c][v]) /\ physical[c][v] # {}
          /\ snapshot[c][v] \in Balance
      BY <1>1, <1>2, <1>9 DEF TypeOK
    <3> QED BY <3>1, TheOnly DEF Balance
  <2>2. Variance(c, v) = The(physical[c][v]) - snapshot[c][v].quantity
    BY DEF Variance
  <2>3. review[c][v].variance = {Variance(c, v)}
    BY <1>1, <1>9
  <2>4. The(review[c][v].variance) = Variance(c, v)
    <3>1. \A x : The({x}) = x
      BY DEF The
    <3> QED BY <2>3, <3>1
  <2>5. v \notin Differences(c) => Variance(c, v) = 0
    BY <1>9, <2>3 DEF Differences
  <2> HIDE DEF Variance
  <2> QED BY <1>6, <1>7, <1>9, <2>1, <2>2, <2>4, <2>5
<1> QED BY <1>8, <1>9

\* approve_stock_count: no posting came between the snapshot and the approval, so that the
\* counted quantities are what the approval leaves, and nothing where nothing was listed.
THEOREM ApprovalIsExact == Spec => ApprovalMakesStockPhysical
<1>1. FreezeInv /\ [Next]_vars =>
          [\A c \in Counts : countStatus[c] # "APPROVED" /\ countStatus'[c] = "APPROVED" =>
               \A v \in Variants :
                   stock'[countBranch[c]][v].quantity =
                       IF v \in countLines[c] THEN The(physical[c][v]) ELSE 0]_vars
  BY OnlyApprovalApproves, ApprovalLeavesCounted DEF FreezeInv
<1> QED
  BY <1>1, FreezeInvariant, PTL DEF Spec, ApprovalMakesStockPhysical

-----------------------------------------------------------------------------
(* Keys.                                                                   *)

OperationKeysUnique ==
    \A m, n \in Operations : m.source = n.source =>
        m.type = n.type /\ m.branch = n.branch /\ m.variant = n.variant
CountKeysUnique == \A r, s \in countKeys : r.key = s.key => r = s
ClaimsAreStarted == \A r \in countKeys : Started(r.count)
EvidenceIsClaimed ==
    /\ \A r \in approvals : [key |-> r.key, op |-> "APPROVE", count |-> r.count] \in countKeys
    /\ \A r \in reversals : [key |-> r.key, op |-> "REVERSE", count |-> r.count] \in countKeys

\* An answer tells what the row of its key says.
Recorded(x) ==
    /\ x.table = "OPERATION" => \E m \in Operations :
           m.source = x.key /\ m.type = x.op /\ m.branch = x.branch /\ m.variant = x.of
    /\ x.table = "COUNT" => \E r \in countKeys :
           r.key = x.key /\ r.op = x.op /\ r.count = x.of /\ countBranch[r.count] = x.branch
AnswersRecorded == \A x \in answers : Recorded(x)

KeyInv == /\ OperationKeysUnique /\ CountKeysUnique /\ ClaimsAreStarted
          /\ EvidenceIsClaimed /\ AnswersRecorded

LEMMA RecordedStays ==
    ASSUME Operations \subseteq Operations', countKeys \subseteq countKeys',
           \A r \in countKeys : countBranch'[r.count] = countBranch[r.count],
           NEW x, Recorded(x)
    PROVE  Recorded(x)'
BY DEF Recorded

\* A call that posts nothing under a key of an operation and claims no key.
LEMMA AnswerPreserves ==
    ASSUME KeyInv, Operations' = Operations,
           UNCHANGED <<countKeys, countBranch, approvals, reversals>>,
           \A c \in Counts : Started(c) => Started(c)',
           KeysOK,
           \A x \in answers' : x \in answers \/ Recorded(x)
    PROVE  KeyInv'
<1>1. OperationKeysUnique' /\ CountKeysUnique' /\ EvidenceIsClaimed'
  BY DEF KeyInv, OperationKeysUnique, CountKeysUnique, EvidenceIsClaimed
<1>2. ClaimsAreStarted'
  <2>1. \A r \in countKeys : r.count \in Counts
    BY DEF KeysOK
  <2> QED BY <2>1 DEF KeyInv, ClaimsAreStarted
<1>3. AnswersRecorded'
  <2>1. ASSUME NEW x \in answers' PROVE Recorded(x)'
    <3>1. Recorded(x)
      BY <2>1 DEF KeyInv, AnswersRecorded
    <3> QED BY <3>1, RecordedStays
  <2> QED BY <2>1 DEF AnswersRecorded
<1> QED BY <1>1, <1>2, <1>3 DEF KeyInv

LEMMA SourcesAreNoOperations ==
    ASSUME NEW b, NEW source, NEW lines, Post(b, source, lines),
           \A v \in DOMAIN lines : lines[v].type \notin OperationTypes
    PROVE  Operations' = Operations
BY DEF Post, Operations

LEMMA DifferencesAreNoOperations ==
    ASSUME NEW c \in Counts, NEW more, NEW less, NEW b, NEW source,
           more \notin OperationTypes, less \notin OperationTypes,
           Post(b, source, DifferenceLines(c, more, less))
    PROVE  Operations' = Operations
<1> DEFINE lines == DifferenceLines(c, more, less)
<1>1. \A v \in DOMAIN lines : lines[v].type \in {more, less}
  BY DEF DifferenceLines, Line
<1> HIDE DEF lines
<1>2. \A v \in DOMAIN lines : lines[v].type \notin OperationTypes
  BY <1>1
<1> QED BY <1>2, SourcesAreNoOperations DEF lines

\* A count service that claims a key for its count.
LEMMA ClaimPreserves ==
    ASSUME KeyInv, KeysOK, Operations' = Operations, NEW c \in Counts, NEW k \in CountKeys, NEW op,
           NEW b, ~Claimed(k), Claim(k, op, c), Answer("COUNT", k, op, b, c),
           countBranch'[c] = b, Started(c)',
           \A d \in Counts : Started(d) => Started(d)' /\ countBranch'[d] = countBranch[d],
           \/ UNCHANGED <<approvals, reversals>>
           \/ /\ op = "APPROVE" /\ approvals' = approvals \cup {[count |-> c, key |-> k]}
              /\ UNCHANGED reversals
           \/ /\ op = "REVERSE" /\ reversals' = reversals \cup {[count |-> c, key |-> k]}
              /\ UNCHANGED approvals
    PROVE  KeyInv'
<1> DEFINE row == [key |-> k, op |-> op, count |-> c]
<1>1. countKeys' = countKeys \cup {row} /\ \A r \in countKeys : r.key # k /\ r.count \in Counts
  BY DEF Claim, Claimed, KeysOK
<1>2. row.key = k /\ row.op = op /\ row.count = c
  OBVIOUS
<1>3. \A r \in countKeys : Started(r.count)' /\ countBranch'[r.count] = countBranch[r.count]
  BY <1>1 DEF KeyInv, ClaimsAreStarted
<1>4. OperationKeysUnique'
  BY DEF KeyInv, OperationKeysUnique
<1>5. EvidenceIsClaimed'
  <2> DEFINE new == [count |-> c, key |-> k]
  <2>1. new.key = k /\ new.count = c
    OBVIOUS
  <2>2. /\ \A r \in approvals' : r \in approvals \/ (r = new /\ op = "APPROVE")
        /\ \A r \in reversals' : r \in reversals \/ (r = new /\ op = "REVERSE")
    OBVIOUS
  <2>3. row \in countKeys' /\ countKeys \subseteq countKeys'
    BY <1>1
  <2> HIDE DEF new
  <2>4. /\ op = "APPROVE" => [key |-> new.key, op |-> "APPROVE", count |-> new.count] = row
        /\ op = "REVERSE" => [key |-> new.key, op |-> "REVERSE", count |-> new.count] = row
    BY <2>1 DEF row
  <2> HIDE DEF row
  <2>5. ASSUME NEW r \in approvals'
        PROVE  [key |-> r.key, op |-> "APPROVE", count |-> r.count] \in countKeys'
    <3>1. CASE r \in approvals
      BY <2>3, <3>1 DEF KeyInv, EvidenceIsClaimed
    <3>2. CASE r = new /\ op = "APPROVE"
      BY <2>3, <2>4, <3>2
    <3> QED BY <2>2, <3>1, <3>2
  <2>6. ASSUME NEW r \in reversals'
        PROVE  [key |-> r.key, op |-> "REVERSE", count |-> r.count] \in countKeys'
    <3>1. CASE r \in reversals
      BY <2>3, <3>1 DEF KeyInv, EvidenceIsClaimed
    <3>2. CASE r = new /\ op = "REVERSE"
      BY <2>3, <2>4, <3>2
    <3> QED BY <2>2, <3>1, <3>2
  <2> QED BY <2>5, <2>6 DEF EvidenceIsClaimed
<1> HIDE DEF row
<1>6. CountKeysUnique'
  <2>1. \A r, s \in countKeys' : r.key = s.key => r = s
    BY <1>1, <1>2 DEF KeyInv, CountKeysUnique
  <2> QED BY <2>1 DEF CountKeysUnique
<1>7. ClaimsAreStarted'
  <2>1. \A r \in countKeys' : Started(r.count)'
    BY <1>1, <1>2, <1>3
  <2> QED BY <2>1 DEF ClaimsAreStarted
<1>8. AnswersRecorded'
  <2>1. ASSUME NEW x \in answers PROVE Recorded(x)'
    BY <1>1, <1>3, <2>1, RecordedStays DEF KeyInv, AnswersRecorded
  <2> DEFINE answer == [table |-> "COUNT", key |-> k, op |-> op, branch |-> b, of |-> c]
  <2>2. Recorded(answer)'
    BY <1>1, <1>2 DEF Recorded
  <2>3. answers' = answers \cup {answer}
    BY DEF Answer
  <2> HIDE DEF answer
  <2>4. \A x \in answers' : Recorded(x)'
    BY <2>1, <2>2, <2>3
  <2> QED BY <2>4 DEF AnswersRecorded
<1> QED BY <1>4, <1>5, <1>6, <1>7, <1>8 DEF KeyInv

\* An opening or an adjustment that is posted, not answered again.
LEMMA OperationPreserves ==
    ASSUME KeyInv, KeysOK, UNCHANGED <<countKeys, countBranch, countStatus, approvals, reversals>>,
           NEW b, NEW v, NEW op \in OperationTypes, NEW quantity, NEW cost, NEW k,
           CreateOperation(b, v, op, quantity, cost, k)
    PROVE  KeyInv'
<1>1. \E new : /\ movements' = movements \cup {new}
               /\ new.source = k /\ new.type = op /\ new.branch = b /\ new.variant = v
  <2> DEFINE lines == [x \in {v} |-> Line(op, quantity, cost)]
             row(w) == [branch |-> b, variant |-> w, type |-> lines[w].type, source |-> k,
                        quantity |-> QuantityDelta(lines[w]),
                        value |-> ValueDelta(stock[b][w], lines[w])]
  <2>1. movements' = movements \cup {row(w) : w \in {v}}
    BY DEF CreateOperation, Post
  <2>2. lines[v].type = op
    BY DEF Line
  <2>3. row(v).source = k /\ row(v).type = op /\ row(v).branch = b /\ row(v).variant = v
    BY <2>2
  <2> HIDE DEF row
  <2>4. {row(w) : w \in {v}} = {row(v)}
    OBVIOUS
  <2> QED BY <2>1, <2>3, <2>4
<1>2. PICK new : /\ movements' = movements \cup {new}
                 /\ new.source = k /\ new.type = op /\ new.branch = b /\ new.variant = v
  BY <1>1
<1>3. Operations' = Operations \cup {new} /\ \A m \in Operations : m.source # k
  BY <1>2 DEF Operations, CreateOperation
<1>4. OperationKeysUnique'
  <2>1. \A m, n \in Operations' : m.source = n.source =>
            m.type = n.type /\ m.branch = n.branch /\ m.variant = n.variant
    BY <1>2, <1>3 DEF KeyInv, OperationKeysUnique
  <2> QED BY <2>1 DEF OperationKeysUnique
<1>5. CountKeysUnique' /\ EvidenceIsClaimed' /\ ClaimsAreStarted'
  BY DEF KeyInv, CountKeysUnique, EvidenceIsClaimed, ClaimsAreStarted, Started
<1>6. AnswersRecorded'
  <2>1. ASSUME NEW x \in answers PROVE Recorded(x)'
    BY <1>3, <2>1, RecordedStays DEF KeyInv, AnswersRecorded
  <2> DEFINE answer == [table |-> "OPERATION", key |-> k, op |-> op, branch |-> b, of |-> v]
  <2>2. Recorded(answer)'
    BY <1>2, <1>3 DEF Recorded
  <2>3. answers' = answers \cup {answer}
    BY DEF CreateOperation, Answer
  <2> HIDE DEF answer
  <2>4. \A x \in answers' : Recorded(x)'
    BY <2>1, <2>2, <2>3
  <2> QED BY <2>4 DEF AnswersRecorded
<1> QED BY <1>4, <1>5, <1>6 DEF KeyInv

LEMMA InventoryPreservesKeys ==
    ASSUME KeyInv, TypeOK, InventoryNext,
           UNCHANGED <<worksheetVars, evidenceVars, countStatus, physical, review>>
    PROVE  KeyInv'
<1>1. /\ UNCHANGED <<countKeys, countBranch, countStatus, approvals, reversals>>
      /\ \A c \in Counts : Started(c) => Started(c)'
      /\ KeysOK
  BY TypeParts DEF worksheetVars, evidenceVars, Started
<1>2. ASSUME Operations' = Operations, \A x \in answers' : x \in answers \/ Recorded(x)
      PROVE  KeyInv'
  BY <1>1, <1>2, AnswerPreserves
<1>3. ASSUME NEW a \in Actors, NEW b \in Branches, NEW source \in Sources,
             NEW lines \in SourceLines, RecordSource(a, b, source, lines)
      PROVE  KeyInv'
  <2> DEFINE posted == [v \in DOMAIN lines |->
                            Line(SourceType[source], lines[v].quantity, lines[v].cost)]
  <2>1. Post(b, source, posted) /\ UNCHANGED answers
    BY <1>3 DEF RecordSource
  <2>2. SourceType[source] \notin OperationTypes
    BY SourceTypeAssumption DEF SourceTypes, StaffTypes, OperationTypes
  <2>3. \A v \in DOMAIN posted : posted[v].type \notin OperationTypes
    BY <2>2 DEF Line
  <2> HIDE DEF posted
  <2>4. Operations' = Operations
    BY <2>1, <2>3, SourcesAreNoOperations
  <2> QED BY <1>2, <2>1, <2>4
<1>4. ASSUME NEW b, NEW v, NEW op, NEW k, ReplayOperation(b, v, op, k)
      PROVE  KeyInv'
  <2> DEFINE answer == [table |-> "OPERATION", key |-> k, op |-> op, branch |-> b, of |-> v]
  <2>1. Recorded(answer)
    BY <1>4 DEF ReplayOperation, Recorded
  <2>2. answers' = answers \cup {answer} /\ UNCHANGED movements
    BY <1>4 DEF ReplayOperation, Answer
  <2> HIDE DEF answer
  <2>3. Operations' = Operations
    BY <2>2 DEF Operations
  <2> QED BY <1>2, <2>1, <2>2, <2>3
<1>5. ASSUME NEW b, NEW v, NEW op \in OperationTypes, NEW quantity, NEW cost, NEW k,
             CreateOperation(b, v, op, quantity, cost, k)
      PROVE  KeyInv'
  BY <1>1, <1>5, OperationPreserves
<1>6. ASSUME NEW v \in Variants, SetActive(v) PROVE KeyInv'
  BY <1>2, <1>6 DEF SetActive, Operations
<1> QED BY <1>3, <1>4, <1>5, <1>6 DEF InventoryNext, PostOperation

\* A step of a count that answers nothing, or with a row there is.
LEMMA CountPreservesKeys ==
    ASSUME KeyInv, TypeOK, UNCHANGED <<movements, countKeys, countBranch, approvals, reversals>>,
           \/ UNCHANGED countStatus
           \/ \E c \in Counts, status \in {"COUNTING", "SUBMITTED", "CANCELLED"} :
                  SetStatus(c, status),
           \A x \in answers' : x \in answers \/ Recorded(x)
    PROVE  KeyInv'
<1>1. Operations' = Operations /\ KeysOK
  BY TypeParts DEF Operations
<1>2. \A c \in Counts : Started(c) => Started(c)'
  BY DEF TypeOK, Started, SetStatus
<1> QED BY <1>1, <1>2, AnswerPreserves

LEMMA ReplaysPreserveKeys ==
    ASSUME KeyInv, TypeOK,
           NEW k \in CountKeys,
           \/ \E b \in Branches : ReplayStart(b, k)
           \/ \E c \in Counts : ReplayApproval(c, k) \/ ReplayReversal(c, k)
    PROVE  KeyInv'
<1>1. UNCHANGED <<movements, countKeys, countBranch, approvals, reversals, countStatus>>
  BY DEF ReplayStart, ReplayApproval, ReplayReversal, inventoryVars, worksheetVars, evidenceVars
<1>2. ASSUME NEW b, NEW op, NEW c, Answer("COUNT", k, op, b, c),
             NEW r \in countKeys, r.key = k, r.op = op, r.count = c, countBranch[c] = b
      PROVE  KeyInv'
  <2> DEFINE answer == [table |-> "COUNT", key |-> k, op |-> op, branch |-> b, of |-> c]
  <2>1. Recorded(answer)
    BY <1>2 DEF Recorded
  <2>2. answers' = answers \cup {answer}
    BY <1>2 DEF Answer
  <2> HIDE DEF answer
  <2> QED BY <1>1, <2>1, <2>2, CountPreservesKeys
<1>3. ASSUME NEW b \in Branches, ReplayStart(b, k) PROVE KeyInv'
  BY <1>2, <1>3 DEF ReplayStart
<1>4. ASSUME NEW c \in Counts, ReplayApproval(c, k) PROVE KeyInv'
  <2> DEFINE evidence == [count |-> c, key |-> k]
             row == [key |-> evidence.key, op |-> "APPROVE", count |-> evidence.count]
  <2>1. evidence \in approvals /\ Answer("COUNT", k, "APPROVE", countBranch[c], c)
    BY <1>4 DEF ReplayApproval
  <2>2. row.key = k /\ row.op = "APPROVE" /\ row.count = c
    OBVIOUS
  <2> HIDE DEF evidence
  <2>3. row \in countKeys
    BY <2>1 DEF KeyInv, EvidenceIsClaimed
  <2> HIDE DEF row
  <2> QED BY <1>2, <2>1, <2>2, <2>3
<1>5. ASSUME NEW c \in Counts, ReplayReversal(c, k) PROVE KeyInv'
  <2> DEFINE evidence == [count |-> c, key |-> k]
             row == [key |-> evidence.key, op |-> "REVERSE", count |-> evidence.count]
  <2>1. evidence \in reversals /\ Answer("COUNT", k, "REVERSE", countBranch[c], c)
    BY <1>5 DEF ReplayReversal
  <2>2. row.key = k /\ row.op = "REVERSE" /\ row.count = c
    OBVIOUS
  <2> HIDE DEF evidence
  <2>3. row \in countKeys
    BY <2>1 DEF KeyInv, EvidenceIsClaimed
  <2> HIDE DEF row
  <2> QED BY <1>2, <2>1, <2>2, <2>3
<1> QED BY <1>3, <1>4, <1>5

LEMMA ClaimsPreserveKeys ==
    ASSUME KeyInv, TypeOK, NEW k \in CountKeys,
           \/ \E b \in Branches : CreateCount(b, k)
           \/ \E c \in Counts : Started(c) /\ (CreateApproval(c, k) \/ CreateReversal(c, k))
    PROVE  KeyInv'
<1>1. KeysOK
  BY TypeParts
<1>2. ASSUME NEW b \in Branches, CreateCount(b, k) PROVE KeyInv'
  <2>1. PICK c \in Counts :
            /\ ~Started(c)
            /\ SetStatus(c, "COUNTING")
            /\ countBranch' = [countBranch EXCEPT ![c] = b]
            /\ Claim(k, "START", c)
            /\ Answer("COUNT", k, "START", b, c)
    BY <1>2 DEF CreateCount
  <2>2. Operations' = Operations /\ UNCHANGED <<approvals, reversals>> /\ ~Claimed(k)
    BY <1>2 DEF CreateCount, inventoryVars, Operations
  <2>3. Started(c)' /\ countBranch'[c] = b
    BY <2>1 DEF TypeOK, Started, SetStatus
  <2>4. \A d \in Counts : Started(d) => Started(d)' /\ countBranch'[d] = countBranch[d]
    BY <2>1 DEF TypeOK, Started, SetStatus
  <2> QED BY <1>1, <2>1, <2>2, <2>3, <2>4, ClaimPreserves
<1>3. ASSUME NEW c \in Counts, Started(c), CreateApproval(c, k) PROVE KeyInv'
  <2>1. Operations' = Operations
    BY <1>3, DifferencesAreNoOperations DEF CreateApproval, OperationTypes
  <2>2. /\ ~Claimed(k) /\ Claim(k, "APPROVE", c) /\ SetStatus(c, "APPROVED")
        /\ Answer("COUNT", k, "APPROVE", countBranch[c], c) /\ UNCHANGED <<countBranch, reversals>>
        /\ approvals' = approvals \cup {[count |-> c, key |-> k]}
    BY <1>3 DEF CreateApproval, worksheetVars
  <2>3. \A d \in Counts : Started(d) => Started(d)' /\ countBranch'[d] = countBranch[d]
    BY <2>2 DEF TypeOK, Started, SetStatus
  <2> QED BY <1>1, <1>3, <2>1, <2>2, <2>3, ClaimPreserves
<1>4. ASSUME NEW c \in Counts, Started(c), CreateReversal(c, k) PROVE KeyInv'
  <2>1. Operations' = Operations
    BY <1>4, DifferencesAreNoOperations DEF CreateReversal, OperationTypes
  <2>2. /\ ~Claimed(k) /\ Claim(k, "REVERSE", c) /\ UNCHANGED <<countBranch, countStatus, approvals>>
        /\ Answer("COUNT", k, "REVERSE", countBranch[c], c)
        /\ reversals' = reversals \cup {[count |-> c, key |-> k]}
    BY <1>4 DEF CreateReversal, worksheetVars
  <2>3. \A d \in Counts : Started(d) => Started(d)' /\ countBranch'[d] = countBranch[d]
    BY <2>2 DEF Started
  <2> QED BY <1>1, <1>4, <2>1, <2>2, <2>3, ClaimPreserves
<1> QED BY <1>2, <1>3, <1>4

LEMMA KeysStep ==
    ASSUME KeyInv, TypeOK, [Next]_vars
    PROVE  KeyInv'
<1>1. CASE UNCHANGED vars
  <2>1. /\ UNCHANGED <<movements, countKeys, countBranch, approvals, reversals, countStatus>>
        /\ UNCHANGED answers
    BY <1>1 DEF vars, inventoryVars, worksheetVars, evidenceVars
  <2> QED BY <2>1, CountPreservesKeys
<1>2. CASE /\ InventoryNext
           /\ UNCHANGED <<worksheetVars, evidenceVars, countStatus, physical, review>>
  BY <1>2, InventoryPreservesKeys
<1>3. ASSUME NEW a \in Actors, NEW b \in Branches, NEW noted \in BOOLEAN, NEW k \in CountKeys,
             StartStockCount(a, b, noted, k)
      PROVE  KeyInv'
  BY <1>3, ReplaysPreserveKeys, ClaimsPreserveKeys DEF StartStockCount
<1>4. ASSUME NEW a \in Actors, NEW c \in Counts, NEW v \in Variants,
             NEW quantity \in 0 .. MaxQuantity, NEW reasoned \in BOOLEAN,
             RecordStockCountQuantity(a, c, v, quantity, reasoned)
      PROVE  KeyInv'
  <2>1. UNCHANGED <<movements, countKeys, countBranch, approvals, reversals, countStatus, answers>>
    BY <1>4 DEF RecordStockCountQuantity, inventoryVars, worksheetVars, evidenceVars
  <2> QED BY <2>1, CountPreservesKeys
<1>5. ASSUME NEW a \in Actors, NEW c \in Counts,
             \/ SubmitStockCount(a, c)
             \/ ReturnStockCountForRecount(a, c)
             \/ CancelStockCount(a, c)
      PROVE  KeyInv'
  <2>1. UNCHANGED <<movements, countKeys, countBranch, approvals, reversals, answers>>
    BY <1>5 DEF SubmitStockCount, ReturnStockCountForRecount, CancelStockCount,
                inventoryVars, worksheetVars, evidenceVars
  <2>2. \E status \in {"COUNTING", "SUBMITTED", "CANCELLED"} : SetStatus(c, status)
    BY <1>5 DEF SubmitStockCount, ReturnStockCountForRecount, CancelStockCount
  <2> QED BY <2>1, <2>2, CountPreservesKeys
<1>6. ASSUME NEW a \in Actors, NEW c \in Counts, NEW v \in Variants, NEW explained \in BOOLEAN,
             NEW cost \in Optional(Costs), NEW evidenced \in BOOLEAN,
             RecordStockCountReviewEvidence(a, c, v, explained, cost, evidenced)
      PROVE  KeyInv'
  <2>1. UNCHANGED <<movements, countKeys, countBranch, approvals, reversals, countStatus, answers>>
    BY <1>6 DEF RecordStockCountReviewEvidence, inventoryVars, worksheetVars, evidenceVars
  <2> QED BY <2>1, CountPreservesKeys
<1>7. ASSUME NEW a \in Actors, NEW c \in Counts, NEW k \in CountKeys, ApproveStockCount(a, c, k)
      PROVE  KeyInv'
  BY <1>7, ReplaysPreserveKeys, ClaimsPreserveKeys DEF ApproveStockCount
<1>8. ASSUME NEW a \in Actors, NEW c \in Counts, NEW k \in CountKeys, ReverseStockCount(a, c, k)
      PROVE  KeyInv'
  <2>1. Started(c)
    <3>1. PICK r \in approvals : r.count = c
      BY <1>8 DEF ReverseStockCount
    <3> DEFINE row == [key |-> r.key, op |-> "APPROVE", count |-> r.count]
    <3>2. row \in countKeys /\ row.count = c
      BY <3>1 DEF KeyInv, EvidenceIsClaimed
    <3> HIDE DEF row
    <3> QED BY <3>2 DEF KeyInv, ClaimsAreStarted
  <2> QED BY <1>8, <2>1, ReplaysPreserveKeys, ClaimsPreserveKeys DEF ReverseStockCount
<1> QED BY <1>1, <1>2, <1>3, <1>4, <1>5, <1>6, <1>7, <1>8 DEF Next

LEMMA RecordedOnce ==
    ASSUME KeyInv, answers \subseteq AnswerRow
    PROVE  KeyAnswersOnce
<1> SUFFICES ASSUME NEW x \in answers, NEW y \in answers, x.table = y.table, x.key = y.key
             PROVE  x = y
  BY DEF KeyAnswersOnce
<1>1. x \in AnswerRow /\ y \in AnswerRow /\ Recorded(x) /\ Recorded(y)
  BY DEF KeyInv, AnswersRecorded
<1>2. x.op = y.op /\ x.branch = y.branch /\ x.of = y.of
  <2>1. CASE x.table = "OPERATION"
    BY <1>1, <2>1 DEF Recorded, KeyInv, OperationKeysUnique
  <2>2. CASE x.table = "COUNT"
    BY <1>1, <2>2 DEF Recorded, KeyInv, CountKeysUnique
  <2> QED BY <1>1, <2>1, <2>2 DEF AnswerRow
<1> QED BY <1>1, <1>2 DEF AnswerRow

\* StockOperation.idempotency_key and StockCountPostingKey: a call that is sent again answers
\* with the operation, count, approval or reversal it made, and no two make one under one key.
THEOREM KeyedCallsAnswerOnce == Spec => []KeyAnswersOnce
<1>1. Init => KeyInv
  BY DEF Init, InventoryInit, KeyInv, OperationKeysUnique, Operations, CountKeysUnique,
         ClaimsAreStarted, EvidenceIsClaimed, AnswersRecorded
<1>2. TypeOK /\ KeyInv /\ [Next]_vars => KeyInv'
  BY KeysStep
<1>3. TypeOK /\ KeyInv => KeyAnswersOnce
  BY RecordedOnce DEF TypeOK, InventoryTypeOK
<1> QED BY <1>1, <1>2, <1>3, TypeCorrect, PTL DEF Spec
-----------------------------------------------------------------------------
(* The ledger.                                                             *)

\* An approved count is never touched again, and its reversal stays.
LEMMA SettledStays ==
    ASSUME TypeOK, [Next]_vars
    PROVE  /\ reversals \subseteq reversals'
           /\ \A c \in Counts : countStatus[c] = "APPROVED" =>
                  /\ countStatus'[c] = "APPROVED"
                  /\ countLines'[c] = countLines[c] /\ snapshot'[c] = snapshot[c]
                  /\ physical'[c] = physical[c] /\ review'[c] = review[c]
<1> DEFINE Stays == /\ reversals \subseteq reversals'
                    /\ \A c \in Counts : countStatus[c] = "APPROVED" =>
                           /\ countStatus'[c] = "APPROVED"
                           /\ countLines'[c] = countLines[c] /\ snapshot'[c] = snapshot[c]
                           /\ physical'[c] = physical[c] /\ review'[c] = review[c]
<1>0. /\ countStatus \in [Counts -> ActiveCounts \cup {"ABSENT", "APPROVED", "CANCELLED"}]
      /\ countLines \in [Counts -> SUBSET Variants]
      /\ snapshot \in [Counts -> [Variants -> Balance]]
      /\ physical \in [Counts -> [Variants -> SUBSET Nat]]
      /\ review \in [Counts -> [Variants -> ReviewRow]]
  BY DEF TypeOK
<1>1. ASSUME NEW c \in Counts, countStatus[c] # "APPROVED",
             \/ UNCHANGED countStatus
             \/ \E status : SetStatus(c, status),
             \/ UNCHANGED <<countLines, snapshot>>
             \/ \E new, scope : /\ countLines' = [countLines EXCEPT ![c] = scope]
                                /\ snapshot' = [snapshot EXCEPT ![c] = new],
             \/ UNCHANGED physical
             \/ \E new : physical' = [physical EXCEPT ![c] = new],
             \/ UNCHANGED review
             \/ \E new : review' = [review EXCEPT ![c] = new],
             UNCHANGED reversals
      PROVE  Stays
  BY <1>0, <1>1 DEF SetStatus
<1>2. ASSUME NEW b \in Branches, NEW k \in CountKeys, CreateCount(b, k) PROVE Stays
  <2>1. PICK c \in Counts :
            /\ ~Started(c)
            /\ SetStatus(c, "COUNTING")
            /\ countLines' = [countLines EXCEPT ![c] = Scope(b)]
            /\ snapshot' = [snapshot EXCEPT ![c] = stock[b]]
    BY <1>2 DEF CreateCount
  <2>2. UNCHANGED <<reversals, physical, review>> /\ countStatus[c] # "APPROVED"
    BY <1>2, <2>1 DEF CreateCount, Started
  <2> QED BY <1>1, <2>1, <2>2
<1>3. ASSUME NEW a \in Actors, NEW c \in Counts,
             \/ SubmitStockCount(a, c) \/ ReturnStockCountForRecount(a, c)
             \/ CancelStockCount(a, c)
      PROVE  Stays
  <2>1. countStatus[c] # "APPROVED" /\ UNCHANGED <<reversals, physical, countLines, snapshot>>
    BY <1>3 DEF SubmitStockCount, ReturnStockCountForRecount, CancelStockCount, Holds, Freezing,
       ActiveCounts, evidenceVars, worksheetVars
  <2>2. \E status : SetStatus(c, status)
    BY <1>3 DEF SubmitStockCount, ReturnStockCountForRecount, CancelStockCount
  <2>3. UNCHANGED review \/ \E new : review' = [review EXCEPT ![c] = new]
    BY <1>3 DEF SubmitStockCount, ReturnStockCountForRecount, CancelStockCount, Cleared
  <2> QED BY <1>1, <2>1, <2>2, <2>3
<1>4. ASSUME NEW c \in Counts, NEW k \in CountKeys, CreateApproval(c, k) PROVE Stays
  <2>1. /\ countStatus[c] # "APPROVED" /\ SetStatus(c, "APPROVED")
        /\ UNCHANGED <<reversals, physical, review, countLines, snapshot>>
    BY <1>4 DEF CreateApproval, worksheetVars
  <2> QED BY <1>1, <2>1
<1>5. ASSUME NEW a \in Actors, NEW c \in Counts, NEW v \in Variants,
             \/ \E quantity \in 0 .. MaxQuantity, reasoned \in BOOLEAN :
                    RecordStockCountQuantity(a, c, v, quantity, reasoned)
             \/ \E explained \in BOOLEAN, cost \in Optional(Costs), evidenced \in BOOLEAN :
                    RecordStockCountReviewEvidence(a, c, v, explained, cost, evidenced)
      PROVE  Stays
  <2>1. /\ countStatus[c] # "APPROVED"
        /\ UNCHANGED <<reversals, countStatus, countLines, snapshot>>
    BY <1>5 DEF RecordStockCountQuantity, RecordStockCountReviewEvidence, evidenceVars,
       worksheetVars
  <2>2. /\ UNCHANGED physical \/ \E new : physical' = [physical EXCEPT ![c] = new]
        /\ \E new : review' = [review EXCEPT ![c] = new]
    BY <1>5 DEF RecordStockCountQuantity, RecordStockCountReviewEvidence
  <2> QED BY <1>1, <2>1, <2>2
<1>6. ASSUME Idle \/ Posting \/ \E c \in Counts, k \in CountKeys : CreateReversal(c, k)
      PROVE  Stays
  BY <1>6 DEF Idle, Posting, CreateReversal, evidenceVars, worksheetVars
<1> HIDE DEF Stays
<1>7. Stays
  BY <1>2, <1>3, <1>4, <1>5, <1>6, StepCases DEF Reversing
<1> QED BY <1>7 DEF Stays

\* The movements of counts belong to approved and to reversed counts.
CountRows ==
    \A m \in movements :
        /\ m.type \in ApprovalTypes => m.source \in Counts /\ countStatus[m.source] = "APPROVED"
        /\ m.type \in ReversalTypes =>
               m.source \in Counts /\ \E r \in reversals : r.count = m.source

PostedRow(b, v, source, x, line) ==
    [branch |-> b, variant |-> v, type |-> line.type, source |-> source,
     quantity |-> QuantityDelta(line), value |-> ValueDelta(x, line)]

LEMMA PostedRows ==
    ASSUME NEW b, NEW source, NEW lines, Post(b, source, lines)
    PROVE  movements' = movements \cup
               {PostedRow(b, v, source, stock[b][v], lines[v]) : v \in DOMAIN lines}
BY DEF Post, PostedRow

LEMMA CountRowsStep == TypeOK /\ ApprovedCounts /\ CountRows /\ [Next]_vars => CountRows'
<1> SUFFICES ASSUME TypeOK, ApprovedCounts, CountRows, [Next]_vars PROVE CountRows'
  OBVIOUS
<1>0. /\ reversals \subseteq reversals'
      /\ \A c \in Counts : countStatus[c] = "APPROVED" => countStatus'[c] = "APPROVED"
  BY SettledStays
<1>1. CASE UNCHANGED <<stock, movements>>
  BY <1>0, <1>1 DEF CountRows
<1>2. ASSUME NEW b \in Branches, NEW source \in Sources \cup Keys \cup Counts, NEW lines,
             LinesOK(lines), Post(b, source, lines), Once(source, lines)
      PROVE  CountRows'
  <2>1. ASSUME NEW m \in movements', m \notin movements
        PROVE  \E v \in DOMAIN lines : m.type = lines[v].type /\ m.source = source
    BY <1>2, <2>1, PostedRows DEF PostedRow
  <2>2. ASSUME NEW m \in movements', m \notin movements
        PROVE  /\ m.type \in ApprovalTypes =>
                      m.source \in Counts /\ countStatus'[m.source] = "APPROVED"
               /\ m.type \in ReversalTypes =>
                      m.source \in Counts /\ \E r \in reversals' : r.count = m.source
    <3>1. PICK v \in DOMAIN lines : m.type = lines[v].type /\ m.source = source
      BY <2>1, <2>2
    <3>2. /\ ApprovalTypes \subseteq CountTypes /\ ReversalTypes \subseteq CountTypes
          /\ ApprovalTypes \cap ReversalTypes = {} /\ OperationTypes \cap CountTypes = {}
      BY DEF CountTypes, ApprovalTypes, ReversalTypes, OperationTypes
    <3> QED BY <1>2, <3>1, <3>2 DEF Once
  <2> QED BY <1>0, <2>2 DEF CountRows
<1> QED BY <1>1, <1>2, StepPosts DEF Posts

\* What a call posts is new.
LEMMA OnceIsNew ==
    ASSUME CountRows, NEW source, NEW lines, Once(source, lines), NEW m \in movements,
           m.source = source, NEW v \in DOMAIN lines
    PROVE  m.type # lines[v].type
<1>1. ASSUME countStatus[source] = "SUBMITTED" PROVE m.type \notin ApprovalTypes
  BY <1>1 DEF CountRows
<1> QED BY <1>1 DEF Once, CountRows, Operations

LEMMA PostLedger ==
    ASSUME CountRows, NEW b, NEW source, NEW lines, Post(b, source, lines), Once(source, lines),
           NEW d, NEW v
    PROVE  /\ (d # b \/ v \notin DOMAIN lines) => LedgerOf(d, v)' = LedgerOf(d, v)
           /\ (d = b /\ v \in DOMAIN lines) =>
                  LET m == PostedRow(b, v, source, stock[b][v], lines[v])
                  IN  LedgerOf(d, v)' = LedgerOf(d, v) \cup {m} /\ m \notin LedgerOf(d, v)
<1> DEFINE row(w) == PostedRow(b, w, source, stock[b][w], lines[w])
<1>1. movements' = movements \cup {row(w) : w \in DOMAIN lines}
  BY PostedRows
<1>2. \A w : /\ row(w).branch = b /\ row(w).variant = w
             /\ row(w).source = source /\ row(w).type = lines[w].type
  BY DEF PostedRow
<1> HIDE DEF row
<1>3. v \in DOMAIN lines => row(v) \notin movements
  BY <1>2, OnceIsNew
<1>4. (d # b \/ v \notin DOMAIN lines) => LedgerOf(d, v)' = LedgerOf(d, v)
  BY <1>1, <1>2 DEF LedgerOf
<1>5. (d = b /\ v \in DOMAIN lines) =>
          LedgerOf(d, v)' = LedgerOf(d, v) \cup {row(v)} /\ row(v) \notin LedgerOf(d, v)
  BY <1>1, <1>2, <1>3 DEF LedgerOf
<1> QED BY <1>4, <1>5 DEF row

LedgersExplain == \A b \in Branches, v \in Variants : Explains(LedgerOf(b, v), stock[b][v])

LEMMA LedgersStep ==
    TypeOK /\ ApprovedCounts /\ CountRows /\ LedgersExplain /\ [Next]_vars => LedgersExplain'
<1> SUFFICES ASSUME TypeOK, ApprovedCounts, CountRows, LedgersExplain, [Next]_vars
             PROVE  LedgersExplain'
  OBVIOUS
<1>1. CASE UNCHANGED <<stock, movements>>
  BY <1>1 DEF LedgersExplain, LedgerOf
<1>2. ASSUME NEW b \in Branches, NEW source \in Sources \cup Keys \cup Counts, NEW lines,
             LinesOK(lines), Post(b, source, lines), Once(source, lines),
             NEW d \in Branches, NEW v \in Variants
      PROVE  Explains(LedgerOf(d, v)', stock'[d][v])
  <2>1. /\ Explains(LedgerOf(d, v), stock[d][v]) /\ stock[d][v] \in Balance
        /\ stock \in [Branches -> [Variants -> Balance]]
    BY DEF LedgersExplain, TypeOK, InventoryTypeOK
  <2>2. CASE d # b \/ v \notin DOMAIN lines
    <3>1. stock'[d][v] = stock[d][v]
      BY <1>2, <2>1, <2>2 DEF Post
    <3>2. LedgerOf(d, v)' = LedgerOf(d, v)
      BY <1>2, <2>2, PostLedger
    <3> QED BY <2>1, <3>1, <3>2
  <2>3. CASE d = b /\ v \in DOMAIN lines
    <3> DEFINE x == stock[d][v]
               line == lines[v]
               m == PostedRow(b, v, source, x, line)
    <3>1. line \in LineSet /\ Fits(x, line) /\ stock'[d][v] = After(x, line)
      BY <1>2, <2>1, <2>3 DEF Post, LinesOK
    <3>2. LedgerOf(d, v)' = LedgerOf(d, v) \cup {m} /\ m \notin LedgerOf(d, v)
      BY <1>2, <2>3, PostLedger
    <3>3. m.quantity = QuantityDelta(line) /\ m.value = ValueDelta(x, line)
      BY DEF PostedRow
    <3> HIDE DEF m, x, line
    <3>4. Explains(LedgerOf(d, v), x) /\ x \in Balance
      BY <2>1 DEF x
    <3>5. Explains(LedgerOf(d, v) \cup {m}, After(x, line))
      BY <3>1, <3>2, <3>3, <3>4, MovementExplains
    <3> QED BY <3>1, <3>2, <3>5
  <2> QED BY <2>2, <2>3
<1>3. ASSUME NEW b \in Branches, NEW source \in Sources \cup Keys \cup Counts, NEW lines,
             LinesOK(lines), Post(b, source, lines), Once(source, lines)
      PROVE  LedgersExplain'
  BY <1>2, <1>3 DEF LedgersExplain
<1> QED BY <1>1, <1>3, StepPosts DEF Posts

LEMMA LedgersInit == Init => LedgersExplain
<1> SUFFICES ASSUME Init, NEW b \in Branches, NEW v \in Variants
             PROVE  Explains(LedgerOf(b, v), stock[b][v])
  BY DEF LedgersExplain
<1>1. LedgerOf(b, v) = {} /\ stock[b][v] = Nothing
  BY DEF Init, InventoryInit, LedgerOf
<1>2. Received({}) = {} /\ {} \ {} = {} /\ IsFiniteSet({}) /\ Cardinality({}) = 0
  BY FS_EmptySet DEF Received
<1>3. Nothing.quantity = 0 /\ Nothing.value = 0 /\ Nothing.average = 0
  BY DEF Nothing
<1>4. Drift(Nothing) = 0 /\ Quanta * 0 = 0
  BY <1>3, QuantaAssumption DEF Drift
<1> QED BY <1>1, <1>2, <1>3, <1>4, NoRows DEF Explains

LedgerInv == TypeOK /\ ApprovedCounts /\ CountRows /\ LedgersExplain

LEMMA LedgerInvariant == Spec => []LedgerInv
<1>1. Init => LedgerInv
  BY TypeInit, LedgersInit DEF Init, InventoryInit, ApprovedCounts, CountRows, LedgerInv
<1>2. LedgerInv /\ [Next]_vars => LedgerInv'
  BY TypeStep, ApprovedStep, CountRowsStep, LedgersStep DEF LedgerInv
<1> QED BY <1>1, <1>2, PTL DEF Spec

\* InventoryBalance is the sum of the InventoryMovement rows, although _apply_inbound and
\* its two siblings and the deltas they return are computed apart, and whoever posts.
THEOREM BalanceIsLedger == Spec => []BalanceMatchesLedger
<1>1. LedgerInv => BalanceMatchesLedger
  BY DEF LedgerInv, LedgersExplain, Explains, BalanceMatchesLedger
<1> QED BY <1>1, LedgerInvariant, PTL

\* _value and _cost round, values are clamped at zero, and an issue keeps the average: the
\* average cost still explains the value up to half a quantum for each quantum received
\* and each issue.
THEOREM RoundingIsBounded == Spec => []ValueDriftBounded
<1>1. LedgerInv => ValueDriftBounded
  <2> SUFFICES ASSUME LedgerInv, NEW b \in Branches, NEW v \in Variants
               PROVE  LET x == stock[b][v]
                          drift == x.value * Quanta - x.quantity * x.average
                          received == {m \in LedgerOf(b, v) : m.quantity > 0}
                          issued == LedgerOf(b, v) \ received
                          bound == TotalQuantity(received) + Quanta * Cardinality(issued)
                      IN  -bound <= 2 * drift /\ 2 * drift <= bound
    BY DEF ValueDriftBounded
  <2>1. Explains(LedgerOf(b, v), stock[b][v])
    BY DEF LedgerInv, LedgersExplain
  <2> QED BY <2>1 DEF Explains, Received, Drift
<1> QED BY <1>1, LedgerInvariant, PTL
-----------------------------------------------------------------------------
(* What a count leaves in the ledger.                                      *)

CountLedger(c, v) == {m \in movements : m.source = c /\ m.variant = v}
Reversed(c) == \E r \in reversals : r.count = c
Settles(c, v) == countStatus[c] = "APPROVED" /\ v \in Differences(c)
Counted(c, v) == The(review[c][v].variance)
SignedValue(n, cost) == IF n > 0 THEN Priced(n, cost) ELSE -Priced(-n, cost)
CountedValue(c, v) == SignedValue(Counted(c, v), The(review[c][v].cost))

OneRow(rows, quantity, value) ==
    \E m : rows = {m} /\ m.quantity = quantity /\ m.value = value
TwoRows(rows, quantity, value) ==
    \E m, n : /\ rows = {m, n} /\ m # n
              /\ m.quantity = quantity /\ m.value = value
              /\ n.quantity = -quantity /\ n.value = -value

\* One movement for each difference of an approved count, and its opposite of a reversed one.
CountSettled(c, v) ==
    /\ ~Settles(c, v) => CountLedger(c, v) = {}
    /\ Settles(c, v) =>
        /\ review[c][v].variance # {} /\ review[c][v].cost # {}
        /\ ~Reversed(c) => OneRow(CountLedger(c, v), Counted(c, v), CountedValue(c, v))
        /\ Reversed(c) => TwoRows(CountLedger(c, v), Counted(c, v), CountedValue(c, v))
ReversedApproved == \A r \in reversals : countStatus[r.count] = "APPROVED"
CountsSettled == ReversedApproved /\ \A c \in Counts, v \in Variants : CountSettled(c, v)

LEMMA PostCountLedger ==
    ASSUME NEW b, NEW source, NEW lines, Post(b, source, lines), NEW c, NEW v
    PROVE  /\ (source # c \/ v \notin DOMAIN lines) => CountLedger(c, v)' = CountLedger(c, v)
           /\ (source = c /\ v \in DOMAIN lines) =>
                  CountLedger(c, v)' = CountLedger(c, v)
                                       \cup {PostedRow(b, v, source, stock[b][v], lines[v])}
<1> DEFINE row(w) == PostedRow(b, w, source, stock[b][w], lines[w])
<1>1. movements' = movements \cup {row(w) : w \in DOMAIN lines}
  BY PostedRows
<1>2. \A w : row(w).variant = w /\ row(w).source = source
  BY DEF PostedRow
<1> HIDE DEF row
<1>3. (source # c \/ v \notin DOMAIN lines) => CountLedger(c, v)' = CountLedger(c, v)
  BY <1>1, <1>2 DEF CountLedger
<1>4. (source = c /\ v \in DOMAIN lines) =>
          CountLedger(c, v)' = CountLedger(c, v) \cup {row(v)}
  BY <1>1, <1>2 DEF CountLedger
<1> QED BY <1>3, <1>4 DEF row

\* The line of a difference and what it moves.
LEMMA DifferenceRow ==
    ASSUME TypeOK, NEW c \in Counts, NEW v \in Differences(c), NEW more, NEW less,
           review[c][v].variance # {}, review[c][v].cost # {},
           NEW b, NEW source, NEW x,
           \/ /\ more = "STOCK_COUNT_ADJUSTMENT_IN" /\ less = "STOCK_COUNT_ADJUSTMENT_OUT"
           \/ /\ more = "STOCK_COUNT_REVERSAL_OUT" /\ less = "STOCK_COUNT_REVERSAL_IN"
    PROVE  LET m == PostedRow(b, v, source, x, DifferenceLines(c, more, less)[v])
           IN  /\ Counted(c, v) \in Int /\ Counted(c, v) # 0 /\ CountedValue(c, v) \in Int
               /\ more = "STOCK_COUNT_ADJUSTMENT_IN" =>
                      m.quantity = Counted(c, v) /\ m.value = CountedValue(c, v)
               /\ more = "STOCK_COUNT_REVERSAL_OUT" =>
                      m.quantity = -Counted(c, v) /\ m.value = -CountedValue(c, v)
<1> DEFINE n == Counted(c, v)
           cost == The(review[c][v].cost)
           line == DifferenceLines(c, more, less)[v]
           m == PostedRow(b, v, source, x, line)
<1>1. /\ AtMostOne(review[c][v].variance) /\ AtMostOne(review[c][v].cost)
      /\ review[c][v] \in ReviewRow /\ v \in countLines[c] /\ v \in Variants
      /\ review[c][v].variance # {0}
  BY DEF TypeOK, Differences
<1>2. n \in review[c][v].variance /\ review[c][v].variance = {n} /\ cost \in review[c][v].cost
  BY <1>1, TheOnly DEF Counted
<1>3. n \in Int /\ n # 0 /\ cost \in Nat
  BY <1>1, <1>2 DEF ReviewRow
<1>4. line = IF n > 0 THEN Line(more, n, cost) ELSE Line(less, -n, cost)
  BY DEF DifferenceLines, Counted
<1>5. CountedValue(c, v) = SignedValue(n, cost)
  BY DEF CountedValue
<1>6. m.quantity = QuantityDelta(line) /\ m.value = ValueDelta(x, line)
  BY DEF PostedRow
<1> HIDE DEF n, cost, line, m
<1>7. CASE n > 0
  <2>1. line.type = more /\ line.quantity = n /\ line.cost = cost
    BY <1>4, <1>7 DEF Line
  <2>2. Priced(n, cost) \in Nat /\ SignedValue(n, cost) = Priced(n, cost)
    BY <1>3, <1>7, PricedIsNat DEF SignedValue
  <2>3. more = "STOCK_COUNT_ADJUSTMENT_IN" => m.quantity = n /\ m.value = Priced(n, cost)
    BY <1>6, <2>1 DEF QuantityDelta, ValueDelta, InboundTypes
  <2>4. more = "STOCK_COUNT_REVERSAL_OUT" => m.quantity = -n /\ m.value = -Priced(n, cost)
    BY <1>6, <2>1 DEF QuantityDelta, ValueDelta, InboundTypes, AverageTypes
  <2> QED BY <1>3, <1>5, <2>2, <2>3, <2>4 DEF n, m, line
<1>8. CASE ~(n > 0)
  <2>1. line.type = less /\ line.quantity = -n /\ line.cost = cost /\ -n \in Nat
    BY <1>3, <1>4, <1>8 DEF Line
  <2>2. Priced(-n, cost) \in Nat /\ SignedValue(n, cost) = -Priced(-n, cost)
    BY <1>3, <1>8, <2>1, PricedIsNat DEF SignedValue
  <2>3. less = "STOCK_COUNT_ADJUSTMENT_OUT" => m.quantity = -(-n) /\ m.value = -Priced(-n, cost)
    BY <1>6, <2>1 DEF QuantityDelta, ValueDelta, InboundTypes, AverageTypes
  <2>4. less = "STOCK_COUNT_REVERSAL_IN" => m.quantity = -n /\ m.value = Priced(-n, cost)
    BY <1>6, <2>1 DEF QuantityDelta, ValueDelta, InboundTypes
  <2>5. -(-n) = n /\ -(-Priced(-n, cost)) = Priced(-n, cost)
    BY <1>3, <2>2
  <2> QED BY <1>3, <1>5, <2>2, <2>3, <2>4, <2>5 DEF n, m, line
<1> QED BY <1>7, <1>8

LEMMA SettledFrame ==
    ASSUME NEW c \in Counts, NEW v \in Variants, CountSettled(c, v),
           CountLedger(c, v)' = CountLedger(c, v), Reversed(c)' <=> Reversed(c),
           \/ countStatus[c] # "APPROVED" /\ countStatus'[c] # "APPROVED"
           \/ /\ countStatus[c] = "APPROVED" /\ countStatus'[c] = "APPROVED"
              /\ review'[c] = review[c] /\ countLines'[c] = countLines[c]
    PROVE  CountSettled(c, v)'
<1>1. CASE countStatus[c] # "APPROVED" /\ countStatus'[c] # "APPROVED"
  BY <1>1 DEF CountSettled, Settles
<1>2. CASE /\ countStatus[c] = "APPROVED" /\ countStatus'[c] = "APPROVED"
           /\ review'[c] = review[c] /\ countLines'[c] = countLines[c]
  <2>1. /\ Settles(c, v)' <=> Settles(c, v)
        /\ Counted(c, v)' = Counted(c, v) /\ CountedValue(c, v)' = CountedValue(c, v)
    BY <1>2 DEF Settles, Differences, Counted, CountedValue
  <2> QED BY <1>2, <2>1 DEF CountSettled
<1> QED BY <1>1, <1>2

LEMMA ApprovalSettles ==
    ASSUME TypeOK, CountsSettled, NEW c \in Counts, NEW k \in CountKeys, CreateApproval(c, k),
           NEW v \in Variants
    PROVE  CountSettled(c, v)'
<1> DEFINE lines == DifferenceLines(c, "STOCK_COUNT_ADJUSTMENT_IN", "STOCK_COUNT_ADJUSTMENT_OUT")
           b == countBranch[c]
           m == PostedRow(b, v, c, stock[b][v], lines[v])
<1>1. /\ countStatus[c] = "SUBMITTED" /\ countStatus'[c] = "APPROVED" /\ Post(b, c, lines)
      /\ UNCHANGED <<review, countLines, reversals>>
      /\ \A w \in countLines[c] : /\ review[c][w].variance = {Variance(c, w)}
                                  /\ w \in Differences(c) => Reviewed(c, w)
  BY DEF CreateApproval, SetStatus, worksheetVars, TypeOK
<1>2. CountLedger(c, v) = {} /\ ~Reversed(c)
  BY <1>1 DEF CountsSettled, ReversedApproved, CountSettled, Settles, Reversed
<1>3. DOMAIN lines = Differences(c) /\ Differences(c)' = Differences(c) /\ ~Reversed(c)'
      /\ Counted(c, v)' = Counted(c, v) /\ CountedValue(c, v)' = CountedValue(c, v)
  BY <1>1, <1>2 DEF DifferenceLines, Differences, Reversed, Counted, CountedValue
<1>4. CASE v \notin Differences(c)
  <2>1. CountLedger(c, v)' = {} /\ ~Settles(c, v)'
    BY <1>1, <1>2, <1>3, <1>4, PostCountLedger DEF Settles
  <2> QED BY <2>1 DEF CountSettled
<1>5. CASE v \in Differences(c)
  <2>1. review[c][v].variance # {} /\ review[c][v].cost # {}
    BY <1>1, <1>5 DEF Differences, Reviewed
  <2>2. m.quantity = Counted(c, v) /\ m.value = CountedValue(c, v)
    BY <1>5, <2>1, DifferenceRow
  <2>3. CountLedger(c, v)' = {m}
    BY <1>1, <1>2, <1>3, <1>5, PostCountLedger
  <2> HIDE DEF m
  <2>4. OneRow(CountLedger(c, v)', Counted(c, v), CountedValue(c, v))
    BY <2>2, <2>3 DEF OneRow
  <2>5. review'[c] = review[c]
    BY <1>1
  <2> QED BY <1>1, <1>3, <1>5, <2>1, <2>4, <2>5 DEF CountSettled, Settles
<1> QED BY <1>4, <1>5

LEMMA ReversalSettles ==
    ASSUME TypeOK, ApprovedCounts, CountsSettled, NEW c \in Counts, NEW k \in CountKeys,
           Reversing(c, k), NEW v \in Variants
    PROVE  CountSettled(c, v)'
<1> DEFINE lines == DifferenceLines(c, "STOCK_COUNT_REVERSAL_OUT", "STOCK_COUNT_REVERSAL_IN")
           b == countBranch[c]
           n == PostedRow(b, v, c, stock[b][v], lines[v])
<1>1. /\ countStatus[c] = "APPROVED" /\ Post(b, c, lines)
      /\ UNCHANGED <<review, countLines, countStatus>>
      /\ ~Reversed(c) /\ [count |-> c, key |-> k] \in reversals'
  BY DEF Reversing, CreateReversal, worksheetVars, ApprovedCounts, Reversed
<1>2. DOMAIN lines = Differences(c) /\ Differences(c)' = Differences(c) /\ Reversed(c)'
      /\ Counted(c, v)' = Counted(c, v) /\ CountedValue(c, v)' = CountedValue(c, v)
  BY <1>1 DEF DifferenceLines, Differences, Reversed, Counted, CountedValue
<1>3. CountSettled(c, v)
  BY DEF CountsSettled
<1>4. CASE v \notin Differences(c)
  <2>1. CountLedger(c, v)' = {} /\ ~Settles(c, v)'
    BY <1>1, <1>2, <1>3, <1>4, PostCountLedger DEF Settles, CountSettled
  <2> QED BY <2>1 DEF CountSettled
<1>5. CASE v \in Differences(c)
  <2>1. /\ review[c][v].variance # {} /\ review[c][v].cost # {}
        /\ OneRow(CountLedger(c, v), Counted(c, v), CountedValue(c, v))
    BY <1>1, <1>3, <1>5 DEF CountSettled, Settles
  <2>2. /\ n.quantity = -Counted(c, v) /\ n.value = -CountedValue(c, v)
        /\ Counted(c, v) \in Int /\ Counted(c, v) # 0
    BY <1>5, <2>1, DifferenceRow
  <2>3. PICK m : CountLedger(c, v) = {m} /\ m.quantity = Counted(c, v) /\ m.value = CountedValue(c, v)
    BY <2>1 DEF OneRow
  <2>4. CountLedger(c, v)' = {m, n}
    BY <1>1, <1>2, <1>5, <2>3, PostCountLedger
  <2> HIDE DEF n
  <2>5. m # n
    BY <2>2, <2>3
  <2>6. TwoRows(CountLedger(c, v)', Counted(c, v), CountedValue(c, v))
    BY <2>2, <2>3, <2>4, <2>5 DEF TwoRows
  <2> QED BY <1>1, <1>2, <1>5, <2>1, <2>6 DEF CountSettled, Settles
<1> QED BY <1>4, <1>5

LEMMA SettledStep == TypeOK /\ ApprovedCounts /\ CountsSettled /\ [Next]_vars => CountsSettled'
<1> SUFFICES ASSUME TypeOK, ApprovedCounts, CountsSettled, [Next]_vars PROVE CountsSettled'
  OBVIOUS
<1>0. /\ reversals \subseteq reversals'
      /\ \A c \in Counts : countStatus[c] = "APPROVED" =>
             /\ countStatus'[c] = "APPROVED"
             /\ countLines'[c] = countLines[c] /\ review'[c] = review[c]
  BY SettledStays
<1>1. \A r \in reversals : r.count \in Counts
  BY DEF TypeOK
<1>2. ASSUME NEW d \in Counts, \A k \in CountKeys : ~CreateApproval(d, k),
             \A v \in Variants : CountLedger(d, v)' = CountLedger(d, v),
             Reversed(d)' <=> Reversed(d)
      PROVE  \A v \in Variants : CountSettled(d, v)'
  <2>1. countStatus[d] # "APPROVED" => countStatus'[d] # "APPROVED"
    BY <1>2, OnlyApprovalApproves
  <2>2. \A v \in Variants : CountSettled(d, v)
    BY DEF CountsSettled
  <2> QED BY <1>0, <1>2, <2>1, <2>2, SettledFrame
<1>3. ASSUME NEW c \in Counts, NEW k \in CountKeys, Started(c), CreateApproval(c, k)
      PROVE  CountsSettled'
  <2>1. UNCHANGED reversals
        /\ Post(countBranch[c], c, DifferenceLines(c, "STOCK_COUNT_ADJUSTMENT_IN",
                                                      "STOCK_COUNT_ADJUSTMENT_OUT"))
    BY <1>3 DEF CreateApproval
  <2>2. ReversedApproved'
    BY <1>0, <1>1, <2>1 DEF CountsSettled, ReversedApproved
  <2>3. ASSUME NEW d \in Counts, d # c PROVE \A v \in Variants : CountSettled(d, v)'
    <3>1. \A v \in Variants : CountLedger(d, v)' = CountLedger(d, v)
      BY <2>1, <2>3, PostCountLedger
    <3>2. Reversed(d)' <=> Reversed(d)
      BY <2>1 DEF Reversed
    <3>3. countStatus'[d] = countStatus[d]
      BY <1>3, <2>3 DEF CreateApproval, SetStatus, TypeOK
    <3>4. \A v \in Variants : CountSettled(d, v)
      BY DEF CountsSettled
    <3> QED BY <1>0, <3>1, <3>2, <3>3, <3>4, SettledFrame
  <2>4. \A v \in Variants : CountSettled(c, v)'
    BY <1>3, ApprovalSettles
  <2> QED BY <2>2, <2>3, <2>4 DEF CountsSettled
<1>4. ASSUME NEW c \in Counts, NEW k \in CountKeys, Reversing(c, k)
      PROVE  CountsSettled'
  <2>1. /\ reversals' = reversals \cup {[count |-> c, key |-> k]} /\ UNCHANGED countStatus
        /\ countStatus[c] = "APPROVED"
        /\ Post(countBranch[c], c, DifferenceLines(c, "STOCK_COUNT_REVERSAL_OUT",
                                                      "STOCK_COUNT_REVERSAL_IN"))
    BY <1>4 DEF Reversing, CreateReversal, ApprovedCounts
  <2>2. ReversedApproved'
    BY <2>1 DEF CountsSettled, ReversedApproved
  <2>3. ASSUME NEW d \in Counts, d # c PROVE \A v \in Variants : CountSettled(d, v)'
    <3>1. \A v \in Variants : CountLedger(d, v)' = CountLedger(d, v)
      BY <2>1, <2>3, PostCountLedger
    <3>2. Reversed(d)' <=> Reversed(d)
      BY <2>1, <2>3 DEF Reversed
    <3>3. countStatus'[d] = countStatus[d]
      BY <2>1
    <3>4. \A v \in Variants : CountSettled(d, v)
      BY DEF CountsSettled
    <3> QED BY <1>0, <3>1, <3>2, <3>3, <3>4, SettledFrame
  <2>4. \A v \in Variants : CountSettled(c, v)'
    BY <1>4, ReversalSettles
  <2> QED BY <2>2, <2>3, <2>4 DEF CountsSettled
<1>5. ASSUME UNCHANGED reversals,
             \A d \in Counts, v \in Variants : CountLedger(d, v)' = CountLedger(d, v),
             ~(\E c \in Counts, k \in CountKeys : Started(c) /\ CreateApproval(c, k))
      PROVE  CountsSettled'
  <2>1. ReversedApproved'
    BY <1>0, <1>1, <1>5 DEF CountsSettled, ReversedApproved
  <2>2. ASSUME NEW d \in Counts, NEW v \in Variants PROVE CountSettled(d, v)'
    <3>1. countStatus[d] # "APPROVED" => countStatus'[d] # "APPROVED"
      BY <1>5, OnlyApprovalApproves
    <3>2. CountSettled(d, v) /\ (Reversed(d)' <=> Reversed(d))
      BY <1>5 DEF CountsSettled, Reversed
    <3> QED BY <1>0, <1>5, <3>1, <3>2, SettledFrame
  <2> QED BY <2>1, <2>2 DEF CountsSettled
<1>6. CASE Posting
  <2>1. ASSUME NEW b, NEW source \in Sources \cup Keys, NEW lines, Post(b, source, lines)
        PROVE  \A d \in Counts, v \in Variants : CountLedger(d, v)' = CountLedger(d, v)
    BY <2>1, PostCountLedger, CountsAssumption
  <2>2. ASSUME NEW a \in Actors, NEW b \in Branches, NEW source \in Sources,
               NEW lines \in SourceLines, RecordSource(a, b, source, lines)
        PROVE  \A d \in Counts, v \in Variants : CountLedger(d, v)' = CountLedger(d, v)
    BY <2>1, <2>2 DEF RecordSource
  <2>3. ASSUME UNCHANGED movements
        PROVE  \A d \in Counts, v \in Variants : CountLedger(d, v)' = CountLedger(d, v)
    BY <2>3 DEF CountLedger
  <2>4. ASSUME NEW a \in Actors, NEW b \in Branches, NEW v \in Variants,
               NEW op \in OperationTypes, NEW quantity \in Quantities, NEW cost \in Costs,
               NEW k \in Keys, PostOperation(a, b, v, op, quantity, cost, k)
        PROVE  \A d \in Counts, w \in Variants : CountLedger(d, w)' = CountLedger(d, w)
    BY <2>1, <2>3, <2>4 DEF PostOperation, ReplayOperation, CreateOperation
  <2>5. \A d \in Counts, v \in Variants : CountLedger(d, v)' = CountLedger(d, v)
    BY <1>6, <2>2, <2>3, <2>4 DEF Posting, InventoryNext, SetActive
  <2>6. UNCHANGED <<reversals, countStatus>>
    BY <1>6 DEF Posting, evidenceVars
  <2>7. ReversedApproved'
    BY <2>6 DEF CountsSettled, ReversedApproved
  <2>8. ASSUME NEW d \in Counts, NEW v \in Variants PROVE CountSettled(d, v)'
    <3>1. CountSettled(d, v) /\ (Reversed(d)' <=> Reversed(d))
      BY <2>6 DEF CountsSettled, Reversed
    <3> QED BY <1>0, <2>5, <2>6, <3>1, SettledFrame
  <2> QED BY <2>7, <2>8 DEF CountsSettled
<1>7. ASSUME UNCHANGED <<movements, reversals>>,
             ~(\E c \in Counts, k \in CountKeys : Started(c) /\ CreateApproval(c, k))
      PROVE  CountsSettled'
  BY <1>5, <1>7 DEF CountLedger
<1>8. ASSUME NEW a \in Actors, NEW c \in Counts,
             \/ SubmitStockCount(a, c) \/ ReturnStockCountForRecount(a, c)
             \/ CancelStockCount(a, c)
      PROVE  UNCHANGED <<movements, reversals>>
  BY <1>8 DEF SubmitStockCount, ReturnStockCountForRecount, CancelStockCount, inventoryVars,
     evidenceVars
<1>9. ASSUME NEW a \in Actors, NEW c \in Counts, NEW v \in Variants,
             \/ \E quantity \in 0 .. MaxQuantity, reasoned \in BOOLEAN :
                    RecordStockCountQuantity(a, c, v, quantity, reasoned)
             \/ \E explained \in BOOLEAN, cost \in Optional(Costs), evidenced \in BOOLEAN :
                    RecordStockCountReviewEvidence(a, c, v, explained, cost, evidenced)
      PROVE  UNCHANGED <<movements, reversals>>
  BY <1>9 DEF RecordStockCountQuantity, RecordStockCountReviewEvidence, inventoryVars,
     evidenceVars
<1>10. Idle \/ (\E b \in Branches, k \in CountKeys : CreateCount(b, k))
           => UNCHANGED <<movements, reversals>>
  BY DEF Idle, CreateCount, inventoryVars, evidenceVars
<1> QED BY <1>3, <1>4, <1>6, <1>7, <1>8, <1>9, <1>10, StepCases

LEMMA SettledTotals ==
    ASSUME NEW rows, NEW quantity \in Int, NEW value \in Int
    PROVE  /\ OneRow(rows, quantity, value) => TotalQuantity(rows) = quantity
           /\ TwoRows(rows, quantity, value) => TotalQuantity(rows) = 0 /\ TotalValue(rows) = 0
<1>1. ASSUME NEW m, m.quantity = quantity, m.value = value
      PROVE  /\ TotalQuantity({m}) = quantity /\ TotalValue({m}) = value
  <2>1. IsFiniteSet({}) /\ {} \cup {m} = {m} /\ m \notin {}
    BY FS_EmptySet
  <2>2. TotalQuantity({} \cup {m}) = 0 + quantity /\ TotalValue({} \cup {m}) = 0 + value
    BY <1>1, <2>1, NoRows, RowsAddUp
  <2> QED BY <2>1, <2>2
<1>2. ASSUME NEW m, NEW n, m # n, m.quantity = quantity, m.value = value,
             n.quantity = -quantity, n.value = -value
      PROVE  TotalQuantity({m, n}) = 0 /\ TotalValue({m, n}) = 0
  <2>1. IsFiniteSet({m}) /\ {m} \cup {n} = {m, n} /\ n \notin {m}
    BY <1>2, FS_Singleton
  <2>2. TotalQuantity({m} \cup {n}) = quantity + (-quantity)
        /\ TotalValue({m} \cup {n}) = value + (-value)
    <3>1. \A x \in {m} : x.quantity \in Int /\ x.value \in Int
      BY <1>2
    <3>2. n.quantity \in Int /\ n.value \in Int
      BY <1>2
    <3>3. TotalQuantity({m}) = quantity /\ TotalValue({m}) = value
      BY <1>1, <1>2
    <3> HIDE <1>1
    <3>4. /\ TotalQuantity({m} \cup {n}) = TotalQuantity({m}) + n.quantity
          /\ TotalValue({m} \cup {n}) = TotalValue({m}) + n.value
      BY <2>1, <3>1, <3>2, RowsAddUp
    <3> QED BY <1>2, <3>3, <3>4
  <2> QED BY <2>1, <2>2
<1> QED BY <1>1, <1>2 DEF OneRow, TwoRows

LEMMA SettledInvariant == Spec => [](FreezeInv /\ CountsSettled)
<1>1. Init => CountsSettled
  BY DEF Init, InventoryInit, CountsSettled, ReversedApproved, CountSettled, Settles, CountLedger
<1>2. FreezeInv /\ CountsSettled /\ [Next]_vars => CountsSettled'
  BY SettledStep DEF FreezeInv
<1> QED BY <1>1, <1>2, FreezeInvariant, PTL DEF Spec

\* reverse_stock_count posts each difference back at the cost it was approved with: the
\* movements of a count and of its reversal cancel in quantity and value, and without a
\* reversal they are the variance that was counted.
THEOREM ReversalCancels == Spec => []ReversalCancelsCount
<1>1. FreezeInv /\ CountsSettled => ReversalCancelsCount
  <2> SUFFICES ASSUME FreezeInv, CountsSettled, NEW c \in Counts, NEW v \in Variants
               PROVE  /\ Reversed(c) => /\ TotalQuantity(CountLedger(c, v)) = 0
                                        /\ TotalValue(CountLedger(c, v)) = 0
                      /\ ~Reversed(c) => TotalQuantity(CountLedger(c, v)) =
                             IF countStatus[c] = "APPROVED" /\ v \in countLines[c]
                             THEN Variance(c, v) ELSE 0
    BY DEF ReversalCancelsCount, CountLedger, Reversed
  <2>0. CountSettled(c, v) /\ TypeOK
    BY DEF CountsSettled, FreezeInv
  <2>1. CASE ~Settles(c, v)
    <3>1. TotalQuantity(CountLedger(c, v)) = 0 /\ TotalValue(CountLedger(c, v)) = 0
      BY <2>0, <2>1, NoRows DEF CountSettled
    <3>2. countStatus[c] = "APPROVED" /\ v \in countLines[c] => Variance(c, v) = 0
      <4>1. countStatus[c] = "APPROVED" /\ v \in countLines[c] =>
                review[c][v].variance = {0} /\ review[c][v].variance = {Variance(c, v)}
        BY <2>1 DEF Settles, Differences, FreezeInv, ReviewMatchesCount
      <4> QED BY <4>1
    <3> QED BY <3>1, <3>2
  <2>2. CASE Settles(c, v)
    <3>1. review[c][v].variance # {} /\ review[c][v].cost # {} /\ v \in Differences(c)
          /\ countStatus[c] = "APPROVED" /\ v \in countLines[c]
      BY <2>0, <2>2 DEF CountSettled, Settles, Differences
    <3>2. Counted(c, v) \in Int /\ CountedValue(c, v) \in Int
      BY <2>0, <3>1, DifferenceRow
    <3>3. Counted(c, v) = Variance(c, v)
      <4>1. review[c][v].variance = {Variance(c, v)}
        BY <3>1 DEF FreezeInv, ReviewMatchesCount
      <4>2. Counted(c, v) \in review[c][v].variance
        BY <2>0, <3>1, TheOnly DEF TypeOK, Counted
      <4> QED BY <4>1, <4>2
    <3> QED BY <2>0, <2>2, <3>1, <3>2, <3>3, SettledTotals DEF CountSettled
  <2> QED BY <2>1, <2>2
<1> QED BY <1>1, SettledInvariant, PTL

=============================================================================
