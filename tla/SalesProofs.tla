----------------------------- MODULE SalesProofs -----------------------------
(***************************************************************************)
(* Theorems about Sales, for every catalogue, every set of sales, returns, *)
(* keys and references and every bound.                                    *)
(***************************************************************************)
EXTENDS Sales, SumTheorems, TLAPS

\* Prices and averages of nonnegative numbers are nonnegative.
LEMMA PricedIsNat ==
    ASSUME NEW q \in Nat, NEW c \in Nat
    PROVE  Priced(q, c) \in Nat
<1>1. q * c \in Nat
  OBVIOUS
<1>2. 2 * q * c + Quanta \in Nat /\ 2 * Quanta \in Nat \ {0}
  BY <1>1, QuantaAssumption
<1> QED
  BY <1>2 DEF Priced

LEMMA AveragedIsNat ==
    ASSUME NEW value \in Nat, NEW q \in Nat \ {0}
    PROVE  Averaged(value, q) \in Nat
<1>1. value * Quanta \in Nat
  BY QuantaAssumption
<1>2. 2 * value * Quanta + q \in Nat /\ 2 * q \in Nat \ {0}
  BY <1>1, QuantaAssumption
<1> QED
  BY <1>2 DEF Averaged

\* The three ways stock moves keep a balance a balance.
LEMMA InboundBalance ==
    ASSUME NEW x \in Balance, NEW q \in Nat \ {0}, NEW c \in Nat
    PROVE  Inbound(x, q, c) \in Balance /\ Inbound(x, q, c).quantity = x.quantity + q
<1>1. Priced(q, c) \in Nat
  BY PricedIsNat
<1>2. x.value + Priced(q, c) \in Nat /\ x.quantity + q \in Nat \ {0}
  BY <1>1 DEF Balance
<1>3. Averaged(x.value + Priced(q, c), x.quantity + q) \in Nat
  BY <1>2, AveragedIsNat
<1> QED
  BY <1>2, <1>3 DEF Inbound, Balance

LEMMA OutboundBalance ==
    ASSUME NEW x \in Balance, NEW q \in Nat \ {0}, Leaves(x, q)
    PROVE  Outbound(x, q) \in Balance /\ Outbound(x, q).quantity = x.quantity - q
<1>1. Priced(q, x.average) \in Nat
  BY PricedIsNat DEF Balance
<1> DEFINE left == x.value - Priced(q, x.average)
           value == IF q = x.quantity \/ left < 0 THEN 0 ELSE left
<1>2. value \in Nat
  BY <1>1 DEF Balance
<1>3. x.quantity - q \in Nat
  BY DEF Balance, Leaves
<1>4. Outbound(x, q) = [quantity |-> x.quantity - q, value |-> value,
                        average |-> IF value = 0 THEN 0 ELSE x.average]
  BY DEF Outbound
<1> HIDE DEF value
<1> QED
  BY <1>2, <1>3, <1>4 DEF Balance

LEMMA OutboundAtCostBalance ==
    ASSUME NEW x \in Balance, NEW q \in Nat \ {0}, NEW c \in Nat, LeavesAtCost(x, q, c)
    PROVE  OutboundAtCost(x, q, c) \in Balance /\ OutboundAtCost(x, q, c).quantity = x.quantity - q
<1>1. Priced(q, c) \in Nat
  BY PricedIsNat
<1> DEFINE value == x.value - Priced(q, c)
<1>2. value \in Nat /\ x.quantity - q \in Nat
  BY <1>1 DEF Balance, LeavesAtCost, Leaves
<1>3. q = x.quantity => value = 0
  BY <1>1 DEF LeavesAtCost, Balance
<1>4. OutboundAtCost(x, q, c) =
          [quantity |-> x.quantity - q, value |-> value,
           average |-> IF value = 0 THEN 0 ELSE Averaged(value, x.quantity - q)]
  BY DEF OutboundAtCost
<1> HIDE DEF value
<1>5. value # 0 => x.quantity - q \in Nat \ {0}
  BY <1>2, <1>3 DEF Balance
<1>6. value # 0 => Averaged(value, x.quantity - q) \in Nat
  BY <1>2, <1>5, AveragedIsNat
<1> QED
  BY <1>2, <1>4, <1>6 DEF Balance

-----------------------------------------------------------------------------
(* Rows.                                                                   *)

LEMMA SaleRowFacts ==
    ASSUME NEW x, IsSaleRow(x)
    PROVE  /\ x.status \in {"DRAFT", "CANCELLED", "POSTED"}
           /\ IsFiniteSet(DOMAIN x.lines) /\ DOMAIN x.lines \subseteq Variants
           /\ \A v \in DOMAIN x.lines :
                  /\ x.lines[v].quantity \in Nat \ {0}
                  /\ x.lines[v].price \in Nat \ {0}
                  /\ x.lines[v].cost \in Nat
<1>1. /\ x.status \in {"DRAFT", "CANCELLED", "POSTED"}
      /\ DOMAIN x.lines \subseteq Variants
      /\ \A v \in DOMAIN x.lines : x.lines[v] \in LineRow
  BY DEF IsSaleRow
<1>2. IsFiniteSet(DOMAIN x.lines)
  BY <1>1, FS_Subset, FiniteAssumption
<1>3. \A y \in LineRow : y.quantity \in Nat \ {0} /\ y.price \in Nat \ {0} /\ y.cost \in Nat
  BY BoundsAssumption DEF LineRow, Quantities, Prices
<1> QED BY <1>1, <1>2, <1>3

LEMMA ReturnRowFacts ==
    ASSUME NEW x \in {NoReturn} \cup ReturnRow, x.status # "ABSENT"
    PROVE  /\ x \in ReturnRow
           /\ x.status \in {"DRAFT", "CANCELLED", "POSTED", "REVERSED"}
           /\ x.sale \in Sales /\ x.purpose \in Purposes /\ x.lines \in Chosen
           /\ IsFiniteSet(DOMAIN x.lines) /\ DOMAIN x.lines \subseteq Variants
           /\ DOMAIN x.lines # {}
           /\ \A v \in DOMAIN x.lines : x.lines[v] \in Nat \ {0}
           /\ x.status \in {"POSTED", "REVERSED"} => x.key \in ReturnKeys /\ x.method \in Methods
<1>1. x \in ReturnRow
  BY DEF NoReturn
<1>2. /\ x.status \in {"DRAFT", "CANCELLED", "POSTED", "REVERSED"}
      /\ x.sale \in Sales /\ x.purpose \in Purposes /\ x.lines \in Chosen
      /\ x.status \in {"POSTED", "REVERSED"} => x.key \in ReturnKeys /\ x.method \in Methods
  BY <1>1 DEF ReturnRow
<1>3. PICK D \in (SUBSET Variants) \ {{}} : x.lines \in [D -> Quantities]
  BY <1>2 DEF Chosen
<1>4. D \subseteq Variants /\ D # {} /\ DOMAIN x.lines = D
  BY <1>3
<1>5. IsFiniteSet(D)
  BY <1>4, FS_Subset, FiniteAssumption
<1>6. \A v \in D : x.lines[v] \in Quantities
  BY <1>3
<1>7. \A v \in D : x.lines[v] \in Nat \ {0}
  BY <1>6 DEF Quantities
<1> QED BY <1>1, <1>2, <1>4, <1>5, <1>7

LEMMA ChosenFacts ==
    ASSUME NEW lines \in Chosen
    PROVE  /\ DOMAIN lines \subseteq Variants /\ DOMAIN lines # {}
           /\ \A v \in DOMAIN lines : lines[v] \in Quantities
BY DEF Chosen

\* A refund, and what a sale earns, are numbers that are not negative.
LEMMA LineTotalIsNat == \A q, p \in Nat : LineTotal(q, p) \in Nat
BY PricedIsNat DEF LineTotal
LEMMA SaleTotalIsNat ==
    ASSUME NEW s \in Sales, IsSaleRow(sale[s])
    PROVE  SaleTotal(s) \in Nat
<1> DEFINE L == sale[s].lines
           f == [v \in DOMAIN L |-> LineTotal(L[v].quantity, L[v].price)]
<1>1. /\ IsFiniteSet(DOMAIN L)
      /\ \A v \in DOMAIN L : L[v].quantity \in Nat /\ L[v].price \in Nat
  BY SaleRowFacts
<1>2. SaleTotal(s) = SumFunction(f)
  BY DEF SaleTotal
<1> HIDE DEF L
<1>3. \A v \in DOMAIN f : f[v] \in Nat
  BY <1>1, LineTotalIsNat
<1>4. IsFiniteSet(DOMAIN f)
  BY <1>1
<1> HIDE DEF f
<1> QED BY <1>2, <1>3, <1>4, SumFunctionNat

-----------------------------------------------------------------------------
(* A return is of a sale that was posted, and of lines of it; a full       *)
(* reversal takes back all of them.  A posted sale never changes, so that  *)
(* what was validated for a draft of a return stays true of it.            *)

ReturnsLinked ==
    \A r \in Returns : return[r].status # "ABSENT" =>
        LET x == return[r]
            sold == sale[x.sale]
        IN  /\ sold.status = "POSTED"
            /\ DOMAIN x.lines \subseteq DOMAIN sold.lines
            /\ x.purpose = "SALE_REVERSAL" =>
                   x.lines = [v \in DOMAIN sold.lines |-> sold.lines[v].quantity]

SalesOK == DOMAIN sale = Sales /\ \A s \in Sales : sale[s] = NoSale \/ IsSaleRow(sale[s])
ReturnsOK == return \in [Returns -> {NoReturn} \cup ReturnRow]
KeysOK ==
    /\ saleKeys \subseteq [key : SaleKeys, sale : Sales]
    /\ returnKeys \subseteq [key : ReturnKeys, op : {"RETURN", "REVERSAL"}, return : Returns]
ShelfOK ==
    /\ catalog \in [Variants -> [price : Prices, active : BOOLEAN]]
    /\ stock \in [Variants -> Balance]
    /\ frozen \in BOOLEAN
    /\ receipts \in Nat
    /\ received \in [Variants -> Nat]
DrawerOK == drawer \in [open : BOOLEAN, expected : Nat]

LEMMA TypeParts == TypeOK <=> ShelfOK /\ DrawerOK /\ SalesOK /\ ReturnsOK /\ KeysOK
BY DEF TypeOK, ShelfOK, DrawerOK, SalesOK, ReturnsOK, KeysOK

\* A return that exists, with the sale it is of.
LEMMA ReturnFacts ==
    ASSUME SalesOK, ReturnsOK, ReturnsLinked, NEW r \in Returns, return[r].status # "ABSENT"
    PROVE  /\ return[r] \in ReturnRow
           /\ return[r].sale \in Sales /\ IsSaleRow(sale[return[r].sale])
           /\ sale[return[r].sale].status = "POSTED"
           /\ IsFiniteSet(DOMAIN return[r].lines) /\ DOMAIN return[r].lines # {}
           /\ DOMAIN return[r].lines \subseteq DOMAIN sale[return[r].sale].lines
           /\ DOMAIN return[r].lines \subseteq Variants
           /\ \A v \in DOMAIN return[r].lines :
                  /\ return[r].lines[v] \in Nat \ {0}
                  /\ sale[return[r].sale].lines[v].price \in Nat
                  /\ sale[return[r].sale].lines[v].cost \in Nat
<1>1. return[r] \in {NoReturn} \cup ReturnRow
  BY DEF ReturnsOK
<1>2. /\ return[r] \in ReturnRow /\ return[r].sale \in Sales
      /\ IsFiniteSet(DOMAIN return[r].lines) /\ DOMAIN return[r].lines # {}
      /\ DOMAIN return[r].lines \subseteq Variants
      /\ \A v \in DOMAIN return[r].lines : return[r].lines[v] \in Nat \ {0}
  BY <1>1, ReturnRowFacts
<1>3. /\ sale[return[r].sale].status = "POSTED"
      /\ DOMAIN return[r].lines \subseteq DOMAIN sale[return[r].sale].lines
  BY DEF ReturnsLinked
<1>4. IsSaleRow(sale[return[r].sale])
  BY <1>2, <1>3 DEF SalesOK, NoSale
<1>5. \A v \in DOMAIN sale[return[r].sale].lines :
          /\ sale[return[r].sale].lines[v].price \in Nat
          /\ sale[return[r].sale].lines[v].cost \in Nat
  BY <1>4, SaleRowFacts
<1> QED BY <1>2, <1>3, <1>4, <1>5

LEMMA RefundTotalIsNat ==
    ASSUME SalesOK, ReturnsOK, ReturnsLinked, NEW r \in Returns, return[r].status # "ABSENT"
    PROVE  RefundTotal(r) \in Nat
<1> DEFINE f == [v \in DOMAIN return[r].lines |->
                    LineTotal(return[r].lines[v], sale[return[r].sale].lines[v].price)]
<1>1. /\ IsFiniteSet(DOMAIN return[r].lines)
      /\ \A v \in DOMAIN return[r].lines :
             return[r].lines[v] \in Nat /\ sale[return[r].sale].lines[v].price \in Nat
  BY ReturnFacts
<1>2. IsFiniteSet(DOMAIN f) /\ \A v \in DOMAIN f : f[v] \in Nat
  BY <1>1, LineTotalIsNat
<1>3. RefundTotal(r) = SumFunction(f)
  BY DEF RefundTotal
<1> HIDE DEF f
<1> QED BY <1>2, <1>3, SumFunctionNat

-----------------------------------------------------------------------------
(* What the steps do.                                                      *)

LEMMA StepCases ==
    ASSUME [Next]_vars
    PROVE  \/ \E s \in Sales, quantities \in Chosen : SaveSaleDraft(s, quantities)
           \/ \E s \in Sales : CancelSale(s)
           \/ \E s \in Sales, k \in SaleKeys : ReplaySale(s, k)
           \/ \E s \in Sales, method \in Methods, k \in SaleKeys : CreatePosting(s, method, k)
           \/ \E a \in Actors, r \in Returns, s \in Sales, purpose \in Purposes, lines \in Chosen :
                  SaveReturnDraft(a, r, s, purpose, lines)
           \/ \E a \in Actors, r \in Returns : CancelSaleReturn(a, r)
           \/ \E r \in Returns, k \in ReturnKeys : ReplayReturn(r, k)
           \/ \E r \in Returns, method \in Methods, k \in ReturnKeys :
                  CreateReturnPosting(r, method, k)
           \/ \E r \in Returns, k \in ReturnKeys : ReplayReversal(r, k)
           \/ \E r \in Returns, k \in ReturnKeys : CreateReversal(r, k)
           \/ \E v \in Variants, goods \in Restocked : ReceiveStock(v, goods)
           \/ \E v \in Variants, price \in Prices, active \in BOOLEAN :
                  ChangeVariant(v, price, active)
           \/ Freeze
           \/ \E float \in 0 .. MaxFloat : OpenDrawer(float)
           \/ CloseDrawer
           \/ UNCHANGED vars
<1>1. ASSUME NEW s \in Sales, NEW method \in Methods, NEW k \in SaleKeys, PostSale(s, method, k)
      PROVE  ReplaySale(s, k) \/ CreatePosting(s, method, k)
  BY <1>1 DEF PostSale
<1>2. ASSUME NEW a \in Actors, NEW r \in Returns, NEW method \in Methods, NEW k \in ReturnKeys,
             PostSaleReturn(a, r, method, k)
      PROVE  ReplayReturn(r, k) \/ CreateReturnPosting(r, method, k)
  BY <1>2 DEF PostSaleReturn
<1>3. ASSUME NEW a \in Actors, NEW r \in Returns, NEW k \in ReturnKeys, ReverseSaleReturn(a, r, k)
      PROVE  ReplayReversal(r, k) \/ CreateReversal(r, k)
  BY <1>3 DEF ReverseSaleReturn
<1> QED BY <1>1, <1>2, <1>3 DEF Next
\* A sale row that one step changes, and the others it leaves.
LEMMA SaleSet ==
    ASSUME SalesOK, NEW s \in Sales, NEW x, sale' = [sale EXCEPT ![s] = x], IsSaleRow(x)
    PROVE  SalesOK' /\ sale'[s] = x /\ \A t \in Sales : t # s => sale'[t] = sale[t]
<1>1. /\ DOMAIN sale' = Sales /\ sale'[s] = x
      /\ \A t \in Sales : t # s => sale'[t] = sale[t]
  BY DEF SalesOK
<1>2. IsSaleRow(sale'[s])
  BY <1>1
<1>3. \A t \in Sales : sale'[t] = NoSale \/ IsSaleRow(sale'[t])
  BY <1>1, <1>2 DEF SalesOK
<1> QED BY <1>1, <1>3 DEF SalesOK, NoSale, IsSaleRow, LineRow

LEMMA DraftRow ==
    ASSUME ShelfOK, NEW quantities \in Chosen
    PROVE  IsSaleRow([status |-> "DRAFT",
                      lines |-> [v \in DOMAIN quantities |->
                          [quantity |-> quantities[v], price |-> catalog[v].price, cost |-> 0]]])
<1>1. DOMAIN quantities \subseteq Variants /\ \A v \in DOMAIN quantities : quantities[v] \in Quantities
  BY ChosenFacts
<1>2. \A v \in Variants : catalog[v].price \in Prices
  BY DEF ShelfOK
<1> QED BY <1>1, <1>2 DEF IsSaleRow, LineRow

LEMMA PostedRow ==
    ASSUME NEW L, DOMAIN L \subseteq Variants, \A v \in DOMAIN L : L[v] \in LineRow,
           ShelfOK, NEW k \in SaleKeys, NEW method \in Methods
    PROVE  IsSaleRow([status |-> "POSTED", key |-> k, method |-> method,
                      lines |-> [v \in DOMAIN L |-> [L[v] EXCEPT !.cost = stock[v].average]]])
<1>1. ASSUME NEW x \in LineRow, NEW c \in Nat PROVE [x EXCEPT !.cost = c] \in LineRow
  BY DEF LineRow
<1>2. \A v \in Variants : stock[v].average \in Nat
  BY DEF ShelfOK, Balance
<1>3. \A v \in DOMAIN L : [L[v] EXCEPT !.cost = stock[v].average] \in LineRow
  BY <1>1, <1>2
<1> QED BY <1>3 DEF IsSaleRow

\* Where a sale row changes: a draft is saved, cancelled or posted.
LEMMA SaleSteps ==
    ASSUME ShelfOK, SalesOK, [Next]_vars
    PROVE  /\ SalesOK'
           /\ \A s \in Sales : sale[s].status = "POSTED" => sale'[s] = sale[s]
           /\ \A s \in Sales : sale'[s].status = "POSTED" /\ sale[s].status # "POSTED" =>
                  \E method \in Methods, k \in SaleKeys : CreatePosting(s, method, k)
<1>1. ASSUME NEW s \in Sales, NEW quantities \in Chosen, SaveSaleDraft(s, quantities)
      PROVE  /\ SalesOK'
             /\ \A t \in Sales : sale[t].status = "POSTED" => sale'[t] = sale[t]
             /\ \A t \in Sales : sale'[t].status = "POSTED" => sale[t].status = "POSTED"
  <2> DEFINE x == [status |-> "DRAFT",
                   lines |-> [v \in DOMAIN quantities |->
                       [quantity |-> quantities[v], price |-> catalog[v].price, cost |-> 0]]]
  <2>1. sale' = [sale EXCEPT ![s] = x] /\ sale[s].status # "POSTED"
    BY <1>1 DEF SaveSaleDraft, Editable
  <2>2. IsSaleRow(x) /\ x.status = "DRAFT"
    BY DraftRow
  <2> HIDE DEF x
  <2> QED BY <2>1, <2>2, SaleSet
<1>2. ASSUME NEW s \in Sales, CancelSale(s)
      PROVE  /\ SalesOK'
             /\ \A t \in Sales : sale[t].status = "POSTED" => sale'[t] = sale[t]
             /\ \A t \in Sales : sale'[t].status = "POSTED" => sale[t].status = "POSTED"
  <2> DEFINE x == [sale[s] EXCEPT !.status = "CANCELLED"]
  <2>1. sale' = [sale EXCEPT ![s] = x] /\ sale[s].status = "DRAFT"
    BY <1>2 DEF CancelSale, SalesOK
  <2>2. IsSaleRow(sale[s])
    BY <2>1 DEF SalesOK, NoSale
  <2>3. IsSaleRow(x) /\ x.status = "CANCELLED"
    BY <2>1, <2>2 DEF IsSaleRow
  <2> HIDE DEF x
  <2> QED BY <2>1, <2>3, SaleSet
<1>3. ASSUME NEW s \in Sales, NEW method \in Methods, NEW k \in SaleKeys,
             CreatePosting(s, method, k)
      PROVE  /\ SalesOK'
             /\ \A t \in Sales : sale[t].status = "POSTED" => sale'[t] = sale[t]
             /\ \A t \in Sales : sale'[t].status = "POSTED" /\ sale[t].status # "POSTED" => t = s
  <2> DEFINE L == sale[s].lines
             x == [status |-> "POSTED", key |-> k, method |-> method,
                   lines |-> [v \in DOMAIN L |-> [L[v] EXCEPT !.cost = stock[v].average]]]
  <2>1. sale' = [sale EXCEPT ![s] = x] /\ sale[s].status = "DRAFT"
    BY <1>3 DEF CreatePosting
  <2>2. IsSaleRow(sale[s])
    BY <2>1 DEF SalesOK, NoSale
  <2>3. DOMAIN L \subseteq Variants /\ \A v \in DOMAIN L : L[v] \in LineRow
    BY <2>2 DEF IsSaleRow
  <2> HIDE DEF L
  <2>4. IsSaleRow(x)
    BY <2>3, PostedRow
  <2> HIDE DEF x
  <2> QED BY <2>1, <2>4, SaleSet
<1>4. ASSUME UNCHANGED sale
      PROVE  SalesOK' /\ \A t \in Sales : sale'[t] = sale[t]
  BY <1>4 DEF SalesOK, IsSaleRow, NoSale, LineRow
<1>5. ASSUME ~(\E s \in Sales, quantities \in Chosen : SaveSaleDraft(s, quantities)),
             ~(\E s \in Sales : CancelSale(s)),
             ~(\E s \in Sales, method \in Methods, k \in SaleKeys : CreatePosting(s, method, k))
      PROVE  UNCHANGED sale
  BY <1>5, StepCases DEF ReplaySale, SaveReturnDraft, CancelSaleReturn, ReplayReturn,
     CreateReturnPosting, ReplayReversal, CreateReversal, ReceiveStock, ChangeVariant, Freeze,
     OpenDrawer, CloseDrawer, documents, vars
<1> QED BY <1>1, <1>2, <1>3, <1>4, <1>5

\* A return row that one step changes, and the others it leaves.
LEMMA ReturnSet ==
    ASSUME ReturnsOK, NEW r \in Returns, NEW x \in ReturnRow, return' = [return EXCEPT ![r] = x]
    PROVE  ReturnsOK' /\ return'[r] = x /\ \A t \in Returns : t # r => return'[t] = return[t]
<1>1. ReturnRow' = ReturnRow /\ NoReturn' = NoReturn
  BY DEF ReturnRow, NoReturn, Chosen, Quantities, Methods, Purposes
<1>2. return' \in [Returns -> {NoReturn} \cup ReturnRow]
  BY DEF ReturnsOK
<1> QED BY <1>1, <1>2 DEF ReturnsOK

LEMMA ReturnSteps ==
    ASSUME SalesOK, ReturnsOK, ReturnsLinked, [Next]_vars
    PROVE  /\ ReturnsOK'
           /\ \A r \in Returns : return'[r].status = "POSTED" /\ return[r].status # "POSTED" =>
                  \E method \in Methods, k \in ReturnKeys : CreateReturnPosting(r, method, k)
           /\ \A r \in Returns : return[r].status = "POSTED" /\ return'[r].status # "POSTED" =>
                  \E k \in ReturnKeys : CreateReversal(r, k)
           /\ \A r \in Returns : return[r].status = "POSTED" =>
                  /\ return'[r].sale = return[r].sale /\ return'[r].purpose = return[r].purpose
                  /\ return'[r].lines = return[r].lines
                  /\ return'[r].status # "ABSENT" /\ return'[r].key = return[r].key
           /\ \A r \in Returns : return'[r].status # "ABSENT" =>
                  \/ /\ return[r].status # "ABSENT"
                     /\ return'[r].sale = return[r].sale /\ return'[r].purpose = return[r].purpose
                     /\ return'[r].lines = return[r].lines
                  \/ /\ return'[r].sale \in Sales
                     /\ sale[return'[r].sale].status = "POSTED"
                     /\ DOMAIN return'[r].lines \subseteq DOMAIN sale[return'[r].sale].lines
                     /\ Returnable(return'[r].sale, return'[r].purpose, return'[r].lines)
<1> DEFINE P(r) ==
      /\ return'[r].status = "POSTED" /\ return[r].status # "POSTED" =>
             \E method \in Methods, k \in ReturnKeys : CreateReturnPosting(r, method, k)
      /\ return[r].status = "POSTED" /\ return'[r].status # "POSTED" =>
             \E k \in ReturnKeys : CreateReversal(r, k)
      /\ return[r].status = "POSTED" =>
             /\ return'[r].sale = return[r].sale /\ return'[r].purpose = return[r].purpose
             /\ return'[r].lines = return[r].lines
             /\ return'[r].status # "ABSENT" /\ return'[r].key = return[r].key
      /\ return'[r].status # "ABSENT" =>
             \/ /\ return[r].status # "ABSENT"
                /\ return'[r].sale = return[r].sale /\ return'[r].purpose = return[r].purpose
                /\ return'[r].lines = return[r].lines
             \/ /\ return'[r].sale \in Sales
                /\ sale[return'[r].sale].status = "POSTED"
                /\ DOMAIN return'[r].lines \subseteq DOMAIN sale[return'[r].sale].lines
                /\ Returnable(return'[r].sale, return'[r].purpose, return'[r].lines)
<1>0. ASSUME NEW r \in Returns, return'[r] = return[r] PROVE P(r)
  BY <1>0
<1> SUFFICES ReturnsOK' /\ \A r \in Returns : P(r)
  OBVIOUS
<1>1. ASSUME NEW a \in Actors, NEW r \in Returns, NEW s \in Sales, NEW purpose \in Purposes,
             NEW lines \in Chosen, SaveReturnDraft(a, r, s, purpose, lines)
      PROVE  ReturnsOK' /\ \A t \in Returns : P(t)
  <2> DEFINE x == [status |-> "DRAFT", sale |-> s, purpose |-> purpose, lines |-> lines]
  <2>1. /\ return' = [return EXCEPT ![r] = x] /\ return[r].status \in {"ABSENT", "DRAFT"}
        /\ sale[s].status = "POSTED" /\ DOMAIN lines \subseteq DOMAIN sale[s].lines
        /\ Returnable(s, purpose, lines)
    BY <1>1 DEF SaveReturnDraft
  <2>2. /\ x \in ReturnRow /\ x.status = "DRAFT" /\ x.sale = s /\ x.purpose = purpose
        /\ x.lines = lines
    BY DEF ReturnRow
  <2> HIDE DEF x
  <2>3. ReturnsOK' /\ return'[r] = x /\ \A t \in Returns : t # r => return'[t] = return[t]
    BY <2>1, <2>2, ReturnSet
  <2>4. P(r)
    BY <2>1, <2>2, <2>3
  <2> HIDE DEF P
  <2> QED BY <1>0, <2>3, <2>4
<1>2. ASSUME NEW a \in Actors, NEW r \in Returns, CancelSaleReturn(a, r)
      PROVE  ReturnsOK' /\ \A t \in Returns : P(t)
  <2> DEFINE x == [return[r] EXCEPT !.status = "CANCELLED"]
  <2>1. return' = [return EXCEPT ![r] = x] /\ return[r].status = "DRAFT"
    BY <1>2 DEF CancelSaleReturn, ReturnsOK
  <2>2. return[r] \in ReturnRow
    BY <2>1 DEF ReturnsOK, NoReturn
  <2>3. /\ x \in ReturnRow /\ x.status = "CANCELLED" /\ x.sale = return[r].sale
        /\ x.purpose = return[r].purpose /\ x.lines = return[r].lines
    BY <2>1, <2>2 DEF ReturnRow
  <2> HIDE DEF x
  <2>4. ReturnsOK' /\ return'[r] = x /\ \A t \in Returns : t # r => return'[t] = return[t]
    BY <2>1, <2>3, ReturnSet
  <2>5. P(r)
    BY <2>1, <2>3, <2>4
  <2> HIDE DEF P
  <2> QED BY <1>0, <2>4, <2>5
<1>3. ASSUME NEW r \in Returns, NEW method \in Methods, NEW k \in ReturnKeys,
             CreateReturnPosting(r, method, k)
      PROVE  ReturnsOK' /\ \A t \in Returns : P(t)
  <2> DEFINE x == [status |-> "POSTED", sale |-> return[r].sale, purpose |-> return[r].purpose,
                   lines |-> return[r].lines, key |-> k, method |-> method]
  <2>1. return' = [return EXCEPT ![r] = x] /\ return[r].status = "DRAFT"
    BY <1>3 DEF CreateReturnPosting
  <2>2. return[r] \in {NoReturn} \cup ReturnRow
    BY DEF ReturnsOK
  <2>3. return[r].sale \in Sales /\ return[r].purpose \in Purposes /\ return[r].lines \in Chosen
    BY <2>1, <2>2, ReturnRowFacts
  <2>4. /\ x \in ReturnRow /\ x.status = "POSTED" /\ x.sale = return[r].sale
        /\ x.purpose = return[r].purpose /\ x.lines = return[r].lines
    BY <2>3 DEF ReturnRow
  <2> HIDE DEF x
  <2>5. ReturnsOK' /\ return'[r] = x /\ \A t \in Returns : t # r => return'[t] = return[t]
    BY <2>1, <2>4, ReturnSet
  <2>6. P(r)
    BY <1>3, <2>1, <2>4, <2>5
  <2> HIDE DEF P
  <2> QED BY <1>0, <2>5, <2>6
<1>4. ASSUME NEW r \in Returns, NEW k \in ReturnKeys, CreateReversal(r, k)
      PROVE  ReturnsOK' /\ \A t \in Returns : P(t)
  <2> DEFINE x == [return[r] EXCEPT !.status = "REVERSED"]
  <2>1. return' = [return EXCEPT ![r] = x] /\ return[r].status = "POSTED"
    BY <1>4 DEF CreateReversal, ReturnsOK
  <2>2. return[r] \in ReturnRow
    BY <2>1 DEF ReturnsOK, NoReturn
  <2>3. /\ x \in ReturnRow /\ x.status = "REVERSED" /\ x.sale = return[r].sale
        /\ x.purpose = return[r].purpose /\ x.lines = return[r].lines /\ x.key = return[r].key
    BY <2>1, <2>2 DEF ReturnRow
  <2> HIDE DEF x
  <2>4. ReturnsOK' /\ return'[r] = x /\ \A t \in Returns : t # r => return'[t] = return[t]
    BY <2>1, <2>3, ReturnSet
  <2>5. P(r)
    BY <1>4, <2>1, <2>3, <2>4
  <2> HIDE DEF P
  <2> QED BY <1>0, <2>4, <2>5
<1>5. ASSUME UNCHANGED return
      PROVE  ReturnsOK' /\ \A r \in Returns : P(r)
  <2>1. ReturnsOK'
    BY <1>5 DEF ReturnsOK, ReturnRow, NoReturn, Chosen, Quantities, Methods, Purposes
  <2> HIDE DEF P
  <2> QED BY <1>0, <1>5, <2>1
<1> HIDE DEF P
<1> QED BY <1>1, <1>2, <1>3, <1>4, <1>5, StepCases DEF SaveSaleDraft, CancelSale, ReplaySale,
     CreatePosting, ReplayReturn, ReplayReversal, ReceiveStock, ChangeVariant, Freeze,
     OpenDrawer, CloseDrawer, documents, vars
LEMMA LinkedStep ==
    ASSUME ShelfOK, SalesOK, ReturnsOK, ReturnsLinked, [Next]_vars
    PROVE  ReturnsLinked'
<1> SUFFICES ASSUME NEW r \in Returns, return'[r].status # "ABSENT"
             PROVE  /\ sale'[return'[r].sale].status = "POSTED"
                    /\ DOMAIN return'[r].lines \subseteq DOMAIN sale'[return'[r].sale].lines
                    /\ return'[r].purpose = "SALE_REVERSAL" =>
                           return'[r].lines = [v \in DOMAIN sale'[return'[r].sale].lines |->
                                                  sale'[return'[r].sale].lines[v].quantity]
  BY DEF ReturnsLinked
<1>1. CASE /\ return[r].status # "ABSENT"
           /\ return'[r].sale = return[r].sale /\ return'[r].purpose = return[r].purpose
           /\ return'[r].lines = return[r].lines
  <2> DEFINE s == return[r].sale
  <2>1. s \in Sales /\ sale[s].status = "POSTED"
    BY <1>1, ReturnFacts
  <2>2. sale'[s] = sale[s]
    BY <2>1, SaleSteps
  <2>3. /\ DOMAIN return[r].lines \subseteq DOMAIN sale[s].lines
        /\ return[r].purpose = "SALE_REVERSAL" =>
               return[r].lines = [v \in DOMAIN sale[s].lines |-> sale[s].lines[v].quantity]
    BY <1>1 DEF ReturnsLinked
  <2> QED BY <1>1, <2>1, <2>2, <2>3
<1>2. CASE /\ return'[r].sale \in Sales
           /\ sale[return'[r].sale].status = "POSTED"
           /\ DOMAIN return'[r].lines \subseteq DOMAIN sale[return'[r].sale].lines
           /\ Returnable(return'[r].sale, return'[r].purpose, return'[r].lines)
  <2>1. sale'[return'[r].sale] = sale[return'[r].sale]
    BY <1>2, SaleSteps
  <2>2. return'[r].purpose = "SALE_REVERSAL" =>
            return'[r].lines = [v \in DOMAIN sale[return'[r].sale].lines |->
                                   sale[return'[r].sale].lines[v].quantity]
    BY <1>2 DEF Returnable
  <2> QED BY <1>2, <2>1, <2>2
<1> QED BY <1>1, <1>2, ReturnSteps

-----------------------------------------------------------------------------
(* Types.                                                                  *)

\* A drawer pays a refund out of what it holds.
LEMMA DrawerStep ==
    ASSUME DrawerOK, SalesOK, ReturnsOK, ReturnsLinked, [Next]_vars
    PROVE  DrawerOK'
<1>0. ASSUME NEW d \in [open : BOOLEAN, expected : Nat], NEW n \in Nat
      PROVE  [d EXCEPT !.expected = n] \in [open : BOOLEAN, expected : Nat]
  OBVIOUS
<1>1. ASSUME NEW s \in Sales, NEW method \in Methods, NEW k \in SaleKeys,
             CreatePosting(s, method, k)
      PROVE  DrawerOK'
  <2>1. sale[s].status = "DRAFT"
    BY <1>1 DEF CreatePosting
  <2>2. IsSaleRow(sale[s])
    BY <2>1 DEF SalesOK, NoSale
  <2>3. drawer.expected + SaleTotal(s) \in Nat
    BY <2>2, SaleTotalIsNat DEF DrawerOK
  <2>4. \/ drawer' = [drawer EXCEPT !.expected = drawer.expected + SaleTotal(s)]
        \/ drawer' = drawer
    BY <1>1 DEF CreatePosting
  <2> QED BY <1>0, <2>3, <2>4 DEF DrawerOK
<1>2. ASSUME NEW r \in Returns, NEW method \in Methods, NEW k \in ReturnKeys,
             CreateReturnPosting(r, method, k)
      PROVE  DrawerOK'
  <2>1. return[r].status # "ABSENT" /\ (method = "CASH" => Affords(RefundTotal(r)))
    BY <1>2 DEF CreateReturnPosting
  <2>2. RefundTotal(r) \in Nat
    BY <2>1, RefundTotalIsNat
  <2>3. method = "CASH" => drawer.expected - RefundTotal(r) \in Nat
    BY <2>1, <2>2 DEF DrawerOK, Affords
  <2>4. \/ method = "CASH" /\ drawer' = [drawer EXCEPT !.expected = drawer.expected - RefundTotal(r)]
        \/ drawer' = drawer
    BY <1>2 DEF CreateReturnPosting
  <2> QED BY <1>0, <2>3, <2>4 DEF DrawerOK
<1>3. ASSUME NEW float \in 0 .. MaxFloat, OpenDrawer(float) PROVE DrawerOK'
  BY <1>3, BoundsAssumption DEF OpenDrawer, DrawerOK
<1>4. ASSUME CloseDrawer PROVE DrawerOK'
  BY <1>4 DEF CloseDrawer, DrawerOK
<1>5. ASSUME UNCHANGED drawer PROVE DrawerOK'
  BY <1>5 DEF DrawerOK
<1> QED BY <1>1, <1>2, <1>3, <1>4, <1>5, StepCases DEF SaveSaleDraft, CancelSale, ReplaySale,
     SaveReturnDraft, CancelSaleReturn, ReplayReturn, ReplayReversal, CreateReversal,
     ReceiveStock, ChangeVariant, Freeze, documents, outside, vars

\* What each step does to the shelf.
LEMMA PostingTakes ==
    ASSUME ShelfOK, SalesOK, NEW s \in Sales, NEW method \in Methods, NEW k \in SaleKeys,
           CreatePosting(s, method, k)
    PROVE  /\ stock' \in [Variants -> Balance]
           /\ \A v \in Variants :
                  stock'[v].quantity =
                      stock[v].quantity - (IF v \in DOMAIN sale[s].lines
                                           THEN sale[s].lines[v].quantity ELSE 0)
<1> DEFINE L == sale[s].lines
           after(v) == IF v \in DOMAIN L THEN Outbound(stock[v], L[v].quantity) ELSE stock[v]
<1>1. sale[s].status = "DRAFT"
  BY DEF CreatePosting
<1>2. IsSaleRow(sale[s])
  BY <1>1 DEF SalesOK, NoSale
<1>3. \A v \in DOMAIN L : L[v].quantity \in Nat \ {0}
  BY <1>2, SaleRowFacts
<1>4. \A v \in DOMAIN L : Leaves(stock[v], L[v].quantity)
  BY DEF CreatePosting
<1>5. stock' = [v \in Variants |-> after(v)]
  BY DEF CreatePosting
<1> HIDE DEF L
<1>6. ASSUME NEW v \in Variants
      PROVE  /\ after(v) \in Balance
             /\ after(v).quantity =
                    stock[v].quantity - (IF v \in DOMAIN L THEN L[v].quantity ELSE 0)
  <2>1. stock[v] \in Balance /\ stock[v].quantity \in Nat
    BY DEF ShelfOK, Balance
  <2>2. CASE v \in DOMAIN L
    BY <1>3, <1>4, <2>1, <2>2, OutboundBalance
  <2> QED BY <2>1, <2>2
<1> HIDE DEF after
<1> QED BY <1>5, <1>6 DEF L

LEMMA ReturnBrings ==
    ASSUME ShelfOK, SalesOK, ReturnsOK, ReturnsLinked, NEW r \in Returns,
           NEW method \in Methods, NEW k \in ReturnKeys, CreateReturnPosting(r, method, k)
    PROVE  /\ stock' \in [Variants -> Balance]
           /\ \A v \in Variants :
                  stock'[v].quantity =
                      stock[v].quantity + (IF v \in DOMAIN return[r].lines
                                           THEN return[r].lines[v] ELSE 0)
<1> DEFINE L == return[r].lines
           cost(v) == sale[return[r].sale].lines[v].cost
           after(v) == IF v \in DOMAIN L THEN Inbound(stock[v], L[v], cost(v)) ELSE stock[v]
<1>1. return[r].status # "ABSENT"
  BY DEF CreateReturnPosting
<1>2. \A v \in DOMAIN L : L[v] \in Nat \ {0} /\ cost(v) \in Nat
  BY <1>1, ReturnFacts
<1>3. stock' = [v \in Variants |-> after(v)]
  BY DEF CreateReturnPosting
<1> HIDE DEF L, cost
<1>4. ASSUME NEW v \in Variants
      PROVE  /\ after(v) \in Balance
             /\ after(v).quantity = stock[v].quantity + (IF v \in DOMAIN L THEN L[v] ELSE 0)
  <2>1. stock[v] \in Balance /\ stock[v].quantity \in Nat
    BY DEF ShelfOK, Balance
  <2>2. CASE v \in DOMAIN L
    BY <1>2, <2>1, <2>2, InboundBalance
  <2> QED BY <2>1, <2>2
<1> HIDE DEF after
<1> QED BY <1>3, <1>4 DEF L

LEMMA ReversalTakes ==
    ASSUME ShelfOK, SalesOK, ReturnsOK, ReturnsLinked, NEW r \in Returns,
           NEW k \in ReturnKeys, CreateReversal(r, k)
    PROVE  /\ stock' \in [Variants -> Balance]
           /\ \A v \in Variants :
                  stock'[v].quantity =
                      stock[v].quantity - (IF v \in DOMAIN return[r].lines
                                           THEN return[r].lines[v] ELSE 0)
<1> DEFINE L == return[r].lines
           cost(v) == sale[return[r].sale].lines[v].cost
           after(v) == IF v \in DOMAIN L THEN OutboundAtCost(stock[v], L[v], cost(v)) ELSE stock[v]
<1>1. return[r].status # "ABSENT"
  BY DEF CreateReversal
<1>2. \A v \in DOMAIN L : L[v] \in Nat \ {0} /\ cost(v) \in Nat
  BY <1>1, ReturnFacts
<1>3. stock' = [v \in Variants |-> after(v)]
  BY DEF CreateReversal
<1>4. \A v \in DOMAIN L : LeavesAtCost(stock[v], L[v], cost(v))
  BY DEF CreateReversal
<1> HIDE DEF L, cost
<1>5. ASSUME NEW v \in Variants
      PROVE  /\ after(v) \in Balance
             /\ after(v).quantity = stock[v].quantity - (IF v \in DOMAIN L THEN L[v] ELSE 0)
  <2>1. stock[v] \in Balance /\ stock[v].quantity \in Nat
    BY DEF ShelfOK, Balance
  <2>2. CASE v \in DOMAIN L
    BY <1>2, <1>4, <2>1, <2>2, OutboundAtCostBalance
  <2> QED BY <2>1, <2>2
<1> HIDE DEF after
<1> QED BY <1>3, <1>5 DEF L

LEMMA ReceiptBrings ==
    ASSUME ShelfOK, NEW v \in Variants, NEW goods \in Restocked, ReceiveStock(v, goods)
    PROVE  /\ stock' \in [Variants -> Balance] /\ received' \in [Variants -> Nat]
           /\ goods.quantity \in Nat
           /\ stock'[v].quantity = stock[v].quantity + goods.quantity
           /\ received'[v] = received[v] + goods.quantity
           /\ \A w \in Variants : w # v => stock'[w] = stock[w] /\ received'[w] = received[w]
<1>1. goods.quantity \in Nat \ {0} /\ goods.cost \in Nat
  BY RestockedAssumption
<1>2. stock[v] \in Balance /\ received[v] \in Nat
  BY DEF ShelfOK
<1> DEFINE x == Inbound(stock[v], goods.quantity, goods.cost)
<1>3. x \in Balance /\ x.quantity = stock[v].quantity + goods.quantity
  BY <1>1, <1>2, InboundBalance
<1>4. /\ stock' = [stock EXCEPT ![v] = x]
      /\ received' = [received EXCEPT ![v] = received[v] + goods.quantity]
  BY DEF ReceiveStock
<1> HIDE DEF x
<1> QED BY <1>1, <1>2, <1>3, <1>4 DEF ShelfOK

LEMMA ShelfStep ==
    ASSUME ShelfOK, SalesOK, ReturnsOK, ReturnsLinked, [Next]_vars
    PROVE  ShelfOK'
<1>0. Balance' = Balance /\ Prices' = Prices
  BY DEF Balance, Prices
<1>1. ASSUME stock' \in [Variants -> Balance], UNCHANGED outside
      PROVE  ShelfOK'
  BY <1>0, <1>1 DEF ShelfOK, outside
<1>2. ASSUME NEW v \in Variants, NEW goods \in Restocked, ReceiveStock(v, goods)
      PROVE  ShelfOK'
  <2>1. receipts' \in Nat /\ UNCHANGED <<catalog, frozen>>
    BY <1>2 DEF ReceiveStock, ShelfOK
  <2> QED BY <1>0, <1>2, <2>1, ReceiptBrings DEF ShelfOK
<1>3. ASSUME NEW v \in Variants, NEW price \in Prices, NEW active \in BOOLEAN,
             ChangeVariant(v, price, active)
      PROVE  ShelfOK'
  BY <1>0, <1>3 DEF ChangeVariant, ShelfOK
<1>4. ASSUME Freeze PROVE ShelfOK'
  BY <1>0, <1>4 DEF Freeze, ShelfOK
<1>5. ASSUME UNCHANGED <<stock, outside>> PROVE ShelfOK'
  BY <1>1, <1>5 DEF ShelfOK
<1>6. ASSUME NEW s \in Sales, NEW method \in Methods, NEW k \in SaleKeys,
             CreatePosting(s, method, k)
      PROVE  ShelfOK'
  BY <1>1, <1>6, PostingTakes DEF CreatePosting
<1>7. ASSUME NEW r \in Returns, NEW method \in Methods, NEW k \in ReturnKeys,
             CreateReturnPosting(r, method, k)
      PROVE  ShelfOK'
  BY <1>1, <1>7, ReturnBrings DEF CreateReturnPosting
<1>8. ASSUME NEW r \in Returns, NEW k \in ReturnKeys, CreateReversal(r, k) PROVE ShelfOK'
  BY <1>1, <1>8, ReversalTakes DEF CreateReversal
<1> QED BY <1>2, <1>3, <1>4, <1>5, <1>6, <1>7, <1>8, StepCases DEF SaveSaleDraft, CancelSale,
     ReplaySale, SaveReturnDraft, CancelSaleReturn, ReplayReturn, ReplayReversal, OpenDrawer,
     CloseDrawer, vars

LEMMA KeysTypeStep ==
    ASSUME KeysOK, [Next]_vars
    PROVE  KeysOK'
<1>1. ASSUME NEW s \in Sales, NEW k \in SaleKeys,
             saleKeys' = saleKeys \cup {[key |-> k, sale |-> s]}, UNCHANGED returnKeys
      PROVE  KeysOK'
  BY <1>1 DEF KeysOK
<1>2. ASSUME NEW r \in Returns, NEW k \in ReturnKeys, NEW op \in {"RETURN", "REVERSAL"},
             returnKeys' = returnKeys \cup {[key |-> k, op |-> op, return |-> r]},
             UNCHANGED saleKeys
      PROVE  KeysOK'
  BY <1>2 DEF KeysOK
<1>3. ASSUME UNCHANGED <<saleKeys, returnKeys>> PROVE KeysOK'
  BY <1>3 DEF KeysOK
<1>4. ASSUME NEW s \in Sales, NEW method \in Methods, NEW k \in SaleKeys,
             CreatePosting(s, method, k)
      PROVE  KeysOK'
  BY <1>1, <1>4 DEF CreatePosting
<1>5. ASSUME NEW r \in Returns, NEW method \in Methods, NEW k \in ReturnKeys,
             CreateReturnPosting(r, method, k)
      PROVE  KeysOK'
  BY <1>2, <1>5 DEF CreateReturnPosting
<1>6. ASSUME NEW r \in Returns, NEW k \in ReturnKeys, CreateReversal(r, k) PROVE KeysOK'
  BY <1>2, <1>6 DEF CreateReversal
<1> QED BY <1>3, <1>4, <1>5, <1>6, StepCases DEF SaveSaleDraft, CancelSale, ReplaySale,
     SaveReturnDraft, CancelSaleReturn, ReplayReturn, ReplayReversal, ReceiveStock,
     ChangeVariant, Freeze, OpenDrawer, CloseDrawer, documents, vars

Linked == TypeOK /\ ReturnsLinked

LEMMA LinkedInit == Init => Linked
<1> SUFFICES ASSUME Init PROVE Linked
  OBVIOUS
<1>1. ShelfOK
  <2>1. 1 \in Prices
    BY BoundsAssumption DEF Prices
  <2>2. Nothing \in Balance
    BY DEF Nothing, Balance
  <2>3. catalog \in [Variants -> [price : Prices, active : BOOLEAN]]
    BY <2>1 DEF Init
  <2> QED BY <2>2, <2>3 DEF Init, ShelfOK
<1>2. DrawerOK /\ SalesOK /\ KeysOK
  BY DEF Init, DrawerOK, SalesOK, KeysOK
<1>3. ReturnsOK
  BY DEF Init, ReturnsOK
<1>4. ReturnsLinked
  BY DEF Init, ReturnsLinked, NoReturn
<1> QED BY <1>1, <1>2, <1>3, <1>4, TypeParts DEF Linked

LEMMA LinkedInvariant == Spec => []Linked
<1>1. Linked /\ [Next]_vars => Linked'
  <2> SUFFICES ASSUME Linked, [Next]_vars PROVE Linked'
    OBVIOUS
  <2>1. ShelfOK /\ DrawerOK /\ SalesOK /\ ReturnsOK /\ KeysOK /\ ReturnsLinked
    BY TypeParts DEF Linked
  <2>2. ShelfOK' /\ DrawerOK' /\ SalesOK' /\ ReturnsOK' /\ KeysOK' /\ ReturnsLinked'
    BY <2>1, ShelfStep, DrawerStep, SaleSteps, ReturnSteps, KeysTypeStep, LinkedStep
  <2>3. TypeOK'
    BY <2>2 DEF TypeOK, ShelfOK, DrawerOK, SalesOK, ReturnsOK, KeysOK
  <2> QED BY <2>2, <2>3 DEF Linked
<1> QED BY LinkedInit, <1>1, PTL DEF Spec

\* Rows keep their shape whatever is called in whatever order: in particular no step
\* takes more from the shelf than it holds, and a refund never leaves the drawer of the
\* branch owing cash (_apply_outbound, record_cash_refund).
THEOREM TypeCorrect == Spec => []TypeOK
BY LinkedInvariant, PTL DEF Linked
-----------------------------------------------------------------------------
(* Keys.                                                                   *)

SaleKeysOnce == \A x, y \in saleKeys : x.key = y.key => x = y
ReturnKeysOnce == \A x, y \in returnKeys : x.key = y.key => x = y
\* A posted document is recorded under the key it was posted with.
PostedUnderKey ==
    /\ \A s \in Sales : sale[s].status = "POSTED" => [key |-> sale[s].key, sale |-> s] \in saleKeys
    /\ \A r \in Returns : return[r].status = "POSTED" =>
           [key |-> return[r].key, op |-> "RETURN", return |-> r] \in returnKeys
\* Every answer is that of a recorded key.
SaleAnswer(row) == [table |-> "SALE", key |-> row.key, op |-> "POST", of |-> row.sale]
ReturnAnswer(row) == [table |-> "RETURN", key |-> row.key, op |-> row.op, of |-> row.return]
AnswersRecorded ==
    \A x \in answers : \/ \E row \in saleKeys : x = SaleAnswer(row)
                       \/ \E row \in returnKeys : x = ReturnAnswer(row)

KeysInv == SaleKeysOnce /\ ReturnKeysOnce /\ PostedUnderKey /\ AnswersRecorded

LEMMA RecordedOnce == KeysInv => KeyAnswersOnce
<1> SUFFICES ASSUME KeysInv, NEW x \in answers, NEW y \in answers,
                    x.table = y.table, x.key = y.key
             PROVE  x = y
  BY DEF KeyAnswersOnce
<1>0. \/ \E row \in saleKeys : y = SaleAnswer(row)
      \/ \E row \in returnKeys : y = ReturnAnswer(row)
  BY DEF KeysInv, AnswersRecorded
<1>3. \A row : SaleAnswer(row).table = "SALE" /\ ReturnAnswer(row).table = "RETURN"
  BY DEF SaleAnswer, ReturnAnswer
<1>1. CASE \E row \in saleKeys : x = SaleAnswer(row)
  <2>1. PICK row \in saleKeys : x = SaleAnswer(row)
    BY <1>1
  <2>2. x.table = "SALE" /\ x.key = row.key
    BY <2>1 DEF SaleAnswer
  <2>3. PICK other \in saleKeys : y = SaleAnswer(other)
    BY <1>0, <1>3, <2>2
  <2>4. y.key = other.key
    BY <2>3 DEF SaleAnswer
  <2>5. row = other
    BY <2>2, <2>4 DEF KeysInv, SaleKeysOnce
  <2> QED BY <2>1, <2>3, <2>5
<1>2. CASE \E row \in returnKeys : x = ReturnAnswer(row)
  <2>1. PICK row \in returnKeys : x = ReturnAnswer(row)
    BY <1>2
  <2>2. x.table = "RETURN" /\ x.key = row.key
    BY <2>1 DEF ReturnAnswer
  <2>3. PICK other \in returnKeys : y = ReturnAnswer(other)
    BY <1>0, <1>3, <2>2
  <2>4. y.key = other.key
    BY <2>3 DEF ReturnAnswer
  <2>5. row = other
    BY <2>2, <2>4 DEF KeysInv, ReturnKeysOnce
  <2> QED BY <2>1, <2>3, <2>5
<1> QED BY <1>1, <1>2 DEF KeysInv, AnswersRecorded

\* A posting that records a new key, or one it had recorded for the same document.
LEMMA SaleKeyAdded ==
    ASSUME KeysInv, KeysOK, NEW s \in Sales, NEW k \in SaleKeys, SaleKeyFree(k, s),
           saleKeys' = saleKeys \cup {[key |-> k, sale |-> s]}, Answer("SALE", k, "POST", s),
           UNCHANGED returnKeys
    PROVE  SaleKeysOnce' /\ ReturnKeysOnce' /\ AnswersRecorded'
<1> DEFINE new == [key |-> k, sale |-> s]
<1>1. new \in saleKeys' /\ new.key = k /\ new.sale = s
  OBVIOUS
<1>2. \A x \in saleKeys : x.key = k => x = new
  BY DEF SaleKeyFree, KeysOK
<1>3. saleKeys' = saleKeys \cup {new}
  OBVIOUS
<1>4. answers' = answers \cup {SaleAnswer(new)}
  BY DEF Answer, SaleAnswer
<1> HIDE DEF new
<1>5. SaleKeysOnce'
  BY <1>1, <1>2, <1>3 DEF KeysInv, SaleKeysOnce
<1>6. ReturnKeysOnce'
  BY DEF KeysInv, ReturnKeysOnce
<1>7. ASSUME NEW x \in answers'
      PROVE  \/ \E row \in saleKeys' : x = SaleAnswer(row)
             \/ \E row \in returnKeys' : x = ReturnAnswer(row)
  BY <1>1, <1>3, <1>4, <1>7 DEF KeysInv, AnswersRecorded
<1>8. AnswersRecorded'
  BY <1>7 DEF AnswersRecorded, SaleAnswer, ReturnAnswer
<1> QED BY <1>5, <1>6, <1>8

LEMMA ReturnKeyAdded ==
    ASSUME KeysInv, KeysOK, NEW r \in Returns, NEW k \in ReturnKeys,
           NEW op \in {"RETURN", "REVERSAL"}, ReturnKeyFree(k, op, r),
           returnKeys' = returnKeys \cup {[key |-> k, op |-> op, return |-> r]},
           Answer("RETURN", k, op, r), UNCHANGED saleKeys
    PROVE  SaleKeysOnce' /\ ReturnKeysOnce' /\ AnswersRecorded'
<1> DEFINE new == [key |-> k, op |-> op, return |-> r]
<1>1. new \in returnKeys' /\ new.key = k /\ new.op = op /\ new.return = r
  OBVIOUS
<1>2. \A x \in returnKeys : x.key = k => x = new
  BY DEF ReturnKeyFree, KeysOK
<1>3. returnKeys' = returnKeys \cup {new}
  OBVIOUS
<1>4. answers' = answers \cup {ReturnAnswer(new)}
  BY DEF Answer, ReturnAnswer
<1> HIDE DEF new
<1>5. ReturnKeysOnce'
  BY <1>1, <1>2, <1>3 DEF KeysInv, ReturnKeysOnce
<1>6. SaleKeysOnce'
  BY DEF KeysInv, SaleKeysOnce
<1>7. ASSUME NEW x \in answers'
      PROVE  \/ \E row \in saleKeys' : x = SaleAnswer(row)
             \/ \E row \in returnKeys' : x = ReturnAnswer(row)
  BY <1>1, <1>3, <1>4, <1>7 DEF KeysInv, AnswersRecorded
<1>8. AnswersRecorded'
  BY <1>7 DEF AnswersRecorded, SaleAnswer, ReturnAnswer
<1> QED BY <1>5, <1>6, <1>8

\* Nothing is recorded, and what is answered was recorded before.
LEMMA NoKeyAdded ==
    ASSUME KeysInv, UNCHANGED <<saleKeys, returnKeys>>,
           \/ UNCHANGED answers
           \/ \E row \in saleKeys : answers' = answers \cup {SaleAnswer(row)}
           \/ \E row \in returnKeys : answers' = answers \cup {ReturnAnswer(row)}
    PROVE  SaleKeysOnce' /\ ReturnKeysOnce' /\ AnswersRecorded'
<1>1. SaleKeysOnce' /\ ReturnKeysOnce'
  BY DEF KeysInv, SaleKeysOnce, ReturnKeysOnce
<1>2. ASSUME NEW x \in answers'
      PROVE  \/ \E row \in saleKeys' : x = SaleAnswer(row)
             \/ \E row \in returnKeys' : x = ReturnAnswer(row)
  BY <1>2 DEF KeysInv, AnswersRecorded
<1>3. AnswersRecorded'
  BY <1>2 DEF AnswersRecorded, SaleAnswer, ReturnAnswer
<1> QED BY <1>1, <1>3

LEMMA KeysStep ==
    ASSUME Linked, KeysInv, [Next]_vars
    PROVE  KeysInv'
<1>0. ShelfOK /\ SalesOK /\ ReturnsOK /\ KeysOK /\ ReturnsLinked
  BY TypeParts DEF Linked
<1> DEFINE Tables == SaleKeysOnce' /\ ReturnKeysOnce' /\ AnswersRecorded'
<1>1. ASSUME NEW s \in Sales, NEW method \in Methods, NEW k \in SaleKeys,
             CreatePosting(s, method, k)
      PROVE  Tables
  BY <1>0, <1>1, SaleKeyAdded DEF CreatePosting
<1>2. ASSUME NEW r \in Returns, NEW method \in Methods, NEW k \in ReturnKeys,
             CreateReturnPosting(r, method, k)
      PROVE  Tables
  BY <1>0, <1>2, ReturnKeyAdded DEF CreateReturnPosting
<1>3. ASSUME NEW r \in Returns, NEW k \in ReturnKeys, CreateReversal(r, k)
      PROVE  Tables
  <2>1. ReturnKeyFree(k, "REVERSAL", r)
    BY <1>3 DEF CreateReversal, ReturnKeyFree
  <2> QED BY <1>0, <1>3, <2>1, ReturnKeyAdded DEF CreateReversal
<1>4. ASSUME NEW s \in Sales, NEW k \in SaleKeys, ReplaySale(s, k)
      PROVE  Tables
  <2>1. [key |-> k, sale |-> s] \in saleKeys
    BY <1>4 DEF ReplaySale, KeysInv, PostedUnderKey
  <2>2. answers' = answers \cup {SaleAnswer([key |-> k, sale |-> s])}
    BY <1>4 DEF ReplaySale, Answer, SaleAnswer
  <2> QED BY <1>4, <2>1, <2>2, NoKeyAdded DEF ReplaySale
<1>5. ASSUME NEW r \in Returns, NEW k \in ReturnKeys, ReplayReturn(r, k)
      PROVE  Tables
  <2>1. [key |-> k, op |-> "RETURN", return |-> r] \in returnKeys
    BY <1>5 DEF ReplayReturn, KeysInv, PostedUnderKey
  <2>2. answers' = answers \cup {ReturnAnswer([key |-> k, op |-> "RETURN", return |-> r])}
    BY <1>5 DEF ReplayReturn, Answer, ReturnAnswer
  <2> QED BY <1>5, <2>1, <2>2, NoKeyAdded DEF ReplayReturn
<1>6. ASSUME NEW r \in Returns, NEW k \in ReturnKeys, ReplayReversal(r, k)
      PROVE  Tables
  <2>1. [key |-> k, op |-> "REVERSAL", return |-> r] \in returnKeys
    BY <1>6 DEF ReplayReversal
  <2>2. answers' = answers \cup {ReturnAnswer([key |-> k, op |-> "REVERSAL", return |-> r])}
    BY <1>6 DEF ReplayReversal, Answer, ReturnAnswer
  <2> QED BY <1>6, <2>1, <2>2, NoKeyAdded DEF ReplayReversal
<1>7. ASSUME UNCHANGED <<saleKeys, returnKeys, answers>> PROVE Tables
  BY <1>7, NoKeyAdded
<1>8. Tables
  <2> HIDE DEF Tables
  <2> QED BY <1>1, <1>2, <1>3, <1>4, <1>5, <1>6, <1>7, StepCases DEF SaveSaleDraft, CancelSale,
       SaveReturnDraft, CancelSaleReturn, ReceiveStock, ChangeVariant, Freeze, OpenDrawer,
       CloseDrawer, documents, vars
<1>9. saleKeys \subseteq saleKeys' /\ returnKeys \subseteq returnKeys'
  BY StepCases DEF SaveSaleDraft, CancelSale, ReplaySale, CreatePosting, SaveReturnDraft,
     CancelSaleReturn, ReplayReturn, CreateReturnPosting, ReplayReversal, CreateReversal,
     ReceiveStock, ChangeVariant, Freeze, OpenDrawer, CloseDrawer, documents, vars
<1>10. ASSUME NEW s \in Sales, sale'[s].status = "POSTED"
       PROVE  [key |-> sale'[s].key, sale |-> s] \in saleKeys'
  <2>1. CASE sale[s].status = "POSTED"
    BY <1>0, <1>9, <2>1, SaleSteps DEF KeysInv, PostedUnderKey
  <2>2. CASE sale[s].status # "POSTED"
    <3>1. PICK method \in Methods, k \in SaleKeys : CreatePosting(s, method, k)
      BY <1>0, <1>10, <2>2, SaleSteps
    <3>2. sale'[s].key = k /\ [key |-> k, sale |-> s] \in saleKeys'
      BY <1>0, <3>1 DEF CreatePosting, SalesOK
    <3> QED BY <3>2
  <2> QED BY <2>1, <2>2
<1>11. ASSUME NEW r \in Returns, return'[r].status = "POSTED"
       PROVE  [key |-> return'[r].key, op |-> "RETURN", return |-> r] \in returnKeys'
  <2>1. CASE return[r].status = "POSTED"
    BY <1>0, <1>9, <2>1, ReturnSteps DEF KeysInv, PostedUnderKey
  <2>2. CASE return[r].status # "POSTED"
    <3>1. PICK method \in Methods, k \in ReturnKeys : CreateReturnPosting(r, method, k)
      BY <1>0, <1>11, <2>2, ReturnSteps
    <3>2. return'[r].key = k /\ [key |-> k, op |-> "RETURN", return |-> r] \in returnKeys'
      BY <1>0, <3>1 DEF CreateReturnPosting, ReturnsOK
    <3> QED BY <3>2
  <2> QED BY <2>1, <2>2
<1>12. PostedUnderKey'
  BY <1>10, <1>11 DEF PostedUnderKey
<1> QED BY <1>8, <1>12 DEF KeysInv

\* A key of a sale, or of a return, answers with one document and one operation for ever
\* (SalePostingKey and SaleReturnPostingKey are unique, and looked up before anything is
\* posted under them).
THEOREM KeyedCallsAnswerOnce == Spec => []KeyAnswersOnce
<1>1. Init => KeysInv
  BY DEF Init, KeysInv, SaleKeysOnce, ReturnKeysOnce, PostedUnderKey, AnswersRecorded,
     NoSale, NoReturn
<1>2. Linked /\ KeysInv /\ [Next]_vars => KeysInv'
  BY KeysStep
<1> QED BY <1>1, <1>2, LinkedInvariant, RecordedOnce, PTL DEF Spec
-----------------------------------------------------------------------------
(* What was taken back.                                                    *)

\* What a return takes back of a variant.
Part(r, v) == IF v \in DOMAIN return[r].lines THEN return[r].lines[v] ELSE 0

LEMMA PartIsNat ==
    ASSUME Linked, NEW r \in Returns, return[r].status # "ABSENT", NEW v
    PROVE  Part(r, v) \in Nat
<1>1. \A w \in DOMAIN return[r].lines : return[r].lines[w] \in Nat
  BY ReturnFacts, TypeParts DEF Linked
<1> QED BY <1>1 DEF Part

LEMMA ReturnedTerms ==
    ASSUME Linked, NEW s, NEW v
    PROVE  /\ IsFiniteSet(ReturnsOf(s, v))
           /\ \A r \in ReturnsOf(s, v) : return[r].lines[v] \in Nat
<1>1. IsFiniteSet(ReturnsOf(s, v))
  BY FS_Subset, FiniteAssumption DEF ReturnsOf, PostedReturns
<1>2. ASSUME NEW r \in ReturnsOf(s, v) PROVE return[r].lines[v] \in Nat
  <2>1. r \in Returns /\ return[r].status # "ABSENT" /\ v \in DOMAIN return[r].lines
    BY DEF ReturnsOf, PostedReturns
  <2> QED BY <2>1, ReturnFacts, TypeParts DEF Linked
<1> QED BY <1>1, <1>2

LEMMA ReturnedIsNat ==
    ASSUME Linked, NEW s, NEW v
    PROVE  ReturnedQuantity(s, v) \in Nat
<1> DEFINE f == [r \in ReturnsOf(s, v) |-> return[r].lines[v]]
<1>1. IsFiniteSet(DOMAIN f) /\ \A r \in DOMAIN f : f[r] \in Nat
  BY ReturnedTerms
<1>2. ReturnedQuantity(s, v) = SumFunction(f)
  BY DEF ReturnedQuantity
<1> HIDE DEF f
<1> QED BY <1>1, <1>2, SumFunctionNat

LEMMA ReturnedAtLeast ==
    ASSUME Linked, NEW s, NEW r \in PostedReturns(s), NEW v \in DOMAIN return[r].lines
    PROVE  return[r].lines[v] <= ReturnedQuantity(s, v)
<1> DEFINE f == [x \in ReturnsOf(s, v) |-> return[x].lines[v]]
<1>1. IsFiniteSet(DOMAIN f) /\ \A x \in DOMAIN f : f[x] \in Nat
  BY ReturnedTerms
<1>2. ReturnedQuantity(s, v) = SumFunction(f)
  BY DEF ReturnedQuantity
<1>3. r \in DOMAIN f /\ f[r] = return[r].lines[v]
  BY DEF ReturnsOf
<1> HIDE DEF f
<1> QED BY <1>1, <1>2, <1>3, SumFunctionTerm

\* Between two states the posted returns stay, or one is posted, or one reversed.
SameReturn(r) ==
    /\ return'[r].status = "POSTED" <=> return[r].status = "POSTED"
    /\ return[r].status = "POSTED" =>
           /\ return'[r].sale = return[r].sale /\ return'[r].purpose = return[r].purpose
           /\ return'[r].lines = return[r].lines

LEMMA ReturnMoves ==
    ASSUME Linked, [Next]_vars
    PROVE  \/ \E r \in Returns, method \in Methods, k \in ReturnKeys :
                  CreateReturnPosting(r, method, k)
           \/ \E r \in Returns, k \in ReturnKeys : CreateReversal(r, k)
           \/ \A r \in Returns : SameReturn(r)
<1>1. SalesOK /\ ReturnsOK /\ ReturnsLinked
  BY TypeParts DEF Linked
<1> QED BY <1>1, ReturnSteps DEF SameReturn

LEMMA ReturnsStay ==
    ASSUME Linked, \A r \in Returns : SameReturn(r), NEW s
    PROVE  /\ PostedReturns(s)' = PostedReturns(s)
           /\ \A v : ReturnedQuantity(s, v)' = ReturnedQuantity(s, v)
<1>1. PostedReturns(s)' = PostedReturns(s)
  BY DEF PostedReturns, SameReturn
<1>2. ASSUME NEW v PROVE ReturnedQuantity(s, v)' = ReturnedQuantity(s, v)
  <2>1. \A r \in PostedReturns(s) : return'[r].lines = return[r].lines
    BY DEF PostedReturns, SameReturn
  <2>2. ReturnsOf(s, v)' = ReturnsOf(s, v)
    BY <1>1, <2>1 DEF ReturnsOf
  <2> DEFINE f == [r \in ReturnsOf(s, v) |-> return[r].lines[v]]
             g == [r \in ReturnsOf(s, v)' |-> return'[r].lines[v]]
  <2>3. \A r \in ReturnsOf(s, v) : return'[r].lines[v] = return[r].lines[v]
    BY <2>1 DEF ReturnsOf
  <2>4. f = g
    BY <2>2, <2>3
  <2> QED BY <2>4 DEF ReturnedQuantity
<1> QED BY <1>1, <1>2

\* The same two facts of a posting, and of a reversal read backwards.
LEMMA ReturnPosts ==
    ASSUME Linked, NEW r \in Returns, NEW method \in Methods, NEW k \in ReturnKeys,
           CreateReturnPosting(r, method, k), NEW s
    PROVE  /\ PostedReturns(s)' =
                  PostedReturns(s) \cup (IF s = return[r].sale THEN {r} ELSE {})
           /\ r \notin PostedReturns(s)
           /\ return'[r].purpose = return[r].purpose /\ return'[r].lines = return[r].lines
           /\ \A t \in Returns : t # r => return'[t] = return[t]
           /\ \A v : ReturnedQuantity(s, v)' =
                         ReturnedQuantity(s, v) + (IF s = return[r].sale THEN Part(r, v) ELSE 0)
<1>1. return[r].status = "DRAFT"
  BY DEF CreateReturnPosting
<1>2. /\ return'[r].status = "POSTED" /\ return'[r].sale = return[r].sale
      /\ return'[r].purpose = return[r].purpose /\ return'[r].lines = return[r].lines
      /\ \A t \in Returns : t # r => return'[t] = return[t]
  BY TypeParts DEF Linked, ReturnsOK, CreateReturnPosting
<1>3. /\ PostedReturns(s)' = PostedReturns(s) \cup (IF s = return[r].sale THEN {r} ELSE {})
      /\ r \notin PostedReturns(s)
  BY <1>1, <1>2 DEF PostedReturns
<1>4. \A v : Part(r, v) \in Nat
  BY <1>1, PartIsNat
<1>5. ASSUME NEW v
      PROVE  ReturnedQuantity(s, v)' =
                 ReturnedQuantity(s, v) + (IF s = return[r].sale THEN Part(r, v) ELSE 0)
  <2> DEFINE f == [x \in ReturnsOf(s, v) |-> return[x].lines[v]]
             g == [x \in ReturnsOf(s, v)' |-> return'[x].lines[v]]
  <2>1. ReturnedQuantity(s, v) = SumFunction(f) /\ ReturnedQuantity(s, v)' = SumFunction(g)
    BY DEF ReturnedQuantity
  <2>2. ReturnedQuantity(s, v) \in Nat
    BY ReturnedIsNat
  <2>3. \A x \in ReturnsOf(s, v) : x # r /\ return'[x].lines[v] = return[x].lines[v]
    BY <1>2, <1>3 DEF ReturnsOf, PostedReturns
  <2>4. CASE s = return[r].sale /\ v \in DOMAIN return[r].lines
    <3>1. ReturnsOf(s, v)' = ReturnsOf(s, v) \cup {r}
      BY <1>2, <1>3, <2>4 DEF ReturnsOf, PostedReturns
    <3>2. IntegerSum(f)
      BY ReturnedTerms DEF IntegerSum
    <3>3. DOMAIN g = DOMAIN f \cup {r} /\ r \notin DOMAIN f
      BY <2>3, <3>1
    <3>4. g[r] = return[r].lines[v] /\ g[r] = Part(r, v) /\ g[r] \in Int
      BY <1>2, <1>4, <2>4, <3>1 DEF Part
    <3>5. \A x \in DOMAIN f : g[x] = f[x]
      BY <2>3, <3>1
    <3> HIDE DEF f, g
    <3>6. SumFunction(g) = SumFunction(f) + g[r]
      BY <3>2, <3>3, <3>4, <3>5, SumFunctionAdd
    <3> QED BY <2>1, <2>4, <3>4, <3>6
  <2>5. CASE ~(s = return[r].sale /\ v \in DOMAIN return[r].lines)
    <3>1. ReturnsOf(s, v)' = ReturnsOf(s, v)
      BY <1>2, <1>3, <2>5 DEF ReturnsOf, PostedReturns
    <3>2. f = g
      BY <2>3, <3>1
    <3>3. (IF s = return[r].sale THEN Part(r, v) ELSE 0) = 0
      BY <2>5 DEF Part
    <3> HIDE DEF f, g
    <3> QED BY <2>1, <2>2, <3>2, <3>3
  <2> QED BY <2>4, <2>5
<1> QED BY <1>2, <1>3, <1>5

LEMMA ReturnReverses ==
    ASSUME Linked, NEW r \in Returns, NEW k \in ReturnKeys, CreateReversal(r, k), NEW s
    PROVE  /\ PostedReturns(s)' = PostedReturns(s) \ {r}
           /\ \A t \in Returns : t # r => return'[t] = return[t]
           /\ r \in PostedReturns(return[r].sale)
           /\ \A v : ReturnedQuantity(s, v) =
                         ReturnedQuantity(s, v)' + (IF s = return[r].sale THEN Part(r, v) ELSE 0)
           /\ \A v : ReturnedQuantity(s, v)' \in Nat
<1>1. return[r].status = "POSTED"
  BY DEF CreateReversal
<1>2. /\ return'[r].status = "REVERSED"
      /\ \A t \in Returns : t # r => return'[t] = return[t]
  <2>1. return[r] \in ReturnRow
    BY <1>1, ReturnFacts, TypeParts DEF Linked
  <2>2. [return[r] EXCEPT !.status = "REVERSED"].status = "REVERSED"
    BY <2>1 DEF ReturnRow
  <2>3. return' = [return EXCEPT ![r] = [return[r] EXCEPT !.status = "REVERSED"]]
    BY TypeParts DEF Linked, ReturnsOK, CreateReversal
  <2> QED BY <2>2, <2>3, TypeParts DEF Linked, ReturnsOK
<1>3. PostedReturns(s)' = PostedReturns(s) \ {r} /\ r \in PostedReturns(return[r].sale)
  BY <1>1, <1>2 DEF PostedReturns
<1>4. \A v : Part(r, v) \in Nat
  BY <1>1, PartIsNat
<1>5. ASSUME NEW v
      PROVE  /\ ReturnedQuantity(s, v) =
                    ReturnedQuantity(s, v)' + (IF s = return[r].sale THEN Part(r, v) ELSE 0)
             /\ ReturnedQuantity(s, v)' \in Nat
  <2> DEFINE f == [x \in ReturnsOf(s, v) |-> return[x].lines[v]]
             g == [x \in ReturnsOf(s, v)' |-> return'[x].lines[v]]
  <2>1. ReturnedQuantity(s, v) = SumFunction(f) /\ ReturnedQuantity(s, v)' = SumFunction(g)
    BY DEF ReturnedQuantity
  <2>2. IsFiniteSet(ReturnsOf(s, v)) /\ \A x \in ReturnsOf(s, v) : return[x].lines[v] \in Nat
    BY ReturnedTerms
  <2>3. ReturnsOf(s, v)' = ReturnsOf(s, v) \ {r}
    BY <1>2, <1>3 DEF ReturnsOf, PostedReturns
  <2>4. \A x \in ReturnsOf(s, v)' : x # r /\ return'[x].lines[v] = return[x].lines[v]
    BY <1>2, <2>3 DEF ReturnsOf, PostedReturns
  <2>5. IsFiniteSet(DOMAIN g) /\ \A x \in DOMAIN g : g[x] \in Nat
    BY <2>2, <2>3, <2>4, FS_Subset
  <2>6. SumFunction(g) \in Nat
    <3> HIDE DEF g
    <3> QED BY <2>5, SumFunctionNat
  <2>7. CASE s = return[r].sale /\ v \in DOMAIN return[r].lines
    <3>1. r \in ReturnsOf(s, v)
      BY <1>1, <2>7 DEF ReturnsOf, PostedReturns
    <3>2. IntegerSum(g)
      BY <2>5 DEF IntegerSum
    <3>3. DOMAIN f = DOMAIN g \cup {r} /\ r \notin DOMAIN g
      BY <2>3, <3>1
    <3>4. f[r] = Part(r, v) /\ f[r] \in Int
      BY <1>4, <2>7, <3>1 DEF Part
    <3>5. \A x \in DOMAIN g : f[x] = g[x]
      BY <2>3, <2>4
    <3> HIDE DEF f, g
    <3>6. SumFunction(f) = SumFunction(g) + f[r]
      BY <3>2, <3>3, <3>4, <3>5, SumFunctionAdd
    <3> QED BY <2>1, <2>6, <2>7, <3>4, <3>6
  <2>8. CASE ~(s = return[r].sale /\ v \in DOMAIN return[r].lines)
    <3>1. r \notin ReturnsOf(s, v)
      BY <1>1, <2>8 DEF ReturnsOf, PostedReturns
    <3>2. f = g
      BY <2>3, <2>4, <3>1
    <3>3. (IF s = return[r].sale THEN Part(r, v) ELSE 0) = 0
      BY <2>8 DEF Part
    <3> HIDE DEF f, g
    <3> QED BY <2>1, <2>6, <3>2, <3>3
  <2> QED BY <2>7, <2>8
<1> QED BY <1>2, <1>3, <1>5

-----------------------------------------------------------------------------
(* Returns stay within the sale.                                           *)

LEMMA WithinInit == Init => ReturnsWithinSale
BY DEF Init, ReturnsWithinSale, ReturnedWithinSold, FullReversalAlone, PostedSales,
   PostedReturns, NoSale, NoReturn

\* A sale that is not posted has no returns.
LEMMA NoReturnsYet ==
    ASSUME Linked, NEW s \in Sales, sale[s].status # "POSTED"
    PROVE  PostedReturns(s) = {} /\ \A v : ReturnedQuantity(s, v) = 0
<1>1. PostedReturns(s) = {}
  BY ReturnFacts, TypeParts DEF Linked, PostedReturns
<1>2. ASSUME NEW v PROVE ReturnedQuantity(s, v) = 0
  <2>1. ReturnsOf(s, v) = {}
    BY <1>1 DEF ReturnsOf
  <2> DEFINE f == [r \in ReturnsOf(s, v) |-> return[r].lines[v]]
  <2>2. DOMAIN f = {} /\ ReturnedQuantity(s, v) = SumFunction(f)
    BY <2>1 DEF ReturnedQuantity
  <2> HIDE DEF f
  <2> QED BY <2>2, SumFunctionOfNothing
<1> QED BY <1>1, <1>2

\* What is returned after a step is within what the sale had sold before it.
LEMMA ReturnedStep ==
    ASSUME Linked, ReturnedWithinSold, [Next]_vars,
           NEW s \in PostedSales, NEW v \in DOMAIN sale[s].lines
    PROVE  ReturnedQuantity(s, v)' <= sale[s].lines[v].quantity
<1> DEFINE sold == sale[s].lines[v].quantity
<1>1. s \in Sales /\ ReturnedQuantity(s, v) <= sold /\ ReturnedQuantity(s, v) \in Nat
  BY ReturnedIsNat DEF ReturnedWithinSold, PostedSales
<1>2. sold \in Nat
  <2>1. IsSaleRow(sale[s])
    BY TypeParts DEF Linked, SalesOK, PostedSales, NoSale
  <2> QED BY <2>1, SaleRowFacts
<1> HIDE DEF sold
<1>3. ASSUME NEW r \in Returns, NEW method \in Methods, NEW k \in ReturnKeys,
             CreateReturnPosting(r, method, k)
      PROVE  ReturnedQuantity(s, v)' <= sold
  <2>1. ReturnedQuantity(s, v)' =
            ReturnedQuantity(s, v) + (IF s = return[r].sale THEN Part(r, v) ELSE 0)
    BY <1>3, ReturnPosts
  <2>2. return[r].status # "ABSENT"
    BY <1>3 DEF CreateReturnPosting
  <2>3. Part(r, v) \in Nat
    BY <2>2, PartIsNat
  <2>4. s = return[r].sale /\ v \in DOMAIN return[r].lines =>
            return[r].lines[v] <= sold - ReturnedQuantity(s, v)
    BY <1>3 DEF CreateReturnPosting, Returnable, Returned, sold
  <2>5. s = return[r].sale => Part(r, v) <= sold - ReturnedQuantity(s, v)
    BY <1>1, <1>2, <2>4 DEF Part
  <2> QED BY <1>1, <1>2, <2>1, <2>3, <2>5
<1>4. ASSUME NEW r \in Returns, NEW k \in ReturnKeys, CreateReversal(r, k)
      PROVE  ReturnedQuantity(s, v)' <= sold
  <2>1. /\ ReturnedQuantity(s, v) =
               ReturnedQuantity(s, v)' + (IF s = return[r].sale THEN Part(r, v) ELSE 0)
        /\ ReturnedQuantity(s, v)' \in Nat
    BY <1>4, ReturnReverses
  <2>2. return[r].status # "ABSENT"
    BY <1>4 DEF CreateReversal
  <2>3. Part(r, v) \in Nat
    BY <2>2, PartIsNat
  <2> QED BY <1>1, <1>2, <2>1, <2>3
<1>5. ASSUME \A r \in Returns : SameReturn(r)
      PROVE  ReturnedQuantity(s, v)' <= sold
  <2>1. ReturnedQuantity(s, v)' = ReturnedQuantity(s, v)
    BY <1>5, ReturnsStay
  <2> QED BY <1>1, <2>1
<1>6. ReturnedQuantity(s, v)' <= sold
  BY <1>3, <1>4, <1>5, ReturnMoves
<1> QED BY <1>6 DEF sold

LEMMA WithinStep ==
    ASSUME Linked, ReturnedWithinSold, [Next]_vars
    PROVE  ReturnedWithinSold'
<1>0. ShelfOK /\ SalesOK /\ ReturnsOK /\ ReturnsLinked
  BY TypeParts DEF Linked
<1>1. ASSUME NEW s \in Sales, sale'[s].status = "POSTED", NEW v \in DOMAIN sale'[s].lines
      PROVE  ReturnedQuantity(s, v)' <= sale'[s].lines[v].quantity
  <2>1. CASE sale[s].status = "POSTED"
    <3>1. sale'[s] = sale[s]
      BY <1>0, <2>1, SaleSteps
    <3> QED BY <1>1, <2>1, <3>1, ReturnedStep DEF PostedSales
  <2>2. CASE sale[s].status # "POSTED"
    <3>1. PICK method \in Methods, k \in SaleKeys : CreatePosting(s, method, k)
      BY <1>0, <1>1, <2>2, SaleSteps
    <3>2. \A r \in Returns : SameReturn(r)
      BY <3>1 DEF CreatePosting, outside, SameReturn
    <3>3. ReturnedQuantity(s, v)' = 0
      BY <2>2, <3>2, NoReturnsYet, ReturnsStay
    <3>4. IsSaleRow(sale'[s])
      BY <1>0, <1>1, SaleSteps DEF SalesOK, NoSale
    <3>5. sale'[s].lines[v].quantity \in Nat
      BY <1>1, <3>4, SaleRowFacts
    <3> QED BY <3>3, <3>5
  <2> QED BY <2>1, <2>2
<1> QED BY <1>1 DEF ReturnedWithinSold, PostedSales

\* After a full reversal nothing of the sale is left to take back.
LEMMA NothingLeft ==
    ASSUME Linked, NEW s \in Sales, NEW r \in PostedReturns(s),
           return[r].purpose = "SALE_REVERSAL", NEW purpose, NEW lines \in Chosen,
           DOMAIN lines \subseteq DOMAIN sale[s].lines, Returnable(s, purpose, lines)
    PROVE  FALSE
<1>1. PICK v \in DOMAIN lines : TRUE
  BY ChosenFacts
<1>2. r \in Returns /\ return[r].status = "POSTED" /\ return[r].sale = s
  BY DEF PostedReturns
<1>3. return[r].lines = [w \in DOMAIN sale[s].lines |-> sale[s].lines[w].quantity]
  BY <1>2 DEF Linked, ReturnsLinked
<1>4. sale[s].lines[v].quantity <= ReturnedQuantity(s, v)
  BY <1>1, <1>3, ReturnedAtLeast
<1>5. lines[v] <= sale[s].lines[v].quantity - ReturnedQuantity(s, v)
  BY <1>1 DEF Returnable, Returned
<1>6. IsSaleRow(sale[s]) /\ v \in DOMAIN sale[s].lines
  BY <1>1, <1>2, ReturnFacts, TypeParts DEF Linked
<1>7. sale[s].lines[v].quantity \in Nat /\ ReturnedQuantity(s, v) \in Nat
  BY <1>6, SaleRowFacts, ReturnedIsNat
<1>8. lines[v] \in Nat \ {0}
  BY <1>1, ChosenFacts DEF Quantities
<1> QED BY <1>4, <1>5, <1>7, <1>8

LEMMA AloneStep ==
    ASSUME Linked, FullReversalAlone, [Next]_vars
    PROVE  FullReversalAlone'
<1>0. SalesOK /\ ReturnsOK /\ ReturnsLinked
  BY TypeParts DEF Linked
<1> SUFFICES ASSUME NEW s \in Sales, NEW x \in PostedReturns(s)',
                    return'[x].purpose = "SALE_REVERSAL"
             PROVE  PostedReturns(s)' = {x}
  BY DEF FullReversalAlone
<1>1. ASSUME NEW r \in Returns, NEW method \in Methods, NEW k \in ReturnKeys,
             CreateReturnPosting(r, method, k)
      PROVE  PostedReturns(s)' = {x}
  <2>1. /\ PostedReturns(s)' = PostedReturns(s) \cup (IF s = return[r].sale THEN {r} ELSE {})
        /\ r \notin PostedReturns(s) /\ return'[r].purpose = return[r].purpose
        /\ \A t \in Returns : t # r => return'[t] = return[t]
    BY <1>1, ReturnPosts
  <2>2. /\ Returnable(return[r].sale, return[r].purpose, return[r].lines)
        /\ return[r].status # "ABSENT"
    BY <1>1 DEF CreateReturnPosting
  <2>3. /\ return[r].lines \in Chosen
        /\ DOMAIN return[r].lines \subseteq DOMAIN sale[return[r].sale].lines
    <3>1. return[r] \in {NoReturn} \cup ReturnRow
      BY <1>0 DEF ReturnsOK
    <3> QED BY <1>0, <2>2, <3>1, ReturnFacts, ReturnRowFacts
  <2>4. CASE x \in PostedReturns(s)
    <3>1. x \in Returns /\ return[x].purpose = "SALE_REVERSAL"
      BY <2>1, <2>4 DEF PostedReturns
    <3>2. s # return[r].sale
      BY <2>2, <2>3, <2>4, <3>1, NothingLeft
    <3> QED BY <2>1, <2>4, <3>1, <3>2 DEF FullReversalAlone
  <2>5. CASE x \notin PostedReturns(s)
    <3>1. x = r /\ s = return[r].sale
      BY <2>1, <2>5
    <3>2. PostedReturns(s) = {}
      BY <2>1, <2>2, <3>1 DEF Returnable
    <3> QED BY <2>1, <3>1, <3>2
  <2> QED BY <2>4, <2>5
<1>2. ASSUME NEW r \in Returns, NEW k \in ReturnKeys, CreateReversal(r, k)
      PROVE  PostedReturns(s)' = {x}
  <2>1. /\ PostedReturns(s)' = PostedReturns(s) \ {r}
        /\ \A t \in Returns : t # r => return'[t] = return[t]
    BY <1>2, ReturnReverses
  <2>2. x \in PostedReturns(s) /\ x # r /\ return[x].purpose = "SALE_REVERSAL"
    BY <2>1 DEF PostedReturns
  <2> QED BY <2>1, <2>2 DEF FullReversalAlone
<1>3. ASSUME \A r \in Returns : SameReturn(r)
      PROVE  PostedReturns(s)' = {x}
  <2>1. PostedReturns(s)' = PostedReturns(s)
    BY <1>3, ReturnsStay
  <2>2. return[x].purpose = "SALE_REVERSAL"
    BY <1>3, <2>1 DEF SameReturn, PostedReturns
  <2> QED BY <2>1, <2>2 DEF FullReversalAlone
<1> QED BY <1>1, <1>2, <1>3, ReturnMoves

\* However drafts of returns are prepared, posted and reversed, no line is taken back
\* more often than it was sold, and a full reversal shares its sale with no other return
\* (_validate_return_quantities, under the lock of the sale).
THEOREM ReturnsStayWithinSale == Spec => []ReturnsWithinSale
<1>1. Linked /\ ReturnsWithinSale /\ [Next]_vars => ReturnsWithinSale'
  BY WithinStep, AloneStep DEF ReturnsWithinSale
<1> QED BY WithinInit, <1>1, LinkedInvariant, PTL DEF Spec
-----------------------------------------------------------------------------
(* The shelf and the documents.                                            *)

Sold(v) == SumFunction([s \in SalesOf(v) |-> sale[s].lines[v].quantity])
Back(v) == SumFunction([s \in PostedSales |-> ReturnedQuantity(s, v)])

LEMMA DocumentSums ==
    ASSUME Linked, NEW v
    PROVE  /\ IsFiniteSet(PostedSales) /\ IsFiniteSet(SalesOf(v))
           /\ \A s \in SalesOf(v) : sale[s].lines[v].quantity \in Nat
           /\ Sold(v) \in Nat /\ Back(v) \in Nat
<1>1. IsFiniteSet(PostedSales) /\ IsFiniteSet(SalesOf(v))
  BY FS_Subset, FiniteAssumption DEF PostedSales, SalesOf
<1>2. ASSUME NEW s \in SalesOf(v) PROVE sale[s].lines[v].quantity \in Nat
  <2>1. s \in Sales /\ sale[s].status = "POSTED" /\ v \in DOMAIN sale[s].lines
    BY DEF SalesOf, PostedSales
  <2>2. IsSaleRow(sale[s])
    BY <2>1, TypeParts DEF Linked, SalesOK, NoSale
  <2> QED BY <2>1, <2>2, SaleRowFacts
<1> DEFINE f == [s \in SalesOf(v) |-> sale[s].lines[v].quantity]
           g == [s \in PostedSales |-> ReturnedQuantity(s, v)]
<1>3. IsFiniteSet(DOMAIN f) /\ \A s \in DOMAIN f : f[s] \in Nat
  BY <1>1, <1>2
<1>4. IsFiniteSet(DOMAIN g) /\ \A s \in DOMAIN g : g[s] \in Nat
  BY <1>1, ReturnedIsNat
<1>5. Sold(v) = SumFunction(f) /\ Back(v) = SumFunction(g)
  BY DEF Sold, Back
<1> HIDE DEF f, g
<1> QED BY <1>1, <1>2, <1>3, <1>4, <1>5, SumFunctionNat

\* The sums over the sales stay when no sale is posted.
LEMMA SoldStays ==
    ASSUME Linked, [Next]_vars, NEW v,
           \A s \in Sales : sale'[s].status = "POSTED" <=> sale[s].status = "POSTED"
    PROVE  PostedSales' = PostedSales /\ Sold(v)' = Sold(v)
<1>1. PostedSales' = PostedSales
  BY DEF PostedSales
<1>2. \A s \in PostedSales : sale'[s] = sale[s]
  BY SaleSteps, TypeParts DEF Linked, PostedSales
<1>3. SalesOf(v)' = SalesOf(v)
  BY <1>1, <1>2 DEF SalesOf
<1> DEFINE f == [s \in SalesOf(v) |-> sale[s].lines[v].quantity]
           g == [s \in SalesOf(v)' |-> sale'[s].lines[v].quantity]
<1>4. f = g
  BY <1>2, <1>3 DEF SalesOf
<1> QED BY <1>1, <1>4 DEF Sold

LEMMA BackStays ==
    ASSUME Linked, PostedSales' = PostedSales, \A r \in Returns : SameReturn(r), NEW v
    PROVE  Back(v)' = Back(v)
<1>1. \A s \in PostedSales : ReturnedQuantity(s, v)' = ReturnedQuantity(s, v)
  BY ReturnsStay
<1> DEFINE f == [s \in PostedSales |-> ReturnedQuantity(s, v)]
           g == [s \in PostedSales' |-> ReturnedQuantity(s, v)']
<1>2. f = g
  BY <1>1
<1> QED BY <1>2 DEF Back

\* One sale of which more, or less, was taken back.
LEMMA BackChanges ==
    ASSUME Linked, PostedSales' = PostedSales, NEW s0 \in PostedSales, NEW v, NEW n \in Int,
           \A s \in PostedSales : ReturnedQuantity(s, v)' =
                                      ReturnedQuantity(s, v) + (IF s = s0 THEN n ELSE 0)
    PROVE  Back(v)' = Back(v) + n
<1> DEFINE f == [s \in PostedSales |-> ReturnedQuantity(s, v)]
           g == [s \in PostedSales' |-> ReturnedQuantity(s, v)']
<1>1. \A s \in PostedSales : ReturnedQuantity(s, v) \in Nat
  BY ReturnedIsNat
<1>2. IntegerSum(f)
  <2>1. IsFiniteSet(PostedSales)
    BY DocumentSums
  <2> QED BY <1>1, <2>1 DEF IntegerSum
<1>3. /\ DOMAIN f = PostedSales /\ DOMAIN g = DOMAIN f /\ s0 \in DOMAIN f /\ f[s0] \in Int
      /\ g[s0] = f[s0] + n
  BY <1>1
<1>4. \A s \in DOMAIN f : s # s0 => g[s] = f[s]
  BY <1>1
<1>5. Back(v) = SumFunction(f) /\ Back(v)' = SumFunction(g)
  BY DEF Back
<1> HIDE DEF f, g
<1>6. SumFunction(g) = SumFunction(f) - f[s0] + g[s0]
  BY <1>2, <1>3, <1>4, SumFunctionChange
<1>7. SumFunction(f) \in Int
  BY <1>2, SumFunctionType
<1> QED BY <1>3, <1>5, <1>6, <1>7

\* A sale that is posted: nothing of it has been taken back.
LEMMA SoldGrows ==
    ASSUME Linked, [Next]_vars, NEW s \in Sales, NEW method \in Methods, NEW k \in SaleKeys,
           CreatePosting(s, method, k), NEW v \in Variants
    PROVE  /\ Sold(v)' = Sold(v) + (IF v \in DOMAIN sale[s].lines
                                    THEN sale[s].lines[v].quantity ELSE 0)
           /\ Back(v)' = Back(v)
<1>0. ShelfOK /\ SalesOK /\ ReturnsOK /\ ReturnsLinked
  BY TypeParts DEF Linked
<1>1. /\ sale[s].status = "DRAFT" /\ sale'[s].status = "POSTED"
      /\ DOMAIN sale'[s].lines = DOMAIN sale[s].lines
      /\ \A t \in Sales : t # s => sale'[t] = sale[t]
  BY <1>0 DEF CreatePosting, SalesOK
<1>2. PostedSales' = PostedSales \cup {s} /\ s \notin PostedSales
  BY <1>1 DEF PostedSales
<1>3. IsSaleRow(sale[s])
  BY <1>0, <1>1 DEF SalesOK, NoSale
<1>4. ASSUME v \in DOMAIN sale[s].lines
      PROVE  /\ sale'[s].lines[v].quantity = sale[s].lines[v].quantity
             /\ sale[s].lines[v].quantity \in Nat
  <2>1. sale[s].lines[v] \in LineRow
    BY <1>3, <1>4 DEF IsSaleRow
  <2>2. sale'[s].lines[v] = [sale[s].lines[v] EXCEPT !.cost = stock[v].average]
    BY <1>0, <1>4 DEF CreatePosting, SalesOK
  <2> QED BY <1>3, <1>4, <2>1, <2>2, SaleRowFacts DEF LineRow
<1>5. Sold(v)' = Sold(v) + (IF v \in DOMAIN sale[s].lines
                            THEN sale[s].lines[v].quantity ELSE 0)
  <2> DEFINE f == [t \in SalesOf(v) |-> sale[t].lines[v].quantity]
             g == [t \in SalesOf(v)' |-> sale'[t].lines[v].quantity]
  <2>1. Sold(v) = SumFunction(f) /\ Sold(v)' = SumFunction(g) /\ Sold(v) \in Nat
    BY DocumentSums DEF Sold
  <2>2. \A t \in SalesOf(v) : t # s /\ sale'[t] = sale[t]
    BY <1>1, <1>2 DEF SalesOf, PostedSales
  <2>3. CASE v \in DOMAIN sale[s].lines
    <3>1. SalesOf(v)' = SalesOf(v) \cup {s}
      BY <1>1, <1>2, <2>3 DEF SalesOf, PostedSales
    <3>2. IntegerSum(f)
      BY DocumentSums DEF IntegerSum
    <3>3. DOMAIN g = DOMAIN f \cup {s} /\ s \notin DOMAIN f
      BY <2>2, <3>1
    <3>4. g[s] = sale[s].lines[v].quantity /\ g[s] \in Int
      BY <1>4, <2>3, <3>1
    <3>5. \A t \in DOMAIN f : g[t] = f[t]
      BY <2>2, <3>1
    <3> HIDE DEF f, g
    <3>6. SumFunction(g) = SumFunction(f) + g[s]
      BY <3>2, <3>3, <3>4, <3>5, SumFunctionAdd
    <3> QED BY <2>1, <2>3, <3>4, <3>6
  <2>4. CASE v \notin DOMAIN sale[s].lines
    <3>1. SalesOf(v)' = SalesOf(v)
      BY <1>1, <1>2, <2>4 DEF SalesOf, PostedSales
    <3>2. f = g
      BY <2>2, <3>1
    <3> HIDE DEF f, g
    <3> QED BY <2>1, <2>4, <3>2
  <2> QED BY <2>3, <2>4
<1>6. \A r \in Returns : SameReturn(r)
  BY DEF CreatePosting, SameReturn
<1>7. Back(v)' = Back(v)
  <2> DEFINE f == [t \in PostedSales |-> ReturnedQuantity(t, v)]
             g == [t \in PostedSales' |-> ReturnedQuantity(t, v)']
  <2>1. Back(v) = SumFunction(f) /\ Back(v)' = SumFunction(g) /\ Back(v) \in Nat
    BY DocumentSums DEF Back
  <2>2. \A t : ReturnedQuantity(t, v)' = ReturnedQuantity(t, v)
    BY <1>6, ReturnsStay
  <2>3. ReturnedQuantity(s, v) = 0
    BY <1>1, NoReturnsYet
  <2>4. IntegerSum(f)
    BY DocumentSums, ReturnedIsNat DEF IntegerSum
  <2>5. DOMAIN g = DOMAIN f \cup {s} /\ s \notin DOMAIN f
    BY <1>2
  <2>6. g[s] = 0
    BY <1>2, <2>2, <2>3
  <2>7. \A t \in DOMAIN f : g[t] = f[t]
    BY <1>2, <2>2
  <2> HIDE DEF f, g
  <2>8. SumFunction(g) = SumFunction(f) + g[s]
    BY <2>4, <2>5, <2>6, <2>7, SumFunctionAdd
  <2> QED BY <2>1, <2>6, <2>8
<1> QED BY <1>5, <1>7

ShelfMatches(v) == stock[v].quantity = received[v] - Sold(v) + Back(v)

LEMMA ShelfIs ==
    StockMatchesDocuments <=> \A v \in Variants : ShelfMatches(v)
BY DEF StockMatchesDocuments, ShelfMatches, Sold, Back

LEMMA ShelfIsPrimed ==
    ASSUME \A v \in Variants : ShelfMatches(v)'
    PROVE  StockMatchesDocuments'
BY DEF StockMatchesDocuments, ShelfMatches, Sold, Back

LEMMA ShelfMatchesStep ==
    ASSUME Linked, [Next]_vars, NEW v \in Variants, ShelfMatches(v)
    PROVE  ShelfMatches(v)'
<1>0. ShelfOK /\ SalesOK /\ ReturnsOK /\ ReturnsLinked
  BY TypeParts DEF Linked
<1>1. /\ stock[v].quantity \in Nat /\ received[v] \in Nat /\ Sold(v) \in Nat /\ Back(v) \in Nat
      /\ stock[v].quantity = received[v] - Sold(v) + Back(v)
  BY <1>0, DocumentSums DEF ShelfOK, Balance, ShelfMatches
<1>2. ASSUME NEW s \in Sales, NEW method \in Methods, NEW k \in SaleKeys,
             CreatePosting(s, method, k)
      PROVE  ShelfMatches(v)'
  <2> DEFINE n == IF v \in DOMAIN sale[s].lines THEN sale[s].lines[v].quantity ELSE 0
  <2>1. /\ stock'[v].quantity = stock[v].quantity - n
        /\ Sold(v)' = Sold(v) + n /\ Back(v)' = Back(v)
    BY <1>0, <1>2, PostingTakes, SoldGrows
  <2>2. received'[v] = received[v]
    BY <1>2 DEF CreatePosting, outside
  <2>3. n \in Nat
    <3>1. IsSaleRow(sale[s])
      BY <1>0, <1>2 DEF CreatePosting, SalesOK, NoSale
    <3> QED BY <3>1, SaleRowFacts
  <2> HIDE DEF n
  <2>4. stock'[v].quantity = received'[v] - Sold(v)' + Back(v)'
    BY <1>1, <2>1, <2>2, <2>3
  <2> QED BY <2>4 DEF ShelfMatches
<1>3. ASSUME UNCHANGED sale
      PROVE  PostedSales' = PostedSales /\ Sold(v)' = Sold(v)
  BY <1>3, SoldStays
<1>4. ASSUME NEW r \in Returns, NEW method \in Methods, NEW k \in ReturnKeys,
             CreateReturnPosting(r, method, k)
      PROVE  ShelfMatches(v)'
  <2> DEFINE s0 == return[r].sale
  <2>1. stock'[v].quantity = stock[v].quantity + Part(r, v)
    BY <1>0, <1>4, ReturnBrings DEF Part
  <2>2. UNCHANGED <<sale, received>> /\ return[r].status # "ABSENT"
    BY <1>4 DEF CreateReturnPosting, outside
  <2>3. PostedSales' = PostedSales /\ Sold(v)' = Sold(v)
    BY <1>3, <2>2
  <2>4. s0 \in PostedSales /\ Part(r, v) \in Nat
    BY <1>0, <2>2, ReturnFacts, PartIsNat DEF PostedSales
  <2>5. \A s \in PostedSales : ReturnedQuantity(s, v)' =
            ReturnedQuantity(s, v) + (IF s = s0 THEN Part(r, v) ELSE 0)
    BY <1>4, ReturnPosts
  <2> HIDE DEF s0
  <2>6. Back(v)' = Back(v) + Part(r, v)
    BY <2>3, <2>4, <2>5, BackChanges
  <2>7. stock'[v].quantity = received'[v] - Sold(v)' + Back(v)'
    BY <1>1, <2>1, <2>2, <2>3, <2>4, <2>6
  <2> QED BY <2>7 DEF ShelfMatches
<1>5. ASSUME NEW r \in Returns, NEW k \in ReturnKeys, CreateReversal(r, k)
      PROVE  ShelfMatches(v)'
  <2> DEFINE s0 == return[r].sale
  <2>1. stock'[v].quantity = stock[v].quantity - Part(r, v)
    BY <1>0, <1>5, ReversalTakes DEF Part
  <2>2. UNCHANGED <<sale, received>> /\ return[r].status # "ABSENT"
    BY <1>5 DEF CreateReversal, outside
  <2>3. PostedSales' = PostedSales /\ Sold(v)' = Sold(v)
    BY <1>3, <2>2
  <2>4. s0 \in PostedSales /\ Part(r, v) \in Nat
    BY <1>0, <2>2, ReturnFacts, PartIsNat DEF PostedSales
  <2>5. ASSUME NEW s \in PostedSales
        PROVE  ReturnedQuantity(s, v)' =
                   ReturnedQuantity(s, v) + (IF s = s0 THEN -Part(r, v) ELSE 0)
    <3>1. /\ ReturnedQuantity(s, v) =
                 ReturnedQuantity(s, v)' + (IF s = s0 THEN Part(r, v) ELSE 0)
          /\ ReturnedQuantity(s, v)' \in Nat
      BY <1>5, ReturnReverses
    <3> HIDE DEF s0
    <3> QED BY <2>4, <3>1
  <2> HIDE DEF s0
  <2>6. -Part(r, v) \in Int
    BY <2>4
  <2>7. Back(v)' = Back(v) + (-Part(r, v))
    BY <2>3, <2>4, <2>5, <2>6, BackChanges
  <2>8. stock'[v].quantity = received'[v] - Sold(v)' + Back(v)'
    BY <1>1, <2>1, <2>2, <2>3, <2>4, <2>7
  <2> QED BY <2>8 DEF ShelfMatches
<1>6. ASSUME NEW w \in Variants, NEW goods \in Restocked, ReceiveStock(w, goods)
      PROVE  ShelfMatches(v)'
  <2>1. UNCHANGED <<sale, return>>
    BY <1>6 DEF ReceiveStock, documents
  <2>2. PostedSales' = PostedSales /\ Sold(v)' = Sold(v)
    BY <1>3, <2>1
  <2>3. Back(v)' = Back(v)
    BY <2>1, <2>2, BackStays DEF SameReturn
  <2>4. /\ goods.quantity \in Nat
        /\ \/ stock'[v] = stock[v] /\ received'[v] = received[v]
           \/ /\ stock'[v].quantity = stock[v].quantity + goods.quantity
              /\ received'[v] = received[v] + goods.quantity
    BY <1>0, <1>6, ReceiptBrings
  <2>5. stock'[v].quantity = received'[v] - Sold(v)' + Back(v)'
    BY <1>1, <2>2, <2>3, <2>4
  <2> QED BY <2>5 DEF ShelfMatches
<1>7. ASSUME UNCHANGED <<stock, received>>, \A r \in Returns : SameReturn(r),
             \A s \in Sales : sale'[s].status = "POSTED" <=> sale[s].status = "POSTED"
      PROVE  ShelfMatches(v)'
  <2>1. PostedSales' = PostedSales /\ Sold(v)' = Sold(v)
    BY <1>7, SoldStays
  <2>2. Back(v)' = Back(v)
    BY <1>7, <2>1, BackStays
  <2> QED BY <1>1, <1>7, <2>1, <2>2 DEF ShelfMatches
<1>8. CASE /\ ~(\E s \in Sales, method \in Methods, k \in SaleKeys : CreatePosting(s, method, k))
           /\ ~(\E r \in Returns, method \in Methods, k \in ReturnKeys :
                    CreateReturnPosting(r, method, k))
           /\ ~(\E r \in Returns, k \in ReturnKeys : CreateReversal(r, k))
           /\ ~(\E w \in Variants, goods \in Restocked : ReceiveStock(w, goods))
  <2>1. \A r \in Returns : SameReturn(r)
    BY <1>8, ReturnMoves
  <2>2. \A s \in Sales : sale'[s].status = "POSTED" <=> sale[s].status = "POSTED"
    BY <1>0, <1>8, SaleSteps
  <2>3. UNCHANGED <<stock, received>>
    BY <1>8, StepCases DEF SaveSaleDraft, CancelSale, ReplaySale, SaveReturnDraft,
       CancelSaleReturn, ReplayReturn, ReplayReversal, ChangeVariant, Freeze, OpenDrawer,
       CloseDrawer, outside, vars
  <2> QED BY <1>7, <2>1, <2>2, <2>3
<1> QED BY <1>2, <1>4, <1>5, <1>6, <1>8

LEMMA ShelfMatchesInit == Init => StockMatchesDocuments
<1> SUFFICES ASSUME Init, NEW v \in Variants PROVE ShelfMatches(v)
  BY ShelfIs
<1>1. PostedSales = {} /\ SalesOf(v) = {}
  BY DEF Init, PostedSales, SalesOf, NoSale
<1> DEFINE f == [s \in SalesOf(v) |-> sale[s].lines[v].quantity]
           g == [s \in PostedSales |-> ReturnedQuantity(s, v)]
<1>2. DOMAIN f = {} /\ DOMAIN g = {} /\ Sold(v) = SumFunction(f) /\ Back(v) = SumFunction(g)
  BY <1>1 DEF Sold, Back
<1> HIDE DEF f, g
<1>3. Sold(v) = 0 /\ Back(v) = 0
  BY <1>2, SumFunctionOfNothing
<1>4. stock[v].quantity = 0 /\ received[v] = 0
  BY DEF Init, Nothing
<1> QED BY <1>3, <1>4 DEF ShelfMatches

\* The quantity on the shelf is what was received, less what the posted sales took, plus
\* what the posted returns brought back and no reversal took again
\* (record_sale_inventory, record_sale_return_inventory and
\* record_sale_return_reversal_inventory move each line of a document once).
THEOREM ShelfAgreesWithDocuments == Spec => []StockMatchesDocuments
<1>1. Linked /\ StockMatchesDocuments /\ [Next]_vars => StockMatchesDocuments'
  BY ShelfIs, ShelfMatchesStep, ShelfIsPrimed
<1> QED BY ShelfMatchesInit, <1>1, LinkedInvariant, PTL DEF Spec
-----------------------------------------------------------------------------
(* Rounding.                                                               *)

LEMMA DivisionBounds ==
    ASSUME NEW a \in Nat, NEW d \in Nat \ {0}
    PROVE  /\ a \div d \in Nat
           /\ d * (a \div d) <= a
           /\ a < d * (a \div d) + d
OBVIOUS

\* A rounded line is off by half a cent at most.
LEMMA LineTotalIsClose ==
    ASSUME NEW q \in Nat, NEW c \in Nat
    PROVE  /\ Quanta * LineTotal(q, c) \in Int /\ q * c \in Int
           /\ 2 * (Quanta * LineTotal(q, c)) <= 2 * (q * c) + Quanta
           /\ 2 * (q * c) <= 2 * (Quanta * LineTotal(q, c)) + Quanta
<1> DEFINE p == LineTotal(q, c)
           a == 2 * (q * c) + Quanta
<1>1. Quanta \in Nat \ {0} /\ q * c \in Nat
  BY QuantaAssumption
<1>2. 2 * q * c + Quanta = a
  BY <1>1
<1>3. a \in Nat /\ 2 * Quanta \in Nat \ {0} /\ p = a \div (2 * Quanta)
  BY <1>1, <1>2 DEF LineTotal, Priced
<1> HIDE DEF p, a
<1>4. p \in Nat /\ (2 * Quanta) * p <= a /\ a < (2 * Quanta) * p + 2 * Quanta
  BY <1>3, DivisionBounds
<1>5. Quanta * p \in Int /\ (2 * Quanta) * p = 2 * (Quanta * p)
  BY <1>1, <1>4
<1> QED BY <1>1, <1>4, <1>5 DEF p, a

\* A sum of rounded lines, and what it would be if no line were rounded.
LEMMA RoundedSums ==
    ASSUME NEW a, IntegerSum(a), NEW b, DOMAIN b = DOMAIN a,
           \A v \in DOMAIN a :
               /\ b[v] \in Int /\ Quanta * a[v] \in Int
               /\ 2 * (Quanta * a[v]) <= 2 * b[v] + Quanta
               /\ 2 * b[v] <= 2 * (Quanta * a[v]) + Quanta
    PROVE  /\ 2 * (Quanta * SumFunction(a)) <= 2 * SumFunction(b) + Quanta * Cardinality(DOMAIN a)
           /\ 2 * SumFunction(b) <= 2 * (Quanta * SumFunction(a)) + Quanta * Cardinality(DOMAIN a)
<1> DEFINE S == DOMAIN a
           k == [v \in S |-> Quanta]
           a1 == [v \in S |-> Quanta * a[v]]
           a2 == [v \in S |-> 2 * a1[v]]
           b2 == [v \in S |-> 2 * b[v]]
           ak == [v \in S |-> a2[v] + k[v]]
           bk == [v \in S |-> b2[v] + k[v]]
<1>1. Quanta \in Int /\ IsFiniteSet(S)
  BY QuantaAssumption DEF IntegerSum
<1>2. SumFunction(k) = Quanta * Cardinality(S)
  BY <1>1, SumFunctionConstant
<1>3. DOMAIN k = S /\ \A v \in S : k[v] \in Int /\ k[v] = Quanta
  BY <1>1
<1>4. DOMAIN a1 = S /\ \A v \in S : a1[v] \in Int /\ a1[v] = Quanta * a[v]
  OBVIOUS
<1>5. SumFunction(a1) = Quanta * SumFunction(a)
  <2> HIDE DEF a1
  <2> QED BY <1>1, <1>4, SumFunctionTimes
<1>6. DOMAIN a2 = S /\ \A v \in S : a2[v] \in Int /\ a2[v] = 2 * a1[v]
  <2> HIDE DEF a1
  <2> QED BY <1>4
<1>7. SumFunction(a2) = 2 * SumFunction(a1)
  <2> HIDE DEF a1, a2
  <2> QED BY <1>1, <1>4, <1>6, SumFunctionTimes DEF IntegerSum
<1>8. DOMAIN b2 = S /\ \A v \in S : b2[v] \in Int /\ b2[v] = 2 * b[v]
  OBVIOUS
<1>9. SumFunction(b2) = 2 * SumFunction(b)
  <2> HIDE DEF b2
  <2> QED BY <1>1, <1>8, SumFunctionTimes DEF IntegerSum
<1> HIDE DEF k, a1, a2, b2
<1>10. IntegerSum(k) /\ IntegerSum(a2) /\ IntegerSum(b2)
  BY <1>1, <1>3, <1>6, <1>8 DEF IntegerSum
<1>11. DOMAIN ak = S /\ \A v \in S : ak[v] \in Int /\ ak[v] = a2[v] + k[v]
  BY <1>3, <1>6
<1>12. DOMAIN bk = S /\ \A v \in S : bk[v] \in Int /\ bk[v] = b2[v] + k[v]
  BY <1>3, <1>8
<1> HIDE DEF ak, bk
<1>13. SumFunction(ak) = SumFunction(a2) + SumFunction(k)
  BY <1>3, <1>6, <1>10, <1>11, SumFunctionPlus
<1>14. SumFunction(bk) = SumFunction(b2) + SumFunction(k)
  BY <1>3, <1>8, <1>10, <1>12, SumFunctionPlus
<1>15. \A v \in S : a2[v] <= bk[v] /\ b2[v] <= ak[v]
  BY <1>3, <1>4, <1>6, <1>8, <1>11, <1>12
<1>16. SumFunction(a2) <= SumFunction(bk)
  BY <1>6, <1>10, <1>12, <1>15, SumFunctionAtMost
<1>17. SumFunction(b2) <= SumFunction(ak)
  BY <1>8, <1>10, <1>11, <1>15, SumFunctionAtMost
<1> QED BY <1>2, <1>5, <1>7, <1>9, <1>13, <1>14, <1>16, <1>17

\* What a line of a sale is worth, and what a return takes of it, before rounding.
Worth(s, v) == sale[s].lines[v].quantity * sale[s].lines[v].price
Taken(s, r, v) == Part(r, v) * sale[s].lines[v].price
SaleWorth(s) == SumFunction([v \in DOMAIN sale[s].lines |-> Worth(s, v)])
ReturnWorth(s, r) == SumFunction([v \in DOMAIN sale[s].lines |-> Taken(s, r, v)])

LEMMA PostedLines ==
    ASSUME Linked, NEW s \in PostedSales
    PROVE  /\ IsFiniteSet(DOMAIN sale[s].lines)
           /\ \A v \in DOMAIN sale[s].lines :
                  sale[s].lines[v].quantity \in Nat /\ sale[s].lines[v].price \in Nat
<1>1. IsSaleRow(sale[s])
  BY TypeParts DEF Linked, SalesOK, PostedSales, NoSale
<1> QED BY <1>1, SaleRowFacts

LEMMA SaleTotalIsClose ==
    ASSUME Linked, NEW s \in PostedSales
    PROVE  /\ SaleTotal(s) \in Int /\ SaleWorth(s) \in Int
           /\ 2 * SaleWorth(s) <= 2 * (Quanta * SaleTotal(s))
                                      + Quanta * Cardinality(DOMAIN sale[s].lines)
<1> DEFINE L == sale[s].lines
           a == [v \in DOMAIN L |-> LineTotal(L[v].quantity, L[v].price)]
           b == [v \in DOMAIN L |-> Worth(s, v)]
<1>1. IsFiniteSet(DOMAIN L) /\ \A v \in DOMAIN L : L[v].quantity \in Nat /\ L[v].price \in Nat
  BY PostedLines
<1>2. SaleTotal(s) = SumFunction(a) /\ SaleWorth(s) = SumFunction(b)
  BY DEF SaleTotal, SaleWorth
<1>3. \A v \in DOMAIN L : b[v] = L[v].quantity * L[v].price
  BY DEF Worth
<1>4. DOMAIN a = DOMAIN L /\ DOMAIN b = DOMAIN L
  OBVIOUS
<1>5. \A v \in DOMAIN L : a[v] = LineTotal(L[v].quantity, L[v].price)
  OBVIOUS
<1> HIDE DEF L, a, b
<1>6. IntegerSum(a)
  BY <1>1, <1>4, <1>5, LineTotalIsNat DEF IntegerSum
<1>7. ASSUME NEW v \in DOMAIN a
      PROVE  /\ b[v] \in Int /\ Quanta * a[v] \in Int
             /\ 2 * (Quanta * a[v]) <= 2 * b[v] + Quanta
             /\ 2 * b[v] <= 2 * (Quanta * a[v]) + Quanta
  <2>1. L[v].quantity \in Nat /\ L[v].price \in Nat
    BY <1>1, <1>4
  <2>2. a[v] = LineTotal(L[v].quantity, L[v].price) /\ b[v] = L[v].quantity * L[v].price
    BY <1>3, <1>4, <1>5
  <2> QED BY <2>1, <2>2, LineTotalIsClose
<1>8. IntegerSum(b)
  BY <1>1, <1>4, <1>7 DEF IntegerSum
<1>9. SumFunction(a) \in Int /\ SumFunction(b) \in Int
  BY <1>6, <1>8, SumFunctionType
<1>10. 2 * SumFunction(b) <= 2 * (Quanta * SumFunction(a)) + Quanta * Cardinality(DOMAIN a)
  BY <1>4, <1>6, <1>7, RoundedSums
<1> QED BY <1>2, <1>4, <1>9, <1>10 DEF L

LEMMA RefundIsClose ==
    ASSUME Linked, NEW s \in PostedSales, NEW r \in PostedReturns(s)
    PROVE  /\ RefundTotal(r) \in Int /\ ReturnWorth(s, r) \in Int
           /\ Cardinality(DOMAIN return[r].lines) \in Nat
           /\ 2 * (Quanta * RefundTotal(r)) <= 2 * ReturnWorth(s, r)
                                      + Quanta * Cardinality(DOMAIN return[r].lines)
<1> DEFINE L == return[r].lines
           D == DOMAIN sale[s].lines
           price(v) == sale[s].lines[v].price
           a == [v \in DOMAIN L |-> LineTotal(L[v], price(v))]
           b == [v \in DOMAIN L |-> L[v] * price(v)]
           c == [v \in D |-> Taken(s, r, v)]
<1>0. r \in Returns /\ return[r].status # "ABSENT" /\ return[r].sale = s
  BY DEF PostedReturns
<1>1. /\ IsFiniteSet(DOMAIN L) /\ DOMAIN L \subseteq D
      /\ \A v \in DOMAIN L : L[v] \in Nat /\ price(v) \in Nat
  BY <1>0, ReturnFacts, TypeParts DEF Linked
<1>2. RefundTotal(r) = SumFunction(a) /\ ReturnWorth(s, r) = SumFunction(c)
  BY <1>0 DEF RefundTotal, ReturnWorth
<1>3. DOMAIN a = DOMAIN L /\ DOMAIN b = DOMAIN L /\ DOMAIN c = D
  OBVIOUS
<1>4. \A v \in DOMAIN L : a[v] = LineTotal(L[v], price(v)) /\ b[v] = L[v] * price(v)
  OBVIOUS
<1>5. IsFiniteSet(D) /\ \A v \in D : price(v) \in Nat
  BY PostedLines
<1>6. \A v \in D : c[v] = Part(r, v) * price(v)
  BY DEF Taken
<1> HIDE DEF a, b, c, D, price
<1>7. \A v \in DOMAIN L : c[v] = b[v]
  BY <1>1, <1>4, <1>6 DEF Part
<1>8. \A v \in D \ DOMAIN L : c[v] = 0
  BY <1>5, <1>6 DEF Part
<1> HIDE DEF L
<1>9. IntegerSum(a)
  BY <1>1, <1>3, <1>4, LineTotalIsNat DEF IntegerSum
<1>10. \A v \in DOMAIN a :
          /\ b[v] \in Int /\ Quanta * a[v] \in Int
          /\ 2 * (Quanta * a[v]) <= 2 * b[v] + Quanta
          /\ 2 * b[v] <= 2 * (Quanta * a[v]) + Quanta
  BY <1>1, <1>3, <1>4, LineTotalIsClose
<1>11. IntegerSum(b)
  BY <1>1, <1>3, <1>10 DEF IntegerSum
<1>12. IntegerSum(c)
  <2>1. \A v \in D : c[v] \in Int
    BY <1>3, <1>7, <1>8, <1>10
  <2> QED BY <1>3, <1>5, <2>1 DEF IntegerSum
<1>13. SumFunction(c) = SumFunction(b)
  BY <1>1, <1>3, <1>7, <1>8, <1>11, <1>12, SumFunctionExtend
<1>14. SumFunction(a) \in Int /\ SumFunction(b) \in Int
  BY <1>9, <1>11, SumFunctionType
<1>15. 2 * (Quanta * SumFunction(a)) <= 2 * SumFunction(b) + Quanta * Cardinality(DOMAIN a)
  BY <1>3, <1>9, <1>10, RoundedSums
<1>16. Cardinality(DOMAIN L) \in Nat
  BY <1>1, FS_CardinalityType
<1> QED BY <1>2, <1>3, <1>13, <1>14, <1>15, <1>16 DEF L

\* What the returns of a sale take of it, before rounding, is within what it was worth.
LEMMA WorthWithinSale ==
    ASSUME Linked, ReturnedWithinSold, NEW s \in PostedSales
    PROVE  SumFunction([r \in PostedReturns(s) |-> ReturnWorth(s, r)]) <= SaleWorth(s)
<1> DEFINE D == DOMAIN sale[s].lines
           R == PostedReturns(s)
           price(v) == sale[s].lines[v].price
           m == [r \in R |-> [v \in D |-> Taken(s, r, v)]]
           column(v) == [r \in R |-> m[r][v]]
           part(v) == [r \in R |-> Part(r, v)]
<1>1. IsFiniteSet(D) /\ IsFiniteSet(R)
  BY PostedLines, FS_Subset, FiniteAssumption DEF PostedReturns
<1>2. \A v \in D : price(v) \in Nat /\ sale[s].lines[v].quantity \in Nat
  BY PostedLines
<1>3. \A r \in R : r \in Returns /\ return[r].status # "ABSENT"
  BY DEF PostedReturns
<1>4. ASSUME NEW r \in R, NEW v \in D
      PROVE  Part(r, v) \in Nat /\ m[r][v] = price(v) * Part(r, v) /\ m[r][v] \in Int
  <2>1. Part(r, v) \in Nat
    BY <1>3, PartIsNat
  <2>2. m[r][v] = Taken(s, r, v)
    OBVIOUS
  <2>3. Taken(s, r, v) = Part(r, v) * price(v)
    BY DEF Taken
  <2>4. Part(r, v) * price(v) = price(v) * Part(r, v) /\ price(v) * Part(r, v) \in Int
    BY <1>2, <2>1
  <2> HIDE DEF m, price, D
  <2> QED BY <2>1, <2>2, <2>3, <2>4
<1>5. ASSUME NEW v \in D
      PROVE  SumFunction(part(v)) = ReturnedQuantity(s, v) /\ ReturnedQuantity(s, v) \in Nat
  <2> DEFINE f == [r \in ReturnsOf(s, v) |-> return[r].lines[v]]
             g == part(v)
  <2>1. ReturnedQuantity(s, v) = SumFunction(f)
    BY DEF ReturnedQuantity
  <2>2. IntegerSum(f)
    BY ReturnedTerms DEF IntegerSum
  <2>3. IntegerSum(g)
    <3> HIDE DEF m, R, D, price
    <3>1. ASSUME NEW r \in R PROVE Part(r, v) \in Int
      <4>1. Part(r, v) \in Nat
        BY <1>4
      <4> QED BY <4>1
    <3> QED BY <1>1, <3>1 DEF IntegerSum
  <2>4. DOMAIN f \subseteq DOMAIN g
    BY DEF ReturnsOf
  <2>5. \A r \in DOMAIN f : g[r] = f[r]
    BY DEF ReturnsOf, Part
  <2>6. \A r \in DOMAIN g \ DOMAIN f : g[r] = 0
    BY DEF ReturnsOf, Part
  <2> HIDE DEF f, g
  <2>7. SumFunction(g) = SumFunction(f)
    BY <2>2, <2>3, <2>4, <2>5, <2>6, SumFunctionExtend
  <2> QED BY <2>1, <2>7, ReturnedIsNat DEF g
<1>6. ASSUME NEW v \in D
      PROVE  SumFunction(column(v)) \in Int /\ SumFunction(column(v)) <= Worth(s, v)
             /\ Worth(s, v) \in Int
  <2> DEFINE f == part(v)
             g == column(v)
  <2>1. DOMAIN f = R /\ DOMAIN g = R
    OBVIOUS
  <2>2. \A r \in R : f[r] \in Int /\ g[r] = price(v) * f[r]
    <3>1. \A r \in R : f[r] = Part(r, v) /\ g[r] = m[r][v]
      OBVIOUS
    <3> HIDE DEF f, g, m
    <3> QED BY <1>4, <3>1
  <2>3. SumFunction(f) = ReturnedQuantity(s, v) /\ ReturnedQuantity(s, v) \in Nat
    BY <1>5
  <2>4. ReturnedQuantity(s, v) <= sale[s].lines[v].quantity
    BY DEF ReturnedWithinSold
  <2>5. price(v) \in Nat /\ sale[s].lines[v].quantity \in Nat
    BY <1>2
  <2>6. Worth(s, v) = price(v) * sale[s].lines[v].quantity /\ Worth(s, v) \in Int
    BY <2>5 DEF Worth
  <2> HIDE DEF f, g, price, R
  <2>7. SumFunction(g) = price(v) * SumFunction(f)
    BY <1>1, <2>1, <2>2, <2>5, SumFunctionTimes DEF IntegerSum
  <2>8. ASSUME NEW p \in Nat, NEW x \in Nat, NEW y \in Nat, x <= y
        PROVE  p * x \in Int /\ p * x <= p * y
    BY <2>8
  <2>9. price(v) * ReturnedQuantity(s, v) \in Int
        /\ price(v) * ReturnedQuantity(s, v) <= price(v) * sale[s].lines[v].quantity
    BY <2>3, <2>4, <2>5, <2>8
  <2> QED BY <2>3, <2>6, <2>7, <2>9 DEF g
<1> DEFINE f == [r \in R |-> ReturnWorth(s, r)]
           g == [v \in D |-> SumFunction(column(v))]
           w == [v \in D |-> Worth(s, v)]
           k == [v \in D |-> column(v)]
<1>7. SumFunction(f) = SumFunction(g)
  <2>1. \A r \in R : f[r] = SumFunction(m[r])
    <3>1. ASSUME NEW r \in R PROVE m[r] = [v \in D |-> Taken(s, r, v)]
      OBVIOUS
    <3> HIDE DEF m
    <3> QED BY <3>1 DEF ReturnWorth
  <2>2. \A r \in R : DOMAIN m[r] = D
    OBVIOUS
  <2>3. \A r \in R : \A v \in D : m[r][v] \in Int
    BY <1>4
  <2> HIDE DEF m, D, R
  <2>4. \A v \in D : DOMAIN k[v] = R /\ \A r \in R : k[v][r] = m[r][v]
    OBVIOUS
  <2>5. \A v \in D : g[v] = SumFunction(k[v])
    OBVIOUS
  <2>6. DOMAIN f = R /\ DOMAIN g = D
    OBVIOUS
  <2> HIDE DEF f, g, k
  <2> QED BY <1>1, <2>1, <2>2, <2>3, <2>4, <2>5, <2>6, SumFunctionTable
<1>8. SumFunction(g) <= SumFunction(w)
  <2> HIDE DEF column
  <2>1. IntegerSum(g)
    BY <1>1, <1>6 DEF IntegerSum
  <2>2. DOMAIN w = DOMAIN g /\ \A v \in DOMAIN g : w[v] \in Int /\ g[v] <= w[v]
    BY <1>6
  <2> HIDE DEF g, w
  <2> QED BY <2>1, <2>2, SumFunctionAtMost
<1> QED BY <1>7, <1>8 DEF SaleWorth

LEMMA RefundsAreNear ==
    ASSUME Linked, ReturnedWithinSold
    PROVE  RefundsNearSale
<1> SUFFICES ASSUME NEW s \in PostedSales
             PROVE  2 * (SumFunction([r \in PostedReturns(s) |-> RefundTotal(r)]) - SaleTotal(s))
                        <= Cardinality(DOMAIN sale[s].lines)
                           + SumFunction([r \in PostedReturns(s) |->
                                             Cardinality(DOMAIN return[r].lines)])
  BY DEF RefundsNearSale
<1> DEFINE R == PostedReturns(s)
           f == [r \in R |-> RefundTotal(r)]
           n == [r \in R |-> Cardinality(DOMAIN return[r].lines)]
           w == [r \in R |-> ReturnWorth(s, r)]
           f1 == [r \in R |-> Quanta * f[r]]
           f2 == [r \in R |-> 2 * f1[r]]
           n1 == [r \in R |-> Quanta * n[r]]
           w2 == [r \in R |-> 2 * w[r]]
           wn == [r \in R |-> w2[r] + n1[r]]
<1>1. IsFiniteSet(R) /\ Quanta \in Nat \ {0}
  BY FS_Subset, FiniteAssumption, QuantaAssumption DEF PostedReturns
<1>2. /\ DOMAIN f = R /\ DOMAIN n = R /\ DOMAIN w = R
      /\ \A r \in R : /\ f[r] \in Int /\ n[r] \in Int /\ w[r] \in Int
                      /\ 2 * (Quanta * f[r]) <= 2 * w[r] + Quanta * n[r]
  BY RefundIsClose
<1>3. SumFunction(w) <= SaleWorth(s)
  BY WorthWithinSale
<1> HIDE DEF f, n, w, R
<1>4. IntegerSum(f) /\ IntegerSum(n) /\ IntegerSum(w)
  BY <1>1, <1>2 DEF IntegerSum
<1>5. /\ DOMAIN f1 = R /\ DOMAIN n1 = R /\ DOMAIN w2 = R
      /\ \A r \in R : /\ f1[r] = Quanta * f[r] /\ n1[r] = Quanta * n[r] /\ w2[r] = 2 * w[r]
                      /\ f1[r] \in Int /\ n1[r] \in Int /\ w2[r] \in Int
  BY <1>1, <1>2
<1>6. DOMAIN f2 = R /\ \A r \in R : f2[r] = 2 * f1[r] /\ f2[r] \in Int
  <2> HIDE DEF f1
  <2> QED BY <1>5
<1>7. DOMAIN wn = R /\ \A r \in R : wn[r] = w2[r] + n1[r] /\ wn[r] \in Int
  <2> HIDE DEF w2, n1
  <2> QED BY <1>5
<1> HIDE DEF f1, f2, n1, w2, wn
<1>8. IntegerSum(f1) /\ IntegerSum(f2) /\ IntegerSum(n1) /\ IntegerSum(w2)
  BY <1>1, <1>5, <1>6 DEF IntegerSum
<1>9. SumFunction(f1) = Quanta * SumFunction(f)
  BY <1>1, <1>2, <1>4, <1>5, SumFunctionTimes
<1>10. SumFunction(f2) = 2 * SumFunction(f1)
  BY <1>5, <1>6, <1>8, SumFunctionTimes
<1>11. SumFunction(n1) = Quanta * SumFunction(n)
  BY <1>1, <1>2, <1>4, <1>5, SumFunctionTimes
<1>12. SumFunction(w2) = 2 * SumFunction(w)
  BY <1>2, <1>4, <1>5, SumFunctionTimes
<1>13. SumFunction(wn) = SumFunction(w2) + SumFunction(n1)
  BY <1>5, <1>7, <1>8, SumFunctionPlus
<1>14. \A r \in R : f2[r] <= wn[r]
  BY <1>2, <1>5, <1>6, <1>7
<1>15. SumFunction(f2) <= SumFunction(wn)
  BY <1>6, <1>7, <1>8, <1>14, SumFunctionAtMost
<1> DEFINE refunds == SumFunction(f)
           lines == SumFunction(n)
           worth == SumFunction(w)
           total == SaleTotal(s)
           sold == SaleWorth(s)
           own == Cardinality(DOMAIN sale[s].lines)
<1>16. refunds \in Int /\ lines \in Int /\ worth \in Int
  BY <1>4, SumFunctionType
<1>17. 2 * (Quanta * refunds) <= 2 * worth + Quanta * lines
  BY <1>9, <1>10, <1>11, <1>12, <1>13, <1>15
<1>18. /\ total \in Int /\ sold \in Int
       /\ 2 * sold <= 2 * (Quanta * total) + Quanta * own
  BY SaleTotalIsClose
<1>19. own \in Int
  BY PostedLines, FS_CardinalityType
<1> HIDE DEF refunds, lines, worth, total, sold, own
<1>20. /\ Quanta * refunds \in Int /\ Quanta * total \in Int
       /\ Quanta * lines \in Int /\ Quanta * own \in Int
  BY <1>1, <1>16, <1>18, <1>19
<1>21. 2 * (Quanta * refunds) <= 2 * (Quanta * total) + Quanta * own + Quanta * lines
  BY <1>3, <1>16, <1>17, <1>18, <1>20 DEF worth, sold
<1>22. Quanta * (2 * (refunds - total)) <= Quanta * (own + lines)
  <2>1. Quanta * (2 * (refunds - total)) = 2 * (Quanta * refunds) - 2 * (Quanta * total)
    BY <1>1, <1>16, <1>18
  <2>2. Quanta * (own + lines) = Quanta * own + Quanta * lines
    BY <1>1, <1>16, <1>19
  <2> QED BY <1>20, <1>21, <2>1, <2>2
<1>23. ASSUME NEW q \in Nat \ {0}, NEW x \in Int, NEW y \in Int, q * x <= q * y
       PROVE  x <= y
  BY <1>23
<1>24. 2 * (refunds - total) <= own + lines
  BY <1>1, <1>16, <1>18, <1>19, <1>22, <1>23
<1> QED BY <1>24 DEF refunds, lines, total, own, f, n, R

\* What the posted returns of a sale refund, rounded line by line and return by return,
\* exceeds what the sale was rounded to by half a cent for each line at most, however many
\* returns there are and whatever the prices (calculate_sale_line_total).
THEOREM RefundsStayNear == Spec => []RefundsNearSale
<1>1. Spec => []ReturnedWithinSold
  BY ReturnsStayWithinSale, PTL DEF ReturnsWithinSale
<1> QED BY <1>1, LinkedInvariant, RefundsAreNear, PTL

=============================================================================
