-------------------------- MODULE SettlementProofs --------------------------
(***************************************************************************)
(* Theorems about Purchasing and SupplierSettlement together, for every    *)
(* catalogue, every set of purchases, returns, keys and references and     *)
(* every bound: what the types, the stock, the documents and the evidence  *)
(* of three services that share a purchase promise each other.             *)
(***************************************************************************)
EXTENDS SupplierSettlement, SumTheorems, TLAPS

\* Prices and averages of nonnegative numbers are nonnegative.
LEMMA PricedIsNat ==
    ASSUME NEW q \in Nat, NEW c \in Nat
    PROVE  Priced(q, c) \in Nat
<1>1. q * c \in Nat
  OBVIOUS
<1>2. 2 * q * c + Quanta \in Nat /\ 2 * Quanta \in Nat \ {0}
  BY <1>1, QuantaAssumption
<1> QED
  BY <1>2 DEF Priced

LEMMA AveragedIsNat ==
    ASSUME NEW value \in Nat, NEW q \in Nat \ {0}
    PROVE  Averaged(value, q) \in Nat
<1>1. value * Quanta \in Nat
  BY QuantaAssumption
<1>2. 2 * value * Quanta + q \in Nat /\ 2 * q \in Nat \ {0}
  BY <1>1, QuantaAssumption
<1> QED
  BY <1>2 DEF Averaged

\* The three ways stock moves keep a balance a balance.
LEMMA InboundBalance ==
    ASSUME NEW x \in Balance, NEW q \in Nat \ {0}, NEW c \in Nat
    PROVE  Inbound(x, q, c) \in Balance /\ Inbound(x, q, c).quantity = x.quantity + q
<1>1. Priced(q, c) \in Nat
  BY PricedIsNat
<1>2. x.value + Priced(q, c) \in Nat /\ x.quantity + q \in Nat \ {0}
  BY <1>1 DEF Balance
<1>3. Averaged(x.value + Priced(q, c), x.quantity + q) \in Nat
  BY <1>2, AveragedIsNat
<1> QED
  BY <1>2, <1>3 DEF Inbound, Balance

LEMMA OutboundBalance ==
    ASSUME NEW x \in Balance, NEW q \in Nat \ {0}, Leaves(x, q)
    PROVE  Outbound(x, q) \in Balance /\ Outbound(x, q).quantity = x.quantity - q
<1>1. Priced(q, x.average) \in Nat
  BY PricedIsNat DEF Balance
<1> DEFINE left == x.value - Priced(q, x.average)
           value == IF q = x.quantity \/ left < 0 THEN 0 ELSE left
<1>2. value \in Nat
  BY <1>1 DEF Balance
<1>3. x.quantity - q \in Nat
  BY DEF Balance, Leaves
<1>4. Outbound(x, q) = [quantity |-> x.quantity - q, value |-> value,
                        average |-> IF value = 0 THEN 0 ELSE x.average]
  BY DEF Outbound
<1> HIDE DEF value
<1> QED
  BY <1>2, <1>3, <1>4 DEF Balance

-----------------------------------------------------------------------------
(* The lines of a return leave, or come back, one after the other.         *)

\* The quantity of a variant among the lines in T.
Part(lines, T, v) == SumFunction([l \in OfVariant(T, v) |-> lines[l]])

LEMMA PartIsSum ==
    ASSUME NEW T, IsFiniteSet(T), NEW lines, \A l \in T : lines[l] \in Nat, NEW v
    PROVE  /\ IntegerSum([l \in OfVariant(T, v) |-> lines[l]])
           /\ IsFiniteSet(OfVariant(T, v))
           /\ Part(lines, T, v) \in Nat
<1> DEFINE f == [l \in OfVariant(T, v) |-> lines[l]]
<1>1. OfVariant(T, v) \subseteq T
  BY DEF OfVariant
<1>2. IsFiniteSet(OfVariant(T, v))
  BY <1>1, FS_Subset
<1>3. DOMAIN f = OfVariant(T, v) /\ \A l \in DOMAIN f : f[l] \in Nat
  BY <1>1
<1>4. IsFiniteSet(DOMAIN f)
  BY <1>2, <1>3
<1>5. Part(lines, T, v) = SumFunction(f)
  BY DEF Part
<1> HIDE DEF f
<1>6. IntegerSum(f)
  BY <1>3, <1>4 DEF IntegerSum
<1>7. SumFunction(f) \in Nat
  BY <1>3, <1>4, SumFunctionNat
<1> QED BY <1>2, <1>5, <1>6, <1>7 DEF f

LEMMA PartOfNothing == ASSUME NEW lines, NEW v PROVE Part(lines, {}, v) = 0
<1> DEFINE f == [l \in OfVariant({}, v) |-> lines[l]]
<1>1. DOMAIN f = {}
  BY DEF OfVariant
<1> HIDE DEF f
<1>2. SumFunction(f) = 0
  BY <1>1, SumFunctionOfNothing
<1> QED BY <1>2 DEF Part, f

LEMMA PartAdd ==
    ASSUME NEW T, IsFiniteSet(T), NEW x, x \notin T, NEW W, W = T \cup {x},
           NEW lines, \A l \in W : lines[l] \in Nat, NEW v
    PROVE  /\ x[2] = v => Part(lines, W, v) = Part(lines, T, v) + lines[x]
           /\ x[2] # v => Part(lines, W, v) = Part(lines, T, v)
<1> DEFINE f == [l \in OfVariant(T, v) |-> lines[l]]
           g == [l \in OfVariant(W, v) |-> lines[l]]
<1>1. IntegerSum(f) /\ Part(lines, T, v) \in Nat
  BY PartIsSum
<1>2. CASE x[2] = v
  <2>1. /\ DOMAIN g = DOMAIN f \cup {x} /\ x \notin DOMAIN f
        /\ g[x] = lines[x] /\ \A y \in DOMAIN f : g[y] = f[y]
    BY <1>2 DEF OfVariant
  <2>2. g[x] \in Int
    BY <2>1
  <2> HIDE DEF f, g
  <2>3. SumFunction(g) = SumFunction(f) + g[x]
    BY <1>1, <2>1, <2>2, SumFunctionAdd
  <2> QED BY <1>2, <2>1, <2>3 DEF Part, f, g
<1>3. CASE x[2] # v
  <2>1. OfVariant(W, v) = OfVariant(T, v)
    BY <1>3 DEF OfVariant
  <2>2. Part(lines, W, v) = Part(lines, T, v)
    BY <2>1 DEF Part
  <2> QED BY <1>1, <1>3, <2>2
<1> QED BY <1>2, <1>3

LEMMA PartOfMore ==
    ASSUME NEW S, IsFiniteSet(S), NEW lines, \A l \in S : lines[l] \in Nat,
           NEW T \in SUBSET S, NEW v
    PROVE  Part(lines, T, v) <= Part(lines, S, v)
<1> DEFINE G == {R \in SUBSET (S \ T) : Part(lines, T, v) <= Part(lines, T \cup R, v)}
<1>1. {} \in G
  <2>1. T \cup {} = T /\ IsFiniteSet(T)
    BY FS_Subset
  <2>2. Part(lines, T, v) \in Nat
    BY <2>1, PartIsSum
  <2> QED BY <2>1, <2>2
<1>2. ASSUME NEW R \in SUBSET (S \ T), NEW x \in (S \ T) \ R, R \in G
      PROVE  R \cup {x} \in G
  <2> DEFINE U == T \cup R
  <2>1. /\ U \subseteq S /\ x \notin U /\ x \in S
        /\ T \cup (R \cup {x}) = U \cup {x}
        /\ Part(lines, T, v) <= Part(lines, U, v)
    BY <1>2
  <2>2. IsFiniteSet(U) /\ IsFiniteSet(T)
    BY <2>1, FS_Subset
  <2> HIDE DEF U
  <2>3. Part(lines, U, v) \in Nat /\ Part(lines, T, v) \in Nat
    BY <2>1, <2>2, PartIsSum
  <2> DEFINE W == U \cup {x}
  <2>4. \A l \in W : lines[l] \in Nat
    BY <2>1
  <2>5. W = U \cup {x}
    OBVIOUS
  <2> HIDE DEF W
  <2>6. /\ x[2] = v => Part(lines, W, v) = Part(lines, U, v) + lines[x]
        /\ x[2] # v => Part(lines, W, v) = Part(lines, U, v)
    <3>1. x \notin U /\ IsFiniteSet(U)
      BY <2>1, <2>2
    <3> QED BY <3>1, <2>4, <2>5, PartAdd
  <2>7. lines[x] \in Nat
    BY <2>1
  <2>8. Part(lines, T, v) <= Part(lines, W, v)
    BY <2>1, <2>3, <2>6, <2>7
  <2> QED BY <2>1, <2>8 DEF W
<1>3. IsFiniteSet(S \ T)
  BY FS_Subset
<1> HIDE DEF G
<1>4. S \ T \in G
  BY <1>1, <1>2, <1>3, ElementInduction
<1>5. T \cup (S \ T) = S
  OBVIOUS
<1> QED BY <1>4, <1>5 DEF G

-----------------------------------------------------------------------------
(* CreateReturnPosting: each line leaves at the average it finds.          *)

TakesFrom(h, lines, start, S) ==
    h = [T \in SUBSET S |->
            IF T = {} THEN start ELSE TakeLine(lines, Some(T), h[T \ {Some(T)}])]
Taking(lines, start, S) == FoldSet(LAMBDA l, so : TakeLine(lines, l, so), start, S)

LEMMA TakingIsChoice ==
    ASSUME NEW lines, NEW start, NEW S
    PROVE  Taking(lines, start, S) = (CHOOSE h : TakesFrom(h, lines, start, S))[S]
BY DEF Taking, FoldSet, MapThenFoldSet, TakesFrom, Some

\* What the balances and costs are in the middle of it, before it is known that
\* no balance goes below zero.
Midway(S) ==
    [stock : [Variants -> [quantity : Int, value : Nat, average : Nat]],
     costs : UNION {[D -> Nat] : D \in SUBSET S}]

LEMMA OutboundMidway ==
    ASSUME NEW x \in [quantity : Int, value : Nat, average : Nat], NEW q \in Nat
    PROVE  Outbound(x, q) \in [quantity : Int, value : Nat, average : Nat]
<1>1. Priced(q, x.average) \in Nat
  BY PricedIsNat
<1> DEFINE left == x.value - Priced(q, x.average)
           value == IF q = x.quantity \/ left < 0 THEN 0 ELSE left
<1>2. value \in Nat
  BY <1>1
<1>3. Outbound(x, q) = [quantity |-> x.quantity - q, value |-> value,
                        average |-> IF value = 0 THEN 0 ELSE x.average]
  BY DEF Outbound
<1> HIDE DEF value
<1> QED BY <1>2, <1>3

LEMMA TakeLineMidway ==
    ASSUME NEW S \in SUBSET ReceiptLines, NEW lines, \A l \in S : lines[l] \in Nat,
           NEW l \in S, NEW so \in Midway(S)
    PROVE  /\ TakeLine(lines, l, so) \in Midway(S)
           /\ TakeLine(lines, l, so).stock =
                  [so.stock EXCEPT ![l[2]] = Outbound(so.stock[l[2]], lines[l])]
           /\ TakeLine(lines, l, so).costs[l] = so.stock[l[2]].average
           /\ \A m \in DOMAIN so.costs \ {l} : TakeLine(lines, l, so).costs[m] = so.costs[m]
           /\ DOMAIN TakeLine(lines, l, so).costs = DOMAIN so.costs \cup {l}
<1> DEFINE row == so.stock[l[2]]
           costs == [m \in DOMAIN so.costs \cup {l} |-> IF m = l THEN row.average ELSE so.costs[m]]
<1>1. l[2] \in Variants
  BY DEF ReceiptLines
<1>2. /\ so.stock \in [Variants -> [quantity : Int, value : Nat, average : Nat]]
      /\ so.costs \in UNION {[D -> Nat] : D \in SUBSET S}
  BY DEF Midway
<1>3. row \in [quantity : Int, value : Nat, average : Nat]
  BY <1>1, <1>2
<1>4. Outbound(row, lines[l]) \in [quantity : Int, value : Nat, average : Nat]
  BY <1>3, OutboundMidway
<1>5. PICK D \in SUBSET S : so.costs \in [D -> Nat]
  BY <1>2
<1>6. /\ costs = [m \in D \cup {l} |-> IF m = l THEN row.average ELSE so.costs[m]]
      /\ row.average \in Nat /\ DOMAIN so.costs = D
  BY <1>3, <1>5
<1>7. TakeLine(lines, l, so) =
          [stock |-> [so.stock EXCEPT ![l[2]] = Outbound(row, lines[l])], costs |-> costs]
  BY <1>1, <1>2 DEF TakeLine
<1> HIDE DEF costs, row
<1>8. [so.stock EXCEPT ![l[2]] = Outbound(row, lines[l])]
          \in [Variants -> [quantity : Int, value : Nat, average : Nat]]
  BY <1>1, <1>2, <1>4
<1>9. costs \in [D \cup {l} -> Nat] /\ D \cup {l} \in SUBSET S
  BY <1>5, <1>6
<1>10. costs \in UNION {[E -> Nat] : E \in SUBSET S}
  BY <1>9
<1>11. TakeLine(lines, l, so) \in Midway(S)
  BY <1>7, <1>8, <1>10 DEF Midway
<1>12. DOMAIN costs = D \cup {l} /\ costs[l] = row.average /\ \A m \in D \ {l} : costs[m] = so.costs[m]
  BY <1>6
<1> QED BY <1>6, <1>7, <1>11, <1>12 DEF row

LEMMA TakingExists ==
    ASSUME NEW S, IsFiniteSet(S), S \subseteq ReceiptLines,
           NEW lines, \A l \in S : lines[l] \in Nat, NEW start \in Midway(S)
    PROVE  /\ \E h : TakesFrom(h, lines, start, S)
           /\ \A h : TakesFrom(h, lines, start, S) => \A T \in SUBSET S : h[T] \in Midway(S)
<1> DEFINE V == Midway(S)
           step == [p \in S \X V |-> TakeLine(lines, p[1], p[2])]
<1>1. \A x \in S : \A y \in V : step[<<x, y>>] = TakeLine(lines, x, y)
  OBVIOUS
<1>2. \A x \in S : \A y \in V : TakeLine(lines, x, y) \in V
  BY TakeLineMidway
<1>3. \A x \in S : \A y \in V : step[<<x, y>>] \in V
  BY <1>1, <1>2
<1> HIDE DEF V, step
<1>4. start \in V
  BY DEF V
<1>5. ASSUME NEW h, IsFold(h, step, start, S)
      PROVE  TakesFrom(h, lines, start, S)
  <2>1. \A T \in SUBSET S : h[T] \in V
    BY <1>3, <1>4, <1>5, FoldStays
  <2>2. ASSUME NEW T \in SUBSET S, T # {}
        PROVE  step[<<Some(T), h[T \ {Some(T)}]>>] = TakeLine(lines, Some(T), h[T \ {Some(T)}])
    <3>1. Some(T) \in S /\ T \ {Some(T)} \in SUBSET S
      BY <2>2, SomeMember
    <3>2. h[T \ {Some(T)}] \in V
      BY <2>1, <3>1
    <3> QED BY <1>1, <3>1, <3>2
  <2>3. h = [T \in SUBSET S |-> IF T = {} THEN start ELSE step[<<Some(T), h[T \ {Some(T)}]>>]]
    BY <1>5 DEF IsFold
  <2>4. h = [T \in SUBSET S |->
               IF T = {} THEN start ELSE TakeLine(lines, Some(T), h[T \ {Some(T)}])]
    BY <2>2, <2>3
  <2> QED BY <2>4 DEF TakesFrom
<1>6. \E h : TakesFrom(h, lines, start, S)
  BY <1>5, FoldExists
<1>7. ASSUME NEW h, TakesFrom(h, lines, start, S), NEW T \in SUBSET S,
             \A U \in SUBSET T : U # T => h[U] \in V
      PROVE  h[T] \in V
  <2>1. h[T] = IF T = {} THEN start ELSE TakeLine(lines, Some(T), h[T \ {Some(T)}])
    BY <1>7 DEF TakesFrom
  <2>2. CASE T = {}
    BY <1>4, <2>1, <2>2
  <2>3. CASE T # {}
    <3>1. Some(T) \in T /\ Some(T) \in S
      BY <2>3, SomeMember
    <3>2. h[T \ {Some(T)}] \in V
      BY <1>7, <3>1
    <3>3. TakeLine(lines, Some(T), h[T \ {Some(T)}]) \in V
      BY <1>2, <3>1, <3>2 DEF V
    <3> QED BY <2>1, <2>3, <3>3
  <2> QED BY <2>2, <2>3
<1>8. ASSUME NEW h, TakesFrom(h, lines, start, S)
      PROVE  \A T \in SUBSET S : h[T] \in V
  <2> DEFINE G == {T \in SUBSET S : h[T] \in V}
  <2>1. \A T \in SUBSET S : (\A U \in SUBSET T : U # T => U \in G) => T \in G
    BY <1>7, <1>8
  <2> HIDE DEF G
  <2>2. \A T \in SUBSET S : T \in G
    BY <2>1, SubsetInduction
  <2> QED BY <2>2 DEF G
<1> QED BY <1>6, <1>8 DEF V

\* When what leaves of each variant is on the shelf, every balance stays one, loses
\* what leaves, and every line has a cost.
LEMMA TakingLines ==
    ASSUME NEW S, IsFiniteSet(S), S \subseteq ReceiptLines,
           NEW lines, \A l \in S : lines[l] \in Nat \ {0},
           NEW balances \in [Variants -> Balance],
           \A v \in Variants : Part(lines, S, v) <= balances[v].quantity,
           NEW done, done = Taking(lines, [stock |-> balances, costs |-> <<>>], S)
    PROVE  /\ done.stock \in [Variants -> Balance]
           /\ \A v \in Variants :
                  done.stock[v].quantity = balances[v].quantity - Part(lines, S, v)
           /\ \A l \in S : done.costs[l] \in Nat
<1> DEFINE start == [stock |-> balances, costs |-> <<>>]
<1>1. start \in Midway(S)
  <2>1. balances \in [Variants -> [quantity : Int, value : Nat, average : Nat]]
    BY DEF Balance
  <2>2. <<>> \in [{} -> Nat] /\ {} \in SUBSET S
    OBVIOUS
  <2>3. <<>> \in UNION {[D -> Nat] : D \in SUBSET S}
    BY <2>2
  <2> QED BY <2>1, <2>3 DEF Midway
<1>2. \A l \in S : lines[l] \in Nat
  OBVIOUS
<1>3. start.stock = balances
  OBVIOUS
<1> DEFINE h == CHOOSE h : TakesFrom(h, lines, start, S)
<1>4. done = h[S]
  BY TakingIsChoice
<1> HIDE DEF start
<1>5. TakesFrom(h, lines, start, S) /\ \A T \in SUBSET S : h[T] \in Midway(S)
  BY <1>1, <1>2, TakingExists
<1> HIDE DEF h
<1> DEFINE Good(T) == /\ h[T].stock \in [Variants -> Balance]
                      /\ \A v \in Variants : h[T].stock[v].quantity
                                                 = balances[v].quantity - Part(lines, T, v)
                      /\ \A l \in T : l \in DOMAIN h[T].costs /\ h[T].costs[l] \in Nat
           G == {T \in SUBSET S : Good(T)}
<1>6. ASSUME NEW T \in SUBSET S, \A U \in SUBSET T : U # T => Good(U)
      PROVE  Good(T)
  <2>1. h[T] = IF T = {} THEN start ELSE TakeLine(lines, Some(T), h[T \ {Some(T)}])
    BY <1>5 DEF TakesFrom
  <2>2. CASE T = {}
    <3>1. h[T].stock = balances
      BY <1>3, <2>1, <2>2
    <3>2. \A v \in Variants : Part(lines, T, v) = 0
      BY <2>2, PartOfNothing
    <3>3. \A v \in Variants : balances[v].quantity \in Nat
      BY DEF Balance
    <3> QED BY <2>2, <3>1, <3>2, <3>3
  <2>3. CASE T # {}
    <3> DEFINE x == Some(T)
               U == T \ {x}
               so == h[U]
               v0 == x[2]
    <3>1. x \in T /\ x \in S /\ U \in SUBSET T /\ U # T /\ U \in SUBSET S /\ x \notin U /\ T = U \cup {x}
      BY <2>3, SomeMember
    <3>2. h[T] = TakeLine(lines, x, so)
      BY <2>1, <2>3
    <3>3. Good(U) /\ so \in Midway(S)
      BY <1>5, <1>6, <3>1
    <3>4. IsFiniteSet(T) /\ IsFiniteSet(U)
      BY <3>1, FS_Subset
    <3> HIDE DEF x, U
    <3>5. v0 \in Variants /\ lines[x] \in Nat \ {0} /\ S \in SUBSET ReceiptLines
      BY <3>1 DEF ReceiptLines
    <3>6. /\ h[T] \in Midway(S)
          /\ h[T].stock = [so.stock EXCEPT ![v0] = Outbound(so.stock[v0], lines[x])]
          /\ h[T].costs[x] = so.stock[v0].average
          /\ \A m \in DOMAIN so.costs \ {x} : h[T].costs[m] = so.costs[m]
          /\ DOMAIN h[T].costs = DOMAIN so.costs \cup {x}
      BY <1>2, <3>1, <3>2, <3>3, <3>5, TakeLineMidway
    <3>7. \A v : Part(lines, U, v) \in Nat
      <4>1. \A l \in U : lines[l] \in Nat
        BY <1>2, <3>1
      <4> QED BY <3>4, <4>1, PartIsSum
    <3>8. \A v : /\ x[2] = v => Part(lines, T, v) = Part(lines, U, v) + lines[x]
                 /\ x[2] # v => Part(lines, T, v) = Part(lines, U, v)
      <4>1. \A l \in T : lines[l] \in Nat
        BY <1>2
      <4> QED BY <3>1, <3>4, <4>1, PartAdd
    <3>9. Part(lines, T, v0) <= Part(lines, S, v0)
      BY <1>2, PartOfMore
    <3>10. /\ so.stock \in [Variants -> Balance]
           /\ \A v \in Variants :
                  so.stock[v].quantity = balances[v].quantity - Part(lines, U, v)
           /\ \A l \in U : l \in DOMAIN so.costs /\ so.costs[l] \in Nat
      BY <3>3
    <3> HIDE DEF so
    <3>11. so.stock[v0] \in Balance /\ so.stock[v0].quantity \in Nat /\ so.stock[v0].average \in Nat
      BY <3>5, <3>10 DEF Balance
    <3>12. Leaves(so.stock[v0], lines[x])
      <4>1. Part(lines, T, v0) = Part(lines, U, v0) + lines[x]
        BY <3>8
      <4>2. Part(lines, U, v0) + lines[x] <= balances[v0].quantity
        <5>1. Part(lines, S, v0) <= balances[v0].quantity /\ balances[v0].quantity \in Nat
          BY <3>5 DEF Balance
        <5>2. Part(lines, S, v0) \in Nat
          BY <1>2, PartIsSum
        <5> QED BY <3>5, <3>7, <3>9, <4>1, <5>1, <5>2
      <4>3. so.stock[v0].quantity = balances[v0].quantity - Part(lines, U, v0)
        BY <3>5, <3>10
      <4>4. balances[v0].quantity \in Nat
        BY <3>5 DEF Balance
      <4> QED BY <3>5, <3>7, <4>2, <4>3, <4>4 DEF Leaves
    <3>13. /\ Outbound(so.stock[v0], lines[x]) \in Balance
           /\ Outbound(so.stock[v0], lines[x]).quantity = so.stock[v0].quantity - lines[x]
      BY <3>5, <3>11, <3>12, OutboundBalance
    <3>14. h[T].stock \in [Variants -> Balance]
      BY <3>6, <3>10, <3>13
    <3>15. ASSUME NEW v \in Variants
           PROVE  h[T].stock[v].quantity = balances[v].quantity - Part(lines, T, v)
      <4>1. balances[v].quantity \in Nat /\ Part(lines, U, v) \in Nat
        BY <3>7 DEF Balance
      <4>2. so.stock[v].quantity = balances[v].quantity - Part(lines, U, v)
        BY <3>10
      <4>3. CASE v = v0
        <5>1. h[T].stock[v].quantity = so.stock[v].quantity - lines[x]
          BY <3>5, <3>6, <3>10, <3>13, <4>3
        <5>2. Part(lines, T, v) = Part(lines, U, v) + lines[x]
          BY <3>8, <4>3
        <5> QED BY <3>5, <4>1, <4>2, <5>1, <5>2
      <4>4. CASE v # v0
        <5>1. h[T].stock[v] = so.stock[v]
          BY <3>5, <3>6, <3>10, <4>4
        <5>2. Part(lines, T, v) = Part(lines, U, v)
          BY <3>8, <4>4
        <5> QED BY <4>2, <5>1, <5>2
      <4> QED BY <4>3, <4>4
    <3>16. ASSUME NEW l \in T
           PROVE  l \in DOMAIN h[T].costs /\ h[T].costs[l] \in Nat
      <4>1. CASE l = x
        BY <3>6, <3>11, <4>1
      <4>2. CASE l # x
        <5>1. l \in U
          BY <3>1, <4>2
        <5> QED BY <3>6, <3>10, <4>2, <5>1
      <4> QED BY <4>1, <4>2
    <3> QED BY <3>14, <3>15, <3>16
  <2> QED BY <2>2, <2>3
<1>7. \A T \in SUBSET S : (\A U \in SUBSET T : U # T => U \in G) => T \in G
  <2> HIDE DEF Good
  <2> QED BY <1>6
<1>8. S \in G
  <2> HIDE DEF G
  <2> QED BY <1>7, SubsetInduction
<1> QED BY <1>4, <1>8

-----------------------------------------------------------------------------
(* CreateReturnReversal: each line comes back at the cost it left with.    *)

PutsBack(h, row, start, S) ==
    h = [T \in SUBSET S |->
            IF T = {} THEN start ELSE PutBackLine(row, Some(T), h[T \ {Some(T)}])]
PuttingBack(row, start, S) == FoldSet(LAMBDA l, balances : PutBackLine(row, l, balances), start, S)

LEMMA PuttingBackIsChoice ==
    ASSUME NEW row, NEW start, NEW S
    PROVE  PuttingBack(row, start, S) = (CHOOSE h : PutsBack(h, row, start, S))[S]
BY DEF PuttingBack, FoldSet, MapThenFoldSet, PutsBack, Some

LEMMA PutBackLineBalances ==
    ASSUME NEW row, NEW l \in ReceiptLines, row.lines[l] \in Nat \ {0}, row.costs[l] \in Nat,
           NEW balances \in [Variants -> Balance]
    PROVE  /\ PutBackLine(row, l, balances) \in [Variants -> Balance]
           /\ PutBackLine(row, l, balances)[l[2]].quantity
                  = balances[l[2]].quantity + row.lines[l]
           /\ \A v \in Variants \ {l[2]} : PutBackLine(row, l, balances)[v] = balances[v]
<1>1. l[2] \in Variants
  BY DEF ReceiptLines
<1> DEFINE back == Inbound(balances[l[2]], row.lines[l], row.costs[l])
<1>2. back \in Balance /\ back.quantity = balances[l[2]].quantity + row.lines[l]
  BY <1>1, InboundBalance
<1>3. PutBackLine(row, l, balances) = [balances EXCEPT ![l[2]] = back]
  BY <1>1 DEF PutBackLine
<1> HIDE DEF back
<1> QED BY <1>1, <1>2, <1>3

LEMMA PuttingBackLines ==
    ASSUME NEW S, IsFiniteSet(S), S \subseteq ReceiptLines,
           NEW row, \A l \in S : row.lines[l] \in Nat \ {0} /\ row.costs[l] \in Nat,
           NEW balances \in [Variants -> Balance]
    PROVE  /\ PuttingBack(row, balances, S) \in [Variants -> Balance]
           /\ \A v \in Variants : PuttingBack(row, balances, S)[v].quantity
                                      = balances[v].quantity + Part(row.lines, S, v)
<1> DEFINE V == [Variants -> Balance]
           step == [p \in S \X V |-> PutBackLine(row, p[1], p[2])]
<1>1. \A x \in S : \A y \in V : step[<<x, y>>] = PutBackLine(row, x, y)
  OBVIOUS
<1>2. \A x \in S : \A y \in V : PutBackLine(row, x, y) \in V
  BY PutBackLineBalances
<1>3. \A x \in S : \A y \in V : step[<<x, y>>] \in V
  BY <1>1, <1>2
<1> DEFINE h == CHOOSE h : PutsBack(h, row, balances, S)
<1>4. PuttingBack(row, balances, S) = h[S]
  BY PuttingBackIsChoice
<1> HIDE DEF V, step, h
<1>5. balances \in V
  BY DEF V
<1>6. ASSUME NEW g, IsFold(g, step, balances, S)
      PROVE  PutsBack(g, row, balances, S)
  <2>1. \A T \in SUBSET S : g[T] \in V
    BY <1>3, <1>5, <1>6, FoldStays
  <2>2. ASSUME NEW T \in SUBSET S, T # {}
        PROVE  step[<<Some(T), g[T \ {Some(T)}]>>] = PutBackLine(row, Some(T), g[T \ {Some(T)}])
    <3>1. Some(T) \in S /\ T \ {Some(T)} \in SUBSET S
      BY <2>2, SomeMember
    <3>2. g[T \ {Some(T)}] \in V
      BY <2>1, <3>1
    <3> QED BY <1>1, <3>1, <3>2
  <2>3. g = [T \in SUBSET S |->
                IF T = {} THEN balances ELSE step[<<Some(T), g[T \ {Some(T)}]>>]]
    BY <1>6 DEF IsFold
  <2>4. g = [T \in SUBSET S |->
                IF T = {} THEN balances ELSE PutBackLine(row, Some(T), g[T \ {Some(T)}])]
    BY <2>2, <2>3
  <2> QED BY <2>4 DEF PutsBack
<1>7. \E g : PutsBack(g, row, balances, S)
  BY <1>6, FoldExists
<1>8. PutsBack(h, row, balances, S)
  BY <1>7 DEF h
<1> DEFINE Good(T) == /\ h[T] \in [Variants -> Balance]
                      /\ \A v \in Variants : h[T][v].quantity
                                                 = balances[v].quantity + Part(row.lines, T, v)
           G == {T \in SUBSET S : Good(T)}
<1>9. ASSUME NEW T \in SUBSET S, \A U \in SUBSET T : U # T => Good(U)
      PROVE  Good(T)
  <2>1. h[T] = IF T = {} THEN balances ELSE PutBackLine(row, Some(T), h[T \ {Some(T)}])
    BY <1>8 DEF PutsBack
  <2>2. CASE T = {}
    <3>1. \A v \in Variants : Part(row.lines, T, v) = 0
      BY <2>2, PartOfNothing
    <3>2. \A v \in Variants : balances[v].quantity \in Nat
      BY DEF Balance
    <3> QED BY <2>1, <2>2, <3>1, <3>2
  <2>3. CASE T # {}
    <3> DEFINE x == Some(T)
               U == T \ {x}
               before == h[U]
               lines == row.lines
    <3>1. x \in T /\ x \in S /\ U \in SUBSET T /\ U # T /\ U \in SUBSET S /\ x \notin U /\ T = U \cup {x}
      BY <2>3, SomeMember
    <3>2. h[T] = PutBackLine(row, x, before)
      BY <2>1, <2>3
    <3>3. Good(U)
      BY <1>9, <3>1
    <3>4. IsFiniteSet(U)
      BY <3>1, FS_Subset
    <3> HIDE DEF x, U
    <3>5. x \in ReceiptLines /\ row.lines[x] \in Nat \ {0} /\ row.costs[x] \in Nat
      BY <3>1
    <3>6. /\ h[T] \in [Variants -> Balance]
          /\ h[T][x[2]].quantity = before[x[2]].quantity + row.lines[x]
          /\ \A v \in Variants \ {x[2]} : h[T][v] = before[v]
      BY <3>2, <3>3, <3>5, PutBackLineBalances
    <3>7. \A l \in T : lines[l] \in Nat
      OBVIOUS
    <3>8. \A l \in U : lines[l] \in Nat
      BY <3>1, <3>7
    <3> HIDE DEF lines
    <3>9. \A v : /\ x[2] = v => Part(lines, T, v) = Part(lines, U, v) + lines[x]
                 /\ x[2] # v => Part(lines, T, v) = Part(lines, U, v)
      BY <3>1, <3>4, <3>7, PartAdd
    <3>10. \A v : Part(lines, U, v) \in Nat
      BY <3>4, <3>8, PartIsSum
    <3>11. \A v \in Variants : before[v].quantity = balances[v].quantity + Part(lines, U, v)
      BY <3>3 DEF lines
    <3> HIDE DEF before
    <3>12. ASSUME NEW v \in Variants
           PROVE  h[T][v].quantity = balances[v].quantity + Part(lines, T, v)
      <4>1. balances[v].quantity \in Nat /\ Part(lines, U, v) \in Nat /\ lines[x] \in Nat
        BY <3>5, <3>10 DEF Balance, lines
      <4>2. CASE x[2] = v
        <5>1. h[T][v].quantity = before[v].quantity + lines[x]
          BY <3>6, <4>2 DEF lines
        <5>2. Part(lines, T, v) = Part(lines, U, v) + lines[x]
          BY <3>9, <4>2
        <5> QED BY <3>11, <4>1, <5>1, <5>2
      <4>3. CASE x[2] # v
        <5>1. h[T][v] = before[v] /\ Part(lines, T, v) = Part(lines, U, v)
          BY <3>6, <3>9, <4>3
        <5> QED BY <3>11, <5>1
      <4> QED BY <4>2, <4>3
    <3> QED BY <3>6, <3>12 DEF lines
  <2> QED BY <2>2, <2>3
<1>10. \A T \in SUBSET S : (\A U \in SUBSET T : U # T => U \in G) => T \in G
  <2> HIDE DEF Good
  <2> QED BY <1>9
<1>11. S \in G
  <2> HIDE DEF G
  <2> QED BY <1>10, SubsetInduction
<1> QED BY <1>4, <1>11

-----------------------------------------------------------------------------
(* Rows.                                                                   *)

LEMMA ChosenFacts ==
    ASSUME NEW S, NEW T, NEW lines \in Chosen(S, T)
    PROVE  /\ DOMAIN lines \subseteq S /\ DOMAIN lines # {}
           /\ \A x \in DOMAIN lines : lines[x] \in T
BY DEF Chosen

LEMMA QuantitiesArePositive == Quantities \subseteq Nat \ {0}
BY DEF Quantities

LEMMA PurchaseFacts ==
    ASSUME NEW x \in PurchaseRow
    PROVE  /\ x.status \in Unreceived \cup {"PARTIALLY_RECEIVED", "RECEIVED"}
           /\ x # Absent
           /\ DOMAIN x.lines \subseteq Variants /\ DOMAIN x.lines # {} /\ IsFiniteSet(DOMAIN x.lines)
           /\ \A v \in DOMAIN x.lines : x.lines[v].ordered \in Nat \ {0} /\ x.lines[v].cost \in Nat
<1> DEFINE L == [ordered : Quantities, cost : 0 .. MaxCost]
<1>1. x.status \in Unreceived \cup {"PARTIALLY_RECEIVED", "RECEIVED"} /\ x.lines \in Chosen(Variants, L)
  BY DEF PurchaseRow
<1>2. x # Absent
  BY <1>1 DEF Unreceived, Absent
<1>3. \A y \in L : y.ordered \in Nat \ {0} /\ y.cost \in Nat
  <2>1. \A y \in L : y.ordered \in Quantities /\ y.cost \in 0 .. MaxCost
    OBVIOUS
  <2>2. \A n \in 0 .. MaxCost : n \in Nat
    BY BoundsAssumption
  <2> QED BY <2>1, <2>2, QuantitiesArePositive
<1> HIDE DEF L
<1>4. /\ DOMAIN x.lines \subseteq Variants /\ DOMAIN x.lines # {}
      /\ \A v \in DOMAIN x.lines : x.lines[v] \in L
  BY <1>1, ChosenFacts
<1>5. IsFiniteSet(DOMAIN x.lines)
  BY <1>4, FS_Subset, FiniteAssumption
<1> QED BY <1>1, <1>2, <1>3, <1>4, <1>5

LEMMA ReceiptFacts ==
    ASSUME NEW g \in ReceiptRow
    PROVE  /\ g.key \in ReceiptKeys /\ g.purchase \in Purchases
           /\ DOMAIN g.lines \subseteq Variants /\ DOMAIN g.lines # {} /\ IsFiniteSet(DOMAIN g.lines)
           /\ \A v \in DOMAIN g.lines : g.lines[v] \in Nat \ {0}
<1>1. g.key \in ReceiptKeys /\ g.purchase \in Purchases /\ g.lines \in Chosen(Variants, Quantities)
  BY DEF ReceiptRow
<1>2. /\ DOMAIN g.lines \subseteq Variants /\ DOMAIN g.lines # {}
      /\ \A v \in DOMAIN g.lines : g.lines[v] \in Quantities
  BY <1>1, ChosenFacts
<1>3. IsFiniteSet(DOMAIN g.lines)
  BY <1>2, FS_Subset, FiniteAssumption
<1> QED BY <1>1, <1>2, <1>3, QuantitiesArePositive

LEMMA ReturnRowFacts ==
    ASSUME NEW x, IsReturnRow(x)
    PROVE  /\ x.status \in {"DRAFT", "CANCELLED", "POSTED", "REVERSED"} /\ x # Absent
           /\ x.purchase \in Purchases
           /\ DOMAIN x.lines \subseteq ReceiptLines /\ DOMAIN x.lines # {}
           /\ \A l \in DOMAIN x.lines : x.lines[l] \in Nat \ {0}
           /\ x.status \in {"POSTED", "REVERSED"} => \A l \in DOMAIN x.lines : x.costs[l] \in Nat
<1>1. /\ x.status \in {"DRAFT", "CANCELLED", "POSTED", "REVERSED"}
      /\ x.purchase \in Purchases /\ x.lines \in Chosen(ReceiptLines, Quantities)
      /\ x.status \in {"POSTED", "REVERSED"} => \A l \in DOMAIN x.lines : x.costs[l] \in Nat
  BY DEF IsReturnRow
<1>2. x # Absent
  BY <1>1 DEF Absent
<1>3. /\ DOMAIN x.lines \subseteq ReceiptLines /\ DOMAIN x.lines # {}
      /\ \A l \in DOMAIN x.lines : x.lines[l] \in Quantities
  BY <1>1, ChosenFacts
<1> QED BY <1>1, <1>2, <1>3, QuantitiesArePositive

LEMMA LinesInAreLines ==
    ASSUME NEW R, R \subseteq ReceiptRow, IsFiniteSet(R)
    PROVE  LinesIn(R) \subseteq ReceiptLines /\ IsFiniteSet(LinesIn(R))
<1>1. LinesIn(R) \subseteq ReceiptLines
  BY ReceiptFacts DEF LinesIn, ReceiptLines
<1> DEFINE G == {T \in SUBSET R : IsFiniteSet(LinesIn(T))}
<1>2. {} \in G
  <2>1. LinesIn({}) = {}
    BY DEF LinesIn
  <2> QED BY <2>1, FS_EmptySet
<1>3. ASSUME NEW T \in SUBSET R, NEW g \in R \ T, T \in G
      PROVE  T \cup {g} \in G
  <2>1. LinesIn(T \cup {g}) = LinesIn(T) \cup ({g.key} \X DOMAIN g.lines)
    BY DEF LinesIn
  <2>2. IsFiniteSet({g.key}) /\ IsFiniteSet(DOMAIN g.lines)
    BY FS_Singleton, ReceiptFacts
  <2>3. IsFiniteSet({g.key} \X DOMAIN g.lines)
    BY <2>2, FS_Product
  <2>4. IsFiniteSet(LinesIn(T))
    BY <1>3
  <2>5. IsFiniteSet(LinesIn(T) \cup ({g.key} \X DOMAIN g.lines))
    BY <2>3, <2>4, FS_Union
  <2>6. IsFiniteSet(LinesIn(T \cup {g}))
    BY <2>1, <2>5
  <2> QED BY <2>6
<1> HIDE DEF G
<1>4. R \in G
  BY <1>2, <1>3, ElementInduction
<1> QED BY <1>1, <1>4 DEF G

-----------------------------------------------------------------------------
(* The parts of the types, with what they rest on: a key names one         *)
(* receipt, a receipt is of lines of a purchase, and a return is of lines  *)
(* of receipts of its purchase.                                            *)

ShelfOK ==
    /\ active \subseteq Variants
    /\ stock \in [Variants -> Balance]
    /\ frozen \in BOOLEAN
    /\ taken \in [Variants -> Nat]
PurchasesOK == purchase \in [Purchases -> PurchaseRow \cup {Absent}]
ReceiptsOK ==
    /\ receipts \subseteq ReceiptRow
    /\ IsFiniteSet(receipts)
    /\ \A g, h \in receipts : g.key = h.key => g = h
    /\ \A g \in receipts : /\ purchase[g.purchase] # Absent
                           /\ DOMAIN g.lines \subseteq DOMAIN purchase[g.purchase].lines
ReturnsOK ==
    /\ DOMAIN return = Returns
    /\ \A r \in Returns : return[r] # Absent =>
           IsReturnRow(return[r]) /\ DOMAIN return[r].lines \subseteq LinesOf(return[r].purchase)
ProcurementOK == ShelfOK /\ PurchasesOK /\ ReceiptsOK /\ ReturnsOK

\* A line of a receipt, and the receipt it is a line of.
LEMMA LineFacts ==
    ASSUME PurchasesOK, ReceiptsOK, NEW l \in LinesIn(receipts)
    PROVE  /\ LineOf(l) \in receipts /\ l = <<LineOf(l).key, l[2]>> /\ l[2] \in DOMAIN LineOf(l).lines
           /\ purchase[LineOf(l).purchase] \in PurchaseRow
           /\ ReceiptQuantity(l) = LineOf(l).lines[l[2]]
           /\ ReceiptQuantity(l) \in Nat \ {0}
           /\ ReceiptCost(l) \in Nat
<1>1. PICK g \in receipts : l \in {g.key} \X DOMAIN g.lines
  BY DEF LinesIn
<1>2. l[1] = g.key /\ l[2] \in DOMAIN g.lines /\ l = <<g.key, l[2]>>
  BY <1>1
<1>3. LineOf(l) = g
  BY <1>2 DEF LineOf, ReceiptsOK
<1>4. g \in ReceiptRow
  BY DEF ReceiptsOK
<1>5. g.purchase \in Purchases /\ g.lines[l[2]] \in Nat \ {0}
  BY <1>2, <1>4, ReceiptFacts
<1>6. purchase[g.purchase] \in PurchaseRow /\ l[2] \in DOMAIN purchase[g.purchase].lines
  BY <1>2, <1>5 DEF ReceiptsOK, PurchasesOK
<1>7. purchase[g.purchase].lines[l[2]].cost \in Nat
  BY <1>6, PurchaseFacts
<1> QED BY <1>2, <1>3, <1>5, <1>6, <1>7 DEF ReceiptQuantity, ReceiptCost

LEMMA LinesOfAreLines ==
    ASSUME ReceiptsOK, NEW p
    PROVE  LinesOf(p) \subseteq LinesIn(receipts) /\ IsFiniteSet(LinesOf(p))
           /\ LinesOf(p) \subseteq ReceiptLines
<1>1. ReceiptsOf(p) \subseteq receipts
  BY DEF ReceiptsOf
<1>2. ReceiptsOf(p) \subseteq ReceiptRow /\ IsFiniteSet(ReceiptsOf(p))
  BY <1>1, FS_Subset DEF ReceiptsOK
<1>3. LinesOf(p) \subseteq LinesIn(receipts)
  BY <1>1 DEF LinesOf, LinesIn
<1> QED BY <1>2, <1>3, LinesInAreLines DEF LinesOf

LEMMA ReturnFacts ==
    ASSUME ReceiptsOK, ReturnsOK, NEW r \in Returns, return[r] # Absent
    PROVE  /\ IsReturnRow(return[r]) /\ return[r].purchase \in Purchases
           /\ return[r].status \in {"DRAFT", "CANCELLED", "POSTED", "REVERSED"}
           /\ IsFiniteSet(DOMAIN return[r].lines) /\ DOMAIN return[r].lines # {}
           /\ DOMAIN return[r].lines \subseteq LinesOf(return[r].purchase)
           /\ DOMAIN return[r].lines \subseteq LinesIn(receipts)
           /\ DOMAIN return[r].lines \subseteq ReceiptLines
           /\ \A l \in DOMAIN return[r].lines : return[r].lines[l] \in Nat \ {0}
           /\ return[r].status \in {"POSTED", "REVERSED"} =>
                  \A l \in DOMAIN return[r].lines : return[r].costs[l] \in Nat
<1>1. IsReturnRow(return[r]) /\ DOMAIN return[r].lines \subseteq LinesOf(return[r].purchase)
  BY DEF ReturnsOK
<1>2. IsFiniteSet(DOMAIN return[r].lines)
  BY <1>1, LinesOfAreLines, FS_Subset
<1>3. DOMAIN return[r].lines \subseteq LinesIn(receipts)
  BY <1>1, LinesOfAreLines
<1> QED BY <1>1, <1>2, <1>3, ReturnRowFacts

-----------------------------------------------------------------------------
(* What the steps do to purchases, receipts and returns.                   *)

LEMMA ProcurementCases ==
    ASSUME [Next]_vars
    PROVE  \/ \E a \in Actors, p \in Purchases,
                 lines \in Chosen(Variants, [ordered : Quantities, cost : 0 .. MaxCost]) :
                  CreatePurchaseDraft(a, p, lines)
           \/ \E a \in Actors, p \in Purchases : ApprovePurchase(a, p)
           \/ \E a \in Actors, p \in Purchases : CancelPurchase(a, p)
           \/ \E p \in Purchases, k \in ReceiptKeys : ReplayReceipt(p, k)
           \/ \E p \in Purchases, quantities \in Chosen(Variants, Quantities), k \in ReceiptKeys :
                  CreateReceipt(p, quantities, k)
           \/ \E r \in Returns, p \in Purchases : \E lines \in Chosen(LinesOf(p), Quantities) :
                  SaveReturnDraft(r, p, lines)
           \/ \E a \in Actors, r \in Returns : CancelPurchaseReturn(a, r)
           \/ \E r \in Returns, k \in ReturnKeys : ReplayReturnKey(k, "RETURN", r)
           \/ \E r \in Returns, k \in ReturnKeys : CreateReturnPosting(r, k)
           \/ \E r \in Returns, k \in ReturnKeys : ReplayReturnKey(k, "REVERSAL", r)
           \/ \E r \in Returns, k \in ReturnKeys : CreateReturnReversal(r, k)
           \/ \E v \in Variants, is \in BOOLEAN : SetActive(v, is)
           \/ Freeze
           \/ \E v \in Variants, quantity \in Quantities : Sell(v, quantity)
           \/ UNCHANGED procurementVars
<1>1. ASSUME NEW a \in Actors, NEW x, NEW k, NEW op, NEW delta, ReverseEvidence(x, k, op, delta)
      PROVE  UNCHANGED procurementVars
  BY <1>1 DEF ReverseEvidence
<1>2. ASSUME NEW a \in Actors, NEW p \in Purchases, NEW amount, NEW method, NEW k,
             PostSupplierPayment(a, p, amount, method, k)
      PROVE  UNCHANGED procurementVars
  BY <1>2 DEF PostSupplierPayment, ReplayPayment, CreatePayment
<1>3. ASSUME NEW a \in Actors, NEW r \in Returns, NEW type, NEW amount, NEW method, NEW k,
             PostSupplierReturnSettlement(a, r, type, amount, method, k)
      PROVE  UNCHANGED procurementVars
  <2>1. ReplaySettlement(r, type, amount, method, k) => UNCHANGED procurementVars
    BY DEF ReplaySettlement
  <2>2. CreateSettlement(r, type, amount, method, k) => UNCHANGED procurementVars
    BY DEF CreateSettlement
  <2> QED BY <1>3, <2>1, <2>2 DEF PostSupplierReturnSettlement
<1>4. ASSUME NEW a \in Actors, NEW x, NEW k,
             ReverseSupplierPayment(a, x, k) \/ ReverseSupplierReturnSettlement(a, x, k)
      PROVE  UNCHANGED procurementVars
  BY <1>1, <1>4 DEF ReverseSupplierPayment, ReverseSupplierReturnSettlement
<1>5. (\E float \in 0 .. MaxFloat : OpenDrawer(float)) \/ CloseOrReopenDrawer
          => UNCHANGED procurementVars
  BY DEF OpenDrawer, CloseOrReopenDrawer
<1>6. CASE ProcurementNext
  <2>1. ASSUME NEW p \in Purchases, NEW quantities, NEW k, ReceivePurchase(p, quantities, k)
        PROVE  ReplayReceipt(p, k) \/ CreateReceipt(p, quantities, k)
    BY <2>1 DEF ReceivePurchase
  <2>2. ASSUME NEW a \in Actors, NEW r \in Returns, NEW k \in ReturnKeys,
               PostPurchaseReturn(a, r, k) \/ ReversePurchaseReturn(a, r, k)
        PROVE  \/ ReplayReturnKey(k, "RETURN", r) \/ CreateReturnPosting(r, k)
               \/ ReplayReturnKey(k, "REVERSAL", r) \/ CreateReturnReversal(r, k)
    BY <2>2 DEF PostPurchaseReturn, ReversePurchaseReturn
  <2> QED BY <1>6, <2>1, <2>2 DEF ProcurementNext
<1>7. UNCHANGED vars => UNCHANGED procurementVars
  BY DEF vars
<1> QED BY <1>2, <1>3, <1>4, <1>5, <1>6, <1>7 DEF Next

LEMMA PurchaseSet ==
    ASSUME PurchasesOK, NEW p \in Purchases, NEW x \in PurchaseRow,
           purchase' = [purchase EXCEPT ![p] = x]
    PROVE  PurchasesOK' /\ purchase'[p] = x /\ \A q \in Purchases : q # p => purchase'[q] = purchase[q]
BY DEF PurchasesOK

LEMMA PurchaseStatusSet ==
    ASSUME PurchasesOK, NEW p \in Purchases, purchase[p] # Absent,
           NEW status \in Unreceived \cup {"PARTIALLY_RECEIVED", "RECEIVED"},
           SetPurchaseStatus(p, status)
    PROVE  /\ PurchasesOK'
           /\ purchase'[p] \in PurchaseRow
           /\ purchase'[p].lines = purchase[p].lines /\ purchase'[p].status = status
           /\ \A q \in Purchases : q # p => purchase'[q] = purchase[q]
<1> DEFINE x == [purchase[p] EXCEPT !.status = status]
<1>1. purchase[p] \in PurchaseRow
  BY DEF PurchasesOK
<1>2. x \in PurchaseRow /\ x.lines = purchase[p].lines /\ x.status = status
  BY <1>1 DEF PurchaseRow
<1>3. purchase' = [purchase EXCEPT ![p] = x]
  BY DEF SetPurchaseStatus, PurchasesOK
<1> HIDE DEF x
<1> QED BY <1>2, <1>3, PurchaseSet

\* Where a purchase changes without a receipt, nothing was received of it.
UnreceivedStep(p) ==
    /\ purchase[p] = Absent \/ purchase[p].status \in {"DRAFT", "APPROVED"}
    /\ purchase'[p].status \in Unreceived
    /\ purchase'[p].status = "CANCELLED" => Unpaid(p)
    /\ purchase[p] # Absent => purchase'[p].lines = purchase[p].lines

LEMMA PurchaseSteps ==
    ASSUME PurchasesOK, [Next]_vars
    PROVE  /\ PurchasesOK'
           /\ \A p \in Purchases : purchase[p] # Absent =>
                  purchase'[p] # Absent /\ purchase'[p].lines = purchase[p].lines
           /\ \A p \in Purchases :
                  \/ purchase'[p] = purchase[p]
                  \/ UnreceivedStep(p) /\ receipts' = receipts
                  \/ \E quantities \in Chosen(Variants, Quantities), k \in ReceiptKeys :
                         CreateReceipt(p, quantities, k)
<1> DEFINE Kept == \A p \in Purchases : purchase[p] # Absent =>
                       purchase'[p] # Absent /\ purchase'[p].lines = purchase[p].lines
           Moved == \A p \in Purchases :
                       \/ purchase'[p] = purchase[p]
                       \/ UnreceivedStep(p) /\ receipts' = receipts
                       \/ \E quantities \in Chosen(Variants, Quantities), k \in ReceiptKeys :
                              CreateReceipt(p, quantities, k)
<1>1. ASSUME NEW a \in Actors, NEW p \in Purchases,
             NEW lines \in Chosen(Variants, [ordered : Quantities, cost : 0 .. MaxCost]),
             CreatePurchaseDraft(a, p, lines)
      PROVE  PurchasesOK' /\ Kept /\ Moved
  <2> DEFINE x == [status |-> "DRAFT", lines |-> lines]
  <2>1. purchase' = [purchase EXCEPT ![p] = x] /\ purchase[p] = Absent /\ receipts' = receipts
    BY <1>1 DEF CreatePurchaseDraft
  <2>2. x \in PurchaseRow /\ x.status = "DRAFT"
    BY DEF PurchaseRow, Unreceived
  <2> HIDE DEF x
  <2>3. /\ PurchasesOK' /\ purchase'[p] = x
        /\ \A q \in Purchases : q # p => purchase'[q] = purchase[q]
    BY <2>1, <2>2, PurchaseSet
  <2>4. UnreceivedStep(p)
    BY <2>1, <2>2, <2>3 DEF UnreceivedStep, Unreceived
  <2> QED BY <2>1, <2>3, <2>4
<1>2. ASSUME NEW p \in Purchases, purchase[p].status \in {"DRAFT", "APPROVED"}, receipts' = receipts,
             NEW status \in {"APPROVED", "CANCELLED"}, SetPurchaseStatus(p, status),
             status = "CANCELLED" => Unpaid(p)
      PROVE  PurchasesOK' /\ Kept /\ Moved
  <2>1. purchase[p] # Absent /\ status \in Unreceived
    BY <1>2 DEF Absent, Unreceived
  <2>2. /\ PurchasesOK' /\ purchase'[p] \in PurchaseRow
        /\ purchase'[p].lines = purchase[p].lines /\ purchase'[p].status = status
        /\ \A q \in Purchases : q # p => purchase'[q] = purchase[q]
    BY <1>2, <2>1, PurchaseStatusSet
  <2>3. UnreceivedStep(p)
    BY <1>2, <2>1, <2>2 DEF UnreceivedStep
  <2>4. purchase'[p] # Absent
    BY <2>2, PurchaseFacts
  <2> QED BY <1>2, <2>2, <2>3, <2>4
<1>3. ASSUME NEW a \in Actors, NEW p \in Purchases, ApprovePurchase(a, p) \/ CancelPurchase(a, p)
      PROVE  PurchasesOK' /\ Kept /\ Moved
  BY <1>2, <1>3 DEF ApprovePurchase, CancelPurchase
<1>4. ASSUME NEW p \in Purchases, NEW quantities \in Chosen(Variants, Quantities),
             NEW k \in ReceiptKeys, CreateReceipt(p, quantities, k)
      PROVE  PurchasesOK' /\ Kept /\ Moved
  <2>1. purchase[p] # Absent
    BY <1>4 DEF CreateReceipt, Absent
  <2>2. PICK status \in {"RECEIVED", "PARTIALLY_RECEIVED"} : SetPurchaseStatus(p, status)
    BY <1>4 DEF CreateReceipt
  <2>3. /\ PurchasesOK' /\ purchase'[p] \in PurchaseRow
        /\ purchase'[p].lines = purchase[p].lines /\ purchase'[p].status = status
        /\ \A q \in Purchases : q # p => purchase'[q] = purchase[q]
    BY <2>1, <2>2, PurchaseStatusSet
  <2>4. purchase'[p] # Absent
    BY <2>3, PurchaseFacts
  <2> QED BY <1>4, <2>3, <2>4
<1>5. purchase' = purchase => PurchasesOK' /\ Kept /\ Moved
  BY DEF PurchasesOK
<1>6. \/ \E a \in Actors, p \in Purchases,
            lines \in Chosen(Variants, [ordered : Quantities, cost : 0 .. MaxCost]) :
             CreatePurchaseDraft(a, p, lines)
      \/ \E a \in Actors, p \in Purchases : ApprovePurchase(a, p) \/ CancelPurchase(a, p)
      \/ \E p \in Purchases, quantities \in Chosen(Variants, Quantities), k \in ReceiptKeys :
             CreateReceipt(p, quantities, k)
      \/ purchase' = purchase
  <2>1. \A p, k : ReplayReceipt(p, k) => purchase' = purchase
    BY DEF ReplayReceipt, procurementVars
  <2>2. \A r, p, lines : SaveReturnDraft(r, p, lines) => purchase' = purchase
    BY DEF SaveReturnDraft
  <2>3. \A a, r : CancelPurchaseReturn(a, r) => purchase' = purchase
    BY DEF CancelPurchaseReturn
  <2>4. \A r, k, op : ReplayReturnKey(k, op, r) => purchase' = purchase
    BY DEF ReplayReturnKey, procurementVars
  <2>5. \A r, k : CreateReturnPosting(r, k) => purchase' = purchase
    BY DEF CreateReturnPosting
  <2>6. \A r, k : CreateReturnReversal(r, k) => purchase' = purchase
    BY DEF CreateReturnReversal
  <2>7. \A v, is, n : SetActive(v, is) \/ Freeze \/ Sell(v, n) => purchase' = purchase
    BY DEF SetActive, Freeze, Sell, documents
  <2>8. UNCHANGED procurementVars => purchase' = purchase
    BY DEF procurementVars
  <2> QED BY ProcurementCases, <2>1, <2>2, <2>3, <2>4, <2>5, <2>6, <2>7, <2>8
<1> QED BY <1>1, <1>3, <1>4, <1>5, <1>6

\* Where a receipt is written.
NewReceipt(p, quantities, k) == [key |-> k, purchase |-> p, lines |-> quantities]

LEMMA ReceiptSteps ==
    ASSUME PurchasesOK, ReceiptsOK, [Next]_vars
    PROVE  /\ ReceiptsOK' /\ receipts \subseteq receipts'
           /\ \/ receipts' = receipts
              \/ \E p \in Purchases, quantities \in Chosen(Variants, Quantities), k \in ReceiptKeys :
                     CreateReceipt(p, quantities, k)
<1>1. \/ \E p \in Purchases, quantities \in Chosen(Variants, Quantities), k \in ReceiptKeys :
             CreateReceipt(p, quantities, k)
      \/ receipts' = receipts
  <2>1. \A a, p, lines : CreatePurchaseDraft(a, p, lines) => receipts' = receipts
    BY DEF CreatePurchaseDraft
  <2>2. \A a, p : ApprovePurchase(a, p) \/ CancelPurchase(a, p) => receipts' = receipts
    BY DEF ApprovePurchase, CancelPurchase
  <2>3. \A p, k : ReplayReceipt(p, k) => receipts' = receipts
    BY DEF ReplayReceipt, procurementVars
  <2>4. \A r, p, lines : SaveReturnDraft(r, p, lines) => receipts' = receipts
    BY DEF SaveReturnDraft
  <2>5. \A a, r : CancelPurchaseReturn(a, r) => receipts' = receipts
    BY DEF CancelPurchaseReturn
  <2>6. \A r, k, op : ReplayReturnKey(k, op, r) => receipts' = receipts
    BY DEF ReplayReturnKey, procurementVars
  <2>7. \A r, k : CreateReturnPosting(r, k) => receipts' = receipts
    BY DEF CreateReturnPosting
  <2>8. \A r, k : CreateReturnReversal(r, k) => receipts' = receipts
    BY DEF CreateReturnReversal
  <2>9. \A v, is, n : SetActive(v, is) \/ Freeze \/ Sell(v, n) => receipts' = receipts
    BY DEF SetActive, Freeze, Sell, documents
  <2>10. UNCHANGED procurementVars => receipts' = receipts
    BY DEF procurementVars
  <2> QED BY ProcurementCases, <2>1, <2>2, <2>3, <2>4, <2>5, <2>6, <2>7, <2>8, <2>9, <2>10
<1>2. \A p \in Purchases : purchase[p] # Absent =>
          purchase'[p] # Absent /\ purchase'[p].lines = purchase[p].lines
  BY PurchaseSteps
<1>3. \A g \in receipts : g.purchase \in Purchases
  BY ReceiptFacts DEF ReceiptsOK
<1>4. \A g \in receipts : /\ purchase'[g.purchase] # Absent
                          /\ DOMAIN g.lines \subseteq DOMAIN purchase'[g.purchase].lines
  BY <1>2, <1>3 DEF ReceiptsOK
<1>5. CASE receipts' = receipts
  BY <1>4, <1>5 DEF ReceiptsOK
<1>6. ASSUME NEW p \in Purchases, NEW quantities \in Chosen(Variants, Quantities),
             NEW k \in ReceiptKeys, CreateReceipt(p, quantities, k)
      PROVE  ReceiptsOK' /\ receipts \subseteq receipts'
  <2> DEFINE g == NewReceipt(p, quantities, k)
  <2>1. /\ receipts' = receipts \cup {g}
        /\ \A h \in receipts : h.key # k
        /\ DOMAIN quantities \subseteq DOMAIN purchase[p].lines
        /\ purchase[p] # Absent
    BY <1>6 DEF CreateReceipt, NewReceipt, Absent
  <2>2. g \in ReceiptRow /\ g.key = k /\ g.purchase = p /\ g.lines = quantities
    BY DEF NewReceipt, ReceiptRow
  <2> HIDE DEF g
  <2>3. IsFiniteSet(receipts \cup {g})
    BY FS_AddElement DEF ReceiptsOK
  <2>4. purchase'[p] # Absent /\ DOMAIN quantities \subseteq DOMAIN purchase'[p].lines
    BY <1>2, <2>1
  <2>5. receipts' \subseteq ReceiptRow /\ IsFiniteSet(receipts')
    BY <2>1, <2>2, <2>3 DEF ReceiptsOK
  <2>6. \A h, j \in receipts' : h.key = j.key => h = j
    BY <2>1, <2>2 DEF ReceiptsOK
  <2>7. \A h \in receipts' : /\ purchase'[h.purchase] # Absent
                             /\ DOMAIN h.lines \subseteq DOMAIN purchase'[h.purchase].lines
    BY <1>4, <2>1, <2>2, <2>4
  <2> QED BY <2>1, <2>5, <2>6, <2>7 DEF ReceiptsOK
<1> QED BY <1>1, <1>5, <1>6

\* A receipt line is where it was, with the quantity and cost it had.
LEMMA LinesStay ==
    ASSUME PurchasesOK, ReceiptsOK, [Next]_vars
    PROVE  /\ \A p : LinesOf(p) \subseteq LinesOf(p)'
           /\ LinesIn(receipts) \subseteq LinesIn(receipts)'
           /\ \A l \in LinesIn(receipts) :
                  ReceiptQuantity(l)' = ReceiptQuantity(l) /\ ReceiptCost(l)' = ReceiptCost(l)
<1>1. receipts \subseteq receipts' /\ ReceiptsOK'
  BY ReceiptSteps
<1>2. \A p : LinesOf(p) \subseteq LinesOf(p)'
  BY <1>1 DEF LinesOf, ReceiptsOf, LinesIn
<1>3. LinesIn(receipts) \subseteq LinesIn(receipts)'
  BY <1>1 DEF LinesIn
<1>4. ASSUME NEW l \in LinesIn(receipts)
      PROVE  ReceiptQuantity(l)' = ReceiptQuantity(l) /\ ReceiptCost(l)' = ReceiptCost(l)
  <2>1. PICK g \in receipts : l[1] = g.key /\ LineOf(l) = g
    <3>1. LineOf(l) \in receipts /\ l = <<LineOf(l).key, l[2]>>
      BY LineFacts
    <3> QED BY <3>1
  <2>2. LineOf(l)' = g
    BY <1>1, <2>1 DEF LineOf, ReceiptsOK
  <2>3. purchase[g.purchase] # Absent /\ g.purchase \in Purchases
    BY ReceiptFacts DEF ReceiptsOK
  <2>4. purchase'[g.purchase].lines = purchase[g.purchase].lines
    BY <2>3, PurchaseSteps
  <2> QED BY <2>1, <2>2, <2>4 DEF ReceiptQuantity, ReceiptCost
<1> QED BY <1>2, <1>3, <1>4

LEMMA ReturnSet ==
    ASSUME ReturnsOK, \A p : LinesOf(p) \subseteq LinesOf(p)',
           NEW r \in Returns, NEW x, IsReturnRow(x), DOMAIN x.lines \subseteq LinesOf(x.purchase),
           return' = [return EXCEPT ![r] = x]
    PROVE  ReturnsOK' /\ return'[r] = x /\ \A s \in Returns : s # r => return'[s] = return[s]
<1>1. /\ DOMAIN return' = Returns /\ return'[r] = x
      /\ \A s \in Returns : s # r => return'[s] = return[s]
  BY DEF ReturnsOK
<1>2. ASSUME NEW s \in Returns, return'[s] # Absent
      PROVE  (IsReturnRow(return[s]) /\ DOMAIN return[s].lines \subseteq LinesOf(return[s].purchase))'
  <2>1. PICK q : q = return'[s].purchase
    OBVIOUS
  <2>2. IsReturnRow(return'[s]) /\ DOMAIN return'[s].lines \subseteq LinesOf(q)
    BY <1>1, <1>2, <2>1 DEF ReturnsOK
  <2>3. DOMAIN return'[s].lines \subseteq LinesOf(q)'
    BY <2>2
  <2>4. DOMAIN return'[s].lines \subseteq LinesOf(return[s].purchase)'
    BY <2>1, <2>3 DEF LinesOf, ReceiptsOf
  <2> QED BY <2>2, <2>4
<1> QED BY <1>1, <1>2 DEF ReturnsOK, Absent

LEMMA StatusRow ==
    ASSUME NEW x, IsReturnRow(x), NEW status,
           \/ x.status = "DRAFT" /\ status = "CANCELLED"
           \/ x.status = "POSTED" /\ status = "REVERSED"
    PROVE  /\ IsReturnRow([x EXCEPT !.status = status])
           /\ [x EXCEPT !.status = status].status = status
           /\ [x EXCEPT !.status = status].lines = x.lines
           /\ x.status = "POSTED" => [x EXCEPT !.status = status].costs = x.costs
           /\ [x EXCEPT !.status = status].purchase = x.purchase
<1> DEFINE y == [x EXCEPT !.status = status]
<1>1. {"status", "purchase", "lines"} \subseteq DOMAIN x
  BY DEF IsReturnRow, ReturnColumns
<1>2. /\ DOMAIN y = DOMAIN x /\ y.status = status /\ y.purchase = x.purchase /\ y.lines = x.lines
  BY <1>1
<1>3. x.status = "POSTED" => y.costs = x.costs /\ y.key = x.key
  BY DEF IsReturnRow, ReturnColumns
<1> HIDE DEF y
<1> QED BY <1>2, <1>3 DEF IsReturnRow, y

LEMMA PostingStep ==
    ASSUME ShelfOK, ReceiptsOK, ReturnsOK, NEW r \in Returns, NEW k \in ReturnKeys,
           CreateReturnPosting(r, k)
    PROVE  /\ stock' \in [Variants -> Balance]
           /\ \A v \in Variants : stock'[v].quantity =
                  stock[v].quantity - Part(return[r].lines, DOMAIN return[r].lines, v)
           /\ \E x : /\ IsReturnRow(x) /\ x.status = "POSTED"
                     /\ x.purchase = return[r].purchase /\ x.lines = return[r].lines
                     /\ return' = [return EXCEPT ![r] = x]
<1>1. return[r].status = "DRAFT" /\ return[r] # Absent
  <2>1. return[r].status = "DRAFT"
    BY DEF CreateReturnPosting
  <2> QED BY <2>1 DEF Absent
<1> DEFINE lines == return[r].lines
           S == DOMAIN lines
           done == Taking(lines, [stock |-> stock, costs |-> <<>>], S)
           x == [status |-> "POSTED", purchase |-> return[r].purchase, lines |-> lines,
                 key |-> k, costs |-> done.costs]
<1>2. /\ \A v \in Variants : Leaves(stock[v], Part(lines, S, v))
      /\ stock' = done.stock
      /\ return' = [return EXCEPT ![r] = x]
  BY DEF CreateReturnPosting, Taking, Part
<1>3. /\ IsFiniteSet(S) /\ S \subseteq ReceiptLines
      /\ \A l \in S : lines[l] \in Nat \ {0}
      /\ IsReturnRow(return[r])
  BY <1>1, ReturnFacts
<1>4. return[r].purchase \in Purchases /\ lines \in Chosen(ReceiptLines, Quantities)
  BY <1>3 DEF IsReturnRow
<1> HIDE DEF lines, S, done
<1>5. \A v \in Variants : Part(lines, S, v) <= stock[v].quantity
  BY <1>2 DEF Leaves
<1>6. stock \in [Variants -> Balance]
  BY DEF ShelfOK
<1>7. /\ done.stock \in [Variants -> Balance]
      /\ \A v \in Variants : done.stock[v].quantity = stock[v].quantity - Part(lines, S, v)
      /\ \A l \in S : done.costs[l] \in Nat
  BY <1>3, <1>5, <1>6, TakingLines DEF done
<1>8. /\ x.status = "POSTED" /\ x.purchase = return[r].purchase /\ x.lines = lines /\ x.key = k
      /\ x.costs = done.costs /\ DOMAIN x = ReturnColumns
  BY DEF ReturnColumns
<1> HIDE DEF x
<1>9. IsReturnRow(x)
  BY <1>4, <1>7, <1>8 DEF IsReturnRow, S
<1> QED BY <1>2, <1>7, <1>8, <1>9 DEF lines, S

LEMMA ReversalStep ==
    ASSUME ShelfOK, ReceiptsOK, ReturnsOK, NEW r \in Returns, NEW k, CreateReturnReversal(r, k)
    PROVE  /\ stock' \in [Variants -> Balance]
           /\ \A v \in Variants : stock'[v].quantity =
                  stock[v].quantity + Part(return[r].lines, DOMAIN return[r].lines, v)
           /\ \E x : /\ IsReturnRow(x) /\ x.status = "REVERSED"
                     /\ x.purchase = return[r].purchase /\ x.lines = return[r].lines
                     /\ return' = [return EXCEPT ![r] = x]
<1>1. return[r].status = "POSTED" /\ return[r] # Absent
  <2>1. return[r].status = "POSTED"
    BY DEF CreateReturnReversal, Reversible
  <2> QED BY <2>1 DEF Absent
<1> DEFINE row == return[r]
           S == DOMAIN row.lines
           x == [row EXCEPT !.status = "REVERSED"]
<1>2. /\ stock' = PuttingBack(row, stock, S)
      /\ return' = [return EXCEPT ![r] = x]
  <2>1. stock' = PuttingBack(row, stock, S)
    BY DEF CreateReturnReversal, PuttingBack
  <2>2. return' = [return EXCEPT ![r] = x]
    BY DEF CreateReturnReversal, ReturnsOK
  <2> QED BY <2>1, <2>2
<1>3. /\ IsFiniteSet(S) /\ S \subseteq ReceiptLines
      /\ \A l \in S : row.lines[l] \in Nat \ {0} /\ row.costs[l] \in Nat
      /\ IsReturnRow(row)
  BY <1>1, ReturnFacts
<1>4. stock \in [Variants -> Balance]
  BY DEF ShelfOK
<1>5. IsReturnRow(x) /\ x.status = "REVERSED" /\ x.purchase = row.purchase /\ x.lines = row.lines
  BY <1>1, <1>3, StatusRow
<1> HIDE DEF row, S, x
<1>6. /\ PuttingBack(row, stock, S) \in [Variants -> Balance]
      /\ \A v \in Variants : PuttingBack(row, stock, S)[v].quantity
                                 = stock[v].quantity + Part(row.lines, S, v)
  BY <1>3, <1>4, PuttingBackLines
<1> QED BY <1>2, <1>5, <1>6 DEF row, S

\* How a return moves: a draft is edited or cancelled, posted, or reversed.
Redrafted(r) ==
    /\ return[r] = Absent \/ return[r].status = "DRAFT"
    /\ return'[r].status \in {"DRAFT", "CANCELLED"}
    /\ return[r] # Absent => return'[r].purchase = return[r].purchase
Posts(r) ==
    /\ \E k \in ReturnKeys : CreateReturnPosting(r, k)
    /\ return[r].status = "DRAFT" /\ return'[r].status = "POSTED"
    /\ return'[r].purchase = return[r].purchase /\ return'[r].lines = return[r].lines
Reverses(r) ==
    /\ \E k \in ReturnKeys : CreateReturnReversal(r, k)
    /\ return[r].status = "POSTED" /\ return'[r].status = "REVERSED"
    /\ return'[r].purchase = return[r].purchase /\ return'[r].lines = return[r].lines
Elsewhere(r) == \A s \in Returns : s # r => return'[s] = return[s]

LEMMA ReturnMoves ==
    ASSUME ShelfOK, PurchasesOK, ReceiptsOK, ReturnsOK, [Next]_vars
    PROVE  /\ \A r \in Returns, p \in Purchases : \A lines \in Chosen(LinesOf(p), Quantities) :
                  SaveReturnDraft(r, p, lines) => ReturnsOK' /\ Elsewhere(r) /\ Redrafted(r)
           /\ \A a \in Actors, r \in Returns :
                  CancelPurchaseReturn(a, r) => ReturnsOK' /\ Elsewhere(r) /\ Redrafted(r)
           /\ \A r \in Returns, k \in ReturnKeys :
                  CreateReturnPosting(r, k) => ReturnsOK' /\ Elsewhere(r) /\ Posts(r)
           /\ \A r \in Returns, k \in ReturnKeys :
                  CreateReturnReversal(r, k) => ReturnsOK' /\ Elsewhere(r) /\ Reverses(r)
<1>1. \A p : LinesOf(p) \subseteq LinesOf(p)'
  BY LinesStay
<1>2. ASSUME NEW r \in Returns, NEW p \in Purchases, NEW lines \in Chosen(LinesOf(p), Quantities),
             SaveReturnDraft(r, p, lines)
      PROVE  ReturnsOK' /\ Elsewhere(r) /\ Redrafted(r)
  <2> DEFINE x == [status |-> "DRAFT", purchase |-> p, lines |-> lines]
  <2>1. /\ return' = [return EXCEPT ![r] = x]
        /\ return[r] = Absent \/ (return[r].status = "DRAFT" /\ return[r].purchase = p)
    BY <1>2 DEF SaveReturnDraft
  <2>2. DOMAIN lines \subseteq LinesOf(p) /\ LinesOf(p) \subseteq ReceiptLines
    BY LinesOfAreLines, ChosenFacts
  <2>3. lines \in Chosen(ReceiptLines, Quantities)
    BY <2>2 DEF Chosen
  <2>4. x.status = "DRAFT" /\ x.purchase = p /\ x.lines = lines /\ DOMAIN x = ReturnColumns \ {"key", "costs"}
    BY DEF ReturnColumns
  <2> HIDE DEF x
  <2>5. IsReturnRow(x) /\ DOMAIN x.lines \subseteq LinesOf(x.purchase)
    BY <2>2, <2>3, <2>4 DEF IsReturnRow
  <2>6. ReturnsOK' /\ return'[r] = x /\ \A s \in Returns : s # r => return'[s] = return[s]
    BY <1>1, <2>1, <2>5, ReturnSet
  <2> QED BY <2>1, <2>4, <2>6 DEF Elsewhere, Redrafted
<1>3. ASSUME NEW a \in Actors, NEW r \in Returns, CancelPurchaseReturn(a, r)
      PROVE  ReturnsOK' /\ Elsewhere(r) /\ Redrafted(r)
  <2> DEFINE x == [return[r] EXCEPT !.status = "CANCELLED"]
  <2>1. return' = [return EXCEPT ![r] = x] /\ return[r].status = "DRAFT" /\ return[r] # Absent
    BY <1>3 DEF CancelPurchaseReturn, ReturnsOK, Absent
  <2>2. IsReturnRow(return[r]) /\ DOMAIN return[r].lines \subseteq LinesOf(return[r].purchase)
    BY <2>1 DEF ReturnsOK
  <2>3. IsReturnRow(x) /\ x.status = "CANCELLED" /\ x.lines = return[r].lines
          /\ x.purchase = return[r].purchase
    BY <2>1, <2>2, StatusRow
  <2> HIDE DEF x
  <2>4. DOMAIN x.lines \subseteq LinesOf(x.purchase)
    BY <2>2, <2>3
  <2>5. ReturnsOK' /\ return'[r] = x /\ \A s \in Returns : s # r => return'[s] = return[s]
    BY <1>1, <2>1, <2>3, <2>4, ReturnSet
  <2> QED BY <2>1, <2>3, <2>5 DEF Elsewhere, Redrafted
<1>4. ASSUME NEW r \in Returns, NEW k \in ReturnKeys, CreateReturnPosting(r, k)
      PROVE  ReturnsOK' /\ Elsewhere(r) /\ Posts(r)
  <2>1. PICK x : /\ IsReturnRow(x) /\ x.status = "POSTED"
                 /\ x.purchase = return[r].purchase /\ x.lines = return[r].lines
                 /\ return' = [return EXCEPT ![r] = x]
    BY <1>4, PostingStep
  <2>2. return[r].status = "DRAFT" /\ return[r] # Absent
    <3>1. return[r].status = "DRAFT"
      BY <1>4 DEF CreateReturnPosting
    <3> QED BY <3>1 DEF Absent
  <2>3. DOMAIN x.lines \subseteq LinesOf(x.purchase)
    BY <2>1, <2>2 DEF ReturnsOK
  <2>4. ReturnsOK' /\ return'[r] = x /\ \A s \in Returns : s # r => return'[s] = return[s]
    BY <1>1, <2>1, <2>3, ReturnSet
  <2> QED BY <1>4, <2>1, <2>2, <2>4 DEF Elsewhere, Posts
<1>5. ASSUME NEW r \in Returns, NEW k \in ReturnKeys, CreateReturnReversal(r, k)
      PROVE  ReturnsOK' /\ Elsewhere(r) /\ Reverses(r)
  <2>1. PICK x : /\ IsReturnRow(x) /\ x.status = "REVERSED"
                 /\ x.purchase = return[r].purchase /\ x.lines = return[r].lines
                 /\ return' = [return EXCEPT ![r] = x]
    BY <1>5, ReversalStep
  <2>2. return[r].status = "POSTED" /\ return[r] # Absent
    <3>1. return[r].status = "POSTED"
      BY <1>5 DEF CreateReturnReversal, Reversible
    <3> QED BY <3>1 DEF Absent
  <2>3. DOMAIN x.lines \subseteq LinesOf(x.purchase)
    BY <2>1, <2>2 DEF ReturnsOK
  <2>4. ReturnsOK' /\ return'[r] = x /\ \A s \in Returns : s # r => return'[s] = return[s]
    BY <1>1, <2>1, <2>3, ReturnSet
  <2> QED BY <1>5, <2>1, <2>2, <2>4 DEF Elsewhere, Reverses
<1> QED BY <1>2, <1>3, <1>4, <1>5

LEMMA ReturnSteps ==
    ASSUME ShelfOK, PurchasesOK, ReceiptsOK, ReturnsOK, [Next]_vars
    PROVE  /\ ReturnsOK'
           /\ \/ return' = return
              \/ \E r \in Returns : Elsewhere(r) /\ (Redrafted(r) \/ Posts(r) \/ Reverses(r))
<1>1. \A p : LinesOf(p) \subseteq LinesOf(p)'
  BY LinesStay
<1>2. CASE return' = return
  <2> SUFFICES ASSUME NEW r \in Returns, return[r] # Absent
               PROVE  DOMAIN return[r].lines \subseteq LinesOf(return[r].purchase)'
    BY <1>2 DEF ReturnsOK, Absent, LinesOf, ReceiptsOf
  <2>1. DOMAIN return[r].lines \subseteq LinesOf(return[r].purchase)
    BY DEF ReturnsOK
  <2>2. PICK q : q = return[r].purchase
    OBVIOUS
  <2>3. DOMAIN return[r].lines \subseteq LinesOf(q)'
    BY <1>1, <2>1, <2>2
  <2> QED BY <1>2, <2>2, <2>3 DEF LinesOf, ReceiptsOf
<1>3. \/ \E r \in Returns, p \in Purchases : \E lines \in Chosen(LinesOf(p), Quantities) :
             SaveReturnDraft(r, p, lines)
      \/ \E a \in Actors, r \in Returns : CancelPurchaseReturn(a, r)
      \/ \E r \in Returns, k \in ReturnKeys : CreateReturnPosting(r, k)
      \/ \E r \in Returns, k \in ReturnKeys : CreateReturnReversal(r, k)
      \/ return' = return
  <2>1. \A a, p, lines : CreatePurchaseDraft(a, p, lines) => return' = return
    BY DEF CreatePurchaseDraft
  <2>2. \A a, p : ApprovePurchase(a, p) \/ CancelPurchase(a, p) => return' = return
    BY DEF ApprovePurchase, CancelPurchase
  <2>3. \A p, k : ReplayReceipt(p, k) => return' = return
    BY DEF ReplayReceipt, procurementVars
  <2>4. \A p, quantities, k : CreateReceipt(p, quantities, k) => return' = return
    BY DEF CreateReceipt
  <2>5. \A r, k, op : ReplayReturnKey(k, op, r) => return' = return
    BY DEF ReplayReturnKey, procurementVars
  <2>6. \A v, is, n : SetActive(v, is) \/ Freeze \/ Sell(v, n) => return' = return
    BY DEF SetActive, Freeze, Sell, documents
  <2>7. UNCHANGED procurementVars => return' = return
    BY DEF procurementVars
  <2> QED BY ProcurementCases, <2>1, <2>2, <2>3, <2>4, <2>5, <2>6, <2>7
<1> QED BY <1>2, <1>3, ReturnMoves

-----------------------------------------------------------------------------
(* What the steps do to the shelf.                                         *)

Arrives(p, quantities, k) ==
    /\ CreateReceipt(p, quantities, k)
    /\ receipts' = receipts \cup {NewReceipt(p, quantities, k)}
    /\ return' = return /\ taken' = taken
    /\ \A v \in Variants : stock'[v].quantity =
           stock[v].quantity + (IF v \in DOMAIN quantities THEN quantities[v] ELSE 0)
SendsBack(r) ==
    /\ Elsewhere(r) /\ Posts(r)
    /\ receipts' = receipts /\ taken' = taken
    /\ \A v \in Variants : stock'[v].quantity =
           stock[v].quantity - Part(return[r].lines, DOMAIN return[r].lines, v)
TakesBack(r) ==
    /\ Elsewhere(r) /\ Reverses(r)
    /\ receipts' = receipts /\ taken' = taken
    /\ \A v \in Variants : stock'[v].quantity =
           stock[v].quantity + Part(return[r].lines, DOMAIN return[r].lines, v)
Sells(v, n) ==
    /\ receipts' = receipts /\ return' = return
    /\ stock'[v].quantity = stock[v].quantity - n /\ taken'[v] = taken[v] + n
    /\ \A w \in Variants \ {v} : stock'[w] = stock[w] /\ taken'[w] = taken[w]
Rests ==
    /\ receipts' = receipts /\ stock' = stock /\ taken' = taken
    /\ return' = return \/ \E r \in Returns : Elsewhere(r) /\ Redrafted(r)

LEMMA SetActiveShelf ==
    ASSUME ShelfOK, stock' = stock, frozen' = frozen, taken' = taken,
           NEW v \in Variants, NEW is \in BOOLEAN, SetActive(v, is)
    PROVE  ShelfOK'
BY DEF SetActive, ShelfOK

LEMMA ReceiptShelf ==
    ASSUME ShelfOK, PurchasesOK, NEW p \in Purchases,
           NEW quantities \in Chosen(Variants, Quantities), NEW k \in ReceiptKeys,
           CreateReceipt(p, quantities, k)
    PROVE  ShelfOK' /\ Arrives(p, quantities, k)
<1> DEFINE lines == purchase[p].lines
<1>1. /\ DOMAIN quantities \subseteq DOMAIN lines
      /\ receipts' = receipts \cup {NewReceipt(p, quantities, k)}
      /\ stock' = [v \in Variants |->
             IF v \in DOMAIN quantities THEN Inbound(stock[v], quantities[v], lines[v].cost)
                                        ELSE stock[v]]
      /\ active' = active /\ frozen' = frozen /\ taken' = taken /\ return' = return
      /\ purchase[p] # Absent
  BY DEF CreateReceipt, NewReceipt, Absent
<1>2. /\ DOMAIN quantities \subseteq Variants
      /\ \A v \in DOMAIN quantities : quantities[v] \in Nat \ {0}
  BY ChosenFacts, QuantitiesArePositive
<1>3. \A v \in DOMAIN lines : lines[v].cost \in Nat
  BY <1>1, PurchaseFacts DEF PurchasesOK
<1>4. \A v \in Variants : stock[v] \in Balance /\ stock[v].quantity \in Nat
  BY DEF ShelfOK, Balance
<1> HIDE DEF lines
<1>5. ASSUME NEW v \in DOMAIN quantities
      PROVE  /\ Inbound(stock[v], quantities[v], lines[v].cost) \in Balance
             /\ Inbound(stock[v], quantities[v], lines[v].cost).quantity
                    = stock[v].quantity + quantities[v]
  <2>1. v \in Variants /\ v \in DOMAIN lines
    BY <1>1, <1>2
  <2> QED BY <1>2, <1>3, <1>4, <2>1, InboundBalance
<1>6. stock' \in [Variants -> Balance]
  BY <1>1, <1>4, <1>5
<1>7. \A v \in Variants : stock'[v].quantity =
          stock[v].quantity + (IF v \in DOMAIN quantities THEN quantities[v] ELSE 0)
  BY <1>1, <1>4, <1>5
<1> QED BY <1>1, <1>6, <1>7 DEF ShelfOK, Arrives

LEMMA SellShelf ==
    ASSUME ShelfOK, NEW v \in Variants, NEW n \in Quantities, Sell(v, n)
    PROVE  ShelfOK' /\ Sells(v, n)
<1>1. /\ Leaves(stock[v], n)
      /\ stock' = [stock EXCEPT ![v] = Outbound(stock[v], n)]
      /\ taken' = [taken EXCEPT ![v] = taken[v] + n]
      /\ active' = active /\ frozen' = frozen /\ receipts' = receipts /\ return' = return
  BY DEF Sell, documents, ShelfOK
<1>2. n \in Nat \ {0} /\ stock[v] \in Balance /\ taken[v] \in Nat
  BY QuantitiesArePositive DEF ShelfOK
<1>3. Outbound(stock[v], n) \in Balance /\ Outbound(stock[v], n).quantity = stock[v].quantity - n
  BY <1>1, <1>2, OutboundBalance
<1>4. stock' \in [Variants -> Balance] /\ taken' \in [Variants -> Nat]
  BY <1>1, <1>2, <1>3 DEF ShelfOK
<1>5. stock'[v].quantity = stock[v].quantity - n /\ taken'[v] = taken[v] + n
  BY <1>1, <1>3 DEF ShelfOK
<1>6. \A w \in Variants \ {v} : stock'[w] = stock[w] /\ taken'[w] = taken[w]
  BY <1>1 DEF ShelfOK
<1> QED BY <1>1, <1>4, <1>5, <1>6 DEF ShelfOK, Sells

LEMMA ShelfSteps ==
    ASSUME ShelfOK, PurchasesOK, ReceiptsOK, ReturnsOK, [Next]_vars
    PROVE  /\ ShelfOK'
           /\ \/ Rests
              \/ \E p \in Purchases, quantities \in Chosen(Variants, Quantities), k \in ReceiptKeys :
                     Arrives(p, quantities, k)
              \/ \E r \in Returns : SendsBack(r)
              \/ \E r \in Returns : TakesBack(r)
              \/ \E v \in Variants, n \in Quantities : Sells(v, n)
<1> DEFINE Same == active' = active /\ stock' = stock /\ frozen' = frozen /\ taken' = taken
           Kept == Same /\ receipts' = receipts /\ return' = return
<1> USE DEF branchVars
<1>1. \A a, p, lines : CreatePurchaseDraft(a, p, lines) => Kept
  BY DEF CreatePurchaseDraft
<1>2. \A a, p : ApprovePurchase(a, p) \/ CancelPurchase(a, p) => Kept
  BY DEF ApprovePurchase, CancelPurchase
<1>3. \A p, k : ReplayReceipt(p, k) => Kept
  BY DEF ReplayReceipt, procurementVars
<1>4. \A r, k, op : ReplayReturnKey(k, op, r) => Kept
  BY DEF ReplayReturnKey, procurementVars
<1>5. \A r, p, lines : SaveReturnDraft(r, p, lines) => Same /\ receipts' = receipts
  BY DEF SaveReturnDraft
<1>6. \A a, r : CancelPurchaseReturn(a, r) => Same /\ receipts' = receipts
  BY DEF CancelPurchaseReturn
<1>7. UNCHANGED procurementVars => Kept
  BY DEF procurementVars
<1>8. \A v, is : SetActive(v, is) =>
          /\ stock' = stock /\ frozen' = frozen /\ taken' = taken
          /\ receipts' = receipts /\ return' = return
  BY DEF SetActive, documents
<1>9. Freeze => /\ active' = active /\ stock' = stock /\ taken' = taken /\ frozen' \in BOOLEAN
                /\ receipts' = receipts /\ return' = return
  BY DEF Freeze, documents
<1>10. Kept => ShelfOK' /\ Rests
  BY DEF ShelfOK, Rests
<1>11. ASSUME NEW r \in Returns, Same, receipts' = receipts, Elsewhere(r), Redrafted(r)
       PROVE  ShelfOK' /\ Rests
  BY <1>11 DEF ShelfOK, Rests
<1>12. ASSUME NEW r \in Returns, NEW p \in Purchases, NEW lines \in Chosen(LinesOf(p), Quantities),
              SaveReturnDraft(r, p, lines)
       PROVE  ShelfOK' /\ Rests
  BY <1>5, <1>11, <1>12, ReturnMoves
<1>13. ASSUME NEW a \in Actors, NEW r \in Returns, CancelPurchaseReturn(a, r)
       PROVE  ShelfOK' /\ Rests
  BY <1>6, <1>11, <1>13, ReturnMoves
<1>14. ASSUME NEW r \in Returns, NEW k \in ReturnKeys, CreateReturnPosting(r, k)
       PROVE  ShelfOK' /\ SendsBack(r)
  <2>1. /\ active' = active /\ frozen' = frozen /\ taken' = taken /\ receipts' = receipts
    BY <1>14 DEF CreateReturnPosting
  <2>2. /\ stock' \in [Variants -> Balance]
        /\ \A v \in Variants : stock'[v].quantity =
               stock[v].quantity - Part(return[r].lines, DOMAIN return[r].lines, v)
    BY <1>14, PostingStep
  <2>3. Elsewhere(r) /\ Posts(r)
    BY <1>14, ReturnMoves
  <2> QED BY <2>1, <2>2, <2>3 DEF ShelfOK, SendsBack
<1>15. ASSUME NEW r \in Returns, NEW k \in ReturnKeys, CreateReturnReversal(r, k)
       PROVE  ShelfOK' /\ TakesBack(r)
  <2>1. /\ active' = active /\ frozen' = frozen /\ taken' = taken /\ receipts' = receipts
    BY <1>15 DEF CreateReturnReversal
  <2>2. /\ stock' \in [Variants -> Balance]
        /\ \A v \in Variants : stock'[v].quantity =
               stock[v].quantity + Part(return[r].lines, DOMAIN return[r].lines, v)
    BY <1>15, ReversalStep
  <2>3. Elsewhere(r) /\ Reverses(r)
    BY <1>15, ReturnMoves
  <2> QED BY <2>1, <2>2, <2>3 DEF ShelfOK, TakesBack
<1>16. ASSUME NEW v \in Variants, NEW is \in BOOLEAN, SetActive(v, is)
       PROVE  ShelfOK' /\ Rests
  BY <1>8, <1>16, SetActiveShelf DEF Rests
<1>17. Freeze => ShelfOK' /\ Rests
  BY <1>9 DEF ShelfOK, Rests
<1> HIDE DEF Kept, Same
<1> QED
  BY ProcurementCases, <1>1, <1>2, <1>3, <1>4, <1>7, <1>10, <1>12, <1>13, <1>14, <1>15, <1>16,
     <1>17, ReceiptShelf, SellShelf

-----------------------------------------------------------------------------
(* What receipts bring and what posted returns send back.                  *)

LEMMA BroughtIsNat ==
    ASSUME NEW R, R \subseteq ReceiptRow, IsFiniteSet(R), NEW v
    PROVE  /\ Brought(R, v) \in Nat
           /\ IntegerSum([g \in {g \in R : v \in DOMAIN g.lines} |-> g.lines[v]])
<1> DEFINE D == {g \in R : v \in DOMAIN g.lines}
           f == [g \in D |-> g.lines[v]]
<1>1. IsFiniteSet(D)
  BY FS_Subset
<1>2. \A g \in D : g.lines[v] \in Nat
  BY ReceiptFacts
<1>3. DOMAIN f = D /\ \A g \in D : f[g] \in Nat
  BY <1>2
<1>4. Brought(R, v) = SumFunction(f)
  BY DEF Brought
<1> HIDE DEF f
<1>5. SumFunction(f) \in Nat
  BY <1>1, <1>3, SumFunctionNat
<1>6. IntegerSum(f)
  BY <1>1, <1>3 DEF IntegerSum
<1> QED BY <1>4, <1>5, <1>6 DEF f

LEMMA BroughtAdd ==
    ASSUME NEW R, R \subseteq ReceiptRow, IsFiniteSet(R), NEW g \in ReceiptRow, g \notin R,
           NEW W, W = R \cup {g}, NEW v
    PROVE  Brought(W, v) = Brought(R, v) + (IF v \in DOMAIN g.lines THEN g.lines[v] ELSE 0)
<1> DEFINE f == [h \in {h \in R : v \in DOMAIN h.lines} |-> h.lines[v]]
           e == [h \in {h \in W : v \in DOMAIN h.lines} |-> h.lines[v]]
<1>1. Brought(R, v) \in Nat /\ IntegerSum(f)
  BY BroughtIsNat
<1>2. Brought(R, v) = SumFunction(f) /\ Brought(W, v) = SumFunction(e)
  BY DEF Brought
<1>3. CASE v \in DOMAIN g.lines
  <2>1. /\ DOMAIN e = DOMAIN f \cup {g} /\ g \notin DOMAIN f
        /\ e[g] = g.lines[v] /\ \A h \in DOMAIN f : e[h] = f[h]
    BY <1>3
  <2>2. e[g] \in Int
    BY <1>3, <2>1, ReceiptFacts
  <2> HIDE DEF e, f
  <2>3. SumFunction(e) = SumFunction(f) + e[g]
    BY <1>1, <2>1, <2>2, SumFunctionAdd
  <2> QED BY <1>2, <1>3, <2>1, <2>3
<1>4. CASE v \notin DOMAIN g.lines
  <2>1. {h \in W : v \in DOMAIN h.lines} = {h \in R : v \in DOMAIN h.lines}
    BY <1>4
  <2>2. e = f
    BY <2>1
  <2> HIDE DEF e, f
  <2> QED BY <1>1, <1>2, <1>4, <2>2
<1> QED BY <1>3, <1>4

\* The quantity of a line among the returns in D.
Among(t, D, l) == SumFunction([r \in {r \in D : l \in DOMAIN t[r].lines} |-> t[r].lines[l]])

LEMMA ReturnedIsAmong == ASSUME NEW l PROVE ReturnedQuantity(l) = Among(return, PostedReturns, l)
BY DEF ReturnedQuantity, ReturnsOf, Among

LEMMA AmongIsNat ==
    ASSUME NEW D, IsFiniteSet(D), NEW t,
           \A r \in D : \A m \in DOMAIN t[r].lines : t[r].lines[m] \in Nat, NEW l
    PROVE  /\ Among(t, D, l) \in Nat
           /\ IntegerSum([r \in {r \in D : l \in DOMAIN t[r].lines} |-> t[r].lines[l]])
<1> DEFINE E == {r \in D : l \in DOMAIN t[r].lines}
           f == [r \in E |-> t[r].lines[l]]
<1>1. IsFiniteSet(E)
  BY FS_Subset
<1>2. DOMAIN f = E /\ \A r \in E : f[r] \in Nat
  OBVIOUS
<1>3. Among(t, D, l) = SumFunction(f)
  BY DEF Among
<1> HIDE DEF f
<1>4. SumFunction(f) \in Nat
  BY <1>1, <1>2, SumFunctionNat
<1>5. IntegerSum(f)
  BY <1>1, <1>2 DEF IntegerSum
<1> QED BY <1>3, <1>4, <1>5 DEF f

LEMMA AmongSame ==
    ASSUME NEW D, NEW t, NEW u, \A r \in D : u[r].lines = t[r].lines, NEW l
    PROVE  Among(u, D, l) = Among(t, D, l)
<1> DEFINE E == {r \in D : l \in DOMAIN t[r].lines}
<1>1. {r \in D : l \in DOMAIN u[r].lines} = E
  OBVIOUS
<1>2. [r \in E |-> u[r].lines[l]] = [r \in E |-> t[r].lines[l]]
  OBVIOUS
<1> QED BY <1>1, <1>2 DEF Among

LEMMA AmongAdd ==
    ASSUME NEW D, IsFiniteSet(D), NEW r, r \notin D, NEW E, E = D \cup {r}, NEW t,
           \A s \in E : \A m \in DOMAIN t[s].lines : t[s].lines[m] \in Nat, NEW l
    PROVE  /\ l \in DOMAIN t[r].lines => Among(t, E, l) = Among(t, D, l) + t[r].lines[l]
           /\ l \notin DOMAIN t[r].lines => Among(t, E, l) = Among(t, D, l)
<1> DEFINE f == [s \in {s \in D : l \in DOMAIN t[s].lines} |-> t[s].lines[l]]
           e == [s \in {s \in E : l \in DOMAIN t[s].lines} |-> t[s].lines[l]]
<1>1. \A s \in D : \A m \in DOMAIN t[s].lines : t[s].lines[m] \in Nat
  OBVIOUS
<1>2. IntegerSum(f)
  <2>1. IsFiniteSet({s \in D : l \in DOMAIN t[s].lines})
    BY FS_Subset
  <2>2. /\ DOMAIN f = {s \in D : l \in DOMAIN t[s].lines}
        /\ \A s \in DOMAIN f : f[s] \in Int
    BY <1>1
  <2> HIDE DEF f
  <2> QED BY <2>1, <2>2 DEF IntegerSum
<1>3. Among(t, D, l) = SumFunction(f) /\ Among(t, E, l) = SumFunction(e)
  BY DEF Among
<1>4. CASE l \in DOMAIN t[r].lines
  <2>1. /\ DOMAIN e = DOMAIN f \cup {r} /\ r \notin DOMAIN f
        /\ e[r] = t[r].lines[l] /\ \A s \in DOMAIN f : e[s] = f[s]
    BY <1>4
  <2>2. e[r] \in Int
    BY <1>4, <2>1
  <2> HIDE DEF e, f
  <2>3. SumFunction(e) = SumFunction(f) + e[r]
    BY <1>2, <2>1, <2>2, SumFunctionAdd
  <2> QED BY <1>3, <1>4, <2>1, <2>3
<1>5. CASE l \notin DOMAIN t[r].lines
  <2>1. {s \in E : l \in DOMAIN t[s].lines} = {s \in D : l \in DOMAIN t[s].lines}
    BY <1>5
  <2>2. e = f
    BY <2>1
  <2> HIDE DEF e, f
  <2> QED BY <1>3, <1>5, <2>2
<1> QED BY <1>4, <1>5

LEMMA PostedFacts ==
    ASSUME ReceiptsOK, ReturnsOK
    PROVE  /\ IsFiniteSet(PostedReturns) /\ PostedReturns \subseteq Returns
           /\ \A r \in PostedReturns :
                  /\ return[r] # Absent
                  /\ DOMAIN return[r].lines \subseteq LinesIn(receipts)
                  /\ \A m \in DOMAIN return[r].lines : return[r].lines[m] \in Nat
           /\ \A l : ReturnedQuantity(l) \in Nat
           /\ \A l : l \notin LinesIn(receipts) => ReturnedQuantity(l) = 0
<1>1. IsFiniteSet(PostedReturns) /\ PostedReturns \subseteq Returns
  BY FS_Subset, FiniteAssumption DEF PostedReturns
<1>2. \A r \in PostedReturns : return[r] # Absent
  BY DEF PostedReturns, Absent
<1>3. \A r \in PostedReturns :
          /\ DOMAIN return[r].lines \subseteq LinesIn(receipts)
          /\ \A m \in DOMAIN return[r].lines : return[r].lines[m] \in Nat
  BY <1>1, <1>2, ReturnFacts
<1>4. \A l : ReturnedQuantity(l) \in Nat
  BY <1>1, <1>3, AmongIsNat, ReturnedIsAmong
<1>5. ASSUME NEW l, l \notin LinesIn(receipts)
      PROVE  ReturnedQuantity(l) = 0
  <2> DEFINE f == [r \in ReturnsOf(l) |-> return[r].lines[l]]
  <2>1. ReturnsOf(l) = {}
    BY <1>3, <1>5 DEF ReturnsOf
  <2>2. DOMAIN f = {}
    BY <2>1
  <2> HIDE DEF f
  <2>3. SumFunction(f) = 0
    BY <2>2, SumFunctionOfNothing
  <2> QED BY <2>3 DEF ReturnedQuantity, f
<1> QED BY <1>1, <1>2, <1>3, <1>4, <1>5

LEMMA ReturnedKept ==
    ASSUME return' = return \/ \E r \in Returns : Elsewhere(r) /\ Redrafted(r)
    PROVE  \A l : ReturnedQuantity(l)' = ReturnedQuantity(l)
<1>1. PostedReturns' = PostedReturns /\ \A r \in PostedReturns : return'[r].lines = return[r].lines
  BY DEF PostedReturns, Elsewhere, Redrafted, Absent
<1>2. \A l : ReturnedQuantity(l)' = Among(return', PostedReturns', l)
  BY DEF ReturnedQuantity, ReturnsOf, Among
<1>3. \A l : Among(return', PostedReturns, l) = Among(return, PostedReturns, l)
  BY <1>1, AmongSame
<1> QED BY <1>1, <1>2, <1>3, ReturnedIsAmong

LEMMA ReturnedPosts ==
    ASSUME ReceiptsOK, ReturnsOK, NEW r \in Returns, Elsewhere(r), Posts(r)
    PROVE  \A l : /\ l \in DOMAIN return[r].lines =>
                         ReturnedQuantity(l)' = ReturnedQuantity(l) + return[r].lines[l]
                  /\ l \notin DOMAIN return[r].lines =>
                         ReturnedQuantity(l)' = ReturnedQuantity(l)
<1>1. /\ PostedReturns' = PostedReturns \cup {r} /\ r \notin PostedReturns
      /\ \A s \in PostedReturns \cup {r} : return'[s].lines = return[s].lines
  BY DEF PostedReturns, Elsewhere, Posts
<1>2. \A l : ReturnedQuantity(l)' = Among(return', PostedReturns', l)
  BY DEF ReturnedQuantity, ReturnsOf, Among
<1>3. PICK E : E = PostedReturns \cup {r}
  OBVIOUS
<1>4. \A l : Among(return', E, l) = Among(return, E, l)
  BY <1>1, <1>3, AmongSame
<1>5. return[r] # Absent
  <2>1. return[r].status = "DRAFT"
    BY DEF Posts
  <2> QED BY <2>1 DEF Absent
<1>6. \A s \in E : \A m \in DOMAIN return[s].lines : return[s].lines[m] \in Nat
  BY <1>3, <1>5, PostedFacts, ReturnFacts
<1>7. IsFiniteSet(PostedReturns)
  BY PostedFacts
<1>8. \A l : /\ l \in DOMAIN return[r].lines =>
                    Among(return, E, l) = Among(return, PostedReturns, l) + return[r].lines[l]
             /\ l \notin DOMAIN return[r].lines =>
                    Among(return, E, l) = Among(return, PostedReturns, l)
  BY <1>1, <1>3, <1>6, <1>7, AmongAdd
<1> QED BY <1>1, <1>2, <1>3, <1>4, <1>8, ReturnedIsAmong

LEMMA ReturnedReverses ==
    ASSUME ReceiptsOK, ReturnsOK, NEW r \in Returns, Elsewhere(r), Reverses(r)
    PROVE  \A l : /\ l \in DOMAIN return[r].lines =>
                         ReturnedQuantity(l) = ReturnedQuantity(l)' + return[r].lines[l]
                  /\ l \notin DOMAIN return[r].lines =>
                         ReturnedQuantity(l) = ReturnedQuantity(l)'
<1>1. PICK D : D = PostedReturns \ {r}
  OBVIOUS
<1>2. /\ PostedReturns' = D /\ r \notin D /\ PostedReturns = D \cup {r}
      /\ \A s \in D : return'[s].lines = return[s].lines
  BY <1>1 DEF PostedReturns, Elsewhere, Reverses
<1>3. \A l : ReturnedQuantity(l)' = Among(return', PostedReturns', l)
  BY DEF ReturnedQuantity, ReturnsOf, Among
<1>4. \A l : Among(return', D, l) = Among(return, D, l)
  BY <1>2, AmongSame
<1>5. \A s \in PostedReturns : \A m \in DOMAIN return[s].lines : return[s].lines[m] \in Nat
  BY PostedFacts
<1>6. IsFiniteSet(D)
  BY <1>1, PostedFacts, FS_Subset
<1>7. \A l : /\ l \in DOMAIN return[r].lines =>
                    Among(return, PostedReturns, l) = Among(return, D, l) + return[r].lines[l]
             /\ l \notin DOMAIN return[r].lines =>
                    Among(return, PostedReturns, l) = Among(return, D, l)
  BY <1>2, <1>5, <1>6, AmongAdd
<1> QED BY <1>2, <1>3, <1>4, <1>7, ReturnedIsAmong

-----------------------------------------------------------------------------
(* The shelf agrees with the documents.                                    *)

Away(v) == SumFunction([l \in OfVariant(LinesIn(receipts), v) |-> ReturnedQuantity(l)])

\* A part of a table grows by the quantities of some lines.
LEMMA TableGrows ==
    ASSUME NEW L, IsFiniteSet(L), NEW v, NEW lines, DOMAIN lines \subseteq L,
           \A l \in DOMAIN lines : lines[l] \in Nat,
           NEW f, DOMAIN f = OfVariant(L, v), \A l \in DOMAIN f : f[l] \in Int,
           NEW h, DOMAIN h = DOMAIN f,
           \A l \in DOMAIN f : /\ l \in DOMAIN lines => h[l] = f[l] + lines[l]
                               /\ l \notin DOMAIN lines => h[l] = f[l]
    PROVE  SumFunction(h) = SumFunction(f) + Part(lines, DOMAIN lines, v)
<1> DEFINE e == [l \in OfVariant(DOMAIN lines, v) |-> lines[l]]
           g == [l \in DOMAIN f |-> IF l \in DOMAIN lines THEN lines[l] ELSE 0]
<1>1. IsFiniteSet(OfVariant(L, v)) /\ IsFiniteSet(OfVariant(DOMAIN lines, v))
  BY FS_Subset DEF OfVariant
<1>2. IsFiniteSet(DOMAIN f)
  BY <1>1
<1>3. IntegerSum(f)
  BY <1>2 DEF IntegerSum
<1>4. DOMAIN g = DOMAIN f /\ \A l \in DOMAIN g : g[l] \in Int
  OBVIOUS
<1>5. DOMAIN e = OfVariant(DOMAIN lines, v) /\ \A l \in DOMAIN e : e[l] \in Int
  BY DEF OfVariant
<1>6. DOMAIN e \subseteq DOMAIN g /\ \A l \in DOMAIN e : g[l] = e[l]
  BY DEF OfVariant
<1>7. \A l \in DOMAIN g \ DOMAIN e : g[l] = 0
  BY DEF OfVariant
<1>8. \A l \in DOMAIN f : h[l] = f[l] + g[l]
  OBVIOUS
<1>9. Part(lines, DOMAIN lines, v) = SumFunction(e)
  BY DEF Part
<1> HIDE DEF e, g
<1>10. IntegerSum(g)
  BY <1>2, <1>4 DEF IntegerSum
<1>11. IntegerSum(e)
  BY <1>1, <1>5 DEF IntegerSum
<1>12. SumFunction(g) = SumFunction(e)
  BY <1>6, <1>7, <1>10, <1>11, SumFunctionExtend
<1>13. SumFunction(h) = SumFunction(f) + SumFunction(g)
  BY <1>3, <1>4, <1>8, <1>10, SumFunctionPlus
<1> QED BY <1>9, <1>12, <1>13

LEMMA AwayIsSum ==
    ASSUME ReceiptsOK, ReturnsOK, NEW v
    PROVE  /\ IsFiniteSet(LinesIn(receipts))
           /\ IntegerSum([l \in OfVariant(LinesIn(receipts), v) |-> ReturnedQuantity(l)])
           /\ Away(v) \in Int
<1> DEFINE L == OfVariant(LinesIn(receipts), v)
           f == [l \in L |-> ReturnedQuantity(l)]
<1>1. IsFiniteSet(LinesIn(receipts))
  BY LinesInAreLines DEF ReceiptsOK
<1>2. IsFiniteSet(L)
  BY <1>1, FS_Subset DEF OfVariant
<1>3. \A l \in L : ReturnedQuantity(l) \in Int
  BY PostedFacts
<1>4. DOMAIN f = L /\ \A l \in L : f[l] \in Int
  BY <1>3
<1>5. Away(v) = SumFunction(f)
  BY DEF Away
<1> HIDE DEF f, L
<1>6. IntegerSum(f)
  BY <1>2, <1>4 DEF IntegerSum
<1>7. SumFunction(f) \in Int
  BY <1>6, SumFunctionType
<1> QED BY <1>1, <1>5, <1>6, <1>7 DEF f, L

LEMMA AwayKept ==
    ASSUME receipts' = receipts, \A l : ReturnedQuantity(l)' = ReturnedQuantity(l)
    PROVE  \A v : Away(v)' = Away(v)
<1> SUFFICES ASSUME NEW v PROVE Away(v)' = Away(v)
  OBVIOUS
<1>1. OfVariant(LinesIn(receipts), v)' = OfVariant(LinesIn(receipts), v)
  BY DEF OfVariant, LinesIn
<1>2. [l \in OfVariant(LinesIn(receipts), v) |-> ReturnedQuantity(l)]'
          = [l \in OfVariant(LinesIn(receipts), v) |-> ReturnedQuantity(l)]
  BY <1>1
<1> QED BY <1>2 DEF Away

LEMMA AwayPosts ==
    ASSUME ReceiptsOK, ReturnsOK, NEW r \in Returns, Elsewhere(r), Posts(r), receipts' = receipts
    PROVE  \A v : Away(v)' = Away(v) + Part(return[r].lines, DOMAIN return[r].lines, v)
<1> SUFFICES ASSUME NEW v
             PROVE  Away(v)' = Away(v) + Part(return[r].lines, DOMAIN return[r].lines, v)
  OBVIOUS
<1> DEFINE L == LinesIn(receipts)
           lines == return[r].lines
           f == [l \in OfVariant(L, v) |-> ReturnedQuantity(l)]
           h == [l \in OfVariant(L, v) |-> ReturnedQuantity(l)']
<1>1. return[r] # Absent
  <2>1. return[r].status = "DRAFT"
    BY DEF Posts
  <2> QED BY <2>1 DEF Absent
<1>2. DOMAIN lines \subseteq L /\ \A l \in DOMAIN lines : lines[l] \in Nat
  BY <1>1, ReturnFacts
<1>3. IsFiniteSet(L)
  BY AwayIsSum
<1>4. DOMAIN f = OfVariant(L, v) /\ DOMAIN h = DOMAIN f /\ \A l \in DOMAIN f : f[l] \in Int
  BY PostedFacts
<1>5. \A l \in DOMAIN f : /\ l \in DOMAIN lines => h[l] = f[l] + lines[l]
                          /\ l \notin DOMAIN lines => h[l] = f[l]
  BY ReturnedPosts
<1>6. Away(v) = SumFunction(f)
  BY DEF Away
<1>7. Away(v)' = SumFunction(h)
  BY DEF Away, LinesIn, OfVariant
<1> HIDE DEF L, lines, f, h
<1>8. SumFunction(h) = SumFunction(f) + Part(lines, DOMAIN lines, v)
  BY <1>2, <1>3, <1>4, <1>5, TableGrows
<1> QED BY <1>6, <1>7, <1>8 DEF lines

LEMMA ReturnedStaysNat ==
    ASSUME ReceiptsOK, ReturnsOK, NEW r \in Returns, Elsewhere(r), Reverses(r)
    PROVE  \A l : ReturnedQuantity(l)' \in Nat
<1>1. \A l : ReturnedQuantity(l)' = Among(return', PostedReturns', l)
  BY DEF ReturnedQuantity, ReturnsOf, Among
<1>2. PICK D : D = PostedReturns \ {r}
  OBVIOUS
<1>3. PostedReturns' = D /\ \A s \in D : return'[s] = return[s]
  BY <1>2 DEF PostedReturns, Elsewhere, Reverses
<1>4. IsFiniteSet(D) /\ \A s \in D : \A m \in DOMAIN return'[s].lines : return'[s].lines[m] \in Nat
  BY <1>2, <1>3, PostedFacts, FS_Subset
<1>5. \A l : Among(return', D, l) \in Nat
  BY <1>4, AmongIsNat
<1> QED BY <1>1, <1>3, <1>5

LEMMA AwayReverses ==
    ASSUME ReceiptsOK, ReturnsOK, NEW r \in Returns, Elsewhere(r), Reverses(r), receipts' = receipts
    PROVE  \A v : /\ Away(v) = Away(v)' + Part(return[r].lines, DOMAIN return[r].lines, v)
                  /\ Away(v)' \in Int
<1> SUFFICES ASSUME NEW v
             PROVE  /\ Away(v) = Away(v)' + Part(return[r].lines, DOMAIN return[r].lines, v)
                    /\ Away(v)' \in Int
  OBVIOUS
<1> DEFINE L == LinesIn(receipts)
           lines == return[r].lines
           f == [l \in OfVariant(L, v) |-> ReturnedQuantity(l)']
           h == [l \in OfVariant(L, v) |-> ReturnedQuantity(l)]
<1>1. return[r] # Absent
  <2>1. return[r].status = "POSTED"
    BY DEF Reverses
  <2> QED BY <2>1 DEF Absent
<1>2. DOMAIN lines \subseteq L /\ \A l \in DOMAIN lines : lines[l] \in Nat
  BY <1>1, ReturnFacts
<1>3. IsFiniteSet(L)
  BY AwayIsSum
<1>4. \A l : ReturnedQuantity(l) \in Nat
  BY PostedFacts
<1>5. \A l : /\ l \in DOMAIN lines => ReturnedQuantity(l) = ReturnedQuantity(l)' + lines[l]
             /\ l \notin DOMAIN lines => ReturnedQuantity(l) = ReturnedQuantity(l)'
  BY ReturnedReverses
<1>6. \A l : ReturnedQuantity(l)' \in Int
  BY ReturnedStaysNat
<1>7. DOMAIN f = OfVariant(L, v) /\ DOMAIN h = DOMAIN f /\ \A l \in DOMAIN f : f[l] \in Int
  BY <1>6
<1>8. \A l \in DOMAIN f : /\ l \in DOMAIN lines => h[l] = f[l] + lines[l]
                          /\ l \notin DOMAIN lines => h[l] = f[l]
  BY <1>5
<1>9. Away(v) = SumFunction(h)
  BY DEF Away
<1>10. Away(v)' = SumFunction(f)
  BY DEF Away, LinesIn, OfVariant
<1> HIDE DEF L, lines, f, h
<1>11. SumFunction(h) = SumFunction(f) + Part(lines, DOMAIN lines, v)
  BY <1>2, <1>3, <1>7, <1>8, TableGrows
<1>12. IsFiniteSet(DOMAIN f)
  BY <1>3, <1>7, FS_Subset DEF OfVariant
<1>13. IntegerSum(f)
  BY <1>7, <1>12 DEF IntegerSum
<1>14. SumFunction(f) \in Int
  BY <1>13, SumFunctionType
<1> QED BY <1>9, <1>10, <1>11, <1>14 DEF lines

LEMMA AwayArrives ==
    ASSUME PurchasesOK, ReceiptsOK, ReturnsOK, ReceiptsOK',
           NEW p, NEW quantities, NEW k, Arrives(p, quantities, k)
    PROVE  \A v : Away(v)' = Away(v)
<1> SUFFICES ASSUME NEW v PROVE Away(v)' = Away(v)
  OBVIOUS
<1> DEFINE L == LinesIn(receipts)
           M == LinesIn(receipts')
           f == [l \in OfVariant(L, v) |-> ReturnedQuantity(l)]
           h == [l \in OfVariant(M, v) |-> ReturnedQuantity(l)]
<1>1. receipts \subseteq receipts' /\ return' = return
  BY DEF Arrives
<1>2. L \subseteq M
  BY <1>1 DEF LinesIn
<1>3. IsFiniteSet(M)
  <2>1. receipts' \subseteq ReceiptRow /\ IsFiniteSet(receipts')
    BY DEF ReceiptsOK
  <2> QED BY <2>1, LinesInAreLines
<1>4. IsFiniteSet(OfVariant(M, v))
  BY <1>3, FS_Subset DEF OfVariant
<1>5. IntegerSum(f)
  BY AwayIsSum
<1>6. DOMAIN h = OfVariant(M, v) /\ \A l \in DOMAIN h : h[l] \in Int
  BY PostedFacts
<1>7. DOMAIN f = OfVariant(L, v) /\ DOMAIN f \subseteq DOMAIN h /\ \A l \in DOMAIN f : h[l] = f[l]
  BY <1>2 DEF OfVariant
<1>8. ASSUME NEW l \in DOMAIN h \ DOMAIN f
      PROVE  h[l] = 0
  <2>1. l \notin L
    BY DEF OfVariant
  <2>2. ReturnedQuantity(l) = 0
    BY <2>1, PostedFacts
  <2> QED BY <2>2
<1>9. Away(v) = SumFunction(f)
  BY DEF Away
<1>10. Away(v)' = SumFunction(h)
  <2>1. \A l : ReturnedQuantity(l)' = ReturnedQuantity(l)
    BY <1>1, ReturnedKept
  <2> QED BY <2>1 DEF Away, LinesIn, OfVariant
<1> HIDE DEF L, M, f, h
<1>11. IntegerSum(h)
  BY <1>4, <1>6 DEF IntegerSum
<1>12. SumFunction(h) = SumFunction(f)
  BY <1>5, <1>7, <1>8, <1>11, SumFunctionExtend
<1> QED BY <1>9, <1>10, <1>12

LEMMA StockStep ==
    ASSUME ShelfOK, PurchasesOK, ReceiptsOK, ReturnsOK, StockMatchesDocuments, [Next]_vars
    PROVE  StockMatchesDocuments'
<1>1. ReceiptsOK'
  BY ReceiptSteps
<1>2. \A v \in Variants : stock[v].quantity = Brought(receipts, v) - Away(v) - taken[v]
  BY DEF StockMatchesDocuments, Away
<1>3. receipts \subseteq ReceiptRow /\ IsFiniteSet(receipts)
  BY DEF ReceiptsOK
<1>4. ASSUME NEW v \in Variants
      PROVE  /\ stock[v].quantity \in Nat /\ taken[v] \in Nat
             /\ Brought(receipts, v) \in Nat /\ Away(v) \in Int
  BY <1>3, BroughtIsNat, AwayIsSum DEF ShelfOK, Balance
<1> SUFFICES ASSUME NEW v \in Variants
             PROVE  stock'[v].quantity = Brought(receipts', v) - Away(v)' - taken'[v]
  BY DEF StockMatchesDocuments, Away
<1>5. CASE Rests
  <2>1. Away(v)' = Away(v)
    <3>1. \A l : ReturnedQuantity(l)' = ReturnedQuantity(l)
      BY <1>5, ReturnedKept DEF Rests
    <3> QED BY <1>5, <3>1, AwayKept DEF Rests
  <2> QED BY <1>2, <1>5, <2>1 DEF Rests
<1>6. ASSUME NEW p \in Purchases, NEW quantities \in Chosen(Variants, Quantities),
             NEW k \in ReceiptKeys, Arrives(p, quantities, k)
      PROVE  stock'[v].quantity = Brought(receipts', v) - Away(v)' - taken'[v]
  <2> DEFINE g == NewReceipt(p, quantities, k)
             now == IF v \in DOMAIN quantities THEN quantities[v] ELSE 0
  <2>1. /\ receipts' = receipts \cup {g} /\ taken' = taken
        /\ stock'[v].quantity = stock[v].quantity + now
    BY <1>6 DEF Arrives
  <2>2. g \in ReceiptRow /\ g.lines = quantities /\ g \notin receipts
    <3>1. \A h \in receipts : h.key # k
      BY <1>6 DEF Arrives, CreateReceipt
    <3> QED BY <3>1 DEF NewReceipt, ReceiptRow
  <2> HIDE DEF g
  <2>3. Brought(receipts', v) = Brought(receipts, v) + now
    BY <1>3, <2>1, <2>2, BroughtAdd
  <2>4. Away(v)' = Away(v)
    BY <1>1, <1>6, AwayArrives
  <2>5. now \in Nat
    BY ChosenFacts, QuantitiesArePositive
  <2> HIDE DEF now
  <2> QED BY <1>2, <1>4, <2>1, <2>3, <2>4, <2>5
<1>7. ASSUME NEW r \in Returns, SendsBack(r) \/ TakesBack(r)
      PROVE  Part(return[r].lines, DOMAIN return[r].lines, v) \in Nat
  <2>1. return[r] # Absent
    <3>1. return[r].status \in {"DRAFT", "POSTED"}
      BY <1>7 DEF SendsBack, TakesBack, Posts, Reverses
    <3> QED BY <3>1 DEF Absent
  <2>2. IsFiniteSet(DOMAIN return[r].lines)
          /\ \A l \in DOMAIN return[r].lines : return[r].lines[l] \in Nat
    BY <2>1, ReturnFacts
  <2> QED BY <2>2, PartIsSum
<1>8. ASSUME NEW r \in Returns, SendsBack(r)
      PROVE  stock'[v].quantity = Brought(receipts', v) - Away(v)' - taken'[v]
  <2> DEFINE part == Part(return[r].lines, DOMAIN return[r].lines, v)
  <2>1. /\ receipts' = receipts /\ taken' = taken
        /\ stock'[v].quantity = stock[v].quantity - part
    BY <1>8 DEF SendsBack
  <2>2. Away(v)' = Away(v) + part
    BY <1>8, AwayPosts DEF SendsBack
  <2>3. part \in Nat
    BY <1>7, <1>8
  <2> HIDE DEF part
  <2> QED BY <1>2, <1>4, <2>1, <2>2, <2>3
<1>9. ASSUME NEW r \in Returns, TakesBack(r)
      PROVE  stock'[v].quantity = Brought(receipts', v) - Away(v)' - taken'[v]
  <2> DEFINE part == Part(return[r].lines, DOMAIN return[r].lines, v)
  <2>1. /\ receipts' = receipts /\ taken' = taken
        /\ stock'[v].quantity = stock[v].quantity + part
    BY <1>9 DEF TakesBack
  <2>2. Away(v) = Away(v)' + part
    BY <1>9, AwayReverses DEF TakesBack
  <2>3. part \in Nat
    BY <1>7, <1>9
  <2>4. Away(v)' \in Int
    BY <1>9, AwayReverses DEF TakesBack
  <2> HIDE DEF part
  <2> QED BY <1>2, <1>4, <2>1, <2>2, <2>3, <2>4
<1>10. ASSUME NEW w \in Variants, NEW n \in Quantities, Sells(w, n)
       PROVE  stock'[v].quantity = Brought(receipts', v) - Away(v)' - taken'[v]
  <2>1. Away(v)' = Away(v) /\ receipts' = receipts
    <3>1. \A l : ReturnedQuantity(l)' = ReturnedQuantity(l)
      BY <1>10, ReturnedKept DEF Sells
    <3> QED BY <1>10, <3>1, AwayKept DEF Sells
  <2>2. n \in Nat
    BY QuantitiesArePositive
  <2>3. CASE v = w
    <3>1. stock'[v].quantity = stock[v].quantity - n /\ taken'[v] = taken[v] + n
      BY <1>10, <2>3 DEF Sells
    <3> QED BY <1>2, <1>4, <2>1, <2>2, <3>1
  <2>4. CASE v # w
    <3>1. stock'[v] = stock[v] /\ taken'[v] = taken[v]
      BY <1>10, <2>4 DEF Sells
    <3> QED BY <1>2, <2>1, <3>1
  <2> QED BY <2>3, <2>4
<1> QED BY <1>5, <1>6, <1>8, <1>9, <1>10, ShelfSteps


-----------------------------------------------------------------------------
(* Nothing is sent back that did not arrive, and the status follows the    *)
(* receipts.                                                               *)

WithinReceipts == \A l \in LinesIn(receipts) : ReturnedQuantity(l) <= ReceiptQuantity(l)

LEMMA WithinReceiptsSays ==
    ASSUME ReceiptsOK, WithinReceipts
    PROVE  ReturnedWithinReceived
<1> SUFFICES ASSUME NEW g \in receipts, NEW v \in DOMAIN g.lines
             PROVE  ReturnedQuantity(<<g.key, v>>) <= g.lines[v]
  BY DEF ReturnedWithinReceived
<1>1. <<g.key, v>> \in LinesIn(receipts)
  BY DEF LinesIn
<1>2. LineOf(<<g.key, v>>) = g
  BY DEF LineOf, ReceiptsOK
<1>3. ReceiptQuantity(<<g.key, v>>) = g.lines[v]
  BY <1>2 DEF ReceiptQuantity
<1> QED BY <1>1, <1>3 DEF WithinReceipts

LEMMA WithinStep ==
    ASSUME ShelfOK, PurchasesOK, ReceiptsOK, ReturnsOK, WithinReceipts, [Next]_vars
    PROVE  WithinReceipts'
<1>1. ReceiptsOK'
  BY ReceiptSteps
<1> SUFFICES ASSUME NEW l \in LinesIn(receipts')
             PROVE  ReturnedQuantity(l)' <= ReceiptQuantity(l)'
  BY DEF WithinReceipts, LinesIn
<1>2. CASE l \notin LinesIn(receipts)
  <2>1. receipts' # receipts
    BY <1>2
  <2>2. return' = return
    BY <2>1, ShelfSteps DEF Rests, Arrives, SendsBack, TakesBack, Sells
  <2>3. ReturnedQuantity(l)' = 0
    BY <1>2, <2>2, ReturnedKept, PostedFacts
  <2>4. PICK g \in receipts' : l \in {g.key} \X DOMAIN g.lines
    BY DEF LinesIn
  <2>5. l[1] = g.key /\ l[2] \in DOMAIN g.lines
    BY <2>4
  <2>6. LineOf(l)' = g
    BY <1>1, <2>5 DEF LineOf, ReceiptsOK
  <2>7. g \in ReceiptRow
    BY <1>1 DEF ReceiptsOK
  <2>8. g.lines[l[2]] \in Nat
    BY <2>5, <2>7, ReceiptFacts
  <2>9. ReceiptQuantity(l)' = g.lines[l[2]]
    BY <2>6 DEF ReceiptQuantity
  <2> QED BY <2>3, <2>8, <2>9
<1>3. CASE l \in LinesIn(receipts)
  <2>1. ReceiptQuantity(l)' = ReceiptQuantity(l) /\ ReceiptQuantity(l) \in Nat
    BY <1>3, LinesStay, LineFacts
  <2>2. ReturnedQuantity(l) <= ReceiptQuantity(l) /\ ReturnedQuantity(l) \in Nat
    BY <1>3, PostedFacts DEF WithinReceipts
  <2>3. CASE ReturnedQuantity(l)' = ReturnedQuantity(l)
    BY <2>1, <2>2, <2>3
  <2>4. ASSUME NEW r \in Returns, SendsBack(r)
        PROVE  ReturnedQuantity(l)' <= ReceiptQuantity(l)'
    <3>1. Elsewhere(r) /\ Posts(r)
      BY <2>4 DEF SendsBack
    <3>2. PICK k : CreateReturnPosting(r, k)
      BY <3>1 DEF Posts
    <3>3. Returnable(return[r].lines)
      BY <3>2 DEF CreateReturnPosting
    <3>4. return[r] # Absent
      <4>1. return[r].status = "DRAFT"
        BY <3>1 DEF Posts
      <4> QED BY <4>1 DEF Absent
    <3>5. CASE l \in DOMAIN return[r].lines
      <4>1. return[r].lines[l] <= ReceiptQuantity(l) - ReturnedQuantity(l)
        BY <3>3, <3>5 DEF Returnable
      <4>2. ReturnedQuantity(l)' = ReturnedQuantity(l) + return[r].lines[l]
        BY <3>1, <3>5, ReturnedPosts
      <4>3. return[r].lines[l] \in Nat
        BY <3>4, <3>5, ReturnFacts
      <4> QED BY <2>1, <2>2, <4>1, <4>2, <4>3
    <3>6. CASE l \notin DOMAIN return[r].lines
      <4>1. ReturnedQuantity(l)' = ReturnedQuantity(l)
        BY <3>1, <3>6, ReturnedPosts
      <4> QED BY <2>3, <4>1
    <3> QED BY <3>5, <3>6
  <2>5. ASSUME NEW r \in Returns, TakesBack(r)
        PROVE  ReturnedQuantity(l)' <= ReceiptQuantity(l)'
    <3>1. Elsewhere(r) /\ Reverses(r) /\ receipts' = receipts
      BY <2>5 DEF TakesBack
    <3>2. return[r] # Absent
      <4>1. return[r].status = "POSTED"
        BY <3>1 DEF Reverses
      <4> QED BY <4>1 DEF Absent
    <3>3. CASE l \in DOMAIN return[r].lines
      <4>1. ReturnedQuantity(l) = ReturnedQuantity(l)' + return[r].lines[l]
        BY <3>1, <3>3, ReturnedReverses
      <4>2. return[r].lines[l] \in Nat
        BY <3>2, <3>3, ReturnFacts
      <4>3. ReturnedQuantity(l)' \in Int
        BY <3>1, ReturnedStaysNat
      <4> QED BY <2>1, <2>2, <4>1, <4>2, <4>3
    <3>4. CASE l \notin DOMAIN return[r].lines
      <4>1. ReturnedQuantity(l)' = ReturnedQuantity(l)
        BY <3>1, <3>4, ReturnedReverses
      <4> QED BY <2>3, <4>1
    <3> QED BY <3>3, <3>4
  <2>6. (return' = return \/ \E r \in Returns : Elsewhere(r) /\ Redrafted(r))
            => ReturnedQuantity(l)' = ReturnedQuantity(l)
    BY ReturnedKept
  <2> QED BY <2>3, <2>4, <2>5, <2>6, ShelfSteps DEF Rests, Arrives, Sells
<1> QED BY <1>2, <1>3

\* StatusMatchesReceipts of one purchase.
StatusOf(p) ==
    LET lines == purchase[p].lines
        complete == \A v \in DOMAIN lines : ReceivedQuantity(p, v) = lines[v].ordered
    IN  /\ \A v \in DOMAIN lines : ReceivedQuantity(p, v) <= lines[v].ordered
        /\ purchase[p].status \in Unreceived <=> ReceiptsOf(p) = {}
        /\ purchase[p].status = "RECEIVED" <=> complete

LEMMA NothingReceived ==
    ASSUME NEW p, NEW x \in PurchaseRow, purchase'[p] = x, x.status \in Unreceived,
           ReceiptsOf(p)' = {}
    PROVE  StatusOf(p)'
<1>1. \A v : ReceivedQuantity(p, v)' = 0
  <2> SUFFICES ASSUME NEW v PROVE ReceivedQuantity(p, v)' = 0
    OBVIOUS
  <2> DEFINE f == [g \in {g \in {} : v \in DOMAIN g.lines} |-> g.lines[v]]
  <2>1. ReceivedQuantity(p, v)' = SumFunction(f)
    BY DEF ReceivedQuantity, Brought
  <2>2. DOMAIN f = {}
    OBVIOUS
  <2> HIDE DEF f
  <2> QED BY <2>1, <2>2, SumFunctionOfNothing
<1>2. /\ DOMAIN x.lines # {}
      /\ \A v \in DOMAIN x.lines : x.lines[v].ordered \in Nat \ {0}
  BY PurchaseFacts
<1>3. x.status # "RECEIVED"
  BY DEF Unreceived
<1>4. \A v \in DOMAIN x.lines : ReceivedQuantity(p, v)' <= x.lines[v].ordered
          /\ ReceivedQuantity(p, v)' # x.lines[v].ordered
  BY <1>1, <1>2
<1> QED BY <1>2, <1>3, <1>4 DEF StatusOf

LEMMA StatusReceipt ==
    ASSUME PurchasesOK, ReceiptsOK, NEW p \in Purchases, purchase[p] # Absent, StatusOf(p),
           NEW quantities \in Chosen(Variants, Quantities), NEW k \in ReceiptKeys,
           CreateReceipt(p, quantities, k)
    PROVE  StatusOf(p)'
<1> DEFINE lines == purchase[p].lines
           now(v) == IF v \in DOMAIN quantities THEN quantities[v] ELSE 0
           complete == \A v \in DOMAIN lines : now(v) = Remaining(p, v)
           g == NewReceipt(p, quantities, k)
<1>1. /\ \A h \in receipts : h.key # k
      /\ \A v \in DOMAIN quantities : quantities[v] <= Remaining(p, v)
      /\ receipts' = receipts \cup {g}
      /\ SetPurchaseStatus(p, IF complete THEN "RECEIVED" ELSE "PARTIALLY_RECEIVED")
  BY DEF CreateReceipt, NewReceipt
<1>2. g \in ReceiptRow /\ g.lines = quantities /\ g.purchase = p /\ g \notin receipts
  BY <1>1 DEF NewReceipt, ReceiptRow
<1> HIDE DEF g, complete
<1>3. PICK R : R = ReceiptsOf(p)
  OBVIOUS
<1>4. R \subseteq ReceiptRow /\ IsFiniteSet(R) /\ g \notin R
  BY <1>2, <1>3, FS_Subset DEF ReceiptsOf, ReceiptsOK
<1>5. ReceiptsOf(p)' = R \cup {g}
  BY <1>1, <1>2, <1>3 DEF ReceiptsOf
<1>6. PICK W : W = R \cup {g}
  OBVIOUS
<1>7. \A v : ReceivedQuantity(p, v) = Brought(R, v) /\ ReceivedQuantity(p, v)' = Brought(W, v)
  BY <1>3, <1>5, <1>6 DEF ReceivedQuantity, Brought
<1>8. \A v : Brought(W, v) = Brought(R, v) + (IF v \in DOMAIN g.lines THEN g.lines[v] ELSE 0)
  BY <1>2, <1>4, <1>6, BroughtAdd
<1>9. \A v : Brought(R, v) \in Nat
  BY <1>4, BroughtIsNat
<1>10. \A v : now(v) \in Nat
  BY ChosenFacts, QuantitiesArePositive
<1>11. \A v : ReceivedQuantity(p, v)' = ReceivedQuantity(p, v) + now(v)
           /\ ReceivedQuantity(p, v) \in Nat
  BY <1>2, <1>7, <1>8, <1>9
<1>12. \A v \in DOMAIN lines : lines[v].ordered \in Nat
           /\ ReceivedQuantity(p, v) <= lines[v].ordered
           /\ Remaining(p, v) = lines[v].ordered - ReceivedQuantity(p, v)
  BY PurchaseFacts DEF PurchasesOK, StatusOf, Remaining
<1>13. \A v \in DOMAIN quantities : now(v) = quantities[v]
  OBVIOUS
<1>14. \A v : v \notin DOMAIN quantities => now(v) = 0
  OBVIOUS
<1> HIDE DEF now
<1>15. \A v \in DOMAIN lines : ReceivedQuantity(p, v)' <= lines[v].ordered
  <2> SUFFICES ASSUME NEW v \in DOMAIN lines
               PROVE  ReceivedQuantity(p, v)' <= lines[v].ordered
    OBVIOUS
  <2>1. CASE v \in DOMAIN quantities
    BY <1>1, <1>10, <1>11, <1>12, <1>13, <2>1
  <2>2. CASE v \notin DOMAIN quantities
    BY <1>11, <1>12, <1>14, <2>2
  <2> QED BY <2>1, <2>2
<1>16. complete <=> \A v \in DOMAIN lines : ReceivedQuantity(p, v)' = lines[v].ordered
  <2>1. \A v \in DOMAIN lines : (now(v) = Remaining(p, v))
                                    <=> (ReceivedQuantity(p, v)' = lines[v].ordered)
    BY <1>10, <1>11, <1>12
  <2> QED BY <2>1 DEF complete
<1>17. PICK status \in {"RECEIVED", "PARTIALLY_RECEIVED"} :
           /\ SetPurchaseStatus(p, status)
           /\ status = "RECEIVED" <=> complete
  BY <1>1
<1>18. purchase'[p].lines = lines /\ purchase'[p].status = status
  BY <1>17, PurchaseStatusSet
<1>19. (purchase'[p].status \in Unreceived <=> ReceiptsOf(p)' = {})
  BY <1>5, <1>17, <1>18 DEF Unreceived
<1>20. purchase'[p].status = "RECEIVED" <=> \A v \in DOMAIN lines : ReceivedQuantity(p, v)' = lines[v].ordered
  BY <1>16, <1>17, <1>18
<1> HIDE DEF lines
<1> QED BY <1>15, <1>18, <1>19, <1>20 DEF StatusOf

LEMMA StatusStep ==
    ASSUME PurchasesOK, ReceiptsOK, StatusMatchesReceipts, [Next]_vars
    PROVE  StatusMatchesReceipts'
<1>1. \A p \in Purchases : purchase[p] # Absent => StatusOf(p)
  BY DEF StatusMatchesReceipts, StatusOf
<1> SUFFICES ASSUME NEW p \in Purchases, purchase'[p] # Absent
             PROVE  StatusOf(p)'
  BY DEF StatusMatchesReceipts, StatusOf
<1>2. ASSUME NEW quantities \in Chosen(Variants, Quantities), NEW k \in ReceiptKeys,
             CreateReceipt(p, quantities, k)
      PROVE  StatusOf(p)'
  <2>1. purchase[p] # Absent
    BY <1>2 DEF CreateReceipt, Absent
  <2> QED BY <1>1, <1>2, <2>1, StatusReceipt
<1>3. CASE \A quantities \in Chosen(Variants, Quantities), k \in ReceiptKeys :
               ~CreateReceipt(p, quantities, k)
  <2>1. ReceiptsOf(p)' = ReceiptsOf(p)
    <3>1. CASE receipts' = receipts
      BY <3>1 DEF ReceiptsOf
    <3>2. ASSUME NEW q \in Purchases, NEW quantities \in Chosen(Variants, Quantities),
                 NEW k \in ReceiptKeys, CreateReceipt(q, quantities, k)
          PROVE  ReceiptsOf(p)' = ReceiptsOf(p)
      <4>1. q # p
        BY <1>3, <3>2
      <4>2. receipts' = receipts \cup {NewReceipt(q, quantities, k)}
        BY <3>2 DEF CreateReceipt, NewReceipt
      <4>3. NewReceipt(q, quantities, k).purchase = q
        BY DEF NewReceipt
      <4> QED BY <4>1, <4>2, <4>3 DEF ReceiptsOf
    <3> QED BY <3>1, <3>2, ReceiptSteps
  <2>2. CASE purchase'[p] = purchase[p]
    <3>1. StatusOf(p)
      BY <1>1, <2>2
    <3>2. \A v : ReceivedQuantity(p, v)' = ReceivedQuantity(p, v)
      BY <2>1 DEF ReceivedQuantity, Brought
    <3> QED BY <2>1, <2>2, <3>1, <3>2 DEF StatusOf
  <2>3. CASE UnreceivedStep(p)
    <3>1. ReceiptsOf(p) = {}
      <4>1. CASE purchase[p] = Absent
        BY <4>1 DEF ReceiptsOf, ReceiptsOK
      <4>2. CASE purchase[p] # Absent
        <5>1. purchase[p].status \in Unreceived
          BY <2>3, <4>2 DEF UnreceivedStep, Unreceived
        <5> QED BY <1>1, <4>2, <5>1 DEF StatusOf
      <4> QED BY <4>1, <4>2
    <3>2. purchase'[p] \in PurchaseRow /\ purchase'[p].status \in Unreceived
      BY <2>3, PurchaseSteps DEF PurchasesOK, UnreceivedStep
    <3> QED BY <2>1, <3>1, <3>2, NothingReceived
  <2> QED BY <1>3, <2>2, <2>3, PurchaseSteps
<1> QED BY <1>2, <1>3

-----------------------------------------------------------------------------
(* No evidence outlives the document it stands on.                         *)

\* The part of the types that the argument needs.
Shape ==
    /\ purchase = [p \in Purchases |-> purchase[p]]
    /\ return = [r \in Returns |-> return[r]]
    /\ \A x \in payments : x.purchase \in Purchases
    /\ \A x \in settlements : x.return \in Returns

DocumentsStand == Shape /\ SettledReturnsStand /\ PaidPurchasesStand

\* What a step may do to the evidence and to the documents it stands on.
EvidenceKept == payments' = payments /\ settlements' = settlements /\ reversals' = reversals

\* A step that changes no evidence keeps what is active.
LEMMA ActiveKept ==
    ASSUME EvidenceKept
    PROVE  Active(payments)' = Active(payments) /\ Active(settlements)' = Active(settlements)
  BY DEF EvidenceKept, Active

\* A change of one return that is not settled, or that leaves it posted, is harmless.
LEMMA ReturnStep ==
    ASSUME DocumentsStand, EvidenceKept, purchase' = purchase,
           NEW r \in Returns, NEW row, return' = [return EXCEPT ![r] = row],
           row.status = "POSTED" \/ return[r].status # "POSTED" \/ Unsettled(r)
    PROVE  DocumentsStand'
<1>1. Active(payments)' = Active(payments) /\ Active(settlements)' = Active(settlements)
  BY ActiveKept
<1>2. Shape'
  BY DEF DocumentsStand, Shape, EvidenceKept
<1>3. PaidPurchasesStand'
  BY <1>1 DEF DocumentsStand, PaidPurchasesStand
<1>4. SettledReturnsStand'
  <2> SUFFICES ASSUME NEW x \in Active(settlements)
               PROVE  return'[x.return].status = "POSTED"
    BY <1>1 DEF SettledReturnsStand
  <2>1. x.return \in Returns /\ return[x.return].status = "POSTED"
    BY DEF DocumentsStand, Shape, SettledReturnsStand, Active
  <2>2. CASE x.return = r
    <3>1. row.status = "POSTED"
      BY <2>1, <2>2 DEF Unsettled
    <3>2. return'[r] = row
      BY DEF DocumentsStand, Shape
    <3> QED BY <2>2, <3>1, <3>2
  <2>3. CASE x.return # r
    <3>1. return'[x.return] = return[x.return]
      BY <2>1, <2>3 DEF DocumentsStand, Shape
    <3> QED BY <2>1, <3>1
  <2> QED BY <2>2, <2>3
<1> QED BY <1>2, <1>3, <1>4 DEF DocumentsStand

\* So is a change of one purchase that does not cancel it, or of an unpaid one.
LEMMA PurchaseStep ==
    ASSUME DocumentsStand, EvidenceKept, return' = return,
           NEW p \in Purchases, NEW row, purchase' = [purchase EXCEPT ![p] = row],
           row.status # "CANCELLED" \/ Unpaid(p)
    PROVE  DocumentsStand'
<1>1. Active(payments)' = Active(payments) /\ Active(settlements)' = Active(settlements)
  BY ActiveKept
<1>2. Shape'
  BY DEF DocumentsStand, Shape, EvidenceKept
<1>3. SettledReturnsStand'
  BY <1>1 DEF DocumentsStand, SettledReturnsStand
<1>4. PaidPurchasesStand'
  <2> SUFFICES ASSUME NEW x \in Active(payments)
               PROVE  purchase'[x.purchase].status # "CANCELLED"
    BY <1>1 DEF PaidPurchasesStand
  <2>1. x.purchase \in Purchases /\ purchase[x.purchase].status # "CANCELLED"
    BY DEF DocumentsStand, Shape, PaidPurchasesStand, Active
  <2>2. CASE x.purchase = p
    <3>1. row.status # "CANCELLED"
      BY <2>2 DEF Unpaid
    <3>2. purchase'[p] = row
      BY DEF DocumentsStand, Shape
    <3> QED BY <2>2, <3>1, <3>2
  <2>3. CASE x.purchase # p
    <3>1. purchase'[x.purchase] = purchase[x.purchase]
      BY <2>1, <2>3 DEF DocumentsStand, Shape
    <3> QED BY <2>1, <3>1
  <2> QED BY <2>2, <2>3
<1> QED BY <1>2, <1>3, <1>4 DEF DocumentsStand

\* A step that changes neither documents nor evidence.
LEMMA IdleStep ==
    ASSUME DocumentsStand, EvidenceKept, purchase' = purchase, return' = return
    PROVE  DocumentsStand'
  BY ActiveKept DEF DocumentsStand, Shape, SettledReturnsStand, PaidPurchasesStand, EvidenceKept, Active

\* Evidence that grows by what stands on a sound document, or is reversed.
LEMMA EvidenceStep ==
    ASSUME DocumentsStand, purchase' = purchase, return' = return,
           reversals \subseteq reversals',
           \A x \in payments' \ payments :
               x.purchase \in Purchases /\ purchase[x.purchase].status # "CANCELLED",
           \A x \in settlements' \ settlements :
               x.return \in Returns /\ return[x.return].status = "POSTED"
    PROVE  DocumentsStand'
<1>1. Shape'
  BY DEF DocumentsStand, Shape
<1>2. SettledReturnsStand'
  <2> SUFFICES ASSUME NEW x \in Active(settlements)'
               PROVE  return[x.return].status = "POSTED"
    BY DEF SettledReturnsStand
  <2>1. CASE x \in settlements
    <3>1. x \in Active(settlements)
      BY <2>1 DEF Active
    <3> QED BY <3>1 DEF DocumentsStand, SettledReturnsStand
  <2>2. CASE x \notin settlements
    <3>1. x \in settlements' \ settlements
      BY <2>2 DEF Active
    <3> QED BY <3>1
  <2> QED BY <2>1, <2>2
<1>3. PaidPurchasesStand'
  <2> SUFFICES ASSUME NEW x \in Active(payments)'
               PROVE  purchase[x.purchase].status # "CANCELLED"
    BY DEF PaidPurchasesStand
  <2>1. CASE x \in payments
    <3>1. x \in Active(payments)
      BY <2>1 DEF Active
    <3> QED BY <3>1 DEF DocumentsStand, PaidPurchasesStand
  <2>2. CASE x \notin payments
    <3>1. x \in payments' \ payments
      BY <2>2 DEF Active
    <3> QED BY <3>1
  <2> QED BY <2>1, <2>2
<1> QED BY <1>1, <1>2, <1>3 DEF DocumentsStand

-----------------------------------------------------------------------------

LEMMA ProcurementSteps ==
    ASSUME DocumentsStand, ProcurementNext
    PROVE  DocumentsStand'
<1> USE DEF procurementVars, evidenceVars, branchVars, documents
<1>1. ASSUME NEW a, NEW p \in Purchases, NEW lines, CreatePurchaseDraft(a, p, lines)
      PROVE  DocumentsStand'
  <2>1. EvidenceKept /\ return' = return
    BY <1>1 DEF CreatePurchaseDraft, EvidenceKept
  <2>2. purchase' = [purchase EXCEPT ![p] = [status |-> "DRAFT", lines |-> lines]]
    BY <1>1 DEF CreatePurchaseDraft
  <2> QED BY <2>1, <2>2, PurchaseStep
<1>2. ASSUME NEW a, NEW p \in Purchases, ApprovePurchase(a, p)
      PROVE  DocumentsStand'
  <2>1. EvidenceKept /\ return' = return
    BY <1>2 DEF ApprovePurchase, EvidenceKept
  <2> DEFINE row == [purchase[p] EXCEPT !.status = "APPROVED"]
  <2>2. purchase' = [purchase EXCEPT ![p] = row]
    BY <1>2 DEF ApprovePurchase, SetPurchaseStatus, DocumentsStand, Shape
  <2>3. Unpaid(p) \/ row.status # "CANCELLED"
    BY <1>2 DEF ApprovePurchase
  <2> QED BY <2>1, <2>2, <2>3, PurchaseStep
<1>3. ASSUME NEW a, NEW p \in Purchases, CancelPurchase(a, p)
      PROVE  DocumentsStand'
  <2>1. EvidenceKept /\ return' = return /\ Unpaid(p)
    BY <1>3 DEF CancelPurchase, EvidenceKept
  <2>2. purchase' = [purchase EXCEPT ![p] = [purchase[p] EXCEPT !.status = "CANCELLED"]]
    BY <1>3 DEF CancelPurchase, SetPurchaseStatus, DocumentsStand, Shape
  <2> QED BY <2>1, <2>2, PurchaseStep
<1>4. ASSUME NEW p \in Purchases, NEW quantities, NEW k, ReceivePurchase(p, quantities, k)
      PROVE  DocumentsStand'
  <2>1. CASE ReplayReceipt(p, k)
    BY <2>1, IdleStep DEF ReplayReceipt, EvidenceKept
  <2>2. CASE CreateReceipt(p, quantities, k)
    <3>1. EvidenceKept /\ return' = return
      BY <2>2 DEF CreateReceipt, EvidenceKept
    <3>2. PICK status \in {"RECEIVED", "PARTIALLY_RECEIVED"} : SetPurchaseStatus(p, status)
      BY <2>2 DEF CreateReceipt
    <3> DEFINE row == [purchase[p] EXCEPT !.status = status]
    <3>3. purchase' = [purchase EXCEPT ![p] = row]
      BY <3>2 DEF SetPurchaseStatus, DocumentsStand, Shape
    <3>4. purchase[p].status # "CANCELLED"
      BY <2>2 DEF CreateReceipt
    <3>5. row.status # "CANCELLED"
      BY <3>4
    <3> QED BY <3>1, <3>3, <3>5, PurchaseStep
  <2> QED BY <1>4, <2>1, <2>2 DEF ReceivePurchase
<1>5. ASSUME NEW r \in Returns, NEW p \in Purchases, NEW lines, SaveReturnDraft(r, p, lines)
      PROVE  DocumentsStand'
  <2>1. EvidenceKept /\ purchase' = purchase /\ return[r].status # "POSTED"
    BY <1>5 DEF SaveReturnDraft, EvidenceKept, Absent
  <2>2. return' = [return EXCEPT ![r] = [status |-> "DRAFT", purchase |-> p, lines |-> lines]]
    BY <1>5 DEF SaveReturnDraft
  <2> QED BY <2>1, <2>2, ReturnStep
<1>6. ASSUME NEW a, NEW r \in Returns, CancelPurchaseReturn(a, r)
      PROVE  DocumentsStand'
  <2>1. EvidenceKept /\ purchase' = purchase /\ return[r].status # "POSTED"
    BY <1>6 DEF CancelPurchaseReturn, EvidenceKept
  <2>2. return' = [return EXCEPT ![r] = [return[r] EXCEPT !.status = "CANCELLED"]]
    BY <1>6 DEF CancelPurchaseReturn, DocumentsStand, Shape
  <2> QED BY <2>1, <2>2, ReturnStep
<1>7. ASSUME NEW a, NEW r \in Returns, NEW k, PostPurchaseReturn(a, r, k)
      PROVE  DocumentsStand'
  <2>1. CASE ReplayReturnKey(k, "RETURN", r)
    BY <2>1, IdleStep DEF ReplayReturnKey, EvidenceKept
  <2>2. CASE CreateReturnPosting(r, k)
    <3>1. EvidenceKept /\ purchase' = purchase /\ return[r].status # "POSTED"
      BY <2>2 DEF CreateReturnPosting, EvidenceKept
    <3>2. PICK costs : return' = [return EXCEPT ![r] =
              [status |-> "POSTED", purchase |-> return[r].purchase,
               lines |-> return[r].lines, key |-> k, costs |-> costs]]
      BY <2>2 DEF CreateReturnPosting
    <3> QED BY <3>1, <3>2, ReturnStep
  <2> QED BY <1>7, <2>1, <2>2 DEF PostPurchaseReturn
<1>8. ASSUME NEW a, NEW r \in Returns, NEW k, ReversePurchaseReturn(a, r, k)
      PROVE  DocumentsStand'
  <2>1. CASE ReplayReturnKey(k, "REVERSAL", r)
    BY <2>1, IdleStep DEF ReplayReturnKey, EvidenceKept
  <2>2. CASE CreateReturnReversal(r, k)
    <3>1. EvidenceKept /\ purchase' = purchase /\ Unsettled(r)
      BY <2>2 DEF CreateReturnReversal, EvidenceKept
    <3>2. return' = [return EXCEPT ![r] = [return[r] EXCEPT !.status = "REVERSED"]]
      BY <2>2 DEF CreateReturnReversal, DocumentsStand, Shape
    <3> QED BY <3>1, <3>2, ReturnStep
  <2> QED BY <1>8, <2>1, <2>2 DEF ReversePurchaseReturn
<1>9. ASSUME NEW v, NEW is, SetActive(v, is)
      PROVE  DocumentsStand'
  BY <1>9, IdleStep DEF SetActive, EvidenceKept
<1>10. CASE Freeze
  BY <1>10, IdleStep DEF Freeze, EvidenceKept
<1>11. ASSUME NEW v, NEW quantity, Sell(v, quantity)
       PROVE  DocumentsStand'
  BY <1>11, IdleStep DEF Sell, EvidenceKept
<1> QED
  BY <1>1, <1>2, <1>3, <1>4, <1>5, <1>6, <1>7, <1>8, <1>9, <1>10, <1>11 DEF ProcurementNext

LEMMA ReverseStep ==
    ASSUME DocumentsStand, NEW x, NEW k, NEW op, NEW delta, ReverseEvidence(x, k, op, delta)
    PROVE  DocumentsStand'
<1> USE DEF procurementVars, evidenceVars
<1>1. purchase' = purchase /\ return' = return /\ payments' = payments
        /\ settlements' = settlements /\ reversals \subseteq reversals'
  BY DEF ReverseEvidence
<1> QED BY <1>1, EvidenceStep

LEMMA SettlementSteps ==
    ASSUME DocumentsStand, Next
    PROVE  DocumentsStand'
<1> USE DEF procurementVars, evidenceVars
<1>1. CASE ProcurementNext
  BY <1>1, ProcurementSteps
<1>2. ASSUME NEW a, NEW p \in Purchases, NEW amount, NEW method, NEW k,
             PostSupplierPayment(a, p, amount, method, k)
      PROVE  DocumentsStand'
  <2>1. purchase[p].status # "CANCELLED"
    BY <1>2 DEF PostSupplierPayment, Settleable
  <2>2. CASE ReplayPayment(p, amount, method, k)
    BY <2>2, IdleStep DEF ReplayPayment, EvidenceKept
  <2>3. CASE CreatePayment(p, amount, method, k)
    <3>1. purchase' = purchase /\ return' = return /\ settlements' = settlements
            /\ reversals' = reversals
      BY <2>3 DEF CreatePayment
    <3>2. \A x \in payments' \ payments : x.purchase = p
      BY <2>3 DEF CreatePayment
    <3> QED BY <2>1, <3>1, <3>2, EvidenceStep
  <2> QED BY <1>2, <2>2, <2>3 DEF PostSupplierPayment
<1>3. ASSUME NEW a, NEW x, NEW k, ReverseSupplierPayment(a, x, k)
      PROVE  DocumentsStand'
  BY <1>3, ReverseStep DEF ReverseSupplierPayment
<1>4. ASSUME NEW a, NEW r \in Returns, NEW type, NEW amount, NEW method, NEW k,
             PostSupplierReturnSettlement(a, r, type, amount, method, k)
      PROVE  DocumentsStand'
  <2>1. return[r].status = "POSTED"
    BY <1>4 DEF PostSupplierReturnSettlement
  <2>2. CASE ReplaySettlement(r, type, amount, method, k)
    BY <2>2, IdleStep DEF ReplaySettlement, EvidenceKept
  <2>3. CASE CreateSettlement(r, type, amount, method, k)
    <3>1. purchase' = purchase /\ return' = return /\ payments' = payments
            /\ reversals' = reversals
      BY <2>3 DEF CreateSettlement
    <3> DEFINE row == [key |-> k, return |-> r, type |-> type, amount |-> amount,
                       method |-> method, session |-> SessionOf(method)]
    <3>2. settlements' = settlements \cup {row}
      BY <2>3 DEF CreateSettlement
    <3>3. \A x \in settlements' \ settlements : x.return = r
      BY <3>2
    <3> HIDE DEF row
    <3> QED BY <2>1, <3>1, <3>3, EvidenceStep
  <2> QED BY <1>4, <2>2, <2>3 DEF PostSupplierReturnSettlement
<1>5. ASSUME NEW a, NEW x, NEW k, ReverseSupplierReturnSettlement(a, x, k)
      PROVE  DocumentsStand'
  BY <1>5, ReverseStep DEF ReverseSupplierReturnSettlement
<1>6. ASSUME NEW float, OpenDrawer(float)
      PROVE  DocumentsStand'
  BY <1>6, IdleStep DEF OpenDrawer, EvidenceKept
<1>7. CASE CloseOrReopenDrawer
  <2>1. EvidenceKept /\ purchase' = purchase /\ return' = return
    BY <1>7 DEF CloseOrReopenDrawer, EvidenceKept
  <2> QED BY <2>1, IdleStep
<1> QED BY <1>1, <1>2, <1>3, <1>4, <1>5, <1>6, <1>7 DEF Next

LEMMA Stuttering ==
    ASSUME DocumentsStand, UNCHANGED vars
    PROVE  DocumentsStand'
  BY IdleStep DEF vars, procurementVars, evidenceVars, EvidenceKept

LEMMA Beginning ==
    ASSUME Init
    PROVE  DocumentsStand
  BY DEF Init, ProcurementInit, DocumentsStand, Shape, SettledReturnsStand, PaidPurchasesStand,
         Active

-----------------------------------------------------------------------------
(* Evidence: a key names one record, a reversal is of a record, and a      *)
(* record stands on documents that exist.                                  *)

DrawerRow == [session : Sessions, open : BOOLEAN, float : Nat, expected : Nat]
SettlementMethods == Methods \cup {""}
ReversalRow == [of : SettlementKeys, key : SettlementKeys, op : {"PAYMENT", "SETTLEMENT"}]

EvidenceOK ==
    /\ payments \subseteq PaymentRow /\ IsFiniteSet(payments)
    /\ settlements \subseteq SettlementRow /\ IsFiniteSet(settlements)
    /\ reversals \subseteq ReversalRow
    /\ drawer \in DrawerRow
KeysOnce ==
    /\ \A x, y \in payments : x.key = y.key => x = y
    /\ \A x, y \in settlements : x.key = y.key => x = y
    /\ \A x, y \in reversals : x.key = y.key => x = y
    /\ \A x \in payments, y \in settlements \cup reversals : x.key # y.key
    /\ \A x \in settlements, y \in reversals : x.key # y.key
EvidenceLinked ==
    /\ \A z \in reversals : \E x \in payments \cup settlements : x.key = z.of
    /\ \A x \in payments : purchase[x.purchase] # Absent /\ x.session <= drawer.session
    /\ \A x \in settlements : return[x.return] # Absent /\ x.session <= drawer.session

LEMMA AmountsArePositive == Amounts \subseteq Nat \ {0}
BY DEF Amounts

LEMMA PaymentFacts ==
    ASSUME NEW x \in PaymentRow
    PROVE  /\ x.key \in SettlementKeys /\ x.purchase \in Purchases /\ x.amount \in Nat \ {0}
           /\ x.method \in Methods /\ x.session \in Nat
<1>1. x.session \in Sessions
  BY DEF PaymentRow
<1>2. x.session \in Nat
  BY <1>1 DEF Sessions
<1> QED BY <1>2 DEF PaymentRow

LEMMA SettlementFacts ==
    ASSUME NEW x \in SettlementRow
    PROVE  /\ x.key \in SettlementKeys /\ x.return \in Returns /\ x.amount \in Nat \ {0}
           /\ x.type \in {"CREDIT", "REFUND"} /\ x.session \in Nat
<1>1. x.session \in Sessions
  BY DEF SettlementRow
<1>2. x.session \in Nat
  BY <1>1 DEF Sessions
<1> QED BY <1>2 DEF SettlementRow

LEMMA ActiveIsPart == ASSUME NEW rows PROVE Active(rows) \subseteq rows
BY DEF Active

\* The evidence part of a reversal.
Undo(x, k, op, delta) ==
    /\ \A z \in reversals : z.of # x.key
    /\ InOriginalSession(x)
    /\ KeyFree(k)
    /\ MoveCash(x.method, delta)
    /\ reversals' = reversals \cup {Reversal(x, k, op)}
    /\ payments' = payments /\ settlements' = settlements
    /\ UNCHANGED procurementVars

LEMMA EvidenceCases ==
    ASSUME [Next]_vars
    PROVE  \/ EvidenceKept /\ drawer' = drawer
           \/ \E p \in Purchases, amount \in Amounts, method \in Methods, k \in SettlementKeys :
                  Settleable(p) /\ CreatePayment(p, amount, method, k)
           \/ \E r \in Returns, type \in {"CREDIT", "REFUND"}, amount \in Amounts,
                 method \in SettlementMethods, k \in SettlementKeys :
                  return[r].status = "POSTED" /\ CreateSettlement(r, type, amount, method, k)
           \/ \E x \in payments, k \in SettlementKeys : Undo(x, k, "PAYMENT", x.amount)
           \/ \E x \in settlements, k \in SettlementKeys : Undo(x, k, "SETTLEMENT", -x.amount)
           \/ \E float \in 0 .. MaxFloat : OpenDrawer(float)
           \/ CloseOrReopenDrawer
<1> USE DEF evidenceVars
<1>1. ASSUME NEW a \in Actors, NEW p \in Purchases, NEW amount \in Amounts, NEW method \in Methods,
             NEW k \in SettlementKeys, PostSupplierPayment(a, p, amount, method, k)
      PROVE  \/ EvidenceKept /\ drawer' = drawer
             \/ Settleable(p) /\ CreatePayment(p, amount, method, k)
  BY <1>1 DEF PostSupplierPayment, ReplayPayment, EvidenceKept
<1>2. ASSUME NEW a \in Actors, NEW r \in Returns, NEW type, NEW amount, NEW method, NEW k,
             PostSupplierReturnSettlement(a, r, type, amount, method, k)
      PROVE  \/ EvidenceKept /\ drawer' = drawer
             \/ return[r].status = "POSTED" /\ CreateSettlement(r, type, amount, method, k)
  BY <1>2 DEF PostSupplierReturnSettlement, ReplaySettlement, EvidenceKept
<1>3. ASSUME NEW x, NEW k, NEW op, NEW delta, ReverseEvidence(x, k, op, delta)
      PROVE  (EvidenceKept /\ drawer' = drawer) \/ Undo(x, k, op, delta)
  BY <1>3 DEF ReverseEvidence, EvidenceKept, Undo
<1>4. ASSUME NEW a \in Actors, NEW x \in payments, NEW k, ReverseSupplierPayment(a, x, k)
      PROVE  (EvidenceKept /\ drawer' = drawer) \/ Undo(x, k, "PAYMENT", x.amount)
  BY <1>3, <1>4 DEF ReverseSupplierPayment
<1>5. ASSUME NEW a \in Actors, NEW x \in settlements, NEW k, ReverseSupplierReturnSettlement(a, x, k)
      PROVE  (EvidenceKept /\ drawer' = drawer) \/ Undo(x, k, "SETTLEMENT", -x.amount)
  BY <1>3, <1>5 DEF ReverseSupplierReturnSettlement
<1>6. UNCHANGED vars => EvidenceKept /\ drawer' = drawer
  BY DEF vars, EvidenceKept
<1>7. ProcurementNext => EvidenceKept
  <2>1. \A a, p, lines : CreatePurchaseDraft(a, p, lines) => EvidenceKept
    BY DEF CreatePurchaseDraft, EvidenceKept
  <2>2. \A a, p : ApprovePurchase(a, p) \/ CancelPurchase(a, p) => EvidenceKept
    BY DEF ApprovePurchase, CancelPurchase, EvidenceKept
  <2>3. \A p, quantities, k : ReceivePurchase(p, quantities, k) => EvidenceKept
    BY DEF ReceivePurchase, ReplayReceipt, CreateReceipt, EvidenceKept
  <2>4. \A r, p, lines : SaveReturnDraft(r, p, lines) => EvidenceKept
    BY DEF SaveReturnDraft, EvidenceKept
  <2>5. \A a, r : CancelPurchaseReturn(a, r) => EvidenceKept
    BY DEF CancelPurchaseReturn, EvidenceKept
  <2>6. \A r, k, op : ReplayReturnKey(k, op, r) => EvidenceKept
    BY DEF ReplayReturnKey, EvidenceKept
  <2>7. \A r, k : CreateReturnPosting(r, k) => EvidenceKept
    BY DEF CreateReturnPosting, EvidenceKept
  <2>8. \A r, k : CreateReturnReversal(r, k) => EvidenceKept
    BY DEF CreateReturnReversal, EvidenceKept
  <2>9. \A a, r, k : PostPurchaseReturn(a, r, k) \/ ReversePurchaseReturn(a, r, k) => EvidenceKept
    BY <2>6, <2>7, <2>8 DEF PostPurchaseReturn, ReversePurchaseReturn
  <2>10. \A v, is, n : SetActive(v, is) \/ Freeze \/ Sell(v, n) => EvidenceKept
    BY DEF SetActive, Freeze, Sell, documents, EvidenceKept
  <2> QED BY <2>1, <2>2, <2>3, <2>4, <2>5, <2>9, <2>10 DEF ProcurementNext
<1>8. Next =>
          \/ ProcurementNext /\ UNCHANGED drawer
          \/ \E a \in Actors, p \in Purchases, amount \in Amounts, method \in Methods,
                k \in SettlementKeys : PostSupplierPayment(a, p, amount, method, k)
          \/ \E a \in Actors, x \in payments, k \in SettlementKeys : ReverseSupplierPayment(a, x, k)
          \/ \E a \in Actors, r \in Returns, type \in {"CREDIT", "REFUND"}, amount \in Amounts,
                method \in SettlementMethods, k \in SettlementKeys :
                 PostSupplierReturnSettlement(a, r, type, amount, method, k)
          \/ \E a \in Actors, x \in settlements, k \in SettlementKeys :
                 ReverseSupplierReturnSettlement(a, x, k)
          \/ \E float \in 0 .. MaxFloat : OpenDrawer(float)
          \/ CloseOrReopenDrawer
  BY DEF Next, SettlementMethods
<1> QED BY <1>1, <1>2, <1>4, <1>5, <1>6, <1>7, <1>8

LEMMA CashMoves ==
    ASSUME drawer \in DrawerRow, NEW method, NEW delta \in Int, MoveCash(method, delta)
    PROVE  /\ drawer' \in DrawerRow
           /\ drawer'.session = drawer.session /\ drawer'.float = drawer.float
           /\ method = "CASH" => drawer'.expected = drawer.expected + delta
           /\ method # "CASH" => drawer'.expected = drawer.expected
<1>1. CASE method # "CASH"
  BY <1>1 DEF MoveCash
<1>2. CASE method = "CASH"
  <2>1. drawer' = [drawer EXCEPT !.expected = drawer.expected + delta]
          /\ (delta < 0 => drawer.expected + delta >= 0)
    BY <1>2 DEF MoveCash, Takes, DrawerRow
  <2>2. drawer.expected + delta \in Nat
    BY <2>1 DEF DrawerRow
  <2> QED BY <1>2, <2>1, <2>2 DEF DrawerRow
<1> QED BY <1>1, <1>2

-----------------------------------------------------------------------------
(* How the evidence moves.                                                 *)

\* The documents stay, and so do the reversals or one of the kinds of records.
Pays(p, x) ==
    /\ Settleable(p)
    /\ x \in PaymentRow /\ x.purchase = p /\ x.amount <= RemainingReference(p)
    /\ x.method = "CASH" => x.session = drawer.session
    /\ x.session <= drawer.session
    /\ MoveCash(x.method, -x.amount)
    /\ payments' = payments \cup {x} /\ x \notin payments
    /\ Active(payments)' = Active(payments) \cup {x}
    /\ settlements' = settlements /\ Active(settlements)' = Active(settlements)
    /\ UNCHANGED procurementVars
Settles(r, x) ==
    /\ return[r].status = "POSTED"
    /\ x \in SettlementRow /\ x.return = r /\ x.amount <= Unresolved(r, x.type)
    /\ x.type = "CREDIT" => x.amount <= RemainingReference(return[r].purchase)
    /\ x.type = "REFUND" => x.amount <= Paid(return[r].purchase) - Settled(return[r].purchase, "REFUND")
    /\ x.method = "CASH" => x.session = drawer.session
    /\ x.session <= drawer.session
    /\ MoveCash(x.method, x.amount)
    /\ settlements' = settlements \cup {x} /\ x \notin settlements
    /\ Active(settlements)' = Active(settlements) \cup {x}
    /\ payments' = payments /\ Active(payments)' = Active(payments)
    /\ UNCHANGED procurementVars
TakesPaymentBack(x) ==
    /\ x \in Active(payments) /\ InOriginalSession(x) /\ MoveCash(x.method, x.amount)
    /\ payments' = payments /\ Active(payments)' = Active(payments) \ {x}
    /\ settlements' = settlements /\ Active(settlements)' = Active(settlements)
    /\ UNCHANGED procurementVars
TakesSettlementBack(x) ==
    /\ x \in Active(settlements) /\ InOriginalSession(x) /\ MoveCash(x.method, -x.amount)
    /\ settlements' = settlements /\ Active(settlements)' = Active(settlements) \ {x}
    /\ payments' = payments /\ Active(payments)' = Active(payments)
    /\ UNCHANGED procurementVars
EvidenceRests ==
    /\ EvidenceKept
    /\ Active(payments)' = Active(payments) /\ Active(settlements)' = Active(settlements)
    /\ \/ drawer' = drawer
       \/ UNCHANGED procurementVars /\ \E float \in 0 .. MaxFloat : OpenDrawer(float)
       \/ UNCHANGED procurementVars /\ CloseOrReopenDrawer

LEMMA SessionsOfMethods ==
    ASSUME drawer \in DrawerRow, NEW method
    PROVE  /\ SessionOf(method) \in Sessions /\ SessionOf(method) <= drawer.session
           /\ method = "CASH" => SessionOf(method) = drawer.session
<1>1. drawer.session \in Sessions /\ drawer.session \in Nat /\ 0 \in Sessions
  <2>1. drawer.session \in Sessions
    BY DEF DrawerRow
  <2> QED BY <2>1, MoneyAssumption DEF Sessions
<1> QED BY <1>1 DEF SessionOf

LEMMA PaymentMove ==
    ASSUME EvidenceOK, KeysOnce, EvidenceLinked,
           NEW p \in Purchases, NEW amount \in Amounts, NEW method \in Methods,
           NEW k \in SettlementKeys, Settleable(p), CreatePayment(p, amount, method, k)
    PROVE  EvidenceOK' /\ KeysOnce' /\ EvidenceLinked' /\ \E x : Pays(p, x)
<1> DEFINE x == [key |-> k, purchase |-> p, amount |-> amount,
                 method |-> method, session |-> SessionOf(method)]
<1>1. /\ KeyFree(k) /\ amount <= RemainingReference(p)
      /\ MoveCash(method, -amount)
      /\ payments' = payments \cup {x}
      /\ settlements' = settlements /\ reversals' = reversals
      /\ UNCHANGED procurementVars
  BY DEF CreatePayment
<1>2. purchase[p] # Absent /\ purchase' = purchase /\ return' = return
  <2>1. purchase[p].status # "ABSENT"
    BY DEF Settleable
  <2> QED BY <1>1, <2>1 DEF Absent, procurementVars
<1>3. amount \in Nat \ {0} /\ drawer \in DrawerRow
  BY AmountsArePositive DEF EvidenceOK
<1>4. x.key = k /\ x.purchase = p /\ x.amount = amount /\ x.method = method /\ x.session = SessionOf(method)
  OBVIOUS
<1>5. x \in PaymentRow
  BY <1>3, SessionsOfMethods DEF PaymentRow
<1> HIDE DEF x
<1>6. x \notin payments
  BY <1>1, <1>4 DEF KeyFree
<1>7. /\ drawer' \in DrawerRow /\ drawer'.session = drawer.session
  <2>1. -amount \in Int
    BY <1>3
  <2> QED BY <1>1, <1>3, <2>1, CashMoves
<1>8. \A z \in reversals : z.of # k
  <2> SUFFICES ASSUME NEW z \in reversals PROVE z.of # k
    OBVIOUS
  <2>1. PICK y \in payments \cup settlements : y.key = z.of
    BY DEF EvidenceLinked
  <2> QED BY <1>1, <2>1 DEF KeyFree
<1>9. Active(payments)' = Active(payments) \cup {x}
  BY <1>1, <1>4, <1>8 DEF Active
<1>10. Active(settlements)' = Active(settlements)
  BY <1>1 DEF Active
<1>11. EvidenceOK'
  <2>1. IsFiniteSet(payments \cup {x})
    BY FS_AddElement DEF EvidenceOK
  <2> QED BY <1>1, <1>5, <1>7, <2>1 DEF EvidenceOK
<1>12. KeysOnce'
  BY <1>1, <1>4 DEF KeysOnce, KeyFree
<1>13. EvidenceLinked'
  <2>1. x.session <= drawer.session
    BY <1>3, <1>4, SessionsOfMethods
  <2>2. \A z \in reversals' : \E y \in payments' \cup settlements' : y.key = z.of
    BY <1>1 DEF EvidenceLinked
  <2> QED BY <1>1, <1>2, <1>4, <1>7, <2>1, <2>2 DEF EvidenceLinked
<1>14. Pays(p, x)
  BY <1>1, <1>3, <1>4, <1>5, <1>6, <1>9, <1>10, SessionsOfMethods DEF Pays
<1> QED BY <1>11, <1>12, <1>13, <1>14

LEMMA SettlementMove ==
    ASSUME EvidenceOK, KeysOnce, EvidenceLinked,
           NEW r \in Returns, NEW type \in {"CREDIT", "REFUND"}, NEW amount \in Amounts,
           NEW method \in SettlementMethods, NEW k \in SettlementKeys,
           return[r].status = "POSTED", CreateSettlement(r, type, amount, method, k)
    PROVE  EvidenceOK' /\ KeysOnce' /\ EvidenceLinked' /\ \E x : Settles(r, x)
<1> DEFINE x == [key |-> k, return |-> r, type |-> type, amount |-> amount,
                 method |-> method, session |-> SessionOf(method)]
<1>1. /\ KeyFree(k) /\ amount <= Unresolved(r, type)
      /\ type = "CREDIT" => amount <= RemainingReference(return[r].purchase)
      /\ type = "REFUND" => amount <= Paid(return[r].purchase) - Settled(return[r].purchase, "REFUND")
      /\ MoveCash(method, amount)
      /\ settlements' = settlements \cup {x}
      /\ payments' = payments /\ reversals' = reversals
      /\ UNCHANGED procurementVars
  BY DEF CreateSettlement
<1>2. return[r] # Absent /\ purchase' = purchase /\ return' = return
  BY <1>1 DEF Absent, procurementVars
<1>3. amount \in Nat \ {0} /\ drawer \in DrawerRow
  BY AmountsArePositive DEF EvidenceOK
<1>4. /\ x.key = k /\ x.return = r /\ x.type = type /\ x.amount = amount /\ x.method = method
      /\ x.session = SessionOf(method)
  OBVIOUS
<1>5. x \in SettlementRow
  BY <1>3, SessionsOfMethods DEF SettlementRow, SettlementMethods
<1> HIDE DEF x
<1>6. x \notin settlements
  BY <1>1, <1>4 DEF KeyFree
<1>7. /\ drawer' \in DrawerRow /\ drawer'.session = drawer.session
  <2>1. amount \in Int
    BY <1>3
  <2> QED BY <1>1, <1>3, <2>1, CashMoves
<1>8. \A z \in reversals : z.of # k
  <2> SUFFICES ASSUME NEW z \in reversals PROVE z.of # k
    OBVIOUS
  <2>1. PICK y \in payments \cup settlements : y.key = z.of
    BY DEF EvidenceLinked
  <2> QED BY <1>1, <2>1 DEF KeyFree
<1>9. Active(settlements)' = Active(settlements) \cup {x}
  BY <1>1, <1>4, <1>8 DEF Active
<1>10. Active(payments)' = Active(payments)
  BY <1>1 DEF Active
<1>11. EvidenceOK'
  <2>1. IsFiniteSet(settlements \cup {x})
    BY FS_AddElement DEF EvidenceOK
  <2> QED BY <1>1, <1>5, <1>7, <2>1 DEF EvidenceOK
<1>12. KeysOnce'
  BY <1>1, <1>4 DEF KeysOnce, KeyFree
<1>13. EvidenceLinked'
  <2>1. x.session <= drawer.session
    BY <1>3, <1>4, SessionsOfMethods
  <2>2. \A z \in reversals' : \E y \in payments' \cup settlements' : y.key = z.of
    BY <1>1 DEF EvidenceLinked
  <2> QED BY <1>1, <1>2, <1>4, <1>7, <2>1, <2>2 DEF EvidenceLinked
<1>14. Settles(r, x)
  BY <1>1, <1>3, <1>4, <1>5, <1>6, <1>9, <1>10, SessionsOfMethods DEF Settles
<1> QED BY <1>11, <1>12, <1>13, <1>14

LEMMA UndoMove ==
    ASSUME EvidenceOK, KeysOnce, EvidenceLinked,
           NEW x \in payments \cup settlements, NEW op \in {"PAYMENT", "SETTLEMENT"},
           NEW k \in SettlementKeys, NEW delta \in Int, Undo(x, k, op, delta)
    PROVE  /\ EvidenceOK' /\ KeysOnce' /\ EvidenceLinked'
           /\ x \in payments => /\ x \in Active(payments)
                                /\ Active(payments)' = Active(payments) \ {x}
                                /\ Active(settlements)' = Active(settlements)
           /\ x \in settlements => /\ x \in Active(settlements)
                                   /\ Active(settlements)' = Active(settlements) \ {x}
                                   /\ Active(payments)' = Active(payments)
<1> DEFINE z == Reversal(x, k, op)
<1>1. /\ \A y \in reversals : y.of # x.key
      /\ KeyFree(k) /\ MoveCash(x.method, delta)
      /\ reversals' = reversals \cup {z}
      /\ payments' = payments /\ settlements' = settlements
      /\ UNCHANGED procurementVars
  BY DEF Undo
<1>2. purchase' = purchase /\ return' = return
  BY <1>1 DEF procurementVars
<1>3. x.key \in SettlementKeys
  BY PaymentFacts, SettlementFacts DEF EvidenceOK
<1>4. z \in ReversalRow /\ z.of = x.key /\ z.key = k
  BY <1>3 DEF Reversal, ReversalRow
<1> HIDE DEF z
<1>5. /\ drawer' \in DrawerRow /\ drawer'.session = drawer.session
  BY <1>1, CashMoves DEF EvidenceOK
<1>6. EvidenceOK'
  BY <1>1, <1>4, <1>5 DEF EvidenceOK
<1>7. KeysOnce'
  BY <1>1, <1>4 DEF KeysOnce, KeyFree
<1>8. EvidenceLinked'
  <2>1. \A y \in reversals' : \E w \in payments' \cup settlements' : w.key = y.of
    BY <1>1, <1>4 DEF EvidenceLinked
  <2> QED BY <1>1, <1>2, <1>5, <2>1 DEF EvidenceLinked
<1>9. \A y \in payments \cup settlements : y.key = x.key =>
          (x \in payments => y \in payments /\ y = x) /\ (x \in settlements => y \in settlements /\ y = x)
  BY DEF KeysOnce
<1>10. ASSUME x \in payments
       PROVE  /\ x \in Active(payments)
              /\ Active(payments)' = Active(payments) \ {x}
              /\ Active(settlements)' = Active(settlements)
  <2>1. x \in Active(payments)
    BY <1>1, <1>10 DEF Active
  <2>2. Active(payments)' = Active(payments) \ {x}
    BY <1>1, <1>4, <1>9, <1>10 DEF Active
  <2>3. \A y \in settlements : y.key # x.key
    BY <1>10 DEF KeysOnce
  <2>4. Active(settlements)' = Active(settlements)
    BY <1>1, <1>4, <2>3 DEF Active
  <2> QED BY <2>1, <2>2, <2>4
<1>11. ASSUME x \in settlements
       PROVE  /\ x \in Active(settlements)
              /\ Active(settlements)' = Active(settlements) \ {x}
              /\ Active(payments)' = Active(payments)
  <2>1. x \in Active(settlements)
    BY <1>1, <1>11 DEF Active
  <2>2. Active(settlements)' = Active(settlements) \ {x}
    BY <1>1, <1>4, <1>9, <1>11 DEF Active
  <2>3. \A y \in payments : y.key # x.key
    BY <1>11 DEF KeysOnce
  <2>4. Active(payments)' = Active(payments)
    BY <1>1, <1>4, <2>3 DEF Active
  <2> QED BY <2>1, <2>2, <2>4
<1> QED BY <1>6, <1>7, <1>8, <1>10, <1>11

\* A document that exists goes on existing, under the purchase it was of.
LEMMA DocumentsRemain ==
    ASSUME ShelfOK, PurchasesOK, ReceiptsOK, ReturnsOK, [Next]_vars
    PROVE  /\ \A p \in Purchases : purchase[p] # Absent => purchase'[p] # Absent
           /\ \A r \in Returns : return[r] # Absent =>
                  return'[r] # Absent /\ return'[r].purchase = return[r].purchase
<1>1. \A p \in Purchases : purchase[p] # Absent => purchase'[p] # Absent
  BY PurchaseSteps
<1>2. ASSUME NEW r \in Returns, return[r] # Absent
      PROVE  return'[r] # Absent /\ return'[r].purchase = return[r].purchase
  <2>1. ASSUME NEW s \in Returns, Elsewhere(s), Redrafted(s) \/ Posts(s) \/ Reverses(s)
        PROVE  return'[r] # Absent /\ return'[r].purchase = return[r].purchase
    <3>1. CASE r # s
      BY <1>2, <2>1, <3>1 DEF Elsewhere
    <3>2. CASE r = s
      <4>1. return'[r].status \in {"DRAFT", "CANCELLED", "POSTED", "REVERSED"}
              /\ return'[r].purchase = return[r].purchase
        BY <1>2, <2>1, <3>2 DEF Redrafted, Posts, Reverses
      <4> QED BY <4>1 DEF Absent
    <3> QED BY <3>1, <3>2
  <2> QED BY <1>2, <2>1, ReturnSteps
<1> QED BY <1>1, <1>2

LEMMA EvidenceSteps ==
    ASSUME ShelfOK, PurchasesOK, ReceiptsOK, ReturnsOK, EvidenceOK, KeysOnce, EvidenceLinked, [Next]_vars
    PROVE  /\ EvidenceOK' /\ KeysOnce' /\ EvidenceLinked'
           /\ \/ EvidenceRests
              \/ \E p \in Purchases : \E x : Pays(p, x)
              \/ \E r \in Returns : \E x : Settles(r, x)
              \/ \E x : TakesPaymentBack(x)
              \/ \E x : TakesSettlementBack(x)
<1>1. ASSUME NEW x \in payments, NEW k \in SettlementKeys, Undo(x, k, "PAYMENT", x.amount)
      PROVE  EvidenceOK' /\ KeysOnce' /\ EvidenceLinked' /\ TakesPaymentBack(x)
  <2>1. x.amount \in Int
    BY PaymentFacts DEF EvidenceOK
  <2> QED BY <1>1, <2>1, UndoMove DEF Undo, TakesPaymentBack
<1>2. ASSUME NEW x \in settlements, NEW k \in SettlementKeys, Undo(x, k, "SETTLEMENT", -x.amount)
      PROVE  EvidenceOK' /\ KeysOnce' /\ EvidenceLinked' /\ TakesSettlementBack(x)
  <2>1. x.amount \in Int
    BY SettlementFacts DEF EvidenceOK
  <2>2. -x.amount \in Int
    BY <2>1
  <2> QED BY <1>2, <2>2, UndoMove DEF Undo, TakesSettlementBack
<1>3. ASSUME EvidenceKept, drawer' \in DrawerRow, drawer.session <= drawer'.session
      PROVE  EvidenceOK' /\ KeysOnce' /\ EvidenceLinked'
  <2>1. EvidenceOK' /\ KeysOnce'
    BY <1>3 DEF EvidenceKept, EvidenceOK, KeysOnce
  <2>2. drawer.session \in Nat /\ drawer'.session \in Nat
    <3>1. drawer.session \in Sessions /\ drawer'.session \in Sessions
      BY <1>3 DEF DrawerRow, EvidenceOK
    <3> QED BY <3>1 DEF Sessions
  <2>3. \A x \in payments : purchase'[x.purchase] # Absent /\ x.session <= drawer'.session
    <3>1. \A x \in payments : x.purchase \in Purchases /\ x.session \in Nat
      BY PaymentFacts DEF EvidenceOK
    <3> QED BY <1>3, <2>2, <3>1, DocumentsRemain DEF EvidenceLinked
  <2>4. \A x \in settlements : return'[x.return] # Absent /\ x.session <= drawer'.session
    <3>1. \A x \in settlements : x.return \in Returns /\ x.session \in Nat
      BY SettlementFacts DEF EvidenceOK
    <3> QED BY <1>3, <2>2, <3>1, DocumentsRemain DEF EvidenceLinked
  <2>5. \A z \in reversals' : \E x \in payments' \cup settlements' : x.key = z.of
    BY <1>3 DEF EvidenceKept, EvidenceLinked
  <2> QED BY <1>3, <2>1, <2>3, <2>4, <2>5 DEF EvidenceKept, EvidenceLinked
<1>4. EvidenceKept => Active(payments)' = Active(payments) /\ Active(settlements)' = Active(settlements)
  BY ActiveKept
<1>5. drawer.session \in Nat /\ drawer \in DrawerRow
  <2>1. drawer.session \in Sessions
    BY DEF EvidenceOK, DrawerRow
  <2> QED BY <2>1 DEF Sessions, EvidenceOK
<1>6. CASE EvidenceKept /\ drawer' = drawer
  <2>1. drawer' \in DrawerRow /\ drawer.session <= drawer'.session
    BY <1>5, <1>6
  <2> QED BY <1>3, <1>4, <1>6, <2>1 DEF EvidenceRests
<1>7. ASSUME NEW float \in 0 .. MaxFloat, OpenDrawer(float)
      PROVE  EvidenceOK' /\ KeysOnce' /\ EvidenceLinked' /\ EvidenceRests
  <2>1. EvidenceKept /\ UNCHANGED procurementVars
    BY <1>7 DEF OpenDrawer, EvidenceKept, evidenceVars
  <2>2. drawer.session < MaxSession /\ drawer' =
            [session |-> drawer.session + 1, open |-> TRUE, float |-> float, expected |-> float]
    BY <1>7 DEF OpenDrawer
  <2>3. drawer.session + 1 \in Sessions /\ float \in Nat
    BY <1>5, <2>2, MoneyAssumption DEF Sessions
  <2>4. drawer' \in DrawerRow /\ drawer.session <= drawer'.session
    BY <1>5, <2>2, <2>3 DEF DrawerRow
  <2> QED BY <1>3, <1>4, <1>7, <2>1, <2>4 DEF EvidenceRests
<1>8. CASE CloseOrReopenDrawer
  <2>1. EvidenceKept /\ UNCHANGED procurementVars
    BY <1>8 DEF CloseOrReopenDrawer, EvidenceKept, evidenceVars
  <2>2. PICK open \in BOOLEAN : drawer' = [drawer EXCEPT !.open = open]
    BY <1>8 DEF CloseOrReopenDrawer
  <2>3. drawer' \in DrawerRow /\ drawer.session <= drawer'.session
    BY <1>5, <2>2 DEF DrawerRow
  <2> QED BY <1>3, <1>4, <1>8, <2>1, <2>3 DEF EvidenceRests
<1> QED BY EvidenceCases, PaymentMove, SettlementMove, <1>1, <1>2, <1>6, <1>7, <1>8

-----------------------------------------------------------------------------
(* Sums of money over rows.                                                *)

Money(S) == IsFiniteSet(S) /\ \A x \in S : x.amount \in Nat

LEMMA MoneySum ==
    ASSUME NEW S, Money(S)
    PROVE  Sum(S) \in Nat /\ IntegerSum([x \in S |-> x.amount])
<1> DEFINE f == [x \in S |-> x.amount]
<1>1. IsFiniteSet(DOMAIN f) /\ \A x \in DOMAIN f : f[x] \in Nat
  BY DEF Money
<1>2. Sum(S) = SumFunction(f)
  BY DEF Sum
<1> HIDE DEF f
<1>3. SumFunction(f) \in Nat
  BY <1>1, SumFunctionNat
<1>4. IntegerSum(f)
  BY <1>1 DEF IntegerSum
<1> QED BY <1>2, <1>3, <1>4 DEF f

LEMMA MoneyOfNothing == ASSUME NEW S, S = {} PROVE Sum(S) = 0
<1> DEFINE f == [x \in S |-> x.amount]
<1>1. DOMAIN f = {} /\ Sum(S) = SumFunction(f)
  BY DEF Sum
<1> HIDE DEF f
<1> QED BY <1>1, SumFunctionOfNothing

LEMMA MoneyAdd ==
    ASSUME NEW S, Money(S), NEW x, x \notin S, x.amount \in Nat, NEW W, W = S \cup {x}
    PROVE  Sum(W) = Sum(S) + x.amount
<1> DEFINE f == [y \in S |-> y.amount]
           g == [y \in W |-> y.amount]
<1>1. /\ DOMAIN g = DOMAIN f \cup {x} /\ x \notin DOMAIN f /\ g[x] = x.amount
      /\ \A y \in DOMAIN f : g[y] = f[y]
      /\ Sum(S) = SumFunction(f) /\ Sum(W) = SumFunction(g)
  BY DEF Sum
<1>2. IntegerSum(f)
  BY MoneySum
<1> HIDE DEF f, g
<1>3. g[x] \in Int
  BY <1>1
<1>4. SumFunction(g) = SumFunction(f) + g[x]
  BY <1>1, <1>2, <1>3, SumFunctionAdd
<1> QED BY <1>1, <1>4

LEMMA MoneyPart ==
    ASSUME NEW S, Money(S), NEW T, T \subseteq S
    PROVE  Money(T) /\ Sum(T) <= Sum(S) /\ Sum(T) \in Nat /\ Sum(S) \in Nat
<1> DEFINE f == [x \in T |-> x.amount]
           g == [x \in S |-> IF x \in T THEN x.amount ELSE 0]
           h == [x \in S |-> x.amount]
<1>1. Money(T)
  BY FS_Subset DEF Money
<1>2. IntegerSum(f) /\ IntegerSum(h) /\ Sum(T) \in Nat /\ Sum(S) \in Nat
  BY <1>1, MoneySum
<1>3. /\ DOMAIN f \subseteq DOMAIN g /\ \A x \in DOMAIN f : g[x] = f[x]
      /\ \A x \in DOMAIN g \ DOMAIN f : g[x] = 0
      /\ DOMAIN g = DOMAIN h
      /\ Sum(T) = SumFunction(f) /\ Sum(S) = SumFunction(h)
  BY DEF Sum
<1>4. \A x \in S : g[x] \in Int /\ h[x] \in Int /\ g[x] <= h[x]
  BY DEF Money
<1>5. DOMAIN g = S /\ IsFiniteSet(S)
  BY DEF Money
<1> HIDE DEF f, g, h
<1>6. IntegerSum(g)
  BY <1>4, <1>5 DEF IntegerSum
<1>7. SumFunction(g) = SumFunction(f)
  BY <1>2, <1>3, <1>6, SumFunctionExtend
<1>8. DOMAIN h = DOMAIN g /\ \A x \in DOMAIN g : h[x] \in Int /\ g[x] <= h[x]
  BY <1>3, <1>4, <1>5
<1>9. SumFunction(g) <= SumFunction(h)
  BY <1>6, <1>8, SumFunctionAtMost
<1> QED BY <1>1, <1>2, <1>3, <1>7, <1>9

-----------------------------------------------------------------------------
(* The totals the services decide on.                                      *)

OfPurchase(S, p) == {x \in S : x.purchase = p}
OfReturn(S, r) == {x \in S : x.return = r}
OfType(S, t, p, type) == {x \in S : t[x.return].purchase = p /\ x.type = type}
Accepted(r) == Sum(OfReturn(Active(settlements), r))
EverPaid(p) == Sum(OfPurchase(payments, p))

LEMMA ActiveMoney ==
    ASSUME EvidenceOK
    PROVE  Money(payments) /\ Money(Active(payments)) /\ Money(Active(settlements))
<1>1. Money(payments)
  BY PaymentFacts DEF EvidenceOK, Money
<1>2. Money(settlements)
  BY SettlementFacts DEF EvidenceOK, Money
<1> QED BY <1>1, <1>2, ActiveIsPart, MoneyPart

LEMMA TotalsAreSums ==
    /\ \A p : Paid(p) = Sum(OfPurchase(Active(payments), p))
    /\ \A p, type : Settled(p, type) = Sum(OfType(Active(settlements), return, p, type))
BY DEF Paid, Settled, OfPurchase, OfType

LEMMA TotalsThen ==
    ASSUME NEW P, Active(payments)' = P, NEW S, Active(settlements)' = S
    PROVE  /\ \A p : Paid(p)' = Sum(OfPurchase(P, p))
           /\ \A p, type : Settled(p, type)' = Sum(OfType(S, return', p, type))
           /\ \A r : Accepted(r)' = Sum(OfReturn(S, r))
           /\ \A p : EverPaid(p)' = Sum(OfPurchase(payments', p))
BY DEF Paid, Settled, OfPurchase, OfType, Accepted, OfReturn, EverPaid, Sum

LEMMA TotalsAreNat ==
    ASSUME EvidenceOK
    PROVE  /\ \A p : Paid(p) \in Nat /\ EverPaid(p) \in Nat /\ Paid(p) <= EverPaid(p)
           /\ \A p, type : Settled(p, type) \in Nat
           /\ \A r : Accepted(r) \in Nat
<1>1. ASSUME NEW p PROVE Paid(p) \in Nat /\ EverPaid(p) \in Nat /\ Paid(p) <= EverPaid(p)
  <2>1. OfPurchase(Active(payments), p) \subseteq OfPurchase(payments, p)
          /\ OfPurchase(payments, p) \subseteq payments
    BY DEF OfPurchase, Active
  <2>2. Money(OfPurchase(payments, p))
    BY <2>1, ActiveMoney, MoneyPart
  <2> QED BY <2>1, <2>2, MoneyPart, TotalsAreSums DEF EverPaid
<1>2. ASSUME NEW p, NEW type PROVE Settled(p, type) \in Nat
  <2>1. OfType(Active(settlements), return, p, type) \subseteq Active(settlements)
    BY DEF OfType
  <2> QED BY <2>1, ActiveMoney, MoneyPart, TotalsAreSums
<1>3. ASSUME NEW r PROVE Accepted(r) \in Nat
  <2>1. OfReturn(Active(settlements), r) \subseteq Active(settlements)
    BY DEF OfReturn
  <2> QED BY <2>1, ActiveMoney, MoneyPart DEF Accepted
<1> QED BY <1>1, <1>2, <1>3

LEMMA RestTotals ==
    ASSUME ShelfOK, PurchasesOK, ReceiptsOK, ReturnsOK, EvidenceOK, EvidenceLinked,
           [Next]_vars, EvidenceRests
    PROVE  /\ \A p : Paid(p)' = Paid(p) /\ EverPaid(p)' = EverPaid(p)
           /\ \A p, type : Settled(p, type)' = Settled(p, type)
           /\ \A r : Accepted(r)' = Accepted(r)
<1>1. PICK P, S : P = Active(payments) /\ S = Active(settlements)
  OBVIOUS
<1>2. Active(payments)' = P /\ Active(settlements)' = S /\ payments' = payments
  BY <1>1 DEF EvidenceRests, EvidenceKept
<1>3. \A x \in S : x.return \in Returns /\ return[x.return] # Absent
  BY <1>1, SettlementFacts DEF EvidenceOK, EvidenceLinked, Active
<1>4. \A x \in S : return'[x.return].purchase = return[x.return].purchase
  BY <1>3, DocumentsRemain
<1>5. \A p, type : OfType(S, return', p, type) = OfType(S, return, p, type)
  BY <1>4 DEF OfType
<1> QED BY <1>1, <1>2, <1>5, TotalsThen, TotalsAreSums DEF Accepted, EverPaid

LEMMA PaysTotals ==
    ASSUME EvidenceOK, NEW p, NEW x, Pays(p, x)
    PROVE  /\ Paid(p)' = Paid(p) + x.amount
           /\ \A q : q # p => Paid(q)' = Paid(q)
           /\ \A q : EverPaid(q) <= EverPaid(q)' /\ EverPaid(q)' \in Nat
           /\ \A q, type : Settled(q, type)' = Settled(q, type)
           /\ \A r : Accepted(r)' = Accepted(r)
           /\ purchase' = purchase /\ return' = return /\ receipts' = receipts
<1>1. PICK P, S : P = Active(payments) /\ S = Active(settlements)
  OBVIOUS
<1>2. /\ Active(payments)' = P \cup {x} /\ Active(settlements)' = S
      /\ payments' = payments \cup {x} /\ x \notin payments
      /\ x.purchase = p /\ x \in PaymentRow
      /\ purchase' = purchase /\ return' = return /\ receipts' = receipts
  BY <1>1 DEF Pays, procurementVars
<1>3. x.amount \in Nat /\ x \notin P
  BY <1>1, <1>2, PaymentFacts DEF Active
<1>4. PICK W : W = P \cup {x}
  OBVIOUS
<1>5. \A q : Paid(q)' = Sum(OfPurchase(W, q)) /\ EverPaid(q)' = Sum(OfPurchase(payments', q))
  BY <1>2, <1>4, TotalsThen
<1>6. Paid(p)' = Paid(p) + x.amount
  <2>1. OfPurchase(W, p) = OfPurchase(P, p) \cup {x} /\ x \notin OfPurchase(P, p)
          /\ OfPurchase(P, p) \subseteq P
    BY <1>2, <1>3, <1>4 DEF OfPurchase
  <2>2. Money(OfPurchase(P, p))
    BY <1>1, <2>1, ActiveMoney, MoneyPart
  <2>3. Sum(OfPurchase(W, p)) = Sum(OfPurchase(P, p)) + x.amount
    BY <1>3, <2>1, <2>2, MoneyAdd
  <2> QED BY <1>1, <1>5, <2>3, TotalsAreSums
<1>7. \A q : q # p => Paid(q)' = Paid(q)
  <2>1. \A q : q # p => OfPurchase(W, q) = OfPurchase(P, q)
    BY <1>2, <1>4 DEF OfPurchase
  <2> QED BY <1>1, <1>5, <2>1, TotalsAreSums
<1>8. ASSUME NEW q PROVE EverPaid(q) <= EverPaid(q)' /\ EverPaid(q)' \in Nat
  <2>1. /\ OfPurchase(payments, q) \subseteq OfPurchase(payments', q)
        /\ OfPurchase(payments', q) \subseteq payments'
    BY <1>2 DEF OfPurchase
  <2>2. Money(payments')
    <3>1. IsFiniteSet(payments \cup {x})
      BY FS_AddElement DEF EvidenceOK
    <3>2. \A y \in payments : y.amount \in Nat
      BY ActiveMoney DEF Money
    <3> QED BY <1>2, <1>3, <3>1, <3>2 DEF Money
  <2>3. Money(OfPurchase(payments', q))
    BY <2>1, <2>2, MoneyPart
  <2>4. Sum(OfPurchase(payments, q)) <= Sum(OfPurchase(payments', q))
          /\ Sum(OfPurchase(payments', q)) \in Nat
    BY <2>1, <2>3, MoneyPart
  <2> QED BY <1>5, <2>4 DEF EverPaid
<1>9. /\ \A q, type : Settled(q, type)' = Settled(q, type)
      /\ \A r : Accepted(r)' = Accepted(r)
  BY <1>1, <1>2, TotalsThen, TotalsAreSums DEF Accepted
<1> QED BY <1>2, <1>6, <1>7, <1>8, <1>9

LEMMA SettlesTotals ==
    ASSUME EvidenceOK, NEW r, NEW x, Settles(r, x)
    PROVE  /\ \A q : Paid(q)' = Paid(q) /\ EverPaid(q)' = EverPaid(q)
           /\ Settled(return[r].purchase, x.type)' = Settled(return[r].purchase, x.type) + x.amount
           /\ \A q, type : (q # return[r].purchase \/ type # x.type) =>
                  Settled(q, type)' = Settled(q, type)
           /\ Accepted(r)' = Accepted(r) + x.amount
           /\ \A s : s # r => Accepted(s)' = Accepted(s)
           /\ purchase' = purchase /\ return' = return /\ receipts' = receipts
<1>1. PICK P, S, p : P = Active(payments) /\ S = Active(settlements) /\ p = return[r].purchase
  OBVIOUS
<1>2. /\ Active(settlements)' = S \cup {x} /\ Active(payments)' = P
      /\ payments' = payments /\ x \notin settlements
      /\ x.return = r /\ x \in SettlementRow
      /\ purchase' = purchase /\ return' = return /\ receipts' = receipts
  BY <1>1 DEF Settles, procurementVars
<1>3. x.amount \in Nat /\ x \notin S
  BY <1>1, <1>2, SettlementFacts DEF Active
<1>4. PICK W : W = S \cup {x}
  OBVIOUS
<1>5. /\ \A q, type : Settled(q, type)' = Sum(OfType(W, return, q, type))
      /\ \A s : Accepted(s)' = Sum(OfReturn(W, s))
  BY <1>2, <1>4, TotalsThen
<1>6. Settled(p, x.type)' = Settled(p, x.type) + x.amount
  <2>1. PICK T : T = OfType(S, return, p, x.type)
    OBVIOUS
  <2>2. OfType(W, return, p, x.type) = T \cup {x} /\ x \notin T /\ T \subseteq S
    BY <1>1, <1>2, <1>3, <1>4, <2>1 DEF OfType
  <2>3. Money(T)
    BY <1>1, <2>2, ActiveMoney, MoneyPart
  <2>4. Sum(OfType(W, return, p, x.type)) = Sum(T) + x.amount
    BY <1>3, <2>2, <2>3, MoneyAdd
  <2> QED BY <1>1, <1>5, <2>1, <2>4, TotalsAreSums
<1>7. \A q, type : q # p \/ type # x.type => Settled(q, type)' = Settled(q, type)
  <2>1. \A q, type : q # p \/ type # x.type => OfType(W, return, q, type) = OfType(S, return, q, type)
    BY <1>1, <1>2, <1>4 DEF OfType
  <2> QED BY <1>1, <1>5, <2>1, TotalsAreSums
<1>8. Accepted(r)' = Accepted(r) + x.amount
  <2>1. PICK T : T = OfReturn(S, r)
    OBVIOUS
  <2>2. OfReturn(W, r) = T \cup {x} /\ x \notin T /\ T \subseteq S
    BY <1>2, <1>3, <1>4, <2>1 DEF OfReturn
  <2>3. Money(T)
    BY <1>1, <2>2, ActiveMoney, MoneyPart
  <2>4. Sum(OfReturn(W, r)) = Sum(T) + x.amount
    BY <1>3, <2>2, <2>3, MoneyAdd
  <2> QED BY <1>1, <1>5, <2>1, <2>4 DEF Accepted
<1>9. \A s : s # r => Accepted(s)' = Accepted(s)
  <2>1. \A s : s # r => OfReturn(W, s) = OfReturn(S, s)
    BY <1>2, <1>4 DEF OfReturn
  <2> QED BY <1>1, <1>5, <2>1 DEF Accepted
<1>10. \A q : Paid(q)' = Paid(q) /\ EverPaid(q)' = EverPaid(q)
  BY <1>1, <1>2, TotalsThen, TotalsAreSums DEF EverPaid
<1> QED BY <1>1, <1>2, <1>6, <1>7, <1>8, <1>9, <1>10

LEMMA TakenBackTotals ==
    ASSUME EvidenceOK, NEW x, TakesPaymentBack(x) \/ TakesSettlementBack(x)
    PROVE  /\ \A q : /\ Paid(q)' <= Paid(q) /\ Paid(q)' \in Nat
                     /\ EverPaid(q)' = EverPaid(q)
           /\ \A q, type : Settled(q, type)' <= Settled(q, type) /\ Settled(q, type)' \in Nat
           /\ \A s : Accepted(s)' <= Accepted(s) /\ Accepted(s)' \in Nat
           /\ purchase' = purchase /\ return' = return /\ receipts' = receipts
<1>1. PICK P, S, P1, S1 : /\ P = Active(payments) /\ P1 = Active(payments)'
                          /\ S = Active(settlements) /\ S1 = Active(settlements)'
  OBVIOUS
<1>2. /\ P1 \subseteq P /\ S1 \subseteq S /\ payments' = payments
      /\ purchase' = purchase /\ return' = return /\ receipts' = receipts
  BY <1>1 DEF TakesPaymentBack, TakesSettlementBack, procurementVars
<1>3. /\ \A q : Paid(q)' = Sum(OfPurchase(P1, q)) /\ EverPaid(q)' = EverPaid(q)
      /\ \A q, type : Settled(q, type)' = Sum(OfType(S1, return, q, type))
      /\ \A s : Accepted(s)' = Sum(OfReturn(S1, s))
  BY <1>1, <1>2, TotalsThen DEF EverPaid
<1>4. Money(P) /\ Money(S)
  BY <1>1, ActiveMoney
<1>5. ASSUME NEW q PROVE Paid(q)' <= Paid(q) /\ Paid(q)' \in Nat
  <2>1. OfPurchase(P1, q) \subseteq OfPurchase(P, q) /\ OfPurchase(P, q) \subseteq P
    BY <1>2 DEF OfPurchase
  <2>2. Money(OfPurchase(P, q))
    BY <1>4, <2>1, MoneyPart
  <2>3. Sum(OfPurchase(P1, q)) <= Sum(OfPurchase(P, q)) /\ Sum(OfPurchase(P1, q)) \in Nat
    BY <2>1, <2>2, MoneyPart
  <2> QED BY <1>1, <1>3, <2>3, TotalsAreSums
<1>6. ASSUME NEW q, NEW type PROVE Settled(q, type)' <= Settled(q, type) /\ Settled(q, type)' \in Nat
  <2>1. /\ OfType(S1, return, q, type) \subseteq OfType(S, return, q, type)
        /\ OfType(S, return, q, type) \subseteq S
    BY <1>2 DEF OfType
  <2>2. Money(OfType(S, return, q, type))
    BY <1>4, <2>1, MoneyPart
  <2>3. /\ Sum(OfType(S1, return, q, type)) <= Sum(OfType(S, return, q, type))
        /\ Sum(OfType(S1, return, q, type)) \in Nat
    BY <2>1, <2>2, MoneyPart
  <2> QED BY <1>1, <1>3, <2>3, TotalsAreSums
<1>7. ASSUME NEW s PROVE Accepted(s)' <= Accepted(s) /\ Accepted(s)' \in Nat
  <2>1. OfReturn(S1, s) \subseteq OfReturn(S, s) /\ OfReturn(S, s) \subseteq S
    BY <1>2 DEF OfReturn
  <2>2. Money(OfReturn(S, s))
    BY <1>4, <2>1, MoneyPart
  <2>3. Sum(OfReturn(S1, s)) <= Sum(OfReturn(S, s)) /\ Sum(OfReturn(S1, s)) \in Nat
    BY <2>1, <2>2, MoneyPart
  <2> QED BY <1>1, <1>3, <2>3 DEF Accepted
<1> QED BY <1>2, <1>3, <1>5, <1>6, <1>7

-----------------------------------------------------------------------------
(* The references: what was ordered, and what a return is worth.           *)

LEMMA RoundedIsNat ==
    ASSUME NEW x \in Nat, NEW d \in Nat \ {0}
    PROVE  (2 * x + d) \div (2 * d) \in Nat
<1>1. 2 * x + d \in Nat /\ 2 * d \in Nat \ {0}
  OBVIOUS
<1> QED BY <1>1

LEMMA GrossIsNat ==
    ASSUME NEW lines, IsFiniteSet(DOMAIN lines),
           \A v \in DOMAIN lines : lines[v].ordered \in Nat /\ lines[v].cost \in Nat
    PROVE  (2 * SumFunction([v \in DOMAIN lines |-> lines[v].ordered * lines[v].cost])
                + Quanta * MoneyQuanta) \div (2 * Quanta * MoneyQuanta) \in Nat
<1> DEFINE f == [v \in DOMAIN lines |-> lines[v].ordered * lines[v].cost]
           d == Quanta * MoneyQuanta
<1>1. IsFiniteSet(DOMAIN f) /\ DOMAIN f = DOMAIN lines
  OBVIOUS
<1>2. \A v \in DOMAIN f : f[v] \in Nat
  <2> SUFFICES ASSUME NEW v \in DOMAIN lines PROVE lines[v].ordered * lines[v].cost \in Nat
    OBVIOUS
  <2>1. lines[v].ordered \in Nat /\ lines[v].cost \in Nat
    OBVIOUS
  <2> QED BY <2>1
<1>3. d \in Nat \ {0} /\ 2 * Quanta * MoneyQuanta = 2 * d
  BY QuantaAssumption, MoneyAssumption
<1> HIDE DEF f
<1>4. SumFunction(f) \in Nat
  BY <1>1, <1>2, SumFunctionNat
<1> HIDE DEF d
<1>5. (2 * SumFunction(f) + d) \div (2 * d) \in Nat
  BY <1>3, <1>4, RoundedIsNat
<1>6. (2 * SumFunction(f) + d) \div (2 * Quanta * MoneyQuanta) \in Nat
  BY <1>3, <1>5
<1> QED BY <1>6 DEF f, d

LEMMA GrossThen ==
    ASSUME NEW p, purchase'[p] \in PurchaseRow
    PROVE  /\ GrossReference(p)' \in Nat
           /\ purchase'[p].lines = purchase[p].lines => GrossReference(p)' = GrossReference(p)
<1>1. PICK lines : lines = purchase'[p].lines
  OBVIOUS
<1>2. /\ IsFiniteSet(DOMAIN lines)
      /\ \A v \in DOMAIN lines : lines[v].ordered \in Nat /\ lines[v].cost \in Nat
  BY <1>1, PurchaseFacts
<1>3. GrossReference(p)' =
          (2 * SumFunction([v \in DOMAIN lines |-> lines[v].ordered * lines[v].cost])
                + Quanta * MoneyQuanta) \div (2 * Quanta * MoneyQuanta)
  BY <1>1 DEF GrossReference
<1>4. GrossReference(p)' \in Nat
  BY <1>2, <1>3, GrossIsNat
<1>5. purchase'[p].lines = purchase[p].lines => GrossReference(p)' = GrossReference(p)
  BY <1>1, <1>3 DEF GrossReference
<1> QED BY <1>4, <1>5

LEMMA GrossNow ==
    ASSUME NEW p, purchase[p] \in PurchaseRow
    PROVE  GrossReference(p) \in Nat
<1>1. PICK lines : lines = purchase[p].lines
  OBVIOUS
<1>2. /\ IsFiniteSet(DOMAIN lines)
      /\ \A v \in DOMAIN lines : lines[v].ordered \in Nat /\ lines[v].cost \in Nat
  BY <1>1, PurchaseFacts
<1> QED BY <1>1, <1>2, GrossIsNat DEF GrossReference

\* What a return that keeps its lines is worth does not change.
LEMMA ReferenceStays ==
    ASSUME ShelfOK, PurchasesOK, ReceiptsOK, ReturnsOK, [Next]_vars,
           NEW r \in Returns, return[r] # Absent, return'[r].lines = return[r].lines
    PROVE  ReturnReference(r)' = ReturnReference(r) /\ ReturnReference(r) \in Nat
<1>1. PICK lines : lines = return[r].lines
  OBVIOUS
<1> DEFINE f == [l \in DOMAIN lines |-> Priced(lines[l], ReceiptCost(l))]
           h == [l \in DOMAIN lines |-> Priced(lines[l], ReceiptCost(l)')]
<1>2. /\ IsFiniteSet(DOMAIN lines) /\ DOMAIN lines \subseteq LinesIn(receipts)
      /\ \A l \in DOMAIN lines : lines[l] \in Nat
  BY <1>1, ReturnFacts
<1>3. \A l \in DOMAIN lines : ReceiptCost(l)' = ReceiptCost(l) /\ ReceiptCost(l) \in Nat
  BY <1>2, LinesStay, LineFacts
<1>4. \A l \in DOMAIN lines : Priced(lines[l], ReceiptCost(l)) \in Nat
  BY <1>2, <1>3, PricedIsNat
<1>5. ReturnReference(r) = (2 * SumFunction(f) + MoneyQuanta) \div (2 * MoneyQuanta)
  BY <1>1 DEF ReturnReference
<1>6. ReturnReference(r)' = (2 * SumFunction(h) + MoneyQuanta) \div (2 * MoneyQuanta)
  BY <1>1 DEF ReturnReference
<1>7. h = f
  BY <1>3
<1>8. IsFiniteSet(DOMAIN f) /\ \A l \in DOMAIN f : f[l] \in Nat
  BY <1>2, <1>4
<1> HIDE DEF f, h
<1>9. SumFunction(f) \in Nat
  BY <1>8, SumFunctionNat
<1>10. (2 * SumFunction(f) + MoneyQuanta) \div (2 * MoneyQuanta) \in Nat
  BY <1>9, MoneyAssumption, RoundedIsNat
<1> QED BY <1>5, <1>6, <1>7, <1>10

\* A return that was ever written is of a purchase that was.
LEMMA ReturnsArePurchased ==
    ASSUME ReceiptsOK, ReturnsOK, NEW r \in Returns, return[r] # Absent
    PROVE  purchase[return[r].purchase] # Absent
<1>1. PICK p : p = return[r].purchase
  OBVIOUS
<1>2. DOMAIN return[r].lines # {} /\ DOMAIN return[r].lines \subseteq LinesOf(p)
  BY <1>1, ReturnFacts
<1>3. PICK g \in ReceiptsOf(p) : TRUE
  BY <1>2 DEF LinesOf, LinesIn
<1> QED BY <1>1, <1>3 DEF ReceiptsOf, ReceiptsOK

\* No evidence is of a purchase that was never written.
LEMMA NothingOfAbsent ==
    ASSUME ReceiptsOK, ReturnsOK, EvidenceOK, EvidenceLinked, NEW p, purchase[p] = Absent
    PROVE  Paid(p) = 0 /\ \A type : Settled(p, type) = 0
<1>1. OfPurchase(Active(payments), p) = {}
  BY DEF OfPurchase, Active, EvidenceLinked
<1>2. ASSUME NEW type PROVE OfType(Active(settlements), return, p, type) = {}
  <2>1. \A x \in settlements : x.return \in Returns /\ return[x.return] # Absent
    BY SettlementFacts DEF EvidenceOK, EvidenceLinked
  <2>2. \A x \in settlements : return[x.return].purchase # p
    BY <2>1, ReturnsArePurchased
  <2> QED BY <2>2 DEF OfType, Active
<1> QED BY <1>1, <1>2, MoneyOfNothing, TotalsAreSums

-----------------------------------------------------------------------------
(* Agreement within the references.                                        *)

LEMMA OverpaidStep ==
    ASSUME ShelfOK, PurchasesOK, ReceiptsOK, ReturnsOK, EvidenceOK, KeysOnce, EvidenceLinked,
           NothingOverpaid, [Next]_vars
    PROVE  NothingOverpaid'
<1> SUFFICES ASSUME NEW p \in Purchases, purchase'[p] # Absent
             PROVE  Paid(p)' + Settled(p, "CREDIT")' <= GrossReference(p)'
  BY DEF NothingOverpaid
<1>1. purchase'[p] \in PurchaseRow
  BY PurchaseSteps DEF PurchasesOK
<1>2. GrossReference(p)' \in Nat
  BY <1>1, GrossThen
<1>3. Paid(p) \in Nat /\ \A type : Settled(p, type) \in Nat
  BY TotalsAreNat
<1>4. CASE purchase[p] = Absent
  <2>1. Paid(p)' <= Paid(p) /\ Settled(p, "CREDIT")' <= Settled(p, "CREDIT")
          /\ Paid(p)' \in Nat /\ Settled(p, "CREDIT")' \in Nat
    <3>1. CASE EvidenceRests
      BY <1>3, <3>1, RestTotals
    <3>2. ~EvidenceRests => purchase' = purchase
      BY EvidenceSteps DEF Pays, Settles, TakesPaymentBack, TakesSettlementBack, procurementVars
    <3> QED BY <1>4, <3>1, <3>2
  <2>2. Paid(p) = 0 /\ Settled(p, "CREDIT") = 0
    BY <1>4, NothingOfAbsent
  <2> QED BY <1>2, <2>1, <2>2
<1>5. CASE purchase[p] # Absent
  <2>1. GrossReference(p)' = GrossReference(p)
    BY <1>1, <1>5, PurchaseSteps, GrossThen
  <2>2. Paid(p) + Settled(p, "CREDIT") <= GrossReference(p)
    BY <1>5 DEF NothingOverpaid
  <2>3. CASE EvidenceRests
    BY <2>1, <2>2, <2>3, RestTotals
  <2>4. ASSUME NEW q, NEW x, Pays(q, x)
        PROVE  Paid(p)' + Settled(p, "CREDIT")' <= GrossReference(p)'
    <3>1. Settled(p, "CREDIT")' = Settled(p, "CREDIT")
      BY <2>4, PaysTotals
    <3>2. CASE q # p
      <4>1. Paid(p)' = Paid(p)
        BY <2>4, <3>2, PaysTotals
      <4> QED BY <2>1, <2>2, <3>1, <4>1
    <3>3. CASE q = p
      <4>1. Paid(p)' = Paid(p) + x.amount
        BY <2>4, <3>3, PaysTotals
      <4>2. x.amount <= RemainingReference(p) /\ x.amount \in Nat
        BY <2>4, <3>3, PaymentFacts DEF Pays
      <4>3. RemainingReference(p) = GrossReference(p) - (Settled(p, "CREDIT") + Settled(p, "REFUND"))
                                        - (Paid(p) - Settled(p, "REFUND"))
        BY DEF RemainingReference
      <4> QED BY <1>2, <1>3, <2>1, <3>1, <4>1, <4>2, <4>3
    <3> QED BY <3>2, <3>3
  <2>5. ASSUME NEW r, NEW x, Settles(r, x)
        PROVE  Paid(p)' + Settled(p, "CREDIT")' <= GrossReference(p)'
    <3>1. Paid(p)' = Paid(p)
      BY <2>5, SettlesTotals
    <3>2. CASE return[r].purchase # p \/ x.type # "CREDIT"
      <4>1. Settled(p, "CREDIT")' = Settled(p, "CREDIT")
        BY <2>5, <3>2, SettlesTotals
      <4> QED BY <2>1, <2>2, <3>1, <4>1
    <3>3. CASE return[r].purchase = p /\ x.type = "CREDIT"
      <4>1. Settled(p, "CREDIT")' = Settled(p, "CREDIT") + x.amount
        BY <2>5, <3>3, SettlesTotals
      <4>2. x.amount <= RemainingReference(p) /\ x.amount \in Nat
        BY <2>5, <3>3, SettlementFacts DEF Settles
      <4>3. RemainingReference(p) = GrossReference(p) - (Settled(p, "CREDIT") + Settled(p, "REFUND"))
                                        - (Paid(p) - Settled(p, "REFUND"))
        BY DEF RemainingReference
      <4> QED BY <1>2, <1>3, <2>1, <3>1, <4>1, <4>2, <4>3
    <3> QED BY <3>2, <3>3
  <2>6. ASSUME NEW x, TakesPaymentBack(x) \/ TakesSettlementBack(x)
        PROVE  Paid(p)' + Settled(p, "CREDIT")' <= GrossReference(p)'
    <3>1. /\ Paid(p)' <= Paid(p) /\ Paid(p)' \in Nat
          /\ Settled(p, "CREDIT")' <= Settled(p, "CREDIT") /\ Settled(p, "CREDIT")' \in Nat
      BY <2>6, TakenBackTotals
    <3> QED BY <1>2, <1>3, <2>1, <2>2, <3>1
  <2> QED BY <2>3, <2>4, <2>5, <2>6, EvidenceSteps
<1> QED BY <1>4, <1>5

LEMMA AcceptedStep ==
    ASSUME ShelfOK, PurchasesOK, ReceiptsOK, ReturnsOK, EvidenceOK, KeysOnce, EvidenceLinked,
           SettledReturnsStand, AcceptedWithinReturn, [Next]_vars
    PROVE  AcceptedWithinReturn'
<1> SUFFICES ASSUME NEW r \in Returns, return'[r].status = "POSTED"
             PROVE  Accepted(r)' <= ReturnReference(r)'
  BY DEF AcceptedWithinReturn, PostedReturns, Accepted, OfReturn
<1>1. Accepted(r) \in Nat
  BY TotalsAreNat
<1>2. /\ return[r] # Absent /\ return'[r].lines = return[r].lines
      /\ \/ return[r].status = "POSTED"
         \/ return[r].status = "DRAFT"
  <2>1. return'[r] # Absent
    BY DEF Absent
  <2>2. CASE return'[r] = return[r]
    BY <2>1, <2>2
  <2>3. CASE return'[r] # return[r]
    <3>1. PICK s \in Returns : Elsewhere(s) /\ (Redrafted(s) \/ Posts(s) \/ Reverses(s))
      BY <2>3, ReturnSteps
    <3>2. s = r
      BY <2>3, <3>1 DEF Elsewhere
    <3>3. Posts(r)
      BY <3>1, <3>2 DEF Redrafted, Reverses
    <3> QED BY <3>3 DEF Posts, Absent
  <2> QED BY <2>2, <2>3
<1>3. ReturnReference(r)' = ReturnReference(r) /\ ReturnReference(r) \in Nat
  BY <1>2, ReferenceStays
<1>4. Accepted(r) <= ReturnReference(r)
  <2>1. CASE return[r].status = "POSTED"
    BY <2>1 DEF AcceptedWithinReturn, PostedReturns, Accepted, OfReturn
  <2>2. CASE return[r].status = "DRAFT"
    <3>1. OfReturn(Active(settlements), r) = {}
      BY <2>2 DEF OfReturn, SettledReturnsStand
    <3>2. Accepted(r) = 0
      BY <3>1, MoneyOfNothing DEF Accepted
    <3> QED BY <1>3, <3>2
  <2> QED BY <1>2, <2>1, <2>2
<1>5. CASE EvidenceRests
  BY <1>3, <1>4, <1>5, RestTotals
<1>6. ASSUME NEW q, NEW x, Pays(q, x)
      PROVE  Accepted(r)' <= ReturnReference(r)'
  BY <1>3, <1>4, <1>6, PaysTotals
<1>7. ASSUME NEW s, NEW x, Settles(s, x)
      PROVE  Accepted(r)' <= ReturnReference(r)'
  <2>1. CASE s # r
    BY <1>3, <1>4, <1>7, <2>1, SettlesTotals
  <2>2. CASE s = r
    <3>1. Accepted(r)' = Accepted(r) + x.amount
      BY <1>7, <2>2, SettlesTotals
    <3>2. x.amount <= Unresolved(r, x.type) /\ x.amount \in Nat
      BY <1>7, <2>2, SettlementFacts DEF Settles
    <3>3. Unresolved(r, x.type) = ReturnReference(r) - Accepted(r)
      BY DEF Unresolved, Accepted, OfReturn
    <3> QED BY <1>1, <1>3, <3>1, <3>2, <3>3
  <2> QED BY <2>1, <2>2
<1>8. ASSUME NEW x, TakesPaymentBack(x) \/ TakesSettlementBack(x)
      PROVE  Accepted(r)' <= ReturnReference(r)'
  <2>1. Accepted(r)' <= Accepted(r) /\ Accepted(r)' \in Nat
    BY <1>8, TakenBackTotals
  <2> QED BY <1>1, <1>3, <1>4, <2>1
<1> QED BY <1>5, <1>6, <1>7, <1>8, EvidenceSteps

LEMMA RefundsStep ==
    ASSUME ShelfOK, PurchasesOK, ReceiptsOK, ReturnsOK, EvidenceOK, KeysOnce, EvidenceLinked,
           RefundsOfPayments, [Next]_vars
    PROVE  RefundsOfPayments'
<1> SUFFICES ASSUME NEW p \in Purchases, purchase'[p] # Absent
             PROVE  Settled(p, "REFUND")' <= EverPaid(p)'
  BY DEF RefundsOfPayments, EverPaid, OfPurchase
<1>1. /\ Settled(p, "REFUND") \in Nat /\ EverPaid(p) \in Nat /\ Paid(p) \in Nat
      /\ Paid(p) <= EverPaid(p)
  BY TotalsAreNat
<1>2. Settled(p, "REFUND") <= EverPaid(p)
  <2>1. CASE purchase[p] # Absent
    BY <2>1 DEF RefundsOfPayments, EverPaid, OfPurchase
  <2>2. CASE purchase[p] = Absent
    BY <1>1, <2>2, NothingOfAbsent
  <2> QED BY <2>1, <2>2
<1>3. CASE EvidenceRests
  BY <1>2, <1>3, RestTotals
<1>4. ASSUME NEW q, NEW x, Pays(q, x)
      PROVE  Settled(p, "REFUND")' <= EverPaid(p)'
  <2>1. EverPaid(p) <= EverPaid(p)' /\ EverPaid(p)' \in Nat
          /\ Settled(p, "REFUND")' = Settled(p, "REFUND")
    BY <1>4, PaysTotals
  <2> QED BY <1>1, <1>2, <2>1
<1>5. ASSUME NEW r, NEW x, Settles(r, x)
      PROVE  Settled(p, "REFUND")' <= EverPaid(p)'
  <2>1. EverPaid(p)' = EverPaid(p)
    BY <1>5, SettlesTotals
  <2>2. CASE return[r].purchase # p \/ x.type # "REFUND"
    <3>1. Settled(p, "REFUND")' = Settled(p, "REFUND")
      BY <1>5, <2>2, SettlesTotals
    <3> QED BY <1>2, <2>1, <3>1
  <2>3. CASE return[r].purchase = p /\ x.type = "REFUND"
    <3>1. Settled(p, "REFUND")' = Settled(p, "REFUND") + x.amount
      BY <1>5, <2>3, SettlesTotals
    <3>2. x.amount <= Paid(p) - Settled(p, "REFUND") /\ x.amount \in Nat
      BY <1>5, <2>3, SettlementFacts DEF Settles
    <3> QED BY <1>1, <2>1, <3>1, <3>2
  <2> QED BY <2>2, <2>3
<1>6. ASSUME NEW x, TakesPaymentBack(x) \/ TakesSettlementBack(x)
      PROVE  Settled(p, "REFUND")' <= EverPaid(p)'
  <2>1. /\ Settled(p, "REFUND")' <= Settled(p, "REFUND") /\ Settled(p, "REFUND")' \in Nat
        /\ EverPaid(p)' = EverPaid(p)
    BY <1>6, TakenBackTotals
  <2> QED BY <1>1, <1>2, <2>1
<1> QED BY <1>3, <1>4, <1>5, <1>6, EvidenceSteps

-----------------------------------------------------------------------------
(* The drawer.                                                             *)

InSession(S, n) == {x \in S : x.method = "CASH" /\ x.session = n}

LEMMA DrawerNow ==
    DrawerMatchesEvidence <=>
        drawer.expected = drawer.float - Sum(InSession(Active(payments), drawer.session))
                              + Sum(InSession(Active(settlements), drawer.session))
BY DEF DrawerMatchesEvidence, InSession

LEMMA DrawerThen ==
    ASSUME NEW P, Active(payments)' = P, NEW S, Active(settlements)' = S,
           drawer'.expected = drawer'.float - Sum(InSession(P, drawer'.session))
                                  + Sum(InSession(S, drawer'.session))
    PROVE  DrawerMatchesEvidence'
BY DEF DrawerMatchesEvidence, InSession, Sum

LEMMA SessionMoney ==
    ASSUME NEW S, Money(S), NEW n
    PROVE  Money(InSession(S, n)) /\ Sum(InSession(S, n)) \in Nat
<1>1. InSession(S, n) \subseteq S
  BY DEF InSession
<1> QED BY <1>1, MoneyPart

\* One row more, of the session that is open or of no session.
LEMMA SessionAdd ==
    ASSUME NEW S, Money(S), NEW n, NEW x, x \notin S, x.amount \in Nat,
           x.method = "CASH" => x.session = n, NEW W, W = S \cup {x}
    PROVE  /\ x.method = "CASH" => Sum(InSession(W, n)) = Sum(InSession(S, n)) + x.amount
           /\ x.method # "CASH" => Sum(InSession(W, n)) = Sum(InSession(S, n))
<1>1. Money(InSession(S, n))
  BY SessionMoney
<1>2. ASSUME x.method = "CASH" PROVE Sum(InSession(W, n)) = Sum(InSession(S, n)) + x.amount
  <2>1. InSession(W, n) = InSession(S, n) \cup {x} /\ x \notin InSession(S, n)
    BY <1>2 DEF InSession
  <2> QED BY <1>1, <2>1, MoneyAdd
<1>3. x.method # "CASH" => InSession(W, n) = InSession(S, n)
  BY DEF InSession
<1> QED BY <1>2, <1>3

LEMMA DrawerStep ==
    ASSUME ShelfOK, PurchasesOK, ReceiptsOK, ReturnsOK, EvidenceOK, KeysOnce, EvidenceLinked,
           DrawerMatchesEvidence, [Next]_vars
    PROVE  DrawerMatchesEvidence'
<1>1. PICK P, S, n : P = Active(payments) /\ S = Active(settlements) /\ n = drawer.session
  OBVIOUS
<1>2. Money(P) /\ Money(S) /\ drawer \in DrawerRow
  BY <1>1, ActiveMoney DEF EvidenceOK
<1>3. drawer.expected = drawer.float - Sum(InSession(P, n)) + Sum(InSession(S, n))
  BY <1>1, DrawerNow
<1>4. /\ drawer.expected \in Nat /\ drawer.float \in Nat
      /\ Sum(InSession(P, n)) \in Nat /\ Sum(InSession(S, n)) \in Nat
  BY <1>2, SessionMoney DEF DrawerRow
<1>5. CASE EvidenceRests
  <2>1. Active(payments)' = P /\ Active(settlements)' = S
    BY <1>1, <1>5 DEF EvidenceRests
  <2>2. CASE drawer' = drawer
    BY <1>1, <1>3, <2>1, <2>2, DrawerThen
  <2>3. ASSUME NEW float \in 0 .. MaxFloat, OpenDrawer(float)
        PROVE  DrawerMatchesEvidence'
    <3>1. drawer' = [session |-> n + 1, open |-> TRUE, float |-> float, expected |-> float]
      BY <1>1, <2>3 DEF OpenDrawer
    <3>2. n \in Nat
      <4>1. n \in Sessions
        BY <1>1, <1>2 DEF DrawerRow
      <4> QED BY <4>1 DEF Sessions
    <3>3. \A x \in P : x.session \in Nat /\ x.session <= n
      BY <1>1, PaymentFacts DEF EvidenceOK, EvidenceLinked, Active
    <3>4. \A x \in S : x.session \in Nat /\ x.session <= n
      BY <1>1, SettlementFacts DEF EvidenceOK, EvidenceLinked, Active
    <3>5. \A x \in P \cup S : x.session # n + 1
      BY <3>2, <3>3, <3>4
    <3>6. InSession(P, n + 1) = {} /\ InSession(S, n + 1) = {}
      BY <3>5 DEF InSession
    <3>7. Sum(InSession(P, n + 1)) = 0 /\ Sum(InSession(S, n + 1)) = 0
      BY <3>6, MoneyOfNothing
    <3>8. /\ drawer'.session = n + 1 /\ drawer'.float = float /\ drawer'.expected = float
          /\ float \in Int
      BY <3>1
    <3>9. drawer'.expected = drawer'.float - Sum(InSession(P, drawer'.session))
                                 + Sum(InSession(S, drawer'.session))
      BY <3>7, <3>8
    <3> QED BY <2>1, <3>9, DrawerThen
  <2>4. CASE CloseOrReopenDrawer
    <3>1. PICK open \in BOOLEAN : drawer' = [drawer EXCEPT !.open = open]
      BY <2>4 DEF CloseOrReopenDrawer
    <3>2. /\ drawer'.session = n /\ drawer'.float = drawer.float
          /\ drawer'.expected = drawer.expected
      BY <1>1, <1>2, <3>1 DEF DrawerRow
    <3> QED BY <1>3, <2>1, <3>2, DrawerThen
  <2> QED BY <1>5, <2>2, <2>3, <2>4 DEF EvidenceRests
<1>6. ASSUME NEW p, NEW x, Pays(p, x)
      PROVE  DrawerMatchesEvidence'
  <2>1. PICK W : W = P \cup {x}
    OBVIOUS
  <2>2. /\ Active(payments)' = W /\ Active(settlements)' = S /\ x \notin P
        /\ x.method = "CASH" => x.session = n
        /\ MoveCash(x.method, -x.amount) /\ x.amount \in Nat
    BY <1>1, <1>6, <2>1, PaymentFacts DEF Pays, Active
  <2>3. -x.amount \in Int
    BY <2>2
  <2>4. /\ drawer'.session = n /\ drawer'.float = drawer.float
        /\ x.method = "CASH" => drawer'.expected = drawer.expected - x.amount
        /\ x.method # "CASH" => drawer'.expected = drawer.expected
    <3>1. /\ drawer'.session = n /\ drawer'.float = drawer.float
          /\ x.method = "CASH" => drawer'.expected = drawer.expected + (-x.amount)
          /\ x.method # "CASH" => drawer'.expected = drawer.expected
      BY <1>1, <1>2, <2>2, <2>3, CashMoves
    <3> QED BY <1>4, <2>2, <3>1
  <2>5. /\ x.method = "CASH" => Sum(InSession(W, n)) = Sum(InSession(P, n)) + x.amount
        /\ x.method # "CASH" => Sum(InSession(W, n)) = Sum(InSession(P, n))
    BY <1>2, <2>1, <2>2, SessionAdd
  <2>6. drawer'.expected = drawer'.float - Sum(InSession(W, n)) + Sum(InSession(S, n))
    <3>1. CASE x.method = "CASH"
      BY <1>3, <1>4, <2>2, <2>4, <2>5, <3>1
    <3>2. CASE x.method # "CASH"
      BY <1>3, <2>4, <2>5, <3>2
    <3> QED BY <3>1, <3>2
  <2> QED BY <2>2, <2>4, <2>6, DrawerThen
<1>7. ASSUME NEW r, NEW x, Settles(r, x)
      PROVE  DrawerMatchesEvidence'
  <2>1. PICK W : W = S \cup {x}
    OBVIOUS
  <2>2. /\ Active(payments)' = P /\ Active(settlements)' = W /\ x \notin S
        /\ x.method = "CASH" => x.session = n
        /\ MoveCash(x.method, x.amount) /\ x.amount \in Nat
    BY <1>1, <1>7, <2>1, SettlementFacts DEF Settles, Active
  <2>3. x.amount \in Int
    BY <2>2
  <2>4. /\ drawer'.session = n /\ drawer'.float = drawer.float
        /\ x.method = "CASH" => drawer'.expected = drawer.expected + x.amount
        /\ x.method # "CASH" => drawer'.expected = drawer.expected
    BY <1>1, <1>2, <2>2, <2>3, CashMoves
  <2>5. /\ x.method = "CASH" => Sum(InSession(W, n)) = Sum(InSession(S, n)) + x.amount
        /\ x.method # "CASH" => Sum(InSession(W, n)) = Sum(InSession(S, n))
    BY <1>2, <2>1, <2>2, SessionAdd
  <2>6. drawer'.expected = drawer'.float - Sum(InSession(P, n)) + Sum(InSession(W, n))
    <3>1. CASE x.method = "CASH"
      BY <1>3, <1>4, <2>2, <2>4, <2>5, <3>1
    <3>2. CASE x.method # "CASH"
      BY <1>3, <2>4, <2>5, <3>2
    <3> QED BY <3>1, <3>2
  <2> QED BY <2>2, <2>4, <2>6, DrawerThen
<1>8. ASSUME NEW x, TakesPaymentBack(x)
      PROVE  DrawerMatchesEvidence'
  <2>1. PICK W : W = P \ {x}
    OBVIOUS
  <2>2. /\ Active(payments)' = W /\ Active(settlements)' = S /\ x \in P
        /\ x.method = "CASH" => x.session = n
        /\ MoveCash(x.method, x.amount)
    BY <1>1, <1>8, <2>1 DEF TakesPaymentBack, InOriginalSession
  <2>3. x.amount \in Nat /\ x.amount \in Int
    BY <1>2, <2>2 DEF Money
  <2>4. /\ drawer'.session = n /\ drawer'.float = drawer.float
        /\ x.method = "CASH" => drawer'.expected = drawer.expected + x.amount
        /\ x.method # "CASH" => drawer'.expected = drawer.expected
    BY <1>1, <1>2, <2>2, <2>3, CashMoves
  <2>5. P = W \cup {x} /\ x \notin W /\ W \subseteq P
    BY <2>1, <2>2
  <2>6. Money(W) /\ Sum(InSession(W, n)) \in Nat
    BY <1>2, <2>5, MoneyPart, SessionMoney
  <2>7. /\ x.method = "CASH" => Sum(InSession(P, n)) = Sum(InSession(W, n)) + x.amount
        /\ x.method # "CASH" => Sum(InSession(P, n)) = Sum(InSession(W, n))
    BY <2>2, <2>3, <2>5, <2>6, SessionAdd
  <2>8. drawer'.expected = drawer'.float - Sum(InSession(W, n)) + Sum(InSession(S, n))
    <3>1. CASE x.method = "CASH"
      BY <1>3, <1>4, <2>3, <2>4, <2>6, <2>7, <3>1
    <3>2. CASE x.method # "CASH"
      BY <1>3, <2>4, <2>7, <3>2
    <3> QED BY <3>1, <3>2
  <2> QED BY <2>2, <2>4, <2>8, DrawerThen
<1>9. ASSUME NEW x, TakesSettlementBack(x)
      PROVE  DrawerMatchesEvidence'
  <2>1. PICK W : W = S \ {x}
    OBVIOUS
  <2>2. /\ Active(payments)' = P /\ Active(settlements)' = W /\ x \in S
        /\ x.method = "CASH" => x.session = n
        /\ MoveCash(x.method, -x.amount)
    BY <1>1, <1>9, <2>1 DEF TakesSettlementBack, InOriginalSession
  <2>3. x.amount \in Nat
    BY <1>2, <2>2 DEF Money
  <2>4. -x.amount \in Int
    BY <2>3
  <2>5. /\ drawer'.session = n /\ drawer'.float = drawer.float
        /\ x.method = "CASH" => drawer'.expected = drawer.expected + (-x.amount)
        /\ x.method # "CASH" => drawer'.expected = drawer.expected
    BY <1>1, <1>2, <2>2, <2>4, CashMoves
  <2>6. S = W \cup {x} /\ x \notin W /\ W \subseteq S
    BY <2>1, <2>2
  <2>7. Money(W) /\ Sum(InSession(W, n)) \in Nat
    BY <1>2, <2>6, MoneyPart, SessionMoney
  <2>8. /\ x.method = "CASH" => Sum(InSession(S, n)) = Sum(InSession(W, n)) + x.amount
        /\ x.method # "CASH" => Sum(InSession(S, n)) = Sum(InSession(W, n))
    BY <2>2, <2>3, <2>6, <2>7, SessionAdd
  <2>9. drawer'.expected = drawer'.float - Sum(InSession(P, n)) + Sum(InSession(W, n))
    <3>1. CASE x.method = "CASH"
      BY <1>3, <1>4, <2>3, <2>5, <2>7, <2>8, <3>1
    <3>2. CASE x.method # "CASH"
      BY <1>3, <2>5, <2>8, <3>2
    <3> QED BY <3>1, <3>2
  <2> QED BY <2>2, <2>5, <2>9, DrawerThen
<1> QED BY <1>5, <1>6, <1>7, <1>8, <1>9, EvidenceSteps

-----------------------------------------------------------------------------
(* Keyed answers: an answer is that of the one record its key names.       *)

ReturnKeyRow == [key : ReturnKeys, op : {"RETURN", "REVERSAL"}, return : Returns]
ReturnKeysOK ==
    /\ returnKeys \subseteq ReturnKeyRow
    /\ \A x, y \in returnKeys : x.key = y.key => x = y

AnswerWith(table, k, op, of) == [table |-> table, key |-> k, op |-> op, of |-> of]
IsAnswer(x) ==
    \/ \E g \in receipts : x = AnswerWith("RECEIPT", g.key, "RECEIVE", g.purchase)
    \/ \E y \in returnKeys : x = AnswerWith("RETURN", y.key, y.op, y.return)
    \/ \E y \in payments : x = AnswerWith("SETTLEMENT", y.key, "PAYMENT", y.key)
    \/ \E y \in settlements : x = AnswerWith("SETTLEMENT", y.key, "SETTLEMENT", y.key)
    \/ \E y \in reversals : x = AnswerWith("SETTLEMENT", y.key, y.op, y.of)
AnswersOK == \A x \in answers : IsAnswer(x)

LEMMA AnswersAgree ==
    ASSUME ReceiptsOK, ReturnKeysOK, KeysOnce, AnswersOK
    PROVE  KeyAnswersOnce
<1> SUFFICES ASSUME NEW x \in answers, NEW y \in answers, x.table = y.table, x.key = y.key
             PROVE  x = y
  BY DEF KeyAnswersOnce
<1> DEFINE Receipt(z) == \E g \in receipts : z = AnswerWith("RECEIPT", g.key, "RECEIVE", g.purchase)
           Return(z) == \E r \in returnKeys : z = AnswerWith("RETURN", r.key, r.op, r.return)
           Payment(z) == \E p \in payments : z = AnswerWith("SETTLEMENT", p.key, "PAYMENT", p.key)
           Settlement(z) ==
               \E s \in settlements : z = AnswerWith("SETTLEMENT", s.key, "SETTLEMENT", s.key)
           Undone(z) == \E w \in reversals : z = AnswerWith("SETTLEMENT", w.key, w.op, w.of)
<1>1. \A z \in answers : Receipt(z) \/ Return(z) \/ Payment(z) \/ Settlement(z) \/ Undone(z)
  BY DEF AnswersOK, IsAnswer
<1>2. \A z : Receipt(z) => z.table = "RECEIPT"
  BY DEF AnswerWith
<1>3. \A z : Return(z) => z.table = "RETURN"
  BY DEF AnswerWith
<1>4. \A z : Payment(z) \/ Settlement(z) \/ Undone(z) => z.table = "SETTLEMENT"
  BY DEF AnswerWith
<1>5. Receipt(x) /\ Receipt(y) => x = y
  BY DEF AnswerWith, ReceiptsOK
<1>6. Return(x) /\ Return(y) => x = y
  BY DEF AnswerWith, ReturnKeysOK
<1>7. Payment(x) /\ Payment(y) => x = y
  BY DEF AnswerWith, KeysOnce
<1>8. Settlement(x) /\ Settlement(y) => x = y
  BY DEF AnswerWith, KeysOnce
<1>9. Undone(x) /\ Undone(y) => x = y
  BY DEF AnswerWith, KeysOnce
<1>10. \A z : /\ Payment(z) => \E p \in payments : z.key = p.key
              /\ Settlement(z) => \E s \in settlements : z.key = s.key
              /\ Undone(z) => \E w \in reversals : z.key = w.key
  BY DEF AnswerWith
<1>11. \/ Payment(x) /\ Payment(y)
       \/ Settlement(x) /\ Settlement(y)
       \/ Undone(x) /\ Undone(y)
       \/ ~((Payment(x) \/ Settlement(x) \/ Undone(x)) /\ (Payment(y) \/ Settlement(y) \/ Undone(y)))
  <2> HIDE DEF Payment, Settlement, Undone
  <2>1. ~(Payment(x) /\ (Settlement(y) \/ Undone(y)))
    BY <1>10 DEF KeysOnce
  <2>2. ~(Settlement(x) /\ (Payment(y) \/ Undone(y)))
    BY <1>10 DEF KeysOnce
  <2>3. ~(Undone(x) /\ (Payment(y) \/ Settlement(y)))
    BY <1>10 DEF KeysOnce
  <2> QED BY <2>1, <2>2, <2>3
<1> HIDE DEF Receipt, Return, Payment, Settlement, Undone
<1>12. CASE Receipt(x)
  BY <1>1, <1>2, <1>3, <1>4, <1>5, <1>12
<1>13. CASE Return(x)
  BY <1>1, <1>2, <1>3, <1>4, <1>6, <1>13
<1>14. CASE Payment(x) \/ Settlement(x) \/ Undone(x)
  BY <1>1, <1>2, <1>3, <1>4, <1>7, <1>8, <1>9, <1>11, <1>14
<1> QED BY <1>1, <1>12, <1>13, <1>14

\* A record with a key is never lost.
LEMMA RecordsStay ==
    ASSUME PurchasesOK, ReceiptsOK, ReturnKeysOK, [Next]_vars
    PROVE  /\ receipts \subseteq receipts' /\ returnKeys \subseteq returnKeys'
           /\ payments \subseteq payments' /\ settlements \subseteq settlements'
           /\ reversals \subseteq reversals'
           /\ ReturnKeysOK'
<1>1. receipts \subseteq receipts'
  BY ReceiptSteps
<1>2. payments \subseteq payments' /\ settlements \subseteq settlements'
        /\ reversals \subseteq reversals'
  <2>1. \A p, amount, method, k : CreatePayment(p, amount, method, k) =>
            payments \subseteq payments' /\ settlements' = settlements /\ reversals' = reversals
    BY DEF CreatePayment
  <2>2. ASSUME NEW r, NEW type, NEW amount, NEW method, NEW k,
               CreateSettlement(r, type, amount, method, k)
        PROVE  settlements \subseteq settlements' /\ payments' = payments /\ reversals' = reversals
    <3>1. /\ settlements' = settlements \cup
                 {[key |-> k, return |-> r, type |-> type, amount |-> amount,
                   method |-> method, session |-> SessionOf(method)]}
          /\ payments' = payments /\ reversals' = reversals
      BY <2>2 DEF CreateSettlement
    <3> QED BY <3>1
  <2>3. \A x, k, op, delta : Undo(x, k, op, delta) =>
            reversals \subseteq reversals' /\ payments' = payments /\ settlements' = settlements
    BY DEF Undo
  <2>4. \A float : OpenDrawer(float) \/ CloseOrReopenDrawer => EvidenceKept
    BY DEF OpenDrawer, CloseOrReopenDrawer, EvidenceKept, evidenceVars
  <2>5. EvidenceKept => payments' = payments /\ settlements' = settlements /\ reversals' = reversals
    BY DEF EvidenceKept
  <2> QED BY EvidenceCases, <2>1, <2>2, <2>3, <2>4, <2>5
<1>3. ASSUME NEW k \in ReturnKeys, NEW op \in {"RETURN", "REVERSAL"}, NEW r \in Returns,
             ReturnKeyFree(k, op, r), ClaimReturnKey(k, op, r)
      PROVE  returnKeys \subseteq returnKeys' /\ ReturnKeysOK'
  <2> DEFINE y == [key |-> k, op |-> op, return |-> r]
  <2>1. returnKeys' = returnKeys \cup {y} /\ \A x \in returnKeys : x.key # k
    BY <1>3 DEF ReturnKeyFree, ClaimReturnKey
  <2>2. y \in ReturnKeyRow /\ y.key = k
    BY DEF ReturnKeyRow
  <2> HIDE DEF y
  <2> QED BY <2>1, <2>2 DEF ReturnKeysOK
<1>4. returnKeys' = returnKeys => returnKeys \subseteq returnKeys' /\ ReturnKeysOK'
  BY DEF ReturnKeysOK
<1>5. returnKeys \subseteq returnKeys' /\ ReturnKeysOK'
  <2>1. \A a, p, lines : CreatePurchaseDraft(a, p, lines) => returnKeys' = returnKeys
    BY DEF CreatePurchaseDraft
  <2>2. \A a, p : ApprovePurchase(a, p) \/ CancelPurchase(a, p) => returnKeys' = returnKeys
    BY DEF ApprovePurchase, CancelPurchase
  <2>3. \A p, k : ReplayReceipt(p, k) => returnKeys' = returnKeys
    BY DEF ReplayReceipt, procurementVars
  <2>4. \A p, quantities, k : CreateReceipt(p, quantities, k) => returnKeys' = returnKeys
    BY DEF CreateReceipt
  <2>5. \A r, p, lines : SaveReturnDraft(r, p, lines) => returnKeys' = returnKeys
    BY DEF SaveReturnDraft
  <2>6. \A a, r : CancelPurchaseReturn(a, r) => returnKeys' = returnKeys
    BY DEF CancelPurchaseReturn
  <2>7. \A r, k, op : ReplayReturnKey(k, op, r) => returnKeys' = returnKeys
    BY DEF ReplayReturnKey, procurementVars
  <2>8. \A r, k : CreateReturnPosting(r, k) =>
            ReturnKeyFree(k, "RETURN", r) /\ ClaimReturnKey(k, "RETURN", r)
    BY DEF CreateReturnPosting
  <2>9. \A r, k : CreateReturnReversal(r, k) =>
            ReturnKeyFree(k, "REVERSAL", r) /\ ClaimReturnKey(k, "REVERSAL", r)
    BY DEF CreateReturnReversal
  <2>10. \A v, is, n : SetActive(v, is) \/ Freeze \/ Sell(v, n) => returnKeys' = returnKeys
    BY DEF SetActive, Freeze, Sell, documents
  <2>11. UNCHANGED procurementVars => returnKeys' = returnKeys
    BY DEF procurementVars
  <2> QED
    BY ProcurementCases, <1>3, <1>4, <2>1, <2>2, <2>3, <2>4, <2>5, <2>6, <2>7, <2>8, <2>9, <2>10,
       <2>11
<1> QED BY <1>1, <1>2, <1>5

\* What a step answers with: the record it found, or the one it has just written.
LEMMA AnswerSteps ==
    ASSUME [Next]_vars
    PROVE  \/ answers' = answers
           \/ \E g \in receipts' : Answer("RECEIPT", g.key, "RECEIVE", g.purchase)
           \/ \E y \in returnKeys' : Answer("RETURN", y.key, y.op, y.return)
           \/ \E y \in payments' : Answer("SETTLEMENT", y.key, "PAYMENT", y.key)
           \/ \E y \in settlements' : Answer("SETTLEMENT", y.key, "SETTLEMENT", y.key)
           \/ \E y \in reversals' : Answer("SETTLEMENT", y.key, y.op, y.of)
<1> DEFINE OfReceipt == \E g \in receipts' : Answer("RECEIPT", g.key, "RECEIVE", g.purchase)
           OfReturnKey == \E y \in returnKeys' : Answer("RETURN", y.key, y.op, y.return)
           OfPayment == \E y \in payments' : Answer("SETTLEMENT", y.key, "PAYMENT", y.key)
           OfSettlement == \E y \in settlements' : Answer("SETTLEMENT", y.key, "SETTLEMENT", y.key)
           OfReversal == \E y \in reversals' : Answer("SETTLEMENT", y.key, y.op, y.of)
<1>1. \A p, k : ReplayReceipt(p, k) => OfReceipt
  BY DEF ReplayReceipt, procurementVars
<1>2. ASSUME NEW p, NEW quantities, NEW k, CreateReceipt(p, quantities, k)
      PROVE  OfReceipt
  <2>1. receipts' = receipts \cup {NewReceipt(p, quantities, k)} /\ Answer("RECEIPT", k, "RECEIVE", p)
    BY <1>2 DEF CreateReceipt, NewReceipt
  <2>2. NewReceipt(p, quantities, k) \in receipts'
    BY <2>1
  <2>3. NewReceipt(p, quantities, k).key = k /\ NewReceipt(p, quantities, k).purchase = p
    BY DEF NewReceipt
  <2>4. \E g \in receipts' : g.key = k /\ g.purchase = p
    BY <2>2, <2>3
  <2> QED BY <2>1, <2>4
<1>3. ASSUME NEW k, NEW op, NEW r, ClaimReturnKey(k, op, r) \/ ReplayReturnKey(k, op, r),
             Answer("RETURN", k, op, r)
      PROVE  OfReturnKey
  <2> DEFINE y == [key |-> k, op |-> op, return |-> r]
  <2>1. y \in returnKeys'
    BY <1>3 DEF ClaimReturnKey, ReplayReturnKey, procurementVars
  <2>2. y.key = k /\ y.op = op /\ y.return = r
    OBVIOUS
  <2> HIDE DEF y
  <2>3. \E z \in returnKeys' : z.key = k /\ z.op = op /\ z.return = r
    BY <2>1, <2>2
  <2> QED BY <1>3, <2>3
<1>4. \A k, op, r : ReplayReturnKey(k, op, r) => OfReturnKey
  <2>1. \A k, op, r : ReplayReturnKey(k, op, r) => Answer("RETURN", k, op, r)
    BY DEF ReplayReturnKey
  <2> QED BY <1>3, <2>1
<1>5. \A r, k : CreateReturnPosting(r, k) => OfReturnKey
  <2>1. \A r, k : CreateReturnPosting(r, k) =>
            ClaimReturnKey(k, "RETURN", r) /\ Answer("RETURN", k, "RETURN", r)
    BY DEF CreateReturnPosting
  <2> QED BY <1>3, <2>1
<1>6. \A r, k : CreateReturnReversal(r, k) => OfReturnKey
  <2>1. \A r, k : CreateReturnReversal(r, k) =>
            ClaimReturnKey(k, "REVERSAL", r) /\ Answer("RETURN", k, "REVERSAL", r)
    BY DEF CreateReturnReversal
  <2> QED BY <1>3, <2>1
<1>7. \A p, amount, method, k : ReplayPayment(p, amount, method, k) => OfPayment
  BY DEF ReplayPayment, evidenceVars
<1>8. ASSUME NEW p, NEW amount, NEW method, NEW k, CreatePayment(p, amount, method, k)
      PROVE  OfPayment
  <2> DEFINE y == [key |-> k, purchase |-> p, amount |-> amount,
                   method |-> method, session |-> SessionOf(method)]
  <2>1. y \in payments' /\ Answer("SETTLEMENT", k, "PAYMENT", k)
    BY <1>8 DEF CreatePayment
  <2>2. y.key = k
    OBVIOUS
  <2> HIDE DEF y
  <2> QED BY <2>1, <2>2
<1>9. \A r, type, amount, method, k : ReplaySettlement(r, type, amount, method, k) => OfSettlement
  BY DEF ReplaySettlement, evidenceVars
<1>10. ASSUME NEW r, NEW type, NEW amount, NEW method, NEW k,
              CreateSettlement(r, type, amount, method, k)
       PROVE  OfSettlement
  <2> DEFINE y == [key |-> k, return |-> r, type |-> type, amount |-> amount,
                   method |-> method, session |-> SessionOf(method)]
  <2>1. y \in settlements' /\ Answer("SETTLEMENT", k, "SETTLEMENT", k)
    BY <1>10 DEF CreateSettlement
  <2>2. y.key = k
    OBVIOUS
  <2> HIDE DEF y
  <2> QED BY <2>1, <2>2
<1>11. ASSUME NEW x, NEW k, NEW op, NEW delta, ReverseEvidence(x, k, op, delta)
       PROVE  OfReversal
  <2> DEFINE y == Reversal(x, k, op)
  <2>1. y \in reversals' /\ Answer("SETTLEMENT", k, op, x.key)
    BY <1>11 DEF ReverseEvidence, evidenceVars
  <2>2. y.key = k /\ y.op = op /\ y.of = x.key
    BY DEF Reversal
  <2> HIDE DEF y
  <2>3. \E z \in reversals' : z.key = k /\ z.op = op /\ z.of = x.key
    BY <2>1, <2>2
  <2> QED BY <2>1, <2>3
<1> HIDE DEF OfReceipt, OfReturnKey, OfPayment, OfSettlement, OfReversal
<1>12. ProcurementNext => answers' = answers \/ OfReceipt \/ OfReturnKey
  <2>1. \A a, p, lines : CreatePurchaseDraft(a, p, lines) => answers' = answers
    BY DEF CreatePurchaseDraft
  <2>2. \A a, p : ApprovePurchase(a, p) \/ CancelPurchase(a, p) => answers' = answers
    BY DEF ApprovePurchase, CancelPurchase
  <2>3. \A p, quantities, k : ReceivePurchase(p, quantities, k) => OfReceipt
    BY <1>1, <1>2 DEF ReceivePurchase
  <2>4. \A r, p, lines : SaveReturnDraft(r, p, lines) => answers' = answers
    BY DEF SaveReturnDraft
  <2>5. \A a, r : CancelPurchaseReturn(a, r) => answers' = answers
    BY DEF CancelPurchaseReturn
  <2>6. \A a, r, k : PostPurchaseReturn(a, r, k) \/ ReversePurchaseReturn(a, r, k) => OfReturnKey
    BY <1>4, <1>5, <1>6 DEF PostPurchaseReturn, ReversePurchaseReturn
  <2>7. \A v, is, n : SetActive(v, is) \/ Freeze \/ Sell(v, n) => answers' = answers
    BY DEF SetActive, Freeze, Sell, documents
  <2> QED BY <2>1, <2>2, <2>3, <2>4, <2>5, <2>6, <2>7 DEF ProcurementNext
<1>13. \A a, p, amount, method, k : PostSupplierPayment(a, p, amount, method, k) => OfPayment
  BY <1>7, <1>8 DEF PostSupplierPayment
<1>14. \A a, r, type, amount, method, k :
           PostSupplierReturnSettlement(a, r, type, amount, method, k) => OfSettlement
  BY <1>9, <1>10 DEF PostSupplierReturnSettlement
<1>15. \A a, x, k : ReverseSupplierPayment(a, x, k) \/ ReverseSupplierReturnSettlement(a, x, k)
                        => OfReversal
  BY <1>11 DEF ReverseSupplierPayment, ReverseSupplierReturnSettlement
<1>16. \A float : OpenDrawer(float) \/ CloseOrReopenDrawer => answers' = answers
  BY DEF OpenDrawer, CloseOrReopenDrawer
<1>17. UNCHANGED vars => answers' = answers
  BY DEF vars
<1>18. answers' = answers \/ OfReceipt \/ OfReturnKey \/ OfPayment \/ OfSettlement \/ OfReversal
  BY <1>12, <1>13, <1>14, <1>15, <1>16, <1>17 DEF Next
<1> QED BY <1>18 DEF OfReceipt, OfReturnKey, OfPayment, OfSettlement, OfReversal

LEMMA AnswersStep ==
    ASSUME PurchasesOK, ReceiptsOK, ReturnKeysOK, AnswersOK, [Next]_vars
    PROVE  AnswersOK'
<1>1. \A x : IsAnswer(x) => IsAnswer(x)'
  BY RecordsStay DEF IsAnswer
<1>2. \A x \in answers : IsAnswer(x)'
  BY <1>1 DEF AnswersOK
<1>3. CASE answers' = answers
  BY <1>2, <1>3 DEF AnswersOK
<1>4. ASSUME NEW table, NEW k, NEW op, NEW of, Answer(table, k, op, of),
             IsAnswer(AnswerWith(table, k, op, of))'
      PROVE  AnswersOK'
  <2>1. answers' = answers \cup {AnswerWith(table, k, op, of)}
    BY <1>4 DEF Answer, AnswerWith
  <2> QED BY <1>2, <1>4, <2>1 DEF AnswersOK
<1>5. ASSUME NEW g \in receipts', Answer("RECEIPT", g.key, "RECEIVE", g.purchase)
      PROVE  AnswersOK'
  <2>1. IsAnswer(AnswerWith("RECEIPT", g.key, "RECEIVE", g.purchase))'
    BY DEF IsAnswer
  <2> QED BY <1>4, <1>5, <2>1
<1>6. ASSUME NEW y \in returnKeys', Answer("RETURN", y.key, y.op, y.return)
      PROVE  AnswersOK'
  <2>1. IsAnswer(AnswerWith("RETURN", y.key, y.op, y.return))'
    BY DEF IsAnswer
  <2> QED BY <1>4, <1>6, <2>1
<1>7. ASSUME NEW y \in payments', Answer("SETTLEMENT", y.key, "PAYMENT", y.key)
      PROVE  AnswersOK'
  <2>1. IsAnswer(AnswerWith("SETTLEMENT", y.key, "PAYMENT", y.key))'
    BY DEF IsAnswer
  <2> QED BY <1>4, <1>7, <2>1
<1>8. ASSUME NEW y \in settlements', Answer("SETTLEMENT", y.key, "SETTLEMENT", y.key)
      PROVE  AnswersOK'
  <2>1. IsAnswer(AnswerWith("SETTLEMENT", y.key, "SETTLEMENT", y.key))'
    BY DEF IsAnswer
  <2> QED BY <1>4, <1>8, <2>1
<1>9. ASSUME NEW y \in reversals', Answer("SETTLEMENT", y.key, y.op, y.of)
      PROVE  AnswersOK'
  <2>1. IsAnswer(AnswerWith("SETTLEMENT", y.key, y.op, y.of))'
    BY DEF IsAnswer
  <2> QED BY <1>4, <1>9, <2>1
<1> QED BY AnswerSteps, <1>3, <1>5, <1>6, <1>7, <1>8, <1>9

-----------------------------------------------------------------------------
(* The inductive invariant.                                                *)

Inv ==
    /\ ProcurementOK /\ ReturnKeysOK
    /\ EvidenceOK /\ KeysOnce /\ EvidenceLinked
    /\ AnswersOK
    /\ StockMatchesDocuments /\ WithinReceipts /\ StatusMatchesReceipts
    /\ DocumentsStand
    /\ AgreedWithinReference /\ DrawerMatchesEvidence

LEMMA Start ==
    ASSUME Init
    PROVE  Inv
<1> USE DEF Init, ProcurementInit
<1>1. Nothing \in Balance /\ Nothing.quantity = 0
  BY DEF Nothing, Balance
<1>2. IsFiniteSet({})
  BY FS_EmptySet
<1>3. ShelfOK
  BY <1>1 DEF ShelfOK
<1>4. PurchasesOK /\ ReceiptsOK /\ ReturnKeysOK /\ AnswersOK
  BY <1>2 DEF PurchasesOK, ReceiptsOK, ReturnKeysOK, AnswersOK
<1>5. ReturnsOK
  BY DEF ReturnsOK
<1>6. drawer \in DrawerRow
  <2>1. 0 \in Sessions
    BY MoneyAssumption DEF Sessions
  <2> QED BY <2>1 DEF DrawerRow
<1>7. EvidenceOK /\ KeysOnce /\ EvidenceLinked
  BY <1>2, <1>6 DEF EvidenceOK, KeysOnce, EvidenceLinked
<1>8. DocumentsStand
  BY Beginning
<1>9. PostedReturns = {} /\ LinesIn(receipts) = {}
  <2>1. PostedReturns = {}
    BY DEF PostedReturns, Absent
  <2> QED BY <2>1 DEF LinesIn
<1>10. StockMatchesDocuments
  <2> SUFFICES ASSUME NEW v \in Variants
               PROVE  stock[v].quantity = Brought(receipts, v) - Away(v) - taken[v]
    BY DEF StockMatchesDocuments, Away
  <2> DEFINE f == [g \in {g \in receipts : v \in DOMAIN g.lines} |-> g.lines[v]]
             h == [l \in OfVariant(LinesIn(receipts), v) |-> ReturnedQuantity(l)]
  <2>1. DOMAIN f = {} /\ Brought(receipts, v) = SumFunction(f)
    BY DEF Brought
  <2>2. DOMAIN h = {} /\ Away(v) = SumFunction(h)
    BY <1>9 DEF Away, OfVariant
  <2> HIDE DEF f, h
  <2>3. Brought(receipts, v) = 0 /\ Away(v) = 0
    BY <2>1, <2>2, SumFunctionOfNothing
  <2>4. stock[v].quantity = 0 /\ taken[v] = 0
    BY <1>1
  <2> QED BY <2>3, <2>4
<1>11. WithinReceipts /\ StatusMatchesReceipts
  BY <1>9 DEF WithinReceipts, StatusMatchesReceipts
<1>12. AgreedWithinReference
  <2>1. NothingOverpaid /\ RefundsOfPayments
    BY DEF NothingOverpaid, RefundsOfPayments
  <2>2. AcceptedWithinReturn
    BY <1>9 DEF AcceptedWithinReturn
  <2> QED BY <2>1, <2>2 DEF AgreedWithinReference
<1>13. DrawerMatchesEvidence
  <2>1. InSession(Active(payments), drawer.session) = {}
          /\ InSession(Active(settlements), drawer.session) = {}
    BY DEF InSession, Active
  <2>2. Sum(InSession(Active(payments), drawer.session)) = 0
          /\ Sum(InSession(Active(settlements), drawer.session)) = 0
    BY <2>1, MoneyOfNothing
  <2>3. drawer.expected = 0 /\ drawer.float = 0
    OBVIOUS
  <2> QED BY <2>2, <2>3, DrawerNow
<1> QED
  BY <1>3, <1>4, <1>5, <1>7, <1>8, <1>10, <1>11, <1>12, <1>13 DEF Inv, ProcurementOK

LEMMA InvStep ==
    ASSUME Inv, [Next]_vars
    PROVE  Inv'
<1>1. /\ ShelfOK /\ PurchasesOK /\ ReceiptsOK /\ ReturnsOK /\ ReturnKeysOK
      /\ EvidenceOK /\ KeysOnce /\ EvidenceLinked /\ AnswersOK
      /\ StockMatchesDocuments /\ WithinReceipts /\ StatusMatchesReceipts /\ DocumentsStand
      /\ NothingOverpaid /\ AcceptedWithinReturn /\ RefundsOfPayments /\ DrawerMatchesEvidence
      /\ SettledReturnsStand
  BY DEF Inv, ProcurementOK, AgreedWithinReference, DocumentsStand
<1>2. ShelfOK' /\ PurchasesOK' /\ ReceiptsOK' /\ ReturnsOK'
  BY <1>1, ShelfSteps, PurchaseSteps, ReceiptSteps, ReturnSteps
<1>3. ReturnKeysOK'
  BY <1>1, RecordsStay
<1>4. EvidenceOK' /\ KeysOnce' /\ EvidenceLinked'
  BY <1>1, EvidenceSteps
<1>5. AnswersOK'
  BY <1>1, AnswersStep
<1>6. StockMatchesDocuments'
  BY <1>1, StockStep
<1>7. WithinReceipts' /\ StatusMatchesReceipts'
  BY <1>1, WithinStep, StatusStep
<1>8. DocumentsStand'
  BY <1>1, SettlementSteps, Stuttering
<1>9. AgreedWithinReference'
  BY <1>1, OverpaidStep, AcceptedStep, RefundsStep DEF AgreedWithinReference
<1>10. DrawerMatchesEvidence'
  BY <1>1, DrawerStep
<1> QED
  BY <1>2, <1>3, <1>4, <1>5, <1>6, <1>7, <1>8, <1>9, <1>10 DEF Inv, ProcurementOK

LEMMA Invariance == Spec => []Inv
<1>1. Inv /\ [Next]_vars => Inv'
  BY InvStep
<1> QED BY Start, <1>1, PTL DEF Spec

-----------------------------------------------------------------------------
(* What follows from it.                                                   *)

\* Purchases, receipts, returns, payments, settlements and the drawer keep the
\* fields and values their tables allow; a balance is never negative.
THEOREM TypeCorrect == Spec => []TypeOK
<1>1. Inv => TypeOK
  <2> SUFFICES ASSUME Inv PROVE TypeOK
    OBVIOUS
  <2>1. ProcurementTypeOK
    BY DEF Inv, ProcurementOK, ShelfOK, PurchasesOK, ReceiptsOK, ReturnsOK, ReturnKeysOK,
           ReturnKeyRow, ProcurementTypeOK
  <2>2. payments \subseteq PaymentRow /\ settlements \subseteq SettlementRow
    BY DEF Inv, EvidenceOK
  <2>3. /\ reversals \subseteq [of : SettlementKeys, key : SettlementKeys,
                                op : {"PAYMENT", "SETTLEMENT"}]
        /\ drawer \in [session : Sessions, open : BOOLEAN, float : Nat, expected : Nat]
    BY DEF Inv, EvidenceOK, ReversalRow, DrawerRow
  <2> QED BY <2>1, <2>2, <2>3 DEF TypeOK
<1> QED BY Invariance, <1>1, PTL

\* Through receipts line by line, returns posted and reversed and sales in between,
\* the stock of a variant is what the documents account for.
THEOREM ShelfAgreesWithDocuments == Spec => []StockMatchesDocuments
<1>1. Inv => StockMatchesDocuments
  BY DEF Inv
<1> QED BY Invariance, <1>1, PTL

\* Drafts of returns that compete for one receipt line, posted and reversed in any
\* order, never send back more than the receipt brought.
THEOREM ReturnsStayWithinReceipts == Spec => []ReturnedWithinReceived
<1>1. Inv => ReturnedWithinReceived
  BY WithinReceiptsSays DEF Inv, ProcurementOK
<1> QED BY Invariance, <1>1, PTL

\* A purchase is received exactly when its receipts add up to the order, line by
\* line, and no receipt goes beyond it.
THEOREM StatusFollowsReceipts == Spec => []StatusMatchesReceipts
<1>1. Inv => StatusMatchesReceipts
  BY DEF Inv
<1> QED BY Invariance, <1>1, PTL

\* A key that was sent again, with the same call or another one, has only ever
\* answered with the one record it names.
THEOREM KeyedCallsAnswerOnce == Spec => []KeyAnswersOnce
<1>1. Inv => KeyAnswersOnce
  BY AnswersAgree DEF Inv, ProcurementOK
<1> QED BY Invariance, <1>1, PTL

\* Payments, credits and refunds stay within what was ordered, returned and paid,
\* whatever is reversed in between.
THEOREM EvidenceStaysWithin == Spec => []AgreedWithinReference
<1>1. Inv => AgreedWithinReference
  BY DEF Inv
<1> QED BY Invariance, <1>1, PTL

\* The cash a session should hold is its float and the cash evidence of that
\* session that stands: a reversal never reaches into another session.
THEOREM DrawerAgreesWithEvidence == Spec => []DrawerMatchesEvidence
<1>1. Inv => DrawerMatchesEvidence
  BY DEF Inv
<1> QED BY Invariance, <1>1, PTL

\* Two apps each check the other's rows: whatever order their services are called
\* in, no settlement stands for a reversed return, no payment for a cancelled purchase.
THEOREM SettledDocuments == Spec => []SettledDocumentsStand
<1>1. Inv => SettledDocumentsStand
  BY DEF Inv, DocumentsStand, SettledDocumentsStand
<1> QED BY Invariance, <1>1, PTL

-----------------------------------------------------------------------------
(* The drawer the settlements move cash in is the one CashSession promises. *)

LEMMA CashMovesNewest ==
    ASSUME drawer \in DrawerRow, NEW method, NEW delta \in Int, MoveCash(method, delta)
    PROVE  [BranchDrawer!Next]_(BranchDrawer!vars)
<1>1. CASE method # "CASH"
  BY <1>1 DEF MoveCash, BranchDrawer!vars
<1>2. CASE method = "CASH"
  <2>1. drawer.open /\ drawer'.open = drawer.open
    BY <1>2 DEF MoveCash, Takes, DrawerRow
  <2>2. drawer'.session = drawer.session /\ drawer'.expected \in Nat
    BY CashMoves DEF DrawerRow
  <2> QED BY <2>1, <2>2 DEF BranchDrawer!Next, BranchDrawer!Move
<1> QED BY <1>1, <1>2

LEMMA DrawerSessions == drawer \in DrawerRow => drawer.session \in Nat
BY DEF DrawerRow, Sessions

LEMMA NewestDrawerStep ==
    ASSUME EvidenceOK, [Next]_vars
    PROVE  [BranchDrawer!Next]_(BranchDrawer!vars)
<1>0. drawer \in DrawerRow /\ payments \subseteq PaymentRow /\ settlements \subseteq SettlementRow
  BY DEF EvidenceOK
<1>1. CASE drawer' = drawer
  BY <1>1 DEF BranchDrawer!vars
<1>2. ASSUME NEW method, NEW delta \in Int, MoveCash(method, delta)
      PROVE  [BranchDrawer!Next]_(BranchDrawer!vars)
  BY <1>0, <1>2, CashMovesNewest
<1>3. ASSUME NEW p \in Purchases, NEW amount \in Amounts, NEW method \in Methods,
             NEW k \in SettlementKeys, CreatePayment(p, amount, method, k)
      PROVE  [BranchDrawer!Next]_(BranchDrawer!vars)
  <2>1. -amount \in Int
    BY AmountsArePositive
  <2>2. MoveCash(method, -amount)
    BY <1>3 DEF CreatePayment
  <2> QED BY <1>2, <2>1, <2>2
<1>4. ASSUME NEW r \in Returns, NEW type, NEW amount \in Amounts, NEW method,
             NEW k \in SettlementKeys, CreateSettlement(r, type, amount, method, k)
      PROVE  [BranchDrawer!Next]_(BranchDrawer!vars)
  <2>1. amount \in Int
    BY AmountsArePositive
  <2>2. MoveCash(method, amount)
    BY <1>4 DEF CreateSettlement
  <2> QED BY <1>2, <2>1, <2>2
<1>5. ASSUME NEW x, NEW k, NEW op, NEW delta \in Int, Undo(x, k, op, delta)
      PROVE  [BranchDrawer!Next]_(BranchDrawer!vars)
  BY <1>2, <1>5 DEF Undo
<1>6. /\ \A x \in payments : x.amount \in Int
      /\ \A x \in settlements : -x.amount \in Int
  <2>1. \A x \in payments : x.amount \in Nat
    BY <1>0 DEF PaymentRow
  <2>2. \A x \in settlements : x.amount \in Nat
    BY <1>0 DEF SettlementRow
  <2> QED BY <2>1, <2>2
<1>7. ASSUME NEW float \in 0 .. MaxFloat, OpenDrawer(float)
      PROVE  BranchDrawer!Next
  <2>1. /\ ~drawer.open /\ drawer'.open = TRUE
        /\ drawer'.session = drawer.session + 1 /\ drawer'.expected = float
    BY <1>7 DEF OpenDrawer
  <2>2. float \in Nat
    BY MoneyAssumption
  <2>3. drawer'.session \in Nat /\ drawer'.session > drawer.session
    BY <1>0, <2>1, DrawerSessions
  <2> QED BY <2>1, <2>2, <2>3 DEF BranchDrawer!Next, BranchDrawer!Open
<1>8. ASSUME CloseOrReopenDrawer
      PROVE  BranchDrawer!Next
  <2>1. drawer.session > 0 /\ drawer.open \in BOOLEAN
    BY <1>0, <1>8 DEF CloseOrReopenDrawer, DrawerRow
  <2>2. /\ drawer'.open = ~drawer.open
        /\ drawer'.session = drawer.session /\ drawer'.expected = drawer.expected
    BY <1>0, <1>8 DEF CloseOrReopenDrawer, DrawerRow
  <2> QED BY <2>2, <2>1 DEF BranchDrawer!Next, BranchDrawer!Close, BranchDrawer!Reopen
<1> QED BY <1>1, <1>3, <1>4, <1>5, <1>6, <1>7, <1>8, EvidenceCases

\* lock_open_cash_session, called by the expenses app, finds a drawer of the kind the
\* cash app promises for every branch (EachBranchHasADrawer of CashSession): the two
\* models agree on the drawer, although only one of them keeps its movements.
THEOREM SettlementsUseTheNewest == Spec => BranchDrawer!Spec
<1>1. Init => BranchDrawer!Init
  BY DEF Init, BranchDrawer!Init
<1>2. Inv /\ [Next]_vars => [BranchDrawer!Next]_(BranchDrawer!vars)
  BY NewestDrawerStep DEF Inv
<1> QED BY <1>1, <1>2, Invariance, PTL DEF Spec, BranchDrawer!Spec
=============================================================================
