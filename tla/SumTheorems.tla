----------------------------- MODULE SumTheorems -----------------------------
(***************************************************************************)
(* Sums over finite sets, which the ledgers of the other modules are made  *)
(* of.  The induction theorems of the library take an operator; the two    *)
(* below take the set of the values a fact holds of instead, and rest on   *)
(* the well-foundedness of the strict subset ordering (WFMin).  A sum is a *)
(* choice among the solutions of its recursive equation: it is shown to    *)
(* have one, and the same whatever the order of the terms.                 *)
(***************************************************************************)
EXTENDS Integers, FiniteSetsExt, FiniteSetTheorems, WellFoundedInduction, TLAPS

-----------------------------------------------------------------------------
(* Induction over the subsets of a finite set.                             *)

LEMMA SubsetInduction ==
    ASSUME NEW S, IsFiniteSet(S), NEW G,
           \A T \in SUBSET S : (\A U \in SUBSET T : U # T => U \in G) => T \in G
    PROVE  \A T \in SUBSET S : T \in G
<1> DEFINE Bad == (SUBSET S) \ G
<1> SUFFICES ASSUME Bad # {} PROVE FALSE
  OBVIOUS
<1>1. Bad \subseteq FiniteSubsetsOf(S)
  BY FS_Subset DEF FiniteSubsetsOf
<1>2. PICK T \in Bad : \A U \in Bad : ~(<<U, T>> \in StrictSubsetOrdering(S))
  <2> HIDE DEF Bad
  <2> QED BY <1>1, FS_StrictSubsetOrderingWellFounded, WFMin
<1>3. \A U \in SUBSET T : U # T => U \in G
  BY <1>2 DEF StrictSubsetOrdering
<1> QED BY <1>2, <1>3

LEMMA ElementInduction ==
    ASSUME NEW S, IsFiniteSet(S), NEW G, {} \in G,
           \A T \in SUBSET S : \A x \in S \ T : T \in G => T \cup {x} \in G
    PROVE  S \in G
<1>1. ASSUME NEW T \in SUBSET S, \A U \in SUBSET T : U # T => U \in G
      PROVE  T \in G
  <2>1. CASE T = {}
    BY <2>1
  <2>2. CASE T # {}
    <3>1. PICK x \in T : TRUE
      BY <2>2
    <3>2. T \ {x} \in G
      BY <1>1, <3>1
    <3>3. (T \ {x}) \cup {x} \in G
      BY <3>1, <3>2
    <3>4. (T \ {x}) \cup {x} = T
      BY <3>1
    <3> QED BY <3>3, <3>4
  <2> QED BY <2>1, <2>2
<1>2. \A T \in SUBSET S : T \in G
  BY <1>1, SubsetInduction
<1> QED BY <1>2

-----------------------------------------------------------------------------
(* The recursive equation of a sum, and its solutions.                     *)

Some(S) == CHOOSE x \in S : TRUE
IsSum(g, f, S) ==
    g = [T \in SUBSET S |-> IF T = {} THEN 0 ELSE f[Some(T)] + g[T \ {Some(T)}]]

LEMMA SomeMember == \A S : S # {} => Some(S) \in S
BY DEF Some

LEMMA SumIsChoice ==
    ASSUME NEW f, NEW S
    PROVE  SumFunctionOnSet(f, S) = (CHOOSE g : IsSum(g, f, S))[S]
BY DEF SumFunctionOnSet, FoldFunctionOnSet, MapThenFoldSet, IsSum, Some

LEMMA SumEquation ==
    ASSUME NEW f, NEW S, NEW g, IsSum(g, f, S), NEW T \in SUBSET S
    PROVE  g[T] = IF T = {} THEN 0 ELSE f[Some(T)] + g[T \ {Some(T)}]
BY DEF IsSum

\* The sums over the subsets of a finite set do not depend on the set they are taken from.
LEMMA SumsAgree ==
    ASSUME NEW S, IsFiniteSet(S), NEW f, NEW g, NEW S1, NEW S2, NEW h, NEW j,
           IsSum(g, f, S1), IsSum(h, j, S2), S \subseteq S1, S \subseteq S2,
           \A x \in S : f[x] = j[x]
    PROVE  g[S] = h[S]
<1> DEFINE Same == {T \in SUBSET S : g[T] = h[T]}
<1>1. ASSUME NEW T \in SUBSET S, \A U \in SUBSET T : U # T => U \in Same
      PROVE  T \in Same
  <2>1. /\ g[T] = IF T = {} THEN 0 ELSE f[Some(T)] + g[T \ {Some(T)}]
        /\ h[T] = IF T = {} THEN 0 ELSE j[Some(T)] + h[T \ {Some(T)}]
    <3>1. T \in SUBSET S1 /\ T \in SUBSET S2
      OBVIOUS
    <3> QED BY <3>1, SumEquation
  <2>2. CASE T = {}
    BY <2>1, <2>2
  <2>3. CASE T # {}
    <3>1. Some(T) \in T
      BY <2>3, SomeMember
    <3>2. T \ {Some(T)} \in Same
      BY <1>1, <3>1
    <3> QED BY <2>1, <2>3, <3>1, <3>2
  <2> QED BY <2>2, <2>3
<1> HIDE DEF Same
<1>2. \A T \in SUBSET S : T \in Same
  BY <1>1, SubsetInduction
<1> QED BY <1>2 DEF Same

LEMMA SumExists ==
    ASSUME NEW S, IsFiniteSet(S), NEW f
    PROVE  \E g : IsSum(g, f, S)
<1> DEFINE Good == {T \in SUBSET S : \E g : IsSum(g, f, T)}
           sum(T) == CHOOSE g : IsSum(g, f, T)
<1>1. ASSUME NEW T \in SUBSET S, \A U \in SUBSET T : U # T => U \in Good
      PROVE  T \in Good
  <2> DEFINE value(U) == IF U = {} THEN 0 ELSE f[Some(U)] + sum(U \ {Some(U)})[U \ {Some(U)}]
             g == [U \in SUBSET T |-> value(U)]
  <2>1. \A U \in SUBSET T : U # T => IsSum(sum(U), f, U)
    BY <1>1
  <2>2. ASSUME NEW U \in SUBSET T, U # {}
        PROVE  g[U \ {Some(U)}] = sum(U \ {Some(U)})[U \ {Some(U)}]
    <3> DEFINE V == U \ {Some(U)}
    <3>1. V \in SUBSET T /\ V # T /\ Some(U) \in U
      BY <2>2, SomeMember
    <3>2. IsSum(sum(V), f, V)
      BY <2>1, <3>1
    <3>3. g[V] = value(V)
      BY <3>1
    <3> HIDE DEF g, sum
    <3>4. sum(V)[V] = value(V)
      <4>1. CASE V = {}
        BY <3>2, <4>1, SumEquation
      <4>2. CASE V # {}
        <5> DEFINE W == V \ {Some(V)}
        <5>1. Some(V) \in V /\ W \in SUBSET T /\ W # T /\ W \in SUBSET V
          BY <3>1, <4>2, SomeMember
        <5>2. IsSum(sum(W), f, W) /\ IsFiniteSet(W)
          BY <2>1, <5>1, FS_Subset
        <5>3. V \in SUBSET V
          OBVIOUS
        <5> HIDE DEF V, W
        <5>4. sum(V)[W] = sum(W)[W]
          BY <3>2, <5>1, <5>2, SumsAgree
        <5>5. sum(V)[V] = f[Some(V)] + sum(V)[V \ {Some(V)}]
          BY <3>2, <4>2, <5>3, SumEquation
        <5> QED BY <4>2, <5>4, <5>5 DEF W
      <4> QED BY <4>1, <4>2
    <3> QED BY <3>3, <3>4
  <2>3. \A U \in SUBSET T : g[U] = IF U = {} THEN 0 ELSE f[Some(U)] + g[U \ {Some(U)}]
    <3> SUFFICES ASSUME NEW U \in SUBSET T
                 PROVE  g[U] = IF U = {} THEN 0 ELSE f[Some(U)] + g[U \ {Some(U)}]
      OBVIOUS
    <3>1. g[U] = value(U)
      OBVIOUS
    <3> HIDE DEF g, sum
    <3> QED BY <2>2, <3>1
  <2>4. g = [U \in SUBSET T |-> IF U = {} THEN 0 ELSE f[Some(U)] + g[U \ {Some(U)}]]
    <3>1. g = [U \in SUBSET T |-> g[U]]
      OBVIOUS
    <3> HIDE DEF g
    <3> QED BY <2>3, <3>1
  <2> HIDE DEF g
  <2>5. IsSum(g, f, T)
    BY <2>4 DEF IsSum
  <2> QED BY <2>5
<1> HIDE DEF Good
<1>2. S \in Good
  BY <1>1, SubsetInduction
<1> QED BY <1>2 DEF Good

-----------------------------------------------------------------------------

(* Sums of a function over a set of indices.                               *)

LEMMA SumOfNothing ==
    ASSUME NEW f
    PROVE  SumFunctionOnSet(f, {}) = 0
<1> DEFINE sum == CHOOSE g : IsSum(g, f, {})
<1>1. IsSum(sum, f, {})
  BY SumExists, FS_EmptySet
<1>2. {} \in SUBSET {}
  OBVIOUS
<1> HIDE DEF sum
<1>3. sum[{}] = 0
  BY <1>1, <1>2, SumEquation
<1> QED BY <1>3, SumIsChoice DEF sum

LEMMA SumWithout ==
    ASSUME NEW f, NEW S, IsFiniteSet(S), S # {}
    PROVE  SumFunctionOnSet(f, S) = f[Some(S)] + SumFunctionOnSet(f, S \ {Some(S)})
<1> DEFINE R == S \ {Some(S)}
           sum(T) == CHOOSE g : IsSum(g, f, T)
<1>1. IsSum(sum(S), f, S)
  BY SumExists
<1>2. IsFiniteSet(R) /\ R \in SUBSET S
  BY FS_Subset
<1>3. IsSum(sum(R), f, R)
  BY <1>2, SumExists
<1>4. S \in SUBSET S /\ R \subseteq R
  OBVIOUS
<1>5. SumFunctionOnSet(f, S) = sum(S)[S] /\ SumFunctionOnSet(f, R) = sum(R)[R]
  BY SumIsChoice
<1> HIDE DEF sum, R
<1>6. sum(S)[R] = sum(R)[R]
  BY <1>1, <1>2, <1>3, <1>4, SumsAgree
<1>7. sum(S)[S] = f[Some(S)] + sum(S)[S \ {Some(S)}]
  BY <1>1, <1>4, SumEquation
<1> QED BY <1>5, <1>6, <1>7 DEF R

LEMMA SumCongruence ==
    ASSUME NEW S, IsFiniteSet(S), NEW f, NEW g, \A x \in S : f[x] = g[x]
    PROVE  SumFunctionOnSet(f, S) = SumFunctionOnSet(g, S)
<1> DEFINE sum(h) == CHOOSE j : IsSum(j, h, S)
<1>1. IsSum(sum(f), f, S) /\ IsSum(sum(g), g, S)
  BY SumExists
<1>2. SumFunctionOnSet(f, S) = sum(f)[S] /\ SumFunctionOnSet(g, S) = sum(g)[S]
  BY SumIsChoice
<1>3. S \subseteq S
  OBVIOUS
<1> HIDE DEF sum
<1> QED BY <1>1, <1>2, <1>3, SumsAgree

LEMMA SumType ==
    ASSUME NEW S, IsFiniteSet(S), NEW f, \A x \in S : f[x] \in Int
    PROVE  SumFunctionOnSet(f, S) \in Int
<1> DEFINE G == {T \in SUBSET S : SumFunctionOnSet(f, T) \in Int}
<1>1. ASSUME NEW T \in SUBSET S, \A U \in SUBSET T : U # T => U \in G
      PROVE  T \in G
  <2>1. CASE T = {}
    BY <2>1, SumOfNothing
  <2>2. CASE T # {}
    <3>1. Some(T) \in T /\ IsFiniteSet(T)
      BY <2>2, SomeMember, FS_Subset
    <3>2. T \ {Some(T)} \in G
      BY <1>1, <3>1
    <3>3. SumFunctionOnSet(f, T) = f[Some(T)] + SumFunctionOnSet(f, T \ {Some(T)})
      BY <2>2, <3>1, SumWithout
    <3> QED BY <3>1, <3>2, <3>3
  <2> QED BY <2>1, <2>2
<1> HIDE DEF G
<1>2. S \in G
  BY <1>1, SubsetInduction
<1> QED BY <1>2 DEF G

\* The order of the terms does not matter.
LEMMA SumRemove ==
    ASSUME NEW S, IsFiniteSet(S), NEW f, \A x \in S : f[x] \in Int, NEW x \in S
    PROVE  SumFunctionOnSet(f, S) = f[x] + SumFunctionOnSet(f, S \ {x})
<1> DEFINE sum(T) == SumFunctionOnSet(f, T)
           G == {T \in SUBSET S : \A y \in T : sum(T) = f[y] + sum(T \ {y})}
<1>1. ASSUME NEW T \in SUBSET S, \A U \in SUBSET T : U # T => U \in G
      PROVE  T \in G
  <2> SUFFICES ASSUME NEW y \in T PROVE sum(T) = f[y] + sum(T \ {y})
    OBVIOUS
  <2> DEFINE z == Some(T)
  <2>1. z \in T /\ T \ {z} \in G
    <3>1. z \in T
      BY SomeMember
    <3> QED BY <1>1, <3>1
  <2>2. \A U \in SUBSET T : IsFiniteSet(U) /\ sum(U) \in Int
    BY FS_Subset, SumType
  <2>3. sum(T) = f[z] + sum(T \ {z})
    BY <2>1, <2>2, SumWithout
  <2>4. CASE y = z
    BY <2>3, <2>4
  <2>5. CASE y # z
    <3> DEFINE R == (T \ {z}) \ {y}
    <3>1. sum(T \ {z}) = f[y] + sum(R)
      <4>1. y \in T \ {z}
        BY <2>5
      <4> HIDE DEF z, sum
      <4> QED BY <2>1, <4>1 DEF sum
    <3>2. sum(T \ {y}) = f[z] + sum(R)
      <4>1. T \ {y} \in G /\ z \in T \ {y} /\ (T \ {y}) \ {z} = R
        BY <1>1, <2>1, <2>5
      <4> HIDE DEF z, R, sum
      <4> QED BY <4>1 DEF sum
    <3>3. f[y] \in Int /\ f[z] \in Int /\ sum(R) \in Int
      BY <2>1, <2>2
    <3> HIDE DEF sum, z, R
    <3> QED BY <2>3, <3>1, <3>2, <3>3
  <2> QED BY <2>4, <2>5
<1> HIDE DEF G
<1>2. S \in G
  BY <1>1, SubsetInduction
<1> QED BY <1>2 DEF G

LEMMA SumAdd ==
    ASSUME NEW S, IsFiniteSet(S), NEW x, x \notin S, NEW f, \A y \in S \cup {x} : f[y] \in Int
    PROVE  SumFunctionOnSet(f, S \cup {x}) = SumFunctionOnSet(f, S) + f[x]
<1> DEFINE T == S \cup {x}
           R == T \ {x}
<1>1. IsFiniteSet(T) /\ R = S /\ x \in T
  BY FS_AddElement
<1>2. SumFunctionOnSet(f, S) \in Int /\ f[x] \in Int
  BY SumType
<1> HIDE DEF T
<1>3. SumFunctionOnSet(f, T) = f[x] + SumFunctionOnSet(f, R)
  BY <1>1, SumRemove DEF T
<1> HIDE DEF R
<1>4. SumFunctionOnSet(f, T) = f[x] + SumFunctionOnSet(f, S)
  BY <1>1, <1>3
<1> QED BY <1>2, <1>4 DEF T

-----------------------------------------------------------------------------
(* Sums of a function over its domain.                                     *)

IntegerSum(f) == IsFiniteSet(DOMAIN f) /\ \A x \in DOMAIN f : f[x] \in Int

LEMMA SumFunctionOfNothing ==
    ASSUME NEW f, DOMAIN f = {}
    PROVE  SumFunction(f) = 0
BY SumOfNothing DEF SumFunction

LEMMA SumFunctionType ==
    ASSUME NEW f, IntegerSum(f)
    PROVE  SumFunction(f) \in Int
BY SumType DEF SumFunction, IntegerSum

LEMMA SumFunctionSame ==
    ASSUME NEW f, NEW g, IsFiniteSet(DOMAIN f), DOMAIN g = DOMAIN f,
           \A x \in DOMAIN f : g[x] = f[x]
    PROVE  SumFunction(g) = SumFunction(f)
BY SumCongruence DEF SumFunction

\* One more term.
LEMMA SumFunctionAdd ==
    ASSUME NEW f, IntegerSum(f), NEW x, x \notin DOMAIN f,
           NEW g, DOMAIN g = DOMAIN f \cup {x}, g[x] \in Int, \A y \in DOMAIN f : g[y] = f[y]
    PROVE  SumFunction(g) = SumFunction(f) + g[x]
<1> DEFINE S == DOMAIN f
<1>1. IsFiniteSet(S) /\ \A y \in S \cup {x} : g[y] \in Int
  BY DEF IntegerSum
<1> HIDE DEF S
<1>2. SumFunctionOnSet(g, S \cup {x}) = SumFunctionOnSet(g, S) + g[x]
  BY <1>1, SumAdd DEF S
<1>3. SumFunctionOnSet(g, S) = SumFunctionOnSet(f, S)
  BY <1>1, SumCongruence DEF S
<1> QED BY <1>2, <1>3 DEF SumFunction, S

\* One term that changes.
LEMMA SumFunctionChange ==
    ASSUME NEW f, IntegerSum(f), NEW x \in DOMAIN f,
           NEW g, DOMAIN g = DOMAIN f, g[x] \in Int, \A y \in DOMAIN f : y # x => g[y] = f[y]
    PROVE  SumFunction(g) = SumFunction(f) - f[x] + g[x]
<1> DEFINE S == DOMAIN f
           R == S \ {x}
<1>1. /\ IsFiniteSet(S) /\ IsFiniteSet(R)
      /\ \A y \in S : f[y] \in Int /\ g[y] \in Int
      /\ \A y \in R : f[y] \in Int /\ f[y] = g[y]
  BY FS_RemoveElement DEF IntegerSum
<1> HIDE DEF S
<1>2. SumFunctionOnSet(g, S) = g[x] + SumFunctionOnSet(g, R)
  <2> HIDE DEF R
  <2> QED BY <1>1, SumRemove DEF S, R
<1>3. SumFunctionOnSet(f, S) = f[x] + SumFunctionOnSet(f, R)
  <2> HIDE DEF R
  <2> QED BY <1>1, SumRemove DEF S, R
<1> HIDE DEF R
<1>4. SumFunctionOnSet(g, R) = SumFunctionOnSet(f, R) /\ SumFunctionOnSet(f, R) \in Int
  BY <1>1, SumCongruence, SumType
<1>5. f[x] \in Int /\ g[x] \in Int
  BY <1>1 DEF S
<1> QED BY <1>2, <1>3, <1>4, <1>5 DEF SumFunction, S

LEMMA SumFunctionZero ==
    ASSUME NEW f, IsFiniteSet(DOMAIN f), \A x \in DOMAIN f : f[x] = 0
    PROVE  SumFunction(f) = 0
<1> DEFINE S == DOMAIN f
           G == {T \in SUBSET S : SumFunctionOnSet(f, T) = 0}
<1>1. {} \in G
  BY SumOfNothing
<1>2. ASSUME NEW T \in SUBSET S, NEW x \in S \ T, T \in G PROVE T \cup {x} \in G
  <2>1. IsFiniteSet(T) /\ \A y \in T \cup {x} : f[y] \in Int
    BY FS_Subset
  <2>2. SumFunctionOnSet(f, T \cup {x}) = SumFunctionOnSet(f, T) + f[x]
    BY <2>1, SumAdd
  <2> QED BY <1>2, <2>2
<1> HIDE DEF G
<1>3. S \in G
  <2> HIDE DEF S
  <2> QED BY <1>1, <1>2, ElementInduction DEF S
<1> QED BY <1>3 DEF G, SumFunction

LEMMA SumFunctionAtMost ==
    ASSUME NEW f, IntegerSum(f), NEW g, DOMAIN g = DOMAIN f,
           \A x \in DOMAIN f : g[x] \in Int /\ f[x] <= g[x]
    PROVE  SumFunction(f) <= SumFunction(g)
<1> DEFINE S == DOMAIN f
           G == {T \in SUBSET S : SumFunctionOnSet(f, T) <= SumFunctionOnSet(g, T)}
<1>1. {} \in G
  BY SumOfNothing
<1>2. ASSUME NEW T \in SUBSET S, NEW x \in S \ T, T \in G PROVE T \cup {x} \in G
  <2>1. IsFiniteSet(T) /\ \A y \in T \cup {x} : f[y] \in Int /\ g[y] \in Int
    BY FS_Subset DEF IntegerSum
  <2>2. /\ SumFunctionOnSet(f, T \cup {x}) = SumFunctionOnSet(f, T) + f[x]
        /\ SumFunctionOnSet(g, T \cup {x}) = SumFunctionOnSet(g, T) + g[x]
        /\ SumFunctionOnSet(f, T) \in Int /\ SumFunctionOnSet(g, T) \in Int
    BY <2>1, SumAdd, SumType
  <2>3. f[x] \in Int /\ g[x] \in Int /\ f[x] <= g[x]
    BY DEF IntegerSum
  <2> QED BY <1>2, <2>2, <2>3
<1> HIDE DEF G
<1>3. S \in G
  <2> HIDE DEF S
  <2> QED BY <1>1, <1>2, ElementInduction DEF S, IntegerSum
<1> QED BY <1>3 DEF G, SumFunction

LEMMA SumFunctionNat ==
    ASSUME NEW f, IsFiniteSet(DOMAIN f), \A x \in DOMAIN f : f[x] \in Nat
    PROVE  SumFunction(f) \in Nat
<1> DEFINE zero == [x \in DOMAIN f |-> 0]
<1>1. SumFunction(zero) = 0
  BY SumFunctionZero
<1>2. IntegerSum(zero) /\ DOMAIN zero = DOMAIN f /\ \A x \in DOMAIN f : zero[x] <= f[x]
  BY DEF IntegerSum
<1>3. IntegerSum(f)
  BY DEF IntegerSum
<1> HIDE DEF zero
<1>4. SumFunction(zero) <= SumFunction(f)
  BY <1>2, <1>3, SumFunctionAtMost DEF IntegerSum
<1> QED BY <1>1, <1>3, <1>4, SumFunctionType

\* The sum of two functions, term by term.
LEMMA SumFunctionPlus ==
    ASSUME NEW f, IntegerSum(f), NEW g, IntegerSum(g), DOMAIN g = DOMAIN f,
           NEW h, DOMAIN h = DOMAIN f, \A x \in DOMAIN f : h[x] = f[x] + g[x]
    PROVE  SumFunction(h) = SumFunction(f) + SumFunction(g)
<1> DEFINE S == DOMAIN f
           G == {T \in SUBSET S : SumFunctionOnSet(h, T)
                                      = SumFunctionOnSet(f, T) + SumFunctionOnSet(g, T)}
<1>1. {} \in G
  BY SumOfNothing
<1>2. ASSUME NEW T \in SUBSET S, NEW x \in S \ T, T \in G PROVE T \cup {x} \in G
  <2>1. IsFiniteSet(T) /\ \A y \in T \cup {x} : f[y] \in Int /\ g[y] \in Int /\ h[y] \in Int
    BY FS_Subset DEF IntegerSum
  <2>2. /\ SumFunctionOnSet(f, T \cup {x}) = SumFunctionOnSet(f, T) + f[x]
        /\ SumFunctionOnSet(g, T \cup {x}) = SumFunctionOnSet(g, T) + g[x]
        /\ SumFunctionOnSet(h, T \cup {x}) = SumFunctionOnSet(h, T) + h[x]
        /\ SumFunctionOnSet(f, T) \in Int /\ SumFunctionOnSet(g, T) \in Int
    BY <2>1, SumAdd, SumType
  <2>3. f[x] \in Int /\ g[x] \in Int /\ h[x] = f[x] + g[x]
    BY DEF IntegerSum
  <2> QED BY <1>2, <2>2, <2>3
<1> HIDE DEF G
<1>3. S \in G
  <2> HIDE DEF S
  <2> QED BY <1>1, <1>2, ElementInduction DEF S, IntegerSum
<1> QED BY <1>3 DEF G, SumFunction

\* A sum of terms that are not negative is at least each of them.
LEMMA SumFunctionTerm ==
    ASSUME NEW f, IsFiniteSet(DOMAIN f), \A x \in DOMAIN f : f[x] \in Nat, NEW y \in DOMAIN f
    PROVE  f[y] <= SumFunction(f)
<1> DEFINE g == [x \in DOMAIN f |-> IF x = y THEN 0 ELSE f[x]]
<1>1. /\ DOMAIN g = DOMAIN f /\ g[y] = 0 /\ \A x \in DOMAIN f : g[x] \in Nat
      /\ \A x \in DOMAIN f : x # y => g[x] = f[x]
  OBVIOUS
<1>2. IntegerSum(f) /\ f[y] \in Nat
  BY DEF IntegerSum
<1> HIDE DEF g
<1>3. SumFunction(g) \in Nat
  BY <1>1, SumFunctionNat
<1>4. SumFunction(g) = SumFunction(f) - f[y] + g[y]
  BY <1>1, <1>2, SumFunctionChange
<1>5. SumFunction(f) \in Int
  BY <1>2, SumFunctionType
<1> QED BY <1>1, <1>2, <1>3, <1>4, <1>5
\* Terms that are zero do not count.
LEMMA SumFunctionExtend ==
    ASSUME NEW f, IntegerSum(f), NEW g, IntegerSum(g), DOMAIN f \subseteq DOMAIN g,
           \A x \in DOMAIN f : g[x] = f[x],
           \A x \in DOMAIN g \ DOMAIN f : g[x] = 0
    PROVE  SumFunction(g) = SumFunction(f)
<1> DEFINE D == DOMAIN f
           S == DOMAIN g \ D
           G == {T \in SUBSET S : SumFunctionOnSet(g, D \cup T) = SumFunctionOnSet(g, D)}
<1>1. {} \in G
  OBVIOUS
<1>2. ASSUME NEW T \in SUBSET S, NEW x \in S \ T, T \in G PROVE T \cup {x} \in G
  <2>1. IsFiniteSet(D \cup T) /\ \A y \in (D \cup T) \cup {x} : g[y] \in Int
    BY FS_Subset DEF IntegerSum
  <2>2. x \notin D \cup T /\ g[x] = 0
    OBVIOUS
  <2>3. SumFunctionOnSet(g, (D \cup T) \cup {x}) = SumFunctionOnSet(g, D \cup T) + g[x]
    BY <2>1, <2>2, SumAdd
  <2>4. SumFunctionOnSet(g, D \cup T) \in Int
    BY <2>1, SumType
  <2>5. (D \cup T) \cup {x} = D \cup (T \cup {x})
    OBVIOUS
  <2>6. SumFunctionOnSet(g, D \cup T) = SumFunctionOnSet(g, D)
    BY <1>2
  <2>7. SumFunctionOnSet(g, D \cup (T \cup {x})) = SumFunctionOnSet(g, D)
    <3> HIDE DEF D, S, G
    <3>1. SumFunctionOnSet(g, D \cup (T \cup {x})) = SumFunctionOnSet(g, (D \cup T) \cup {x})
      BY <2>5
    <3> QED BY <2>2, <2>3, <2>4, <2>6, <3>1
  <2> QED BY <2>7
<1>3. IsFiniteSet(S) /\ D \cup S = DOMAIN g
  BY FS_Subset DEF IntegerSum
<1> HIDE DEF G
<1>4. S \in G
  <2> HIDE DEF S
  <2> QED BY <1>1, <1>2, <1>3, ElementInduction
<1>5. SumFunctionOnSet(g, DOMAIN g) = SumFunctionOnSet(g, D)
  BY <1>3, <1>4 DEF G
<1>6. SumFunctionOnSet(g, D) = SumFunctionOnSet(f, D)
  BY SumCongruence DEF IntegerSum
<1> QED BY <1>5, <1>6 DEF SumFunction

LEMMA SumFunctionTimes ==
    ASSUME NEW f, IntegerSum(f), NEW k \in Int,
           NEW g, DOMAIN g = DOMAIN f, \A x \in DOMAIN f : g[x] = k * f[x]
    PROVE  SumFunction(g) = k * SumFunction(f)
<1> DEFINE S == DOMAIN f
           G == {T \in SUBSET S : SumFunctionOnSet(g, T) = k * SumFunctionOnSet(f, T)}
<1>1. {} \in G
  BY SumOfNothing
<1>2. ASSUME NEW T \in SUBSET S, NEW x \in S \ T, T \in G PROVE T \cup {x} \in G
  <2>1. IsFiniteSet(T) /\ \A y \in T \cup {x} : f[y] \in Int /\ g[y] \in Int
    BY FS_Subset DEF IntegerSum
  <2>2. /\ SumFunctionOnSet(f, T \cup {x}) = SumFunctionOnSet(f, T) + f[x]
        /\ SumFunctionOnSet(g, T \cup {x}) = SumFunctionOnSet(g, T) + g[x]
        /\ SumFunctionOnSet(f, T) \in Int
    BY <2>1, SumAdd, SumType
  <2>3. f[x] \in Int /\ g[x] = k * f[x]
    BY DEF IntegerSum
  <2>4. k * (SumFunctionOnSet(f, T) + f[x]) = k * SumFunctionOnSet(f, T) + k * f[x]
    BY <2>2, <2>3
  <2> QED BY <1>2, <2>2, <2>3, <2>4
<1> HIDE DEF G
<1>3. S \in G
  <2> HIDE DEF S
  <2> QED BY <1>1, <1>2, ElementInduction DEF S, IntegerSum
<1> QED BY <1>3 DEF G, SumFunction

LEMMA SumFunctionConstant ==
    ASSUME NEW S, IsFiniteSet(S), NEW k \in Int
    PROVE  SumFunction([x \in S |-> k]) = k * Cardinality(S)
<1> DEFINE f == [x \in S |-> k]
           G == {T \in SUBSET S : SumFunctionOnSet(f, T) = k * Cardinality(T)}
<1>1. {} \in G
  BY SumOfNothing, FS_EmptySet
<1>2. ASSUME NEW T \in SUBSET S, NEW x \in S \ T, T \in G PROVE T \cup {x} \in G
  <2>1. IsFiniteSet(T) /\ \A y \in T \cup {x} : f[y] \in Int
    BY FS_Subset
  <2>2. SumFunctionOnSet(f, T \cup {x}) = SumFunctionOnSet(f, T) + f[x] /\ f[x] = k
    BY <2>1, SumAdd
  <2>3. Cardinality(T \cup {x}) = Cardinality(T) + 1 /\ Cardinality(T) \in Nat
    BY <2>1, FS_AddElement, FS_CardinalityType
  <2>4. k * (Cardinality(T) + 1) = k * Cardinality(T) + k
    BY <2>3
  <2> HIDE DEF f
  <2> QED BY <1>2, <2>2, <2>3, <2>4
<1> HIDE DEF G
<1>3. S \in G
  BY <1>1, <1>2, ElementInduction
<1> QED BY <1>3 DEF G, SumFunction

\* The sum of a table by its rows is its sum by its columns.
LEMMA SumFunctionTable ==
    ASSUME NEW R, IsFiniteSet(R), NEW C, IsFiniteSet(C),
           NEW row, \A r \in R : DOMAIN row[r] = C /\ \A c \in C : row[r][c] \in Int,
           NEW column, \A c \in C : DOMAIN column[c] = R,
           \A r \in R : \A c \in C : column[c][r] = row[r][c],
           NEW f, DOMAIN f = R, \A r \in R : f[r] = SumFunction(row[r]),
           NEW g, DOMAIN g = C, \A c \in C : g[c] = SumFunction(column[c])
    PROVE  SumFunction(f) = SumFunction(g)
<1> DEFINE part(T, c) == SumFunctionOnSet(column[c], T)
           parts(T) == [c \in C |-> part(T, c)]
           G == {T \in SUBSET R : SumFunctionOnSet(f, T) = SumFunction(parts(T))}
<1>1. \A r \in R : f[r] \in Int
  BY SumFunctionType DEF IntegerSum
<1>2. ASSUME NEW T \in SUBSET R, NEW c \in C PROVE part(T, c) \in Int
  <2>1. IsFiniteSet(T) /\ \A r \in T : column[c][r] \in Int
    BY FS_Subset
  <2> QED BY <2>1, SumType
<1>3. {} \in G
  <2>1. SumFunctionOnSet(f, {}) = 0
    BY SumOfNothing
  <2>2. \A c \in C : part({}, c) = 0
    BY SumOfNothing
  <2> HIDE DEF part
  <2>3. DOMAIN parts({}) = C /\ \A c \in C : parts({})[c] = 0
    BY <2>2
  <2> HIDE DEF parts
  <2>4. SumFunction(parts({})) = 0
    BY <2>3, SumFunctionZero
  <2> QED BY <2>1, <2>4
<1>4. ASSUME NEW T \in SUBSET R, NEW x \in R \ T, T \in G PROVE T \cup {x} \in G
  <2>1. IsFiniteSet(T) /\ T \cup {x} \in SUBSET R
    BY FS_Subset
  <2>2. SumFunctionOnSet(f, T \cup {x}) = SumFunctionOnSet(f, T) + f[x]
    BY <1>1, <2>1, SumAdd
  <2>3. ASSUME NEW c \in C PROVE part(T \cup {x}, c) = part(T, c) + row[x][c]
    <3>1. \A r \in T \cup {x} : column[c][r] \in Int
      OBVIOUS
    <3>2. part(T \cup {x}, c) = part(T, c) + column[c][x]
      BY <2>1, <3>1, SumAdd
    <3> QED BY <3>2
  <2> HIDE DEF part
  <2>4. /\ DOMAIN parts(T) = C /\ DOMAIN row[x] = C /\ DOMAIN parts(T \cup {x}) = C
        /\ \A c \in C : parts(T)[c] \in Int /\ row[x][c] \in Int
    BY <1>2
  <2>5. \A c \in C : parts(T \cup {x})[c] = parts(T)[c] + row[x][c]
    BY <2>3
  <2>6. SumFunctionOnSet(f, T) = SumFunction(parts(T))
    BY <1>4
  <2> HIDE DEF parts, G
  <2>7. IntegerSum(parts(T)) /\ IntegerSum(row[x])
    BY <2>4 DEF IntegerSum
  <2>8. SumFunction(parts(T \cup {x})) = SumFunction(parts(T)) + SumFunction(row[x])
    <3> DEFINE old == parts(T)
               new == parts(T \cup {x})
               more == row[x]
    <3>1. DOMAIN more = DOMAIN old /\ DOMAIN new = DOMAIN old
      BY <2>4
    <3>2. \A c \in DOMAIN old : new[c] = old[c] + more[c]
      BY <2>4, <2>5
    <3>3. IntegerSum(old) /\ IntegerSum(more)
      BY <2>7
    <3> HIDE DEF old, new, more
    <3>4. SumFunction(new) = SumFunction(old) + SumFunction(more)
      BY <3>1, <3>2, <3>3, SumFunctionPlus
    <3> QED BY <3>4 DEF old, new, more
  <2>9. f[x] = SumFunction(row[x])
    OBVIOUS
  <2> QED BY <2>1, <2>2, <2>6, <2>8, <2>9 DEF G
<1> HIDE DEF G
<1>5. R \in G
  BY <1>3, <1>4, ElementInduction
<1>6. SumFunctionOnSet(f, R) = SumFunction(parts(R))
  BY <1>5 DEF G
<1>7. DOMAIN parts(R) = C /\ \A c \in C : parts(R)[c] = g[c]
  BY DEF SumFunction
<1> HIDE DEF parts
<1>8. SumFunction(parts(R)) = SumFunction(g)
  BY <1>7, SumFunctionSame
<1> QED BY <1>6, <1>8 DEF SumFunction
-----------------------------------------------------------------------------
(* Folds over a finite set: the steps are a function of a member and of    *)
(* what the members before it made.                                        *)

IsFold(h, step, base, S) ==
    h = [T \in SUBSET S |-> IF T = {} THEN base ELSE step[<<Some(T), h[T \ {Some(T)}]>>]]

LEMMA FoldEquation ==
    ASSUME NEW step, NEW base, NEW S, NEW h, IsFold(h, step, base, S), NEW T \in SUBSET S
    PROVE  h[T] = IF T = {} THEN base ELSE step[<<Some(T), h[T \ {Some(T)}]>>]
BY DEF IsFold

LEMMA FoldsAgree ==
    ASSUME NEW S, IsFiniteSet(S), NEW step, NEW base, NEW S1, NEW S2, NEW g, NEW h,
           IsFold(g, step, base, S1), IsFold(h, step, base, S2), S \subseteq S1, S \subseteq S2
    PROVE  g[S] = h[S]
<1> DEFINE Same == {T \in SUBSET S : g[T] = h[T]}
<1>1. ASSUME NEW T \in SUBSET S, \A U \in SUBSET T : U # T => U \in Same
      PROVE  T \in Same
  <2>1. /\ g[T] = IF T = {} THEN base ELSE step[<<Some(T), g[T \ {Some(T)}]>>]
        /\ h[T] = IF T = {} THEN base ELSE step[<<Some(T), h[T \ {Some(T)}]>>]
    <3>1. T \in SUBSET S1 /\ T \in SUBSET S2
      OBVIOUS
    <3> QED BY <3>1, FoldEquation
  <2>2. CASE T = {}
    BY <2>1, <2>2
  <2>3. CASE T # {}
    <3>1. Some(T) \in T
      BY <2>3, SomeMember
    <3>2. T \ {Some(T)} \in Same
      BY <1>1, <3>1
    <3> QED BY <2>1, <2>3, <3>1, <3>2
  <2> QED BY <2>2, <2>3
<1> HIDE DEF Same
<1>2. \A T \in SUBSET S : T \in Same
  BY <1>1, SubsetInduction
<1> QED BY <1>2 DEF Same

LEMMA FoldExists ==
    ASSUME NEW S, IsFiniteSet(S), NEW step, NEW base
    PROVE  \E h : IsFold(h, step, base, S)
<1> DEFINE Good == {T \in SUBSET S : \E h : IsFold(h, step, base, T)}
           fold(T) == CHOOSE h : IsFold(h, step, base, T)
<1>1. ASSUME NEW T \in SUBSET S, \A U \in SUBSET T : U # T => U \in Good
      PROVE  T \in Good
  <2> DEFINE value(U) == IF U = {} THEN base
                         ELSE step[<<Some(U), fold(U \ {Some(U)})[U \ {Some(U)}]>>]
             h == [U \in SUBSET T |-> value(U)]
  <2>1. \A U \in SUBSET T : U # T => IsFold(fold(U), step, base, U)
    BY <1>1
  <2>2. ASSUME NEW U \in SUBSET T, U # {}
        PROVE  h[U \ {Some(U)}] = fold(U \ {Some(U)})[U \ {Some(U)}]
    <3> DEFINE V == U \ {Some(U)}
    <3>1. V \in SUBSET T /\ V # T /\ Some(U) \in U
      BY <2>2, SomeMember
    <3>2. IsFold(fold(V), step, base, V)
      BY <2>1, <3>1
    <3>3. h[V] = value(V)
      BY <3>1
    <3> HIDE DEF h, fold
    <3>4. fold(V)[V] = value(V)
      <4>1. CASE V = {}
        <5>1. IsFold(fold({}), step, base, {}) /\ {} \in SUBSET {}
          BY <3>2, <4>1
        <5>2. fold({})[{}] = base
          BY <5>1 DEF IsFold
        <5>3. value({}) = base
          OBVIOUS
        <5> HIDE DEF V, value
        <5> QED BY <4>1, <5>2, <5>3
      <4>2. CASE V # {}
        <5> DEFINE W == V \ {Some(V)}
        <5>1. Some(V) \in V /\ W \in SUBSET T /\ W # T /\ W \in SUBSET V
          BY <3>1, <4>2, SomeMember
        <5>2. IsFold(fold(W), step, base, W) /\ IsFiniteSet(W)
          BY <2>1, <5>1, FS_Subset
        <5>3. V \in SUBSET V
          OBVIOUS
        <5> HIDE DEF V, W
        <5>4. fold(V)[W] = fold(W)[W]
          BY <3>2, <5>1, <5>2, FoldsAgree
        <5>5. fold(V)[V] = step[<<Some(V), fold(V)[V \ {Some(V)}]>>]
          BY <3>2, <4>2, <5>3, FoldEquation
        <5> QED BY <4>2, <5>4, <5>5 DEF W
      <4> QED BY <4>1, <4>2
    <3> QED BY <3>3, <3>4
  <2>3. \A U \in SUBSET T : h[U] = IF U = {} THEN base ELSE step[<<Some(U), h[U \ {Some(U)}]>>]
    <3> SUFFICES ASSUME NEW U \in SUBSET T
                 PROVE  h[U] = IF U = {} THEN base ELSE step[<<Some(U), h[U \ {Some(U)}]>>]
      OBVIOUS
    <3>1. h[U] = value(U)
      OBVIOUS
    <3> HIDE DEF h, fold
    <3> QED BY <2>2, <3>1
  <2>4. h = [U \in SUBSET T |-> IF U = {} THEN base ELSE step[<<Some(U), h[U \ {Some(U)}]>>]]
    <3>1. h = [U \in SUBSET T |-> h[U]]
      OBVIOUS
    <3> HIDE DEF h
    <3> QED BY <2>3, <3>1
  <2> HIDE DEF h
  <2>5. IsFold(h, step, base, T)
    BY <2>4 DEF IsFold
  <2> QED BY <2>5
<1> HIDE DEF Good
<1>2. S \in Good
  BY <1>1, SubsetInduction
<1> QED BY <1>2 DEF Good

\* A fold whose steps stay in V stays in V.
LEMMA FoldStays ==
    ASSUME NEW S, IsFiniteSet(S), NEW V, NEW step, NEW base \in V, NEW h,
           IsFold(h, step, base, S), \A x \in S : \A y \in V : step[<<x, y>>] \in V
    PROVE  \A T \in SUBSET S : h[T] \in V
<1> DEFINE G == {T \in SUBSET S : h[T] \in V}
<1>1. ASSUME NEW T \in SUBSET S, \A U \in SUBSET T : U # T => U \in G
      PROVE  T \in G
  <2>1. h[T] = IF T = {} THEN base ELSE step[<<Some(T), h[T \ {Some(T)}]>>]
    BY FoldEquation
  <2>2. CASE T = {}
    BY <2>1, <2>2
  <2>3. CASE T # {}
    <3>1. Some(T) \in T /\ Some(T) \in S
      BY <2>3, SomeMember
    <3>2. T \ {Some(T)} \in G
      BY <1>1, <3>1
    <3> QED BY <2>1, <2>3, <3>1, <3>2
  <2> QED BY <2>2, <2>3
<1> HIDE DEF G
<1>2. \A T \in SUBSET S : T \in G
  BY <1>1, SubsetInduction
<1> QED BY <1>2 DEF G

=============================================================================
