----------------------------- MODULE SumsProofs -----------------------------
(***************************************************************************)
(* Facts about totals, powers of two, quotients and recursive functions.  A   *)
(* total is the cardinality of a set of units and a power of two that of a    *)
(* set of sets, so they come down to the library's facts about finite sets.  *)
(* Where an induction is needed it runs over a set (NatSetInduction,          *)
(* SetInduction), and what a recursive function computes is known once some  *)
(* function is shown to satisfy its equation (FoldFits, CountFits).          *)
(***************************************************************************)
EXTENDS Sums, Integers, FiniteSetTheorems, WellFoundedInduction, TLAPS

----------------------------------------------------------------------------
(* Totals.                                                                  *)

\* A total counts finitely many units.
LEMMA UnitsFinite ==
  ASSUME NEW S, IsFiniteSet(S), NEW f, \A x \in S : f[x] \in Nat
  PROVE  IsFiniteSet(Units(f, S))
<1> DEFINE U == { {x} \X (1 .. f[x]) : x \in S }
           part == [x \in S |-> {x} \X (1 .. f[x])]
<1>1. part \in Surjection(S, U)
  BY DEF Surjection
<1>2. IsFiniteSet(U)
  BY <1>1, FS_Surjection
<1>3. \A T \in U : IsFiniteSet(T)
  <2>1. ASSUME NEW x \in S PROVE IsFiniteSet({x} \X (1 .. f[x]))
    <3>1. IsFiniteSet({x})
      BY FS_Singleton
    <3>2. IsFiniteSet(1 .. f[x])
      BY FS_Interval
    <3> QED BY <3>1, <3>2, FS_Product
  <2> QED BY <2>1
<1> HIDE DEF U
<1>4. IsFiniteSet(UNION U)
  BY <1>2, <1>3, FS_UNION
<1> QED BY <1>4 DEF Units, U

\* A total is a natural number.
LEMMA TotalType ==
  ASSUME NEW S, IsFiniteSet(S), NEW f, \A x \in S : f[x] \in Nat
  PROVE  Total(f, S) \in Nat
BY UnitsFinite, FS_CardinalityType DEF Total

\* A total depends only on the values at the members summed over.
LEMMA TotalSame ==
  ASSUME NEW S, NEW f, NEW g, \A x \in S : f[x] = g[x]
  PROVE  Total(f, S) = Total(g, S)
<1>1. Units(f, S) = Units(g, S)
  BY DEF Units
<1> QED BY <1>1 DEF Total

\* A total is the sum of the totals of two parts.
LEMMA TotalSplit ==
  ASSUME NEW S, IsFiniteSet(S), NEW f, \A x \in S : f[x] \in Nat,
         NEW T \in SUBSET S
  PROVE  Total(f, S) = Total(f, T) + Total(f, S \ T)
<1>1. IsFiniteSet(T) /\ IsFiniteSet(S \ T)
  BY FS_Subset, FS_Difference
<1>2. IsFiniteSet(Units(f, T)) /\ IsFiniteSet(Units(f, S \ T))
  BY <1>1, UnitsFinite
<1>3. Units(f, S) = Units(f, T) \cup Units(f, S \ T)
  BY DEF Units
<1>4. Units(f, T) \cap Units(f, S \ T) = {}
  BY DEF Units
<1>5. Cardinality(Units(f, T) \cap Units(f, S \ T)) = 0
  BY <1>4, FS_EmptySet
<1>6. Cardinality(Units(f, T)) \in Nat /\ Cardinality(Units(f, S \ T)) \in Nat
  BY <1>2, FS_CardinalityType
<1>7. Cardinality(Units(f, S)) =
        Cardinality(Units(f, T)) + Cardinality(Units(f, S \ T))
          - Cardinality(Units(f, T) \cap Units(f, S \ T))
  BY <1>2, <1>3, FS_Union
<1> QED BY <1>5, <1>6, <1>7 DEF Total

\* The total over one member is its value.
LEMMA TotalSingle ==
  ASSUME NEW x, NEW f, f[x] \in Nat
  PROVE  Total(f, {x}) = f[x]
<1>1. Units(f, {x}) = {x} \X (1 .. f[x])
  BY DEF Units
<1>2. IsFiniteSet({x}) /\ Cardinality({x}) = 1
  BY FS_Singleton
<1>3. IsFiniteSet(1 .. f[x]) /\ Cardinality(1 .. f[x]) = f[x]
  BY FS_Interval
<1>4. Cardinality({x} \X (1 .. f[x])) = Cardinality({x}) * Cardinality(1 .. f[x])
  BY <1>2, <1>3, FS_Product, Zenon
<1>5. Cardinality({x}) * Cardinality(1 .. f[x]) = f[x]
  BY <1>2, <1>3
<1> QED BY <1>1, <1>4, <1>5 DEF Total

\* One member's value can be set apart.
LEMMA TotalRemove ==
  ASSUME NEW S, IsFiniteSet(S), NEW f, \A y \in S : f[y] \in Nat, NEW x \in S
  PROVE  /\ Total(f, S) = f[x] + Total(f, S \ {x})
         /\ Total(f, S \ {x}) \in Nat
<1>1. Total(f, S) = Total(f, {x}) + Total(f, S \ {x})
  BY TotalSplit
<1>2. Total(f, {x}) = f[x]
  BY TotalSingle
<1>3. IsFiniteSet(S \ {x})
  BY FS_Difference
<1>4. Total(f, S \ {x}) \in Nat
  BY <1>3, TotalType
<1> QED BY <1>1, <1>2, <1>4

\* A total covers each of its values.
LEMMA TotalCovers ==
  ASSUME NEW S, IsFiniteSet(S), NEW f, \A y \in S : f[y] \in Nat, NEW x \in S
  PROVE  f[x] <= Total(f, S)
<1>1. Total(f, S) = f[x] + Total(f, S \ {x}) /\ Total(f, S \ {x}) \in Nat
  BY TotalRemove
<1> QED BY <1>1

\* Changing one value changes the total by as much.
LEMMA TotalChange ==
  ASSUME NEW S, IsFiniteSet(S), NEW f \in [S -> Nat], NEW g \in [S -> Nat],
         NEW x \in S, \A y \in S : y # x => f[y] = g[y]
  PROVE  /\ Total(f, S) \in Nat
         /\ Total(g, S) = Total(f, S) - f[x] + g[x]
<1>1. Total(f, S) = f[x] + Total(f, S \ {x}) /\ Total(f, S \ {x}) \in Nat
  BY TotalRemove
<1>2. Total(g, S) = g[x] + Total(g, S \ {x}) /\ Total(g, S \ {x}) \in Nat
  BY TotalRemove
<1>3. Total(f, S \ {x}) = Total(g, S \ {x})
  BY TotalSame
<1> QED BY <1>1, <1>2, <1>3

\* Larger values have a larger total.
LEMMA TotalMonotone ==
  ASSUME NEW S, IsFiniteSet(S), NEW f, NEW g,
         \A x \in S : f[x] \in Nat /\ g[x] \in Nat /\ f[x] <= g[x]
  PROVE  Total(f, S) <= Total(g, S)
<1>1. ASSUME NEW x \in S PROVE 1 .. f[x] \subseteq 1 .. g[x]
  BY SMT
<1>2. Units(f, S) \subseteq Units(g, S)
  BY <1>1 DEF Units
<1>3. IsFiniteSet(Units(g, S))
  BY UnitsFinite
<1> QED BY <1>2, <1>3, FS_Subset DEF Total

\* A part of the members has no larger total.
LEMMA TotalSubset ==
  ASSUME NEW S, IsFiniteSet(S), NEW f, \A x \in S : f[x] \in Nat,
         NEW T \in SUBSET S
  PROVE  Total(f, T) <= Total(f, S)
<1>1. Units(f, T) \subseteq Units(f, S)
  BY DEF Units
<1> QED BY <1>1, UnitsFinite, FS_Subset DEF Total

\* Nothing adds up to nothing.
LEMMA TotalZero ==
  ASSUME NEW S, NEW f, \A x \in S : f[x] = 0
  PROVE  Total(f, S) = 0
<1>1. 1 .. 0 = {}
  BY SMT
<1>2. Units(f, S) = {}
  BY <1>1 DEF Units
<1> QED BY <1>2, FS_EmptySet DEF Total

\* Renaming the members does not change the total.
LEMMA TotalRename ==
  ASSUME NEW S, IsFiniteSet(S), NEW T, NEW f, NEW g,
         \A x \in S : f[x] \in Nat,
         NEW b \in Bijection(S, T), \A x \in S : g[b[x]] = f[x]
  PROVE  Total(g, T) = Total(f, S)
<1> DEFINE c == [u \in Units(f, S) |-> <<b[u[1]], u[2]>>]
<1>1. \A u \in Units(f, S) : u = <<u[1], u[2]>> /\ u[1] \in S /\ u[2] \in 1 .. f[u[1]]
  BY DEF Units
<1>2. \A x \in S : \A k \in 1 .. f[x] : <<x, k>> \in Units(f, S)
  BY DEF Units
<1>3. \A x \in S : b[x] \in T
  BY DEF Bijection, Injection, IsInjective
<1>4. \A x, y \in S : b[x] = b[y] => x = y
  BY DEF Bijection, Injection, IsInjective
<1>5. \A t \in T : \E x \in S : b[x] = t
  BY DEF Bijection, Surjection
<1>6. c \in [Units(f, S) -> Units(g, T)]
  BY <1>1, <1>3 DEF Units
<1>7. \A u, w \in Units(f, S) : c[u] = c[w] => u = w
  BY <1>1, <1>4
<1>8. \A w \in Units(g, T) : \E u \in Units(f, S) : c[u] = w
  <2>1. TAKE w \in Units(g, T)
  <2>2. PICK t \in T : w \in {t} \X (1 .. g[t])
    BY DEF Units
  <2>3. PICK x \in S : b[x] = t
    BY <1>5
  <2>4. w = <<t, w[2]>> /\ w[2] \in 1 .. f[x]
    BY <2>2, <2>3
  <2>5. <<x, w[2]>> \in Units(f, S)
    BY <1>2, <2>4
  <2>6. c[<<x, w[2]>>] = w
    BY <2>3, <2>4, <2>5
  <2> QED BY <2>5, <2>6
<1>9. c \in Bijection(Units(f, S), Units(g, T))
  BY <1>6, <1>7, <1>8 DEF Bijection, Injection, IsInjective, Surjection
<1> QED BY <1>9, UnitsFinite, FS_Bijection DEF Total, ExistsBijection

----------------------------------------------------------------------------
(* Induction, and powers of two.                                            *)

\* A set that holds zero and the successor of each number it holds, holds every
\* number.
LEMMA NatSetInduction ==
  ASSUME NEW T, 0 \in T, \A n \in Nat : n \in T => n + 1 \in T
  PROVE  Nat \subseteq T
<1> DEFINE bad == Nat \ T
<1> SUFFICES ASSUME bad # {} PROVE FALSE
  OBVIOUS
<1>1. PICK x \in bad : \A y \in bad : <<y, x>> \notin OpToRel(<, Nat)
  BY NatLessThanWellFounded, WFMin
<1>2. x # 0 /\ x \in Nat
  OBVIOUS
<1>3. x - 1 \in Nat /\ x - 1 \notin T
  BY <1>2
<1>4. <<x - 1, x>> \in OpToRel(<, Nat)
  BY <1>2, <1>3 DEF OpToRel
<1> QED BY <1>1, <1>3, <1>4

\* A power of two counts the subsets of as many members.
LEMMA PowerType ==
  ASSUME NEW k \in Nat
  PROVE  2^k \in Nat /\ 2^k = Cardinality(SUBSET (1 .. k))
<1>1. IsFiniteSet(1 .. k) /\ Cardinality(1 .. k) = k
  BY FS_Interval
<1>2. /\ IsFiniteSet(SUBSET (1 .. k))
      /\ Cardinality(SUBSET (1 .. k)) = 2^Cardinality(1 .. k)
  BY <1>1, FS_SUBSET
<1> QED BY <1>1, <1>2, FS_CardinalityType

LEMMA PowerZero == 2^0 = 1
<1>1. 1 .. 0 = {}
  OBVIOUS
<1>2. SUBSET {} = {{}}
  OBVIOUS
<1>3. Cardinality({{}}) = 1
  BY FS_Singleton
<1> QED BY <1>1, <1>2, <1>3, PowerType

\* One more member, twice the subsets.
LEMMA PowerPlus ==
  ASSUME NEW a \in Nat
  PROVE  2^(a + 1) = 2 * 2^a
<1> DEFINE A == SUBSET (1 .. a)
           B == SUBSET (1 .. (a + 1))
           f == [X \in A |-> X \cup {a + 1}]
           C == {X \cup {a + 1} : X \in A}
<1>1. IsFiniteSet(A)
  <2>1. IsFiniteSet(1 .. a)
    BY FS_Interval
  <2> QED BY <2>1, FS_SUBSET
<1>2. f \in Bijection(A, C)
  <2>1. \A X \in A : a + 1 \notin X
    OBVIOUS
  <2>2. \A X, Y \in A : X \cup {a + 1} = Y \cup {a + 1} => X = Y
    BY <2>1
  <2>3. f \in [A -> C] /\ \A X \in A : f[X] = X \cup {a + 1}
    OBVIOUS
  <2>4. \A Z \in C : \E X \in A : f[X] = Z
    BY <2>3
  <2> HIDE DEF f, A, C
  <2> QED BY <2>2, <2>3, <2>4 DEF Bijection, Injection, IsInjective, Surjection
<1>3. IsFiniteSet(C) /\ Cardinality(C) = Cardinality(A)
  BY <1>1, <1>2, FS_Bijection DEF ExistsBijection
<1>4. A \cap C = {}
  OBVIOUS
<1>5. B = A \cup C
  <2>1. 1 .. (a + 1) = (1 .. a) \cup {a + 1}
    OBVIOUS
  <2>2. ASSUME NEW X \in B PROVE X \in A \cup C
    <3>1. CASE a + 1 \in X
      <4>1. X \ {a + 1} \in A /\ X = (X \ {a + 1}) \cup {a + 1}
        BY <2>1, <3>1
      <4> QED BY <4>1
    <3>2. CASE a + 1 \notin X
      <4>1. X \subseteq 1 .. a
        BY <2>1, <3>2
      <4> QED BY <4>1
    <3> QED BY <3>1, <3>2
  <2>3. ASSUME NEW X \in A \cup C PROVE X \in B
    <3>1. CASE X \in A
      <4>1. X \subseteq 1 .. (a + 1)
        BY <2>1, <3>1
      <4> QED BY <4>1
    <3>2. CASE X \in C
      <4>1. PICK Y \in A : X = Y \cup {a + 1}
        BY <3>2
      <4>2. X \subseteq 1 .. (a + 1)
        BY <2>1, <4>1
      <4> QED BY <4>2
    <3> QED BY <3>1, <3>2
  <2> HIDE DEF A, B, C
  <2> QED BY <2>2, <2>3
<1>6. Cardinality(A \cap C) = 0
  BY <1>4, FS_EmptySet
<1>7. Cardinality(B) = Cardinality(A) + Cardinality(C) - Cardinality(A \cap C)
  BY <1>1, <1>3, <1>5, FS_Union
<1> QED BY <1>3, <1>6, <1>7, PowerType

\* Powers of two are positive.
LEMMA PowerPositive ==
  ASSUME NEW k \in Nat
  PROVE  2^k \in Nat /\ 2^k > 0
<1> DEFINE T == {n \in Nat : 2^n > 0}
<1>1. 0 \in T
  BY PowerZero
<1>2. ASSUME NEW n \in T PROVE n + 1 \in T
  <2>1. n \in Nat /\ 2^n > 0 /\ 2^n \in Nat
    BY PowerType
  <2>2. 2^(n + 1) = 2 * 2^n
    BY <2>1, PowerPlus
  <2>3. 2^(n + 1) > 0
    BY <2>1, <2>2
  <2> QED BY <2>1, <2>3
<1>3. \A n \in Nat : n \in T => n + 1 \in T
  BY <1>2
<1> HIDE DEF T
<1>4. Nat \subseteq T
  BY <1>1, <1>3, NatSetInduction
<1> QED BY <1>4, PowerType DEF T

\* Exponents add up.
LEMMA PowerSum ==
  ASSUME NEW a \in Nat, NEW b \in Nat
  PROVE  2^(a + b) = 2^a * 2^b
<1> DEFINE T == {n \in Nat : 2^(a + n) = 2^a * 2^n}
<1>0. 2^a \in Nat
  BY PowerType
<1>1. 0 \in T
  BY <1>0, PowerZero
<1>2. ASSUME NEW n \in T PROVE n + 1 \in T
  <2>1. n \in Nat /\ 2^(a + n) = 2^a * 2^n /\ 2^n \in Nat
    BY PowerType
  <2>2. 2^(n + 1) = 2 * 2^n
    BY <2>1, PowerPlus
  <2>3. 2^((a + n) + 1) = 2 * 2^(a + n)
    BY <2>1, PowerPlus
  <2>4. (a + n) + 1 = a + (n + 1)
    BY <2>1
  <2>5. 2 * (2^a * 2^n) = 2^a * (2 * 2^n)
    BY <1>0, <2>1
  <2>6. 2^(a + (n + 1)) = 2^a * 2^(n + 1)
    BY <2>1, <2>2, <2>3, <2>4, <2>5
  <2> QED BY <2>1, <2>6
<1>3. \A n \in Nat : n \in T => n + 1 \in T
  BY <1>2
<1> HIDE DEF T
<1>4. Nat \subseteq T
  BY <1>1, <1>3, NatSetInduction
<1> QED BY <1>4 DEF T

----------------------------------------------------------------------------
(* Divisions.                                                               *)

\* What a quotient is.
LEMMA Quotient ==
  ASSUME NEW a \in Nat, NEW b \in Nat, b > 0
  PROVE  /\ a \div b \in Nat
         /\ b * (a \div b) <= a
         /\ a < b * (a \div b) + b
  OBVIOUS

\* A number whose multiple fits is no more than the quotient.
LEMMA QuotientAtLeast ==
  ASSUME NEW a \in Nat, NEW b \in Nat, b > 0, NEW c \in Nat, b * c <= a
  PROVE  c <= a \div b
<1> DEFINE q == a \div b
<1>1. q \in Nat /\ b * q <= a /\ a < b * q + b
  BY Quotient
<1> HIDE DEF q
<1>2. SUFFICES ASSUME q + 1 <= c PROVE FALSE
  BY <1>1 DEF q
<1>3. PICK d \in Nat : c = q + 1 + d
  <2>1. c - (q + 1) \in Nat /\ c = q + 1 + (c - (q + 1))
    BY <1>1, <1>2
  <2> QED BY <2>1
<1>4. b * c = b * q + b + b * d /\ b * d \in Nat /\ b * q \in Nat
  BY <1>1, <1>3
<1>5. b * c \in Nat
  BY <1>4
<1> QED BY <1>1, <1>4, <1>5

\* A number whose next multiple does not fit is no less than the quotient.
LEMMA QuotientAtMost ==
  ASSUME NEW a \in Nat, NEW b \in Nat, b > 0, NEW c \in Nat, a < b * c + b
  PROVE  a \div b <= c
<1> DEFINE q == a \div b
<1>1. q \in Nat /\ b * q <= a /\ a < b * q + b
  BY Quotient
<1> HIDE DEF q
<1>2. SUFFICES ASSUME c + 1 <= q PROVE FALSE
  BY <1>1 DEF q
<1>3. PICK d \in Nat : q = c + 1 + d
  <2>1. q - (c + 1) \in Nat /\ q = c + 1 + (q - (c + 1))
    BY <1>1, <1>2
  <2> QED BY <2>1
<1>4. b * q = b * c + b + b * d /\ b * d \in Nat /\ b * c \in Nat
  BY <1>1, <1>3
<1> QED BY <1>1, <1>4

\* A division without remainder.
LEMMA QuotientExact ==
  ASSUME NEW b \in Nat, b > 0, NEW c \in Nat
  PROVE  (b * c) \div b = c
<1>1. b * c \in Nat
  OBVIOUS
<1>2. c <= (b * c) \div b
  BY <1>1, QuotientAtLeast
<1>3. b * c < b * c + b
  BY <1>1
<1>4. (b * c) \div b <= c
  BY <1>1, <1>3, QuotientAtMost
<1>5. (b * c) \div b \in Nat
  BY <1>1, Quotient
<1> QED BY <1>2, <1>4, <1>5

\* Dividing twice divides by the product.
LEMMA QuotientTwice ==
  ASSUME NEW a \in Nat, NEW b \in Nat, b > 0, NEW c \in Nat, c > 0
  PROVE  /\ b * c \in Nat /\ b * c > 0
         /\ (a \div b) \div c = a \div (b * c)
<1> DEFINE q == a \div b
           r == q \div c
<1>1. q \in Nat /\ b * q <= a /\ a < b * q + b
  BY Quotient
<1> HIDE DEF q
<1>2. r \in Nat /\ c * r <= q /\ q < c * r + c
  BY <1>1, Quotient
<1> HIDE DEF r
<1>3. b * c \in Nat /\ b * c > 0 /\ c * r \in Nat
  BY <1>2
<1>4. (b * c) * r <= a
  <2>1. b * (c * r) <= b * q
    BY <1>1, <1>2, <1>3
  <2>2. b * (c * r) = (b * c) * r /\ b * q \in Nat /\ b * (c * r) \in Nat
    BY <1>1, <1>2, <1>3
  <2> QED BY <1>1, <2>1, <2>2
<1>5. a < (b * c) * r + b * c
  <2>1. q + 1 <= c * r + c
    BY <1>1, <1>2, <1>3
  <2>2. b * (q + 1) <= b * (c * r + c)
    BY <1>1, <1>2, <1>3, <2>1
  <2>3. b * (q + 1) = b * q + b /\ b * (c * r + c) = (b * c) * r + b * c
    BY <1>1, <1>2, <1>3
  <2>4. b * q \in Nat /\ (b * c) * r \in Nat
    BY <1>1, <1>2, <1>3
  <2> QED BY <1>1, <1>3, <2>2, <2>3, <2>4
<1>6. r <= a \div (b * c)
  BY <1>2, <1>3, <1>4, QuotientAtLeast
<1>7. a \div (b * c) <= r
  BY <1>2, <1>3, <1>5, QuotientAtMost
<1>8. a \div (b * c) \in Nat
  BY <1>3, Quotient
<1> QED BY <1>2, <1>3, <1>6, <1>7, <1>8 DEF q, r

\* A fraction that is no larger has no larger whole part.
LEMMA QuotientMonotone ==
  ASSUME NEW a \in Nat, NEW b \in Nat, b > 0, NEW c \in Nat, NEW d \in Nat, d > 0,
         a * d <= c * b
  PROVE  a \div b <= c \div d
<1> DEFINE q == a \div b
<1>1. q \in Nat /\ b * q <= a
  BY Quotient
<1> HIDE DEF q
<1>2. b * (d * q) <= b * c
  <2>1. d * (b * q) <= d * a
    BY <1>1
  <2>2. d * (b * q) = b * (d * q) /\ d * a = a * d /\ b * c = c * b
    BY <1>1
  <2>3. d * (b * q) \in Nat /\ a * d \in Nat /\ c * b \in Nat
    BY <1>1
  <2> QED BY <2>1, <2>2, <2>3
<1>3. d * q <= c
  <2>1. d * q \in Nat
    BY <1>1
  <2> DEFINE x == d * q
  <2> HIDE DEF x
  <2>2. b * x <= b * c /\ x \in Nat
    BY <1>2, <2>1 DEF x
  <2>3. x <= c
    BY <2>2
  <2> QED BY <2>3 DEF x
<1> QED BY <1>1, <1>3, QuotientAtLeast DEF q

\* Rounding two parts keeps no more than rounding the whole.
LEMMA QuotientSum ==
  ASSUME NEW a \in Nat, NEW c \in Nat, NEW b \in Nat, b > 0
  PROVE  a \div b + c \div b <= (a + c) \div b
<1> DEFINE p == a \div b
           q == c \div b
<1>1. p \in Nat /\ b * p <= a
  BY Quotient
<1>2. q \in Nat /\ b * q <= c
  BY Quotient
<1> HIDE DEF p, q
<1>3. b * (p + q) = b * p + b * q /\ b * p \in Nat /\ b * q \in Nat
  BY <1>1, <1>2
<1>4. b * (p + q) <= a + c
  BY <1>1, <1>2, <1>3
<1>5. p + q <= (a + c) \div b
  BY <1>1, <1>2, <1>4, QuotientAtLeast
<1> QED BY <1>5 DEF p, q

----------------------------------------------------------------------------
(* Totals of shares and quotients.                                          *)

\* What bounds every value bounds the total.
LEMMA TotalScaled ==
  ASSUME NEW S, IsFiniteSet(S), NEW f, NEW g, NEW a \in Nat, NEW b \in Nat,
         \A x \in S : f[x] \in Nat /\ g[x] \in Nat /\ a * f[x] <= b * g[x]
  PROVE  a * Total(f, S) <= b * Total(g, S)
<1> DEFINE Holds(R) == a * Total(f, R) <= b * Total(g, R)
           T == {n \in Nat : \A R \in SUBSET S : Cardinality(R) = n => Holds(R)}
<1>1. 0 \in T
  <2>1. ASSUME NEW R \in SUBSET S, Cardinality(R) = 0 PROVE Holds(R)
    <3>1. IsFiniteSet(R)
      BY FS_Subset
    <3>2. R = {}
      BY <2>1, <3>1, FS_EmptySet
    <3>3. Total(f, R) = 0 /\ Total(g, R) = 0
      BY <3>2, TotalZero
    <3> QED BY <3>3
  <2> QED BY <2>1
<1>2. ASSUME NEW n \in Nat, n \in T PROVE n + 1 \in T
  <2>1. ASSUME NEW R \in SUBSET S, Cardinality(R) = n + 1 PROVE Holds(R)
    <3>1. IsFiniteSet(R)
      BY FS_Subset
    <3>2. R # {}
      BY <2>1, FS_EmptySet
    <3>3. PICK x \in R : TRUE
      BY <3>2
    <3> DEFINE Q == R \ {x}
    <3>4. IsFiniteSet(Q) /\ Cardinality(Q) = n
      <4>1. IsFiniteSet(Q) /\ Cardinality(Q) = Cardinality(R) - 1
        BY <3>1, <3>3, FS_RemoveElement
      <4> QED BY <2>1, <4>1
    <3>5. Holds(Q)
      BY <1>2, <3>4
    <3>6. Total(f, R) = f[x] + Total(f, Q) /\ Total(f, Q) \in Nat
      BY <3>1, <3>3, TotalRemove
    <3>7. Total(g, R) = g[x] + Total(g, Q) /\ Total(g, Q) \in Nat
      BY <3>1, <3>3, TotalRemove
    <3> HIDE DEF Q
    <3>8. f[x] \in Nat /\ g[x] \in Nat /\ a * f[x] <= b * g[x]
      BY <3>3
    <3>9. /\ a * (f[x] + Total(f, Q)) = a * f[x] + a * Total(f, Q)
          /\ b * (g[x] + Total(g, Q)) = b * g[x] + b * Total(g, Q)
          /\ a * f[x] \in Nat /\ a * Total(f, Q) \in Nat
          /\ b * g[x] \in Nat /\ b * Total(g, Q) \in Nat
      BY <3>6, <3>7, <3>8
    <3> QED BY <3>5, <3>6, <3>7, <3>8, <3>9
  <2> QED BY <2>1
<1>3. \A n \in Nat : n \in T => n + 1 \in T
  BY <1>2
<1>4. Nat \subseteq T
  <2> HIDE DEF T
  <2> QED BY <1>1, <1>3, NatSetInduction
<1>5. Cardinality(S) \in Nat
  BY FS_CardinalityType
<1>6. Cardinality(S) \in T
  BY <1>4, <1>5
<1> QED BY <1>6

\* The whole parts of shares add up to no more than the whole part of the total.
LEMMA TotalQuotients ==
  ASSUME NEW S, IsFiniteSet(S), NEW f, NEW g, NEW m \in Nat, NEW b \in Nat, b > 0,
         NEW whole \in Nat, Total(f, S) <= whole,
         \A x \in S : f[x] \in Nat /\ g[x] = (f[x] * m) \div b
  PROVE  /\ \A x \in S : g[x] \in Nat
         /\ Total(g, S) \in Nat
         /\ Total(g, S) <= (whole * m) \div b
<1>1. ASSUME NEW x \in S PROVE f[x] \in Nat /\ g[x] \in Nat /\ b * g[x] <= m * f[x]
  <2>1. f[x] \in Nat /\ f[x] * m \in Nat /\ f[x] * m = m * f[x]
    OBVIOUS
  <2>2. (f[x] * m) \div b \in Nat /\ b * ((f[x] * m) \div b) <= f[x] * m
    BY <2>1, Quotient
  <2> QED BY <2>1, <2>2
<1>2. b * Total(g, S) <= m * Total(f, S)
  BY <1>1, TotalScaled
<1>3. Total(g, S) \in Nat /\ Total(f, S) \in Nat
  BY <1>1, TotalType
<1>4. m * Total(f, S) <= whole * m
  BY <1>3
<1>5. b * Total(g, S) <= whole * m /\ whole * m \in Nat
  <2>1. b * Total(g, S) \in Nat /\ m * Total(f, S) \in Nat /\ whole * m \in Nat
    BY <1>3
  <2> QED BY <1>2, <1>4, <2>1
<1>6. Total(g, S) <= (whole * m) \div b
  BY <1>3, <1>5, QuotientAtLeast
<1> QED BY <1>1, <1>3, <1>6

----------------------------------------------------------------------------
(* What a recursion step by step, or member by member, defines exists.       *)

\* A set of sets that holds the empty one, and each one of which it holds what is
\* left without any one member, holds all finite ones.
LEMMA SetInduction ==
  ASSUME NEW D, IsFiniteSet(D), NEW T, {} \in T,
         \A S \in SUBSET D : S # {} /\ (\A x \in S : S \ {x} \in T) => S \in T
  PROVE  SUBSET D \subseteq T
<1> DEFINE sized(n) == \A S \in SUBSET D : Cardinality(S) = n => S \in T
           N == {n \in Nat : sized(n)}
<1>1. \A S \in SUBSET D : IsFiniteSet(S) /\ Cardinality(S) \in Nat
  BY FS_Subset, FS_CardinalityType
<1>2. 0 \in N
  BY <1>1, FS_EmptySet
<1>3. ASSUME NEW n \in Nat, n \in N PROVE n + 1 \in N
  <2>1. ASSUME NEW S \in SUBSET D, Cardinality(S) = n + 1 PROVE S \in T
    <3>1. S # {}
      BY <2>1, <1>1, FS_EmptySet
    <3>2. ASSUME NEW x \in S PROVE S \ {x} \in T
      <4>1. Cardinality(S \ {x}) = Cardinality(S) - 1
        BY <1>1, FS_RemoveElement
      <4>2. S \ {x} \in SUBSET D /\ Cardinality(S \ {x}) = n
        BY <2>1, <4>1
      <4> QED BY <1>3, <4>2
    <3> QED BY <3>1, <3>2
  <2> QED BY <2>1
<1>4. Nat \subseteq N
  <2> HIDE DEF N
  <2> QED BY <1>2, <1>3, NatSetInduction
<1> QED BY <1>1, <1>4

\* Two functions' totals add up to the total of their sum.
LEMMA TotalSum ==
  ASSUME NEW S, IsFiniteSet(S), NEW f, NEW g, NEW h,
         \A x \in S : g[x] \in Nat /\ h[x] \in Nat /\ f[x] = g[x] + h[x]
  PROVE  Total(f, S) = Total(g, S) + Total(h, S)
<1> DEFINE T == {R \in SUBSET S : Total(f, R) = Total(g, R) + Total(h, R)}
<1>1. {} \in T
  <2>1. Total(f, {}) = 0 /\ Total(g, {}) = 0 /\ Total(h, {}) = 0
    BY TotalZero
  <2> QED BY <2>1
<1>2. ASSUME NEW R \in SUBSET S, R # {}, \A x \in R : R \ {x} \in T PROVE R \in T
  <2>1. PICK x \in R : TRUE
    BY <1>2
  <2>2. IsFiniteSet(R) /\ \A y \in R : f[y] \in Nat /\ g[y] \in Nat /\ h[y] \in Nat
    BY FS_Subset
  <2>3. /\ Total(f, R) = f[x] + Total(f, R \ {x}) /\ Total(f, R \ {x}) \in Nat
        /\ Total(g, R) = g[x] + Total(g, R \ {x}) /\ Total(g, R \ {x}) \in Nat
        /\ Total(h, R) = h[x] + Total(h, R \ {x}) /\ Total(h, R \ {x}) \in Nat
    BY <2>1, <2>2, TotalRemove
  <2>4. Total(f, R \ {x}) = Total(g, R \ {x}) + Total(h, R \ {x})
    BY <1>2, <2>1
  <2>5. f[x] = g[x] + h[x] /\ f[x] \in Nat /\ g[x] \in Nat /\ h[x] \in Nat
    BY <2>1, <2>2
  <2> QED BY <2>3, <2>4, <2>5
<1>3. SUBSET S \subseteq T
  <2> HIDE DEF T
  <2> QED BY <1>1, <1>2, SetInduction
<1> QED BY <1>3

\* A value that starts in its set, and stays in it from a set to one with a member
\* more, is always in it.
LEMMA FoldKeeps ==
  ASSUME NEW D, IsFiniteSet(D), NEW last, \A S \in SUBSET D : S # {} => last[S] \in S,
         NEW X, NEW f, f[{}] \in X[{}],
         \A S \in SUBSET D : S # {} /\ f[S \ {last[S]}] \in X[S \ {last[S]}] => f[S] \in X[S]
  PROVE  \A S \in SUBSET D : f[S] \in X[S]
<1> DEFINE T == {S \in SUBSET D : f[S] \in X[S]}
<1>1. {} \in T
  OBVIOUS
<1>2. \A S \in SUBSET D : S # {} /\ (\A x \in S : S \ {x} \in T) => S \in T
  OBVIOUS
<1>3. SUBSET D \subseteq T
  <2> HIDE DEF T
  <2> QED BY <1>1, <1>2, SetInduction
<1> QED BY <1>3

IsFold(f, D, last, start, F) ==
  f = [S \in SUBSET D |-> IF S = {} THEN start ELSE F[S][f[S \ {last[S]}]]]

LEMMA FoldExists ==
  ASSUME NEW D, IsFiniteSet(D), NEW last, \A S \in SUBSET D : S # {} => last[S] \in S,
         NEW start, NEW F
  PROVE  \E f : IsFold(f, D, last, start, F)
<1> DEFINE value(f, S) == IF S = {} THEN start ELSE F[S][f[S \ {last[S]}]]
           upTo(f, n) == \A S \in SUBSET D : Cardinality(S) <= n => f[S] = value(f, S)
           N == {n \in Nat : \E f : upTo(f, n)}
<1>1. \A S \in SUBSET D : IsFiniteSet(S) /\ Cardinality(S) \in Nat
  BY FS_Subset, FS_CardinalityType
<1>2. 0 \in N
  <2> DEFINE f == [S \in SUBSET D |-> start]
  <2>1. ASSUME NEW S \in SUBSET D, Cardinality(S) <= 0 PROVE f[S] = value(f, S)
    <3>1. S = {}
      BY <1>1, <2>1, FS_EmptySet
    <3> QED BY <3>1
  <2> HIDE DEF f, value
  <2>2. upTo(f, 0)
    BY <2>1
  <2> QED BY <2>2
<1>3. ASSUME NEW n \in Nat, n \in N PROVE n + 1 \in N
  <2>1. PICK f : upTo(f, n)
    BY <1>3
  <2> DEFINE g == [S \in SUBSET D |-> IF Cardinality(S) <= n THEN f[S] ELSE value(f, S)]
  <2>2. ASSUME NEW S \in SUBSET D, Cardinality(S) <= n + 1 PROVE g[S] = value(g, S)
    <3>1. g[S] = value(f, S)
      BY <2>1
    <3>2. CASE S = {}
      BY <3>1, <3>2
    <3>3. CASE S # {}
      <4>1. last[S] \in S
        BY <3>3
      <4>2. S \ {last[S]} \in SUBSET D /\ Cardinality(S \ {last[S]}) <= n
        BY <1>1, <2>2, <4>1, FS_RemoveElement
      <4>3. g[S \ {last[S]}] = f[S \ {last[S]}]
        BY <4>2
      <4> HIDE DEF g
      <4> QED BY <3>1, <3>3, <4>3
    <3> QED BY <3>2, <3>3
  <2> HIDE DEF g, value
  <2>3. upTo(g, n + 1)
    BY <2>2
  <2> QED BY <2>3
<1>4. Nat \subseteq N
  <2> HIDE DEF N
  <2> QED BY <1>2, <1>3, NatSetInduction
<1>5. PICK f : upTo(f, Cardinality(D))
  BY <1>1, <1>4
<1> DEFINE g == [S \in SUBSET D |-> f[S]]
<1>6. ASSUME NEW S \in SUBSET D PROVE f[S] = value(f, S)
  BY <1>1, <1>5, FS_Subset
<1>7. ASSUME NEW S \in SUBSET D PROVE g[S] = value(g, S)
  BY <1>6
<1>8. g = [S \in SUBSET D |-> g[S]]
  OBVIOUS
<1> HIDE DEF g
<1>9. g = [S \in SUBSET D |-> value(g, S)]
  BY <1>7, <1>8
<1> QED BY <1>9 DEF IsFold

\* A fold whose steps stay in the sets stays in them.
LEMMA FoldFits ==
  ASSUME NEW D, IsFiniteSet(D), NEW last, \A S \in SUBSET D : S # {} => last[S] \in S,
         NEW X, NEW start \in X[{}],
         NEW F, \A S \in SUBSET D : S # {} => \A x \in X[S \ {last[S]}] : F[S][x] \in X[S]
  PROVE  \E f : IsFold(f, D, last, start, F) /\ \A S \in SUBSET D : f[S] \in X[S]
<1>1. PICK f : IsFold(f, D, last, start, F)
  BY FoldExists
<1>2. \A S \in SUBSET D : f[S] = IF S = {} THEN start ELSE F[S][f[S \ {last[S]}]]
  BY <1>1 DEF IsFold
<1>3. f[{}] \in X[{}]
  BY <1>2
<1>4. \A S \in SUBSET D : S # {} /\ f[S \ {last[S]}] \in X[S \ {last[S]}] => f[S] \in X[S]
  BY <1>2
<1>5. \A S \in SUBSET D : f[S] \in X[S]
  BY <1>3, <1>4, FoldKeeps
<1> QED BY <1>1, <1>5

\* The same for steps that are counted.
IsCount(f, n, start, F) ==
  f = [k \in 0 .. n |-> IF k = 0 THEN start ELSE F[k][f[k - 1]]]

LEMMA CountKeeps ==
  ASSUME NEW n \in Nat, NEW X, NEW f, f[0] \in X,
         \A k \in 1 .. n : f[k - 1] \in X => f[k] \in X
  PROVE  \A k \in 0 .. n : f[k] \in X
<1> DEFINE T == {k \in Nat : k <= n => f[k] \in X}
<1>1. 0 \in T
  OBVIOUS
<1>2. \A k \in Nat : k \in T => k + 1 \in T
  OBVIOUS
<1>3. Nat \subseteq T
  <2> HIDE DEF T
  <2> QED BY <1>1, <1>2, NatSetInduction
<1> QED BY <1>3

LEMMA CountExists ==
  ASSUME NEW n \in Nat, NEW start, NEW F
  PROVE  \E f : IsCount(f, n, start, F)
<1> DEFINE value(f, k) == IF k = 0 THEN start ELSE F[k][f[k - 1]]
           upTo(f, m) == \A k \in 0 .. n : k <= m => f[k] = value(f, k)
           N == {m \in Nat : \E f : upTo(f, m)}
<1>2. 0 \in N
  <2> DEFINE f == [k \in 0 .. n |-> start]
  <2>1. ASSUME NEW k \in 0 .. n, k <= 0 PROVE f[k] = value(f, k)
    BY <2>1
  <2> HIDE DEF f, value
  <2>2. upTo(f, 0)
    BY <2>1
  <2> QED BY <2>2
<1>3. ASSUME NEW m \in Nat, m \in N PROVE m + 1 \in N
  <2>1. PICK f : upTo(f, m)
    BY <1>3
  <2> DEFINE g == [k \in 0 .. n |-> IF k <= m THEN f[k] ELSE value(f, k)]
  <2>2. ASSUME NEW k \in 0 .. n, k <= m + 1 PROVE g[k] = value(g, k)
    <3>1. g[k] = value(f, k)
      BY <2>1
    <3>2. CASE k = 0
      BY <3>1, <3>2
    <3>3. CASE k # 0
      <4>1. g[k - 1] = f[k - 1]
        BY <2>2, <3>3
      <4> HIDE DEF g
      <4> QED BY <3>1, <3>3, <4>1
    <3> QED BY <3>2, <3>3
  <2> HIDE DEF g, value
  <2>3. upTo(g, m + 1)
    BY <2>2
  <2> QED BY <2>3
<1>4. Nat \subseteq N
  <2> HIDE DEF N
  <2> QED BY <1>2, <1>3, NatSetInduction
<1>5. PICK f : upTo(f, n)
  BY <1>4
<1> DEFINE g == [k \in 0 .. n |-> f[k]]
<1>6. ASSUME NEW k \in 0 .. n PROVE f[k] = value(f, k)
  BY <1>5
<1>7. ASSUME NEW k \in 0 .. n PROVE g[k] = value(g, k)
  BY <1>6
<1>8. g = [k \in 0 .. n |-> g[k]]
  OBVIOUS
<1> HIDE DEF g
<1>9. g = [k \in 0 .. n |-> value(g, k)]
  BY <1>7, <1>8
<1> QED BY <1>9 DEF IsCount

LEMMA CountFits ==
  ASSUME NEW n \in Nat, NEW X, NEW start \in X,
         NEW F, \A k \in 1 .. n : \A x \in X : F[k][x] \in X
  PROVE  \E f : IsCount(f, n, start, F) /\ \A k \in 0 .. n : f[k] \in X
<1>1. PICK f : IsCount(f, n, start, F)
  BY CountExists
<1>2. \A k \in 0 .. n : f[k] = IF k = 0 THEN start ELSE F[k][f[k - 1]]
  BY <1>1 DEF IsCount
<1>3. f[0] \in X
  BY <1>2
<1>4. \A k \in 1 .. n : f[k - 1] \in X => f[k] \in X
  BY <1>2
<1>5. \A k \in 0 .. n : f[k] \in X
  BY <1>3, <1>4, CountKeeps
<1> QED BY <1>1, <1>5

\* A recursion on data, for which a measure decreases, defines a function.
IsRecursion(f, D, Base, start, next, F) ==
  f = [x \in D |-> IF x \in Base THEN start[x] ELSE F[x][f[next[x]]]]

LEMMA RecursionExists ==
  ASSUME NEW D, NEW measure \in [D -> Nat], NEW Base, NEW start, NEW next, NEW F,
         \A x \in D : x \notin Base => next[x] \in D /\ measure[next[x]] < measure[x]
  PROVE  \E f : IsRecursion(f, D, Base, start, next, F)
<1> DEFINE value(f, x) == IF x \in Base THEN start[x] ELSE F[x][f[next[x]]]
           upTo(f, m) == \A x \in D : measure[x] <= m => f[x] = value(f, x)
           N == {m \in Nat : \E f : upTo(f, m)}
           U == {m \in Nat : \A f, h : upTo(f, m) /\ upTo(h, m) =>
                                \A x \in D : measure[x] <= m => f[x] = h[x]}
<1>1. \A x \in D : measure[x] \in Nat
  OBVIOUS
<1>2. ASSUME NEW x \in D, measure[x] <= 0 PROVE x \in Base
  BY <1>1, <1>2
<1>3. 0 \in N
  <2> DEFINE f == [x \in D |-> start[x]]
  <2>1. \A x \in D : measure[x] <= 0 => f[x] = value(f, x)
    BY <1>2
  <2> HIDE DEF f, value
  <2>2. upTo(f, 0)
    BY <2>1
  <2> QED BY <2>2
<1>4. ASSUME NEW m \in Nat, m \in N PROVE m + 1 \in N
  <2>1. PICK f : upTo(f, m)
    BY <1>4
  <2> DEFINE g == [x \in D |-> IF measure[x] <= m THEN f[x] ELSE value(f, x)]
  <2>2. ASSUME NEW x \in D, measure[x] <= m + 1 PROVE g[x] = value(g, x)
    <3>1. g[x] = value(f, x)
      BY <2>1
    <3>2. CASE x \in Base
      BY <3>1, <3>2
    <3>3. CASE x \notin Base
      <4>1. next[x] \in D /\ measure[next[x]] <= m
        BY <1>1, <2>2, <3>3
      <4>2. g[next[x]] = f[next[x]]
        BY <4>1
      <4> HIDE DEF g
      <4> QED BY <3>1, <3>3, <4>2
    <3> QED BY <3>2, <3>3
  <2> HIDE DEF g, value
  <2>3. upTo(g, m + 1)
    BY <2>2
  <2> QED BY <2>3
<1>5. Nat \subseteq N
  <2> HIDE DEF N
  <2> QED BY <1>3, <1>4, NatSetInduction
<1>6. 0 \in U
  <2>1. ASSUME NEW f, NEW h, upTo(f, 0), upTo(h, 0), NEW x \in D, measure[x] <= 0
        PROVE  f[x] = h[x]
    BY <1>2, <2>1
  <2> HIDE DEF upTo
  <2> QED BY <2>1
<1>7. ASSUME NEW m \in Nat, m \in U PROVE m + 1 \in U
  <2>1. ASSUME NEW f, NEW h, upTo(f, m + 1), upTo(h, m + 1), NEW x \in D, measure[x] <= m + 1
        PROVE  f[x] = h[x]
    <3>1. upTo(f, m) /\ upTo(h, m)
      <4>1. \A y \in D : measure[y] <= m => measure[y] <= m + 1
        BY <1>1
      <4> HIDE DEF value
      <4> QED BY <2>1, <4>1
    <3>2. \A y \in D : measure[y] <= m => f[y] = h[y]
      <4> HIDE DEF upTo
      <4> QED BY <1>7, <3>1
    <3>3. f[x] = value(f, x) /\ h[x] = value(h, x)
      <4> HIDE DEF value
      <4> QED BY <2>1
    <3>4. CASE x \in Base
      BY <3>3, <3>4
    <3>5. CASE x \notin Base
      <4>1. next[x] \in D /\ measure[next[x]] <= m
        BY <1>1, <2>1, <3>5
      <4>2. f[next[x]] = h[next[x]]
        BY <3>2, <4>1
      <4> QED BY <3>3, <3>5, <4>2
    <3> QED BY <3>4, <3>5
  <2> HIDE DEF upTo
  <2> QED BY <2>1
<1>8. Nat \subseteq U
  <2> HIDE DEF U
  <2> QED BY <1>6, <1>7, NatSetInduction
<1> DEFINE part(m) == CHOOSE f : upTo(f, m)
<1>9. \A m \in Nat : upTo(part(m), m)
  <2> HIDE DEF upTo
  <2> QED BY <1>5
<1>10. ASSUME NEW m \in Nat, NEW f, NEW h, upTo(f, m), upTo(h, m), NEW x \in D, measure[x] <= m
       PROVE  f[x] = h[x]
  <2> HIDE DEF upTo
  <2> QED BY <1>8, <1>10
<1> HIDE DEF part
<1> DEFINE g == [x \in D |-> part(measure[x])[x]]
<1>11. ASSUME NEW x \in D PROVE g[x] = value(g, x)
  <2> DEFINE m == measure[x]
             f == part(m)
             y == next[x]
  <2>1. m \in Nat /\ upTo(f, m)
    BY <1>9
  <2>2. g[x] = f[x] /\ f[x] = value(f, x)
    BY <2>1
  <2>3. CASE x \in Base
    BY <2>2, <2>3
  <2>4. CASE x \notin Base
    <3> DEFINE k == measure[y]
               h == part(k)
    <3>1. y \in D /\ k \in Nat /\ k < m
      BY <2>4
    <3>2. upTo(h, k)
      BY <1>9, <3>1
    <3>3. upTo(f, k)
      <4>1. \A z \in D : measure[z] <= k => measure[z] <= m
        BY <1>1, <2>1, <3>1
      <4> HIDE DEF value, f, k, m
      <4> QED BY <2>1, <4>1
    <3>4. f[y] = h[y]
      <4>1. k <= k
        BY <3>1
      <4> HIDE DEF upTo, f, h
      <4> QED BY <1>10, <3>1, <3>2, <3>3, <4>1
    <3>5. g[y] = h[y]
      BY <3>1
    <3> HIDE DEF f, h, g
    <3> QED BY <2>2, <2>4, <3>4, <3>5
  <2> QED BY <2>3, <2>4
<1>12. g = [x \in D |-> g[x]]
  OBVIOUS
<1> HIDE DEF g
<1>13. g = [x \in D |-> value(g, x)]
  <2> HIDE DEF value
  <2> QED BY <1>11, <1>12
<1> QED BY <1>13 DEF IsRecursion

\* Induction on a measure.
LEMMA MeasureInduction ==
  ASSUME NEW D, NEW measure \in [D -> Nat], NEW T,
         \A x \in D : (\A y \in D : measure[y] < measure[x] => y \in T) => x \in T
  PROVE  D \subseteq T
<1> DEFINE N == {m \in Nat : \A x \in D : measure[x] <= m => x \in T}
<1>1. \A x \in D : measure[x] \in Nat
  OBVIOUS
<1>2. 0 \in N
  BY <1>1
<1>3. ASSUME NEW m \in Nat, m \in N PROVE m + 1 \in N
  <2>1. ASSUME NEW x \in D, measure[x] <= m + 1 PROVE x \in T
    <3>1. \A y \in D : measure[y] < measure[x] => measure[y] <= m
      BY <1>1, <2>1
    <3> QED BY <1>3, <3>1
  <2> QED BY <2>1
<1>4. Nat \subseteq N
  <2> HIDE DEF N
  <2> QED BY <1>2, <1>3, NatSetInduction
<1>5. ASSUME NEW x \in D PROVE x \in T
  <2>1. measure[x] \in N /\ measure[x] <= measure[x]
    BY <1>1, <1>4
  <2> QED BY <2>1
<1> QED BY <1>5

=============================================================================
