-------------------------- MODULE RewardEpochProofs --------------------------
(***************************************************************************)
(* The totals of a reward epoch are the points of its stakes, all that is due *)
(* is in the vault, and stakes are rewarded for what they earned, which only *)
(* their owners give up, for any accounts, slots, supplies and flows.        *)
(***************************************************************************)
EXTENDS RewardEpoch, SumsProofs

Flow == [Counters -> Nat]

Stake == [cohort : Cohorts \cup {"none"}, residual_snap : Nat, earnings_snap : Nat,
          start_slot : Nat, points : Nat, eligible_accum : Nat, claimed : BOOLEAN,
          portfolio_id : Nat]

Position == [principal : Nat, withdrawn : BOOLEAN, start_slot : Nat, returned : Nat,
             return_slot : Nat]

Portfolio == [holder : {"none", "owner", "other"}, id : Nat, counters : Flow]

Archive == [exists : BOOLEAN, id : Nat, counters : Flow]

\* Points are natural numbers, which takes that everything they are computed from
\* is.
RewardTypeOK ==
  /\ slot \in Nat
  /\ frozen \in BOOLEAN
  /\ points_total \in [Cohorts -> Nat]
  /\ stake \in [Stakes -> Stake]
  /\ position \in [Accounts -> Position]
  /\ portfolio \in [Accounts -> Portfolio]
  /\ next_portfolio_id \in Nat
  /\ archive \in [Accounts -> Archive]

RewardInv == RewardTypeOK /\ TotalsMatchStakes

----------------------------------------------------------------------------
(* The long division of a share.                                            *)

\* The bits of the supply that the first i rounds have divided.
Prefix(supply, i) == supply \div 2^(SupplyBits - i)

NextBit(d, i, supply, points, total) ==
  IF Prefix(supply, i) % 2 = 1
  THEN Added(Doubled(d, total), points, total) ELSE Doubled(d, total)

IsLongDivision(f, supply, points, total) ==
  f = [i \in 0 .. SupplyBits |->
         IF i = 0 THEN [quotient |-> 0, remainder |-> 0]
         ELSE NextBit(f[i - 1], i, supply, points, total)]

\* d is x divided by w.
Divides(w, x, d) ==
  /\ d = [quotient |-> d.quotient, remainder |-> d.remainder]
  /\ d.quotient \in Nat
  /\ d.remainder \in 0 .. w - 1
  /\ x = w * d.quotient + d.remainder

LEMMA DivisionIsUnique ==
  ASSUME NEW w \in Nat, w > 0, NEW x \in Nat, NEW d, Divides(w, x, d)
  PROVE  d = [quotient |-> x \div w, remainder |-> x % w]
<1> DEFINE q == d.quotient
           r == d.remainder
<1>1. q \in Nat /\ r \in 0 .. w - 1 /\ x = w * q + r /\ d = [quotient |-> q, remainder |-> r]
  BY DEF Divides
<1> HIDE DEF q, r
<1>2. w * q \in Nat
  BY <1>1
<1>3. w * q <= x /\ x < w * q + w
  BY <1>1, <1>2
<1>4. q <= x \div w /\ x \div w <= q /\ x \div w \in Nat
  BY <1>1, <1>3, QuotientAtLeast, QuotientAtMost, Quotient
<1>5. x \div w = q
  BY <1>1, <1>4
<1>6. x = w * (x \div w) + (x % w) /\ x % w \in Nat
  OBVIOUS
<1>7. x % w = r
  BY <1>1, <1>2, <1>5, <1>6
<1> QED BY <1>1, <1>5, <1>7

LEMMA DivisionExists ==
  ASSUME NEW w \in Nat, w > 0, NEW x \in Nat
  PROVE  Divides(w, x, [quotient |-> x \div w, remainder |-> x % w])
<1>1. x \div w \in Nat /\ x % w \in 0 .. w - 1 /\ x = w * (x \div w) + (x % w)
  OBVIOUS
<1> QED BY <1>1 DEF Divides

\* A round divides the next bit.
LEMMA DoubledDivides ==
  ASSUME NEW w \in Nat, w > 0, NEW x \in Nat, NEW d, Divides(w, x, d)
  PROVE  Divides(w, 2 * x, Doubled(d, w))
<1> DEFINE q == d.quotient
           r == d.remainder
<1>1. q \in Nat /\ r \in 0 .. w - 1 /\ x = w * q + r
  BY DEF Divides
<1> HIDE DEF q, r
<1>2. /\ w * q \in Nat /\ w * (2 * q) = 2 * (w * q)
      /\ w * (2 * q + 1) = 2 * (w * q) + w
  BY <1>1
<1>3. CASE r >= w - r
  <2>1. Doubled(d, w) = [quotient |-> 2 * q + 1, remainder |-> r - (w - r)]
    BY <1>3 DEF Doubled, q, r
  <2>2. 2 * q + 1 \in Nat /\ r - (w - r) \in 0 .. w - 1
        /\ 2 * x = w * (2 * q + 1) + (r - (w - r))
    BY <1>1, <1>2, <1>3
  <2> QED BY <2>1, <2>2 DEF Divides
<1>4. CASE ~(r >= w - r)
  <2>1. Doubled(d, w) = [quotient |-> 2 * q, remainder |-> 2 * r]
    BY <1>4 DEF Doubled, q, r
  <2>2. 2 * q \in Nat /\ 2 * r \in 0 .. w - 1 /\ 2 * x = w * (2 * q) + 2 * r
    BY <1>1, <1>2, <1>4
  <2> QED BY <2>1, <2>2 DEF Divides
<1> QED BY <1>3, <1>4

LEMMA AddedDivides ==
  ASSUME NEW w \in Nat, w > 0, NEW x \in Nat, NEW d, Divides(w, x, d),
         NEW n \in Nat, n <= w
  PROVE  Divides(w, x + n, Added(d, n, w))
<1> DEFINE q == d.quotient
           r == d.remainder
<1>1. q \in Nat /\ r \in 0 .. w - 1 /\ x = w * q + r
  BY DEF Divides
<1> HIDE DEF q, r
<1>2. w * q \in Nat /\ w * (q + 1) = w * q + w
  BY <1>1
<1>3. CASE r >= w - n
  <2>1. Added(d, n, w) = [quotient |-> q + 1, remainder |-> r - (w - n)]
    BY <1>3 DEF Added, q, r
  <2>2. q + 1 \in Nat /\ r - (w - n) \in 0 .. w - 1 /\ x + n = w * (q + 1) + (r - (w - n))
    BY <1>1, <1>2, <1>3
  <2> QED BY <2>1, <2>2 DEF Divides
<1>4. CASE ~(r >= w - n)
  <2>1. Added(d, n, w) = [quotient |-> q, remainder |-> r + n]
    BY <1>4 DEF Added, q, r
  <2>2. r + n \in 0 .. w - 1 /\ x + n = w * q + (r + n)
    BY <1>1, <1>2, <1>4
  <2> QED BY <1>1, <2>1, <2>2 DEF Divides
<1> QED BY <1>3, <1>4

LEMMA PrefixStep ==
  ASSUME NEW supply \in Nat, NEW i \in 1 .. SupplyBits
  PROVE  /\ Prefix(supply, i) \in Nat /\ Prefix(supply, i - 1) \in Nat
         /\ Prefix(supply, i) = 2 * Prefix(supply, i - 1) + (Prefix(supply, i) % 2)
         /\ Prefix(supply, i) % 2 \in {0, 1}
<1> DEFINE k == SupplyBits - i
           p == 2^k
           a == supply \div p
<1>1. k \in Nat /\ SupplyBits - (i - 1) = k + 1
  BY RewardMathAssumption
<1> HIDE DEF k
<1>2. p \in Nat /\ p > 0 /\ 2^(k + 1) = 2 * p
  BY <1>1, PowerPositive, PowerPlus
<1> HIDE DEF p
<1>3. a \in Nat
  BY <1>2, Quotient
<1>4. a \div 2 = supply \div (p * 2)
  BY <1>2, QuotientTwice
<1>5. p * 2 = 2 * p
  BY <1>2
<1>6. Prefix(supply, i - 1) = a \div 2 /\ Prefix(supply, i) = a
  BY <1>1, <1>2, <1>4, <1>5 DEF Prefix, k, p
<1>7. a = 2 * (a \div 2) + (a % 2) /\ a \div 2 \in Nat /\ a % 2 \in {0, 1}
  <2> HIDE DEF a
  <2> QED BY <1>3
<1> QED BY <1>3, <1>6, <1>7

LEMMA BitDivides ==
  ASSUME NEW supply \in Nat, NEW points \in Nat, NEW total \in Nat, total > 0, points <= total,
         NEW i \in 1 .. SupplyBits, NEW d,
         Divides(total, Prefix(supply, i - 1) * points, d)
  PROVE  Divides(total, Prefix(supply, i) * points, NextBit(d, i, supply, points, total))
<1> DEFINE a == Prefix(supply, i)
           b == Prefix(supply, i - 1)
           bit == a % 2
<1>1. a \in Nat /\ b \in Nat /\ a = 2 * b + bit /\ bit \in {0, 1}
  BY PrefixStep
<1> HIDE DEF a, b, bit
<1>2. b * points \in Nat /\ 2 * (b * points) \in Nat
  BY <1>1
<1>3. Divides(total, 2 * (b * points), Doubled(d, total))
  BY <1>2, DoubledDivides DEF b
<1>4. CASE bit = 1
  <2>1. Divides(total, 2 * (b * points) + points, Added(Doubled(d, total), points, total))
    BY <1>2, <1>3, AddedDivides
  <2>2. a * points = 2 * (b * points) + points
    BY <1>1, <1>4
  <2>3. NextBit(d, i, supply, points, total) = Added(Doubled(d, total), points, total)
    BY <1>4 DEF NextBit, bit, a
  <2> QED BY <2>1, <2>2, <2>3 DEF a
<1>5. CASE bit = 0
  <2>1. a * points = 2 * (b * points)
    BY <1>1, <1>5
  <2>2. NextBit(d, i, supply, points, total) = Doubled(d, total)
    BY <1>5 DEF NextBit, bit, a
  <2> QED BY <1>3, <2>1, <2>2 DEF a
<1> QED BY <1>1, <1>4, <1>5

LEMMA PrefixZero ==
  ASSUME NEW supply \in Nat, supply < 2^SupplyBits
  PROVE  Prefix(supply, 0) = 0
<1> DEFINE p == 2^SupplyBits
<1>1. p \in Nat /\ p > 0 /\ SupplyBits - 0 = SupplyBits
  BY RewardMathAssumption, PowerPositive
<1> HIDE DEF p
<1>2. supply < p * 0 + p
  BY <1>1 DEF p
<1>3. supply \div p <= 0 /\ supply \div p \in Nat
  BY <1>1, <1>2, QuotientAtMost, Quotient
<1> QED BY <1>1, <1>3 DEF Prefix, p

LEMMA PrefixLast ==
  ASSUME NEW supply \in Nat
  PROVE  Prefix(supply, SupplyBits) = supply
<1>1. SupplyBits - SupplyBits = 0
  BY RewardMathAssumption
<1>2. supply \div 1 = supply
  OBVIOUS
<1> QED BY <1>1, <1>2, PowerZero DEF Prefix

LEMMA PrefixType ==
  ASSUME NEW supply \in Nat, NEW i \in 0 .. SupplyBits
  PROVE  Prefix(supply, i) \in Nat
<1>1. SupplyBits - i \in Nat
  BY RewardMathAssumption
<1> QED BY <1>1, PowerPositive, Quotient DEF Prefix

\* What the recursion of LongDivision defines exists: it divides the prefixes.
LEMMA LongDivisionExists ==
  ASSUME NEW supply \in Nat, NEW points \in Nat, NEW total \in Nat, total > 0, points <= total,
         supply < 2^SupplyBits
  PROVE  \E f : IsLongDivision(f, supply, points, total)
<1> DEFINE x(i) == Prefix(supply, i) * points
           f == [i \in 0 .. SupplyBits |->
                   [quotient |-> x(i) \div total, remainder |-> x(i) % total]]
<1>1. \A i \in 0 .. SupplyBits : x(i) \in Nat
  BY PrefixType
<1>2. \A i \in 0 .. SupplyBits : Divides(total, x(i), f[i])
  BY <1>1, DivisionExists
<1>3. f[0] = [quotient |-> 0, remainder |-> 0]
  <2>1. 0 \in 0 .. SupplyBits
    BY RewardMathAssumption
  <2>2. x(0) = 0
    BY PrefixZero
  <2>3. 0 \div total = 0 /\ 0 % total = 0
    OBVIOUS
  <2> QED BY <2>1, <2>2, <2>3
<1>4. ASSUME NEW i \in 1 .. SupplyBits
      PROVE  f[i] = NextBit(f[i - 1], i, supply, points, total)
  <2>1. i \in 0 .. SupplyBits /\ i - 1 \in 0 .. SupplyBits
    BY RewardMathAssumption
  <2>2. Divides(total, x(i - 1), f[i - 1])
    BY <1>2, <2>1
  <2>3. f[i] = [quotient |-> x(i) \div total, remainder |-> x(i) % total]
    BY <2>1
  <2>4. x(i) \in Nat
    BY <1>1, <2>1
  <2> HIDE DEF f
  <2>5. Divides(total, x(i), NextBit(f[i - 1], i, supply, points, total))
    BY <2>2, BitDivides
  <2> HIDE DEF x
  <2> QED BY <2>3, <2>4, <2>5, DivisionIsUnique
<1>5. f = [i \in 0 .. SupplyBits |-> f[i]]
  OBVIOUS
<1> HIDE DEF f
<1>6. f = [i \in 0 .. SupplyBits |->
             IF i = 0 THEN [quotient |-> 0, remainder |-> 0]
             ELSE NextBit(f[i - 1], i, supply, points, total)]
  <2>1. ASSUME NEW i \in 0 .. SupplyBits, i # 0 PROVE i \in 1 .. SupplyBits
    BY <2>1
  <2> QED BY <1>3, <1>4, <1>5, <2>1
<1> QED BY <1>6 DEF IsLongDivision

\* The long division of a share is exact, for any supply of as many bits.
LEMMA LongDivisionIsExact ==
  ASSUME NEW supply \in Nat, NEW points \in Nat, NEW total \in Nat, total > 0, points <= total,
         supply < 2^SupplyBits
  PROVE  LongDivision(supply, points, total) = (supply * points) \div total
<1> DEFINE f == CHOOSE g : g = [i \in 0 .. SupplyBits |->
                  IF i = 0 THEN [quotient |-> 0, remainder |-> 0]
                  ELSE NextBit(g[i - 1], i, supply, points, total)]
<1>1. LongDivision(supply, points, total) = f[SupplyBits].quotient
  BY DEF LongDivision, NextBit, Prefix
<1>2. f = [i \in 0 .. SupplyBits |->
             IF i = 0 THEN [quotient |-> 0, remainder |-> 0]
             ELSE NextBit(f[i - 1], i, supply, points, total)]
  BY LongDivisionExists DEF IsLongDivision
<1> HIDE DEF f
<1> DEFINE x(i) == Prefix(supply, i) * points
           T == {i \in Nat : i <= SupplyBits => Divides(total, x(i), f[i])}
<1>3. 0 \in T
  <2>1. 0 \in 0 .. SupplyBits
    BY RewardMathAssumption
  <2>2. f[0] = [quotient |-> 0, remainder |-> 0]
    BY <1>2, <2>1
  <2>3. x(0) = 0
    BY PrefixZero
  <2>4. Divides(total, 0, [quotient |-> 0, remainder |-> 0])
    BY DEF Divides
  <2> QED BY <2>2, <2>3, <2>4
<1>4. ASSUME NEW i \in Nat, i \in T PROVE i + 1 \in T
  <2> SUFFICES ASSUME i + 1 <= SupplyBits PROVE Divides(total, x(i + 1), f[i + 1])
    OBVIOUS
  <2>1. /\ i <= SupplyBits /\ i + 1 \in 1 .. SupplyBits /\ i + 1 \in 0 .. SupplyBits
        /\ (i + 1) - 1 = i /\ i + 1 # 0
    BY RewardMathAssumption
  <2>2. Divides(total, x(i), f[i])
    BY <1>4, <2>1
  <2>3. f[i + 1] = NextBit(f[(i + 1) - 1], i + 1, supply, points, total)
    BY <1>2, <2>1
  <2> QED BY <2>1, <2>2, <2>3, BitDivides
<1>5. SupplyBits \in T
  <2>1. SupplyBits \in Nat
    BY RewardMathAssumption
  <2>2. \A i \in Nat : i \in T => i + 1 \in T
    BY <1>4
  <2> HIDE DEF T
  <2> QED BY <1>3, <2>1, <2>2, NatSetInduction
<1>6. Divides(total, supply * points, f[SupplyBits])
  BY <1>5, PrefixLast, RewardMathAssumption
<1>7. supply * points \in Nat
  OBVIOUS
<1>8. f[SupplyBits] = [quotient |-> (supply * points) \div total,
                       remainder |-> (supply * points) % total]
  BY <1>6, <1>7, DivisionIsUnique
<1> QED BY <1>1, <1>8

LEMMA StakesFinite == IsFiniteSet(Stakes)
<1>1. /\ IsFiniteSet(InsurancePositions) /\ IsFiniteSet(BackingPositions)
      /\ IsFiniteSet(Portfolios)
  BY RewardAssumption, FS_Subset DEF Accounts
<1>2. IsFiniteSet({"insurance"}) /\ IsFiniteSet({"backing"})
  BY FS_Singleton
<1>3. {"residual", "funding"} = {"residual"} \cup {"funding"}
  OBVIOUS
<1>4. IsFiniteSet({"residual", "funding"})
  <2>1. IsFiniteSet({"residual"}) /\ IsFiniteSet({"funding"})
    BY FS_Singleton
  <2> QED BY <1>3, <2>1, FS_Union, Zenon
<1>5. /\ IsFiniteSet(InsurancePositions \X {"insurance"})
      /\ IsFiniteSet(BackingPositions \X {"backing"})
      /\ IsFiniteSet(Portfolios \X {"residual", "funding"})
  BY <1>1, <1>2, <1>4, FS_Product
<1> QED BY <1>5, FS_Union DEF Stakes

\* A stake is linked to an account.
LEMMA LinkedAccount ==
  ASSUME NEW s \in Stakes
  PROVE  s[1] \in Accounts
BY DEF Stakes, Accounts

\* A time weight is a natural number.
LEMMA FloorLog2Type ==
  ASSUME NEW n \in Int
  PROVE  FloorLog2(n) \in Nat
<1> DEFINE K == {k \in 1 .. n : 2^k <= n}
<1>1. IsFiniteSet(1 .. n)
  BY FS_Interval
<1>2. K \subseteq 1 .. n
  OBVIOUS
<1> HIDE DEF K
<1>3. IsFiniteSet(K)
  BY <1>1, <1>2, FS_Subset
<1>4. Cardinality(K) \in Nat
  BY <1>3, FS_CardinalityType
<1> QED BY <1>4 DEF K, FloorLog2

\* Flow adds up.
LEMMA PlusType ==
  ASSUME NEW f \in Flow, NEW g \in Flow
  PROVE  Plus(f, g) \in Flow
<1>1. \A c \in Counters : f[c] + g[c] \in Nat
  BY DEF Flow
<1> QED BY <1>1 DEF Plus, Flow

\* Whatever a witness says is a flow.
LEMMA WitnessType ==
  ASSUME RewardTypeOK, NEW x \in Accounts, NEW id
  PROVE  WitnessedTotals(x, id) \subseteq Flow
<1>1. archive[x].counters \in Flow /\ portfolio[x].counters \in Flow
  BY DEF RewardTypeOK, Archive, Portfolio
<1>2. WithLive(x, portfolio[x]) \subseteq Flow
  BY <1>1, PlusType DEF WithLive
<1> QED BY <1>1, <1>2 DEF WitnessedTotals

LEMMA StartType ==
  ASSUME RewardTypeOK, NEW x \in Accounts
  PROVE  StartTotals(x) \subseteq Flow
<1>1. archive[x].counters \in Flow /\ portfolio[x].counters \in Flow
  BY DEF RewardTypeOK, Archive, Portfolio
<1>2. \A live \in LiveOf(x) : WithLive(x, live) \subseteq Flow
  BY <1>1, PlusType DEF WithLive, LiveOf
<1> QED BY <1>1, <1>2 DEF StartTotals, TotalsToday

LEMMA CounterType ==
  ASSUME NEW cohort \in FlowCohorts, NEW totals \in Flow
  PROVE  Counter(cohort, totals) \in Nat
<1>1. /\ totals["received"] \in Nat /\ totals["loss"] \in Nat
      /\ totals["spent"] \in Nat /\ totals["funding"] \in Nat
  BY DEF Flow, Counters
<1>2. CASE cohort = "lp"
  BY <1>1, <1>2 DEF Counter
<1>3. CASE cohort = "trader"
  BY <1>1, <1>3 DEF Counter, Monus
<1>4. CASE cohort = "funding"
  BY <1>1, <1>4 DEF Counter
<1> QED BY <1>2, <1>3, <1>4 DEF FlowCohorts

\* Replacing the points of a stake replaces them in its cohort's total, and in no
\* other.
LEMMA RecreditInv ==
  ASSUME RewardInv, NEW s \in Stakes, stake[s].cohort \in Cohorts,
         NEW points \in Nat, NEW net \in Nat, NEW accum \in Nat,
         Recredit(s, points, net, accum)
  PROVE  RewardInv'
<1> DEFINE cohort == stake[s].cohort
           entry  == [stake[s] EXCEPT !.points = points, !.earnings_snap = net,
                                      !.eligible_accum = accum]
           total  == ReplacedPoints(points_total[cohort], stake[s].points, points)
<1>1. stake[s] \in Stake /\ stake[s].points \in Nat
  BY DEF RewardInv, RewardTypeOK, Stake
<1>2. entry \in Stake /\ entry.points = points /\ entry.cohort = cohort
  BY <1>1 DEF Stake
<1>3. stake' = [stake EXCEPT ![s] = entry]
  BY <1>1 DEF Recredit, Stake, RewardInv, RewardTypeOK
<1>4. points_total' = [points_total EXCEPT ![cohort] = total]
  BY DEF Recredit
<1>5. total \in Nat /\ total = points_total[cohort] - stake[s].points + points
  <2>1. points_total[cohort] \in Nat /\ stake[s].points <= points_total[cohort]
    BY DEF Recredit, ReplaceFits, RewardInv, RewardTypeOK
  <2> QED BY <1>1, <2>1 DEF ReplacedPoints
<1>6. ~frozen /\ UNCHANGED <<slot, frozen, frozen_total, position, portfolio,
                             next_portfolio_id, archive>>
  BY DEF Recredit, market_vars, portfolio_vars
<1> HIDE DEF entry, total
<1>7. stake' \in [Stakes -> Stake] /\ points_total' \in [Cohorts -> Nat]
  BY <1>2, <1>3, <1>4, <1>5 DEF RewardInv, RewardTypeOK
<1>8. ASSUME NEW c \in Cohorts
      PROVE  points_total'[c] = Total(PointsIn(c), Stakes)'
  <2> DEFINE f == PointsIn(c)
             g == PointsIn(c)'
  <2>1. \A r \in Stakes : stake'[r] = IF r = s THEN entry ELSE stake[r]
    BY <1>3 DEF RewardInv, RewardTypeOK
  <2>2. \A r \in Stakes : stake[r].points \in Nat /\ stake'[r].points \in Nat
    BY <1>7 DEF RewardInv, RewardTypeOK, Stake
  <2>3. f \in [Stakes -> Nat] /\ g \in [Stakes -> Nat]
    BY <2>2 DEF PointsIn
  <2>4. \A r \in Stakes : r # s => f[r] = g[r]
    BY <2>1 DEF PointsIn
  <2>5. f[s] = (IF cohort = c THEN stake[s].points ELSE 0)
    BY DEF PointsIn
  <2>6. g[s] = (IF cohort = c THEN points ELSE 0)
    BY <1>2, <2>1 DEF PointsIn
  <2>7. points_total[c] = Total(f, Stakes)
    BY DEF RewardInv, TotalsMatchStakes
  <2>8. points_total'[c] = IF c = cohort THEN total ELSE points_total[c]
    BY <1>4 DEF RewardInv, RewardTypeOK
  <2> HIDE DEF f, g
  <2>9. Total(f, Stakes) \in Nat /\ Total(g, Stakes) = Total(f, Stakes) - f[s] + g[s]
    BY <2>3, <2>4, StakesFinite, TotalChange
  <2>10. points_total'[c] = Total(g, Stakes)
    BY <1>1, <1>5, <2>5, <2>6, <2>7, <2>8, <2>9
  <2> QED BY <2>10 DEF g
<1>9. RewardTypeOK'
  BY <1>6, <1>7 DEF RewardInv, RewardTypeOK
<1>10. TotalsMatchStakes'
  BY <1>6, <1>8 DEF TotalsMatchStakes
<1> QED BY <1>9, <1>10 DEF RewardInv

\* Capital is rewarded with a natural number of points.
LEMMA CrystallizeCapitalInv ==
  ASSUME RewardInv, NEW s \in Stakes, CrystallizeCapital(s)
  PROVE  RewardInv'
<1> DEFINE x         == s[1]
           accrued   == Lesser(slot, EpochEnd)
           until     == IF position[x].returned # 0 THEN Lesser(accrued, position[x].return_slot)
                        ELSE accrued
           principal == CapitalAtRisk(x)
           weight    == FloorLog2(Monus(until, EffectiveStart(s)))
<1>1. position[x] \in Position /\ stake[s] \in Stake /\ slot \in Nat
  BY LinkedAccount DEF RewardInv, RewardTypeOK
<1>2. until \in Nat
  BY <1>1, RewardAssumption DEF Position, Lesser
<1>3. principal \in Nat
  BY <1>1 DEF Position, CapitalAtRisk
<1>4. EffectiveStart(s) \in Nat
  BY <1>1 DEF Position, Stake, EffectiveStart, Later
<1>5. weight \in Nat
  BY <1>2, <1>4, FloorLog2Type DEF Monus
<1>6. stake[s].cohort \in Cohorts
  BY DEF CrystallizeCapital, Cohorts
<1>7. Recredit(s, weight * principal, principal, until)
  BY DEF CrystallizeCapital
<1> HIDE DEF x, accrued, until, principal, weight
<1>8. weight * principal \in Nat
  BY <1>3, <1>5
<1> QED BY <1>2, <1>3, <1>6, <1>7, <1>8, RecreditInv

\* Flow is rewarded with a natural number of points, before the epoch's end and
\* after it.
LEMMA CrystallizeFlowInv ==
  ASSUME RewardInv, NEW s \in Stakes, CrystallizeFlow(s)
  PROVE  RewardInv'
<1> DEFINE st == stake[s]
<1>1. st \in Stake /\ slot \in Nat
  BY DEF RewardInv, RewardTypeOK
<1>2. st.cohort \in FlowCohorts /\ st.cohort \in Cohorts
  BY DEF CrystallizeFlow, Cohorts
<1>3. PICK totals \in WitnessedTotals(s[1], st.portfolio_id) :
        LET net   == Monus(Counter(st.cohort, totals), st.residual_snap)
            spent == IF st.cohort = "trader" THEN totals["spent"] ELSE 0
            cap   == TraderLiveCap(st.earnings_snap, st.eligible_accum, net, spent)
        IN  IF AccrualOver
            THEN /\ CapIsExact(st.points, st.earnings_snap, cap)
                 /\ Recredit(s, CapResidualPoints(st.points, st.earnings_snap, cap), cap, spent)
            ELSE Recredit(s, IF st.cohort = "funding" THEN net
                             ELSE FloorLog2(slot - st.start_slot) * net, net, spent)
  BY DEF CrystallizeFlow
<1> DEFINE net   == Monus(Counter(st.cohort, totals), st.residual_snap)
           spent == IF st.cohort = "trader" THEN totals["spent"] ELSE 0
           cap   == TraderLiveCap(st.earnings_snap, st.eligible_accum, net, spent)
           late  == CapResidualPoints(st.points, st.earnings_snap, cap)
           early == IF st.cohort = "funding" THEN net
                    ELSE FloorLog2(slot - st.start_slot) * net
<1>4. totals \in Flow
  <2>1. s[1] \in Accounts /\ RewardTypeOK
    BY LinkedAccount DEF RewardInv
  <2> QED BY <1>3, <2>1, WitnessType
<1>5. Counter(st.cohort, totals) \in Nat
  BY <1>2, <1>4, CounterType
<1>6. net \in Nat
  BY <1>1, <1>5 DEF Monus, Stake
<1>7. spent \in Nat
  BY <1>4 DEF Flow, Counters
<1>8. st.earnings_snap \in Nat /\ st.eligible_accum \in Nat /\ st.points \in Nat
      /\ st.start_slot \in Nat
  BY <1>1 DEF Stake
<1>9. cap \in Nat
  BY <1>6, <1>7, <1>8 DEF TraderLiveCap, Lesser, Monus
<1>10. FloorLog2(slot - st.start_slot) \in Nat
  BY <1>1, <1>8, FloorLog2Type
<1> HIDE DEF net, spent, cap
<1>11. early \in Nat
  BY <1>6, <1>10
<1>12. late \in Nat
  <2>1. CASE st.earnings_snap = 0 \/ cap >= st.earnings_snap
    BY <1>8, <2>1 DEF CapResidualPoints
  <2>2. CASE ~(st.earnings_snap = 0 \/ cap >= st.earnings_snap)
    <3> DEFINE weight == st.points \div st.earnings_snap
    <3>1. weight \in Nat
      BY <1>8, <2>2
    <3> HIDE DEF weight
    <3>2. weight * cap \in Nat
      BY <1>9, <3>1
    <3> QED BY <2>2, <3>2 DEF CapResidualPoints, weight
  <2> QED BY <2>1, <2>2
<1>13. CASE AccrualOver
  <2>1. Recredit(s, late, cap, spent)
    BY <1>3, <1>13 DEF net, spent, cap
  <2> HIDE DEF late
  <2> QED BY <1>2, <1>7, <1>9, <1>12, <2>1, RecreditInv
<1>14. CASE ~AccrualOver
  <2>1. Recredit(s, early, net, spent)
    BY <1>3, <1>14 DEF net, spent
  <2> HIDE DEF early
  <2> QED BY <1>2, <1>6, <1>7, <1>11, <2>1, RecreditInv
<1> QED BY <1>13, <1>14

\* A stake starts without points.
LEMMA RegisterInv ==
  ASSUME RewardInv, NEW s \in Stakes, NEW cohort \in Cohorts, NEW snap \in Nat, NEW id \in Nat,
         Register(s, cohort, snap, id)
  PROVE  RewardInv'
<1> DEFINE entry == [NoStake EXCEPT !.cohort = cohort, !.residual_snap = snap,
                                    !.start_slot = slot, !.portfolio_id = id]
<1>1. entry \in Stake /\ entry.points = 0
  BY DEF NoStake, Stake, RewardInv, RewardTypeOK
<1>2. stake' = [stake EXCEPT ![s] = entry]
  BY DEF Register
<1>3. UNCHANGED <<slot, frozen, points_total, frozen_total, position, portfolio,
                  next_portfolio_id, archive>>
  BY DEF Register, config_vars, market_vars, portfolio_vars
<1>4. stake[s].cohort = "none" /\ "none" \notin Cohorts
  BY DEF Register, Registered, Cohorts, CapitalCohorts, FlowCohorts
<1> HIDE DEF entry
<1>5. stake' \in [Stakes -> Stake]
  BY <1>1, <1>2 DEF RewardInv, RewardTypeOK
<1>6. \A r \in Stakes : stake'[r] = IF r = s THEN entry ELSE stake[r]
  BY <1>2 DEF RewardInv, RewardTypeOK
<1>7. \A c \in Cohorts : PointsIn(c)' = PointsIn(c)
  BY <1>1, <1>4, <1>6 DEF PointsIn
<1>8. RewardTypeOK'
  BY <1>3, <1>5 DEF RewardInv, RewardTypeOK
<1>9. TotalsMatchStakes'
  BY <1>3, <1>7 DEF RewardInv, TotalsMatchStakes
<1> QED BY <1>8, <1>9 DEF RewardInv

LEMMA RegisterCapitalInv ==
  ASSUME RewardInv, NEW x \in Accounts, RegisterCapital(x)
  PROVE  RewardInv'
<1>1. x \in InsurancePositions \cup BackingPositions /\ PoolOf(x) \in Cohorts
  BY DEF RegisterCapital, PoolOf, Cohorts, CapitalCohorts
<1>2. <<x, FamilyOf(PoolOf(x))>> \in Stakes
  BY <1>1 DEF FamilyOf, PoolOf, Stakes
<1>3. Register(<<x, FamilyOf(PoolOf(x))>>, PoolOf(x), 0, 0)
  BY DEF RegisterCapital
<1> QED BY <1>1, <1>2, <1>3, RegisterInv

LEMMA RegisterPortfolioInv ==
  ASSUME RewardInv, NEW x \in Accounts, NEW cohort \in FlowCohorts, RegisterPortfolio(x, cohort)
  PROVE  RewardInv'
<1> DEFINE id == IF portfolio[x].holder = "owner" THEN portfolio[x].id ELSE archive[x].id
<1>1. x \in Portfolios /\ cohort \in Cohorts
  BY DEF RegisterPortfolio, Cohorts
<1>2. <<x, FamilyOf(cohort)>> \in Stakes
  BY <1>1 DEF FamilyOf, FlowCohorts, Stakes
<1>3. PICK totals \in StartTotals(x) :
        Register(<<x, FamilyOf(cohort)>>, cohort, Counter(cohort, totals), id)
  BY DEF RegisterPortfolio
<1>4. totals \in Flow
  BY <1>3, StartType DEF RewardInv
<1>5. Counter(cohort, totals) \in Nat
  BY <1>4, CounterType
<1>6. id \in Nat
  BY DEF RewardInv, RewardTypeOK, Portfolio, Archive
<1> HIDE DEF id
<1> QED BY <1>1, <1>2, <1>3, <1>5, <1>6, RegisterInv

LEMMA FreezeInv ==
  ASSUME RewardInv, Freeze
  PROVE  RewardInv'
<1>1. /\ UNCHANGED <<slot, points_total, stake, position, portfolio, next_portfolio_id, archive>>
      /\ frozen' = TRUE /\ frozen_total' = points_total
  BY DEF Freeze, market_vars, portfolio_vars
<1>2. \A c \in Cohorts : PointsIn(c)' = PointsIn(c)
  BY <1>1 DEF PointsIn
<1> QED BY <1>1, <1>2 DEF RewardInv, RewardTypeOK, TotalsMatchStakes

\* A claim changes no points.
LEMMA ClaimInv ==
  ASSUME RewardInv, NEW s \in Stakes, Claim(s)
  PROVE  RewardInv'
<1>1. /\ stake' = [stake EXCEPT ![s].claimed = TRUE]
      /\ UNCHANGED <<slot, frozen, points_total, frozen_total, position, portfolio,
                     next_portfolio_id, archive>>
  BY DEF Claim, config_vars, market_vars, portfolio_vars
<1>2. stake \in [Stakes -> Stake]
  BY DEF RewardInv, RewardTypeOK
<1>3. /\ stake' \in [Stakes -> Stake]
      /\ \A r \in Stakes : stake'[r].points = stake[r].points /\ stake'[r].cohort = stake[r].cohort
  BY <1>1, <1>2 DEF Stake
<1>4. \A c \in Cohorts : PointsIn(c)' = PointsIn(c)
  BY <1>3 DEF PointsIn
<1>5. RewardTypeOK'
  BY <1>1, <1>3 DEF RewardInv, RewardTypeOK
<1>6. TotalsMatchStakes'
  BY <1>1, <1>4 DEF RewardInv, TotalsMatchStakes
<1> QED BY <1>5, <1>6 DEF RewardInv

\* What happens outside the distributor touches no stake and no total.
LEMMA ElsewhereInv ==
  ASSUME RewardInv, RewardTypeOK', UNCHANGED <<frozen, points_total, frozen_total, stake>>
  PROVE  RewardInv'
<1>1. \A c \in Cohorts : PointsIn(c)' = PointsIn(c)
  BY DEF PointsIn
<1> QED BY <1>1 DEF RewardInv, TotalsMatchStakes

\* Positions stay positions.
LEMMA PositionInv ==
  ASSUME RewardInv, NEW x \in Accounts, Deposit(x) \/ Withdraw(x) \/ TerminalReturn(x)
  PROVE  RewardInv'
<1>1. UNCHANGED <<slot, frozen, points_total, frozen_total, stake, portfolio,
                  next_portfolio_id, archive>>
  BY DEF Deposit, Withdraw, TerminalReturn, Outside, config_vars, portfolio_vars
<1>2. position \in [Accounts -> Position] /\ position[x] \in Position /\ slot \in Nat
  BY DEF RewardInv, RewardTypeOK
<1>3. position' \in [Accounts -> Position]
  <2>1. CASE Deposit(x)
    <3> DEFINE entry == [position[x] EXCEPT !.principal = @ + 1, !.start_slot = slot]
    <3>0. position[x].principal + 1 \in Nat
      BY <1>2 DEF Position
    <3>1. entry \in Position
      BY <1>2, <3>0 DEF Position
    <3>2. position' = [position EXCEPT ![x] = entry]
      BY <1>2, <2>1 DEF Deposit, Position
    <3> QED BY <1>2, <3>1, <3>2
  <2>2. CASE Withdraw(x)
    <3> DEFINE entry == [position[x] EXCEPT !.principal = @ - 1,
                                            !.withdrawn = (position[x].principal = 1)]
    <3>1. position[x].principal - 1 \in Nat
      BY <1>2, <2>2 DEF Withdraw, Position
    <3>2. entry \in Position
      BY <1>2, <3>1 DEF Position
    <3>3. position' = [position EXCEPT ![x] = entry]
      BY <1>2, <2>2 DEF Withdraw, Position
    <3> QED BY <1>2, <3>2, <3>3
  <2>3. CASE TerminalReturn(x)
    <3> DEFINE entry == [position[x] EXCEPT !.principal = 0, !.withdrawn = TRUE,
                           !.returned = position[x].principal, !.return_slot = slot]
    <3>1. entry \in Position
      BY <1>2 DEF Position
    <3>2. position' = [position EXCEPT ![x] = entry]
      BY <1>2, <2>3 DEF TerminalReturn, Position
    <3> QED BY <1>2, <3>1, <3>2
  <2> QED BY <2>1, <2>2, <2>3
<1>4. RewardTypeOK'
  BY <1>1, <1>3 DEF RewardInv, RewardTypeOK
<1> QED BY <1>1, <1>4, ElsewhereInv

LEMMA NoFlowType == NoFlow \in Flow
BY DEF NoFlow, Flow

\* Portfolios stay portfolios.
LEMMA ClosePortfolioInv ==
  ASSUME RewardInv, NEW x \in Accounts, ClosePortfolio(x)
  PROVE  RewardInv'
<1>1. UNCHANGED <<slot, frozen, points_total, frozen_total, stake, position,
                  next_portfolio_id, archive>>
  BY DEF ClosePortfolio, Outside, config_vars
<1>2. NoPortfolio \in Portfolio
  BY NoFlowType DEF NoPortfolio, Portfolio
<1>3. portfolio' \in [Accounts -> Portfolio]
  BY <1>2 DEF ClosePortfolio, RewardInv, RewardTypeOK
<1>4. RewardTypeOK'
  BY <1>1, <1>3 DEF RewardInv, RewardTypeOK
<1> QED BY <1>1, <1>4, ElsewhereInv

LEMMA OpenPortfolioInv ==
  ASSUME RewardInv, NEW x \in Accounts, NEW holder \in {"owner", "other"}, OpenPortfolio(x, holder)
  PROVE  RewardInv'
<1>1. UNCHANGED <<slot, frozen, points_total, frozen_total, stake, position, archive>>
  BY DEF OpenPortfolio, Outside, config_vars
<1>2. PICK id \in IF holder = "other" THEN {0}
                  ELSE IF market = "retired" THEN 1 .. next_portfolio_id
                  ELSE {next_portfolio_id} :
        /\ portfolio' = [portfolio EXCEPT ![x] =
                           [holder |-> holder, id |-> id, counters |-> NoFlow]]
        /\ next_portfolio_id' = IF id = next_portfolio_id THEN id + 1 ELSE next_portfolio_id
  BY DEF OpenPortfolio
<1>3. id \in Nat /\ next_portfolio_id' \in Nat
  BY <1>2 DEF RewardInv, RewardTypeOK
<1>4. [holder |-> holder, id |-> id, counters |-> NoFlow] \in Portfolio
  BY <1>3, NoFlowType DEF Portfolio
<1>5. portfolio' \in [Accounts -> Portfolio]
  BY <1>2, <1>4 DEF RewardInv, RewardTypeOK
<1>6. RewardTypeOK'
  BY <1>1, <1>3, <1>5 DEF RewardInv, RewardTypeOK
<1> QED BY <1>1, <1>6, ElsewhereInv

LEMMA AccrueInv ==
  ASSUME RewardInv, NEW x \in Accounts, NEW c \in Counters, Accrue(x, c)
  PROVE  RewardInv'
<1> DEFINE counters == [portfolio[x].counters EXCEPT ![c] = @ + 1]
           entry    == [portfolio[x] EXCEPT !.counters = counters]
<1>1. UNCHANGED <<slot, frozen, points_total, frozen_total, stake, position,
                  next_portfolio_id, archive>>
  BY DEF Accrue, Outside, config_vars
<1>2. portfolio \in [Accounts -> Portfolio] /\ portfolio[x] \in Portfolio
      /\ portfolio[x].counters \in Flow
  BY DEF RewardInv, RewardTypeOK, Portfolio
<1>3. counters \in Flow
  BY <1>2 DEF Flow
<1> HIDE DEF counters
<1>4. entry \in Portfolio
  BY <1>2, <1>3 DEF Portfolio
<1>5. portfolio' = [portfolio EXCEPT ![x] = entry]
  BY <1>2 DEF Accrue, Portfolio, counters
<1> HIDE DEF entry
<1>6. portfolio' \in [Accounts -> Portfolio]
  BY <1>2, <1>4, <1>5
<1>7. RewardTypeOK'
  BY <1>1, <1>6 DEF RewardInv, RewardTypeOK
<1> QED BY <1>1, <1>7, ElsewhereInv

LEMMA CleanUpInv ==
  ASSUME RewardInv, NEW x \in Accounts, CleanUp(x)
  PROVE  RewardInv'
<1>1. UNCHANGED <<slot, frozen, points_total, frozen_total, stake, position, next_portfolio_id>>
  BY DEF CleanUp, config_vars
<1>2. NoPortfolio \in Portfolio
  BY NoFlowType DEF NoPortfolio, Portfolio
<1>3. portfolio' \in [Accounts -> Portfolio]
  BY <1>2 DEF CleanUp, RewardInv, RewardTypeOK
<1>4. archive[x].counters \in Flow /\ portfolio[x].counters \in Flow /\ portfolio[x].id \in Nat
  BY DEF RewardInv, RewardTypeOK, Portfolio, Archive
<1>5. Archived(x) \in Archive
  BY <1>4, PlusType DEF Archived, Archive
<1>6. archive' \in [Accounts -> Archive]
  BY <1>5 DEF CleanUp, RewardInv, RewardTypeOK
<1>7. RewardTypeOK'
  BY <1>1, <1>3, <1>6 DEF RewardInv, RewardTypeOK
<1> QED BY <1>1, <1>7, ElsewhereInv

\* The market, the COIN and the clock.
LEMMA SurroundingsInv ==
  ASSUME RewardInv, NextPhase \/ RevokeMint \/ RewardTime \/ (\E n \in Supplies \ {0} : FundVault(n))
  PROVE  RewardInv'
<1>1. /\ UNCHANGED <<frozen, points_total, frozen_total, stake, position, portfolio,
                     next_portfolio_id, archive>>
      /\ slot' = slot \/ slot' = slot + Stride
  BY DEF NextPhase, RevokeMint, RewardTime, FundVault, Outside, config_vars, market_vars,
         portfolio_vars
<1>2. slot' \in Nat
  BY <1>1, RewardAssumption DEF RewardInv, RewardTypeOK
<1>3. RewardTypeOK'
  BY <1>1, <1>2 DEF RewardInv, RewardTypeOK
<1> QED BY <1>1, <1>3, ElsewhereInv

LEMMA RewardInvInit == RewardInit => RewardInv
<1> SUFFICES ASSUME RewardInit PROVE RewardInv
  OBVIOUS
<1>1. NoStake \in Stake /\ NoPosition \in Position /\ NoPortfolio \in Portfolio
      /\ NoArchive \in Archive
  BY NoFlowType DEF NoStake, Stake, NoPosition, Position, NoPortfolio, Portfolio, NoArchive, Archive
<1>2. RewardTypeOK
  BY <1>1 DEF RewardInit, RewardTypeOK
<1>3. \A c \in Cohorts : Total(PointsIn(c), Stakes) = 0
  <2>1. \A c \in Cohorts : \A s \in Stakes : PointsIn(c)[s] = 0
    BY DEF RewardInit, PointsIn, NoStake
  <2> QED BY <2>1, TotalZero
<1>4. TotalsMatchStakes
  BY <1>3 DEF RewardInit, TotalsMatchStakes
<1> QED BY <1>2, <1>4 DEF RewardInv

LEMMA RewardInvNext == RewardInv /\ [RewardNext]_reward_vars => RewardInv'
<1> SUFFICES ASSUME RewardInv, [RewardNext]_reward_vars PROVE RewardInv'
  OBVIOUS
<1>1. CASE \E x \in roster \cap Accounts :
             \/ RegisterCapital(x)
             \/ \E cohort \in roster \cap FlowCohorts : RegisterPortfolio(x, cohort)
  BY <1>1, RegisterCapitalInv, RegisterPortfolioInv
<1>2. ASSUME NEW x \in Accounts, ByOwner(x) PROVE RewardInv'
  <2>1. CASE Deposit(x) \/ Withdraw(x)
    BY <2>1, PositionInv
  <2>2. CASE OpenPortfolio(x, "owner")
    BY <2>2, OpenPortfolioInv
  <2>3. CASE ClosePortfolio(x)
    BY <2>3, ClosePortfolioInv
  <2>4. ASSUME NEW cohort \in FlowCohorts, NEW c \in CountersOf(cohort), Accrue(x, c)
        PROVE  RewardInv'
    <3>1. c \in Counters
      BY DEF CountersOf, FlowCohorts, Counters
    <3> QED BY <2>4, <3>1, AccrueInv
  <2> QED BY <1>2, <2>1, <2>2, <2>3, <2>4 DEF ByOwner
<1>3. ASSUME NEW x \in Accounts, ByPublic(x) PROVE RewardInv'
  <2>1. CASE TerminalReturn(x)
    BY <2>1, PositionInv
  <2>2. CASE CleanUp(x)
    BY <2>2, CleanUpInv
  <2>3. CASE OpenPortfolio(x, "other")
    BY <2>3, OpenPortfolioInv
  <2>4. CASE UnarchivedClose(x)
    BY <2>4, ClosePortfolioInv DEF UnarchivedClose
  <2> QED BY <1>3, <2>1, <2>2, <2>3, <2>4 DEF ByPublic
<1>4. CASE \E s \in Stakes : CrystallizeCapital(s) \/ CrystallizeFlow(s) \/ Claim(s)
  BY <1>4, CrystallizeCapitalInv, CrystallizeFlowInv, ClaimInv
<1>5. CASE Freeze
  BY <1>5, FreezeInv
<1>6. CASE NextPhase \/ RevokeMint \/ RewardTime \/ (\E n \in Supplies \ {0} : FundVault(n))
  BY <1>6, SurroundingsInv
<1>7. CASE UNCHANGED reward_vars
  <2>1. UNCHANGED <<slot, frozen, points_total, frozen_total, stake, position, portfolio,
                    next_portfolio_id, archive>>
    BY <1>7 DEF reward_vars, config_vars, market_vars, portfolio_vars
  <2>2. RewardTypeOK'
    BY <2>1 DEF RewardInv, RewardTypeOK
  <2> QED BY <2>1, <2>2, ElsewhereInv
<1> QED BY <1>1, <1>2, <1>3, <1>4, <1>5, <1>6, <1>7 DEF RewardNext

\* The totals that shares are fractions of are the points of the stakes, however
\* often stakes are crystallized, in whatever order, and for ever once frozen
\* (crystallize, freeze, claim).
THEOREM TotalsAreRight == RewardSpec => []TotalsMatchStakes
<1>1. RewardInv => TotalsMatchStakes
  BY DEF RewardInv
<1> QED BY <1>1, RewardInvInit, RewardInvNext, PTL DEF RewardSpec

----------------------------------------------------------------------------
(* Rewards are covered.                                                     *)

\* A share is exact whether its product fits or not.
LEMMA ShareIsExact ==
  ASSUME NEW supply \in Nat, NEW points \in Nat, NEW total \in Nat, total > 0, points <= total,
         supply < 2^SupplyBits
  PROVE  PointsToAmount(supply, points, total) = (supply * points) \div total
BY LongDivisionIsExact DEF PointsToAmount

\* The COIN there is, and the totals the shares are fractions of.
CoinTypeOK ==
  /\ vault \in Nat
  /\ total_supply \in 0 .. MintSupply
  /\ ~frozen => vault <= MintSupply
  /\ frozen_total \in [Cohorts -> Nat]

\* What the points of a stake, as they were frozen, are worth.
FullShare  == [s \in Open |-> Share(s, stake[s].points)]
OpenIn(c)  == {s \in Open : stake[s].cohort = c}

\* The vault holds what all open stakes are worth.
VaultCovers == frozen => Total(FullShare, Open) <= vault

CoverInv == RewardInv /\ CoinTypeOK /\ VaultCovers

LEMMA CohortSupplyType ==
  ASSUME CoinTypeOK, NEW c \in Cohorts
  PROVE  /\ CohortSupply(c) \in Nat /\ CohortSupply(c) <= total_supply
         /\ CohortSupply(c) < 2^SupplyBits
<1>1. /\ Bps \in Nat /\ Bps > 0 /\ BpsOf(c) \in Nat /\ BpsOf(c) <= Bps
      /\ total_supply \in Nat /\ total_supply <= MintSupply
      /\ MintSupply < 2^SupplyBits /\ MintSupply \in Nat /\ 2^SupplyBits \in Nat
  <2>1. 2^SupplyBits \in Nat
    BY RewardMathAssumption, PowerPositive
  <2> QED BY <2>1, RewardAssumption DEF CoinTypeOK, BpsOf, Cohorts, CapitalCohorts, FlowCohorts
<1>2. total_supply * BpsOf(c) \in Nat /\ total_supply * BpsOf(c) <= Bps * total_supply
      /\ Bps * total_supply \in Nat
  BY <1>1
<1>3. total_supply * BpsOf(c) < Bps * total_supply + Bps
  BY <1>1, <1>2
<1>4. CohortSupply(c) \in Nat /\ CohortSupply(c) <= total_supply
  BY <1>1, <1>2, <1>3, Quotient, QuotientAtMost DEF CohortSupply
<1> QED BY <1>1, <1>4

\* Five rounded shares of a whole sum to at most the whole.
LEMMA RoundedSharesFit ==
  ASSUME NEW T \in Nat, NEW N \in Nat, N > 0, NEW p \in Nat, NEW q \in Nat, NEW r \in Nat,
         NEW u \in Nat, NEW v \in Nat, p + q + r + u + v = N
  PROVE  (T * p) \div N + (T * q) \div N + (T * r) \div N + (T * u) \div N
           + (T * v) \div N <= T
<1> DEFINE a == T * p
           b == T * q
           c == T * r
           d == T * u
           e == T * v
<1>1. N \in Nat /\ N > 0 /\ T \in Nat
  OBVIOUS
<1>2. /\ a \in Nat /\ b \in Nat /\ c \in Nat /\ d \in Nat /\ e \in Nat
  OBVIOUS
<1>3. a + b + c + d + e = N * T
  <2>1. a + b + c + d + e = T * (p + q + r + u + v)
    OBVIOUS
  <2>2. T * N = N * T
    OBVIOUS
  <2> QED BY <2>1, <2>2, Zenon
<1> HIDE DEF a, b, c, d, e
<1>4. /\ a \div N \in Nat /\ b \div N \in Nat /\ c \div N \in Nat
      /\ d \div N \in Nat /\ e \div N \in Nat
  BY <1>1, <1>2, Quotient
<1>6. a \div N + b \div N <= (a + b) \div N /\ (a + b) \div N \in Nat
  BY <1>1, <1>2, QuotientSum, Quotient
<1>7. (a + b) \div N + c \div N <= ((a + b) + c) \div N
      /\ ((a + b) + c) \div N \in Nat
  BY <1>1, <1>2, QuotientSum, Quotient
<1>8. ((a + b) + c) \div N + d \div N <= (((a + b) + c) + d) \div N
      /\ (((a + b) + c) + d) \div N \in Nat
  BY <1>1, <1>2, QuotientSum, Quotient
<1>9. (((a + b) + c) + d) \div N + e \div N <= ((((a + b) + c) + d) + e) \div N
      /\ ((((a + b) + c) + d) + e) \div N \in Nat
  BY <1>1, <1>2, QuotientSum, Quotient
<1>10. ((((a + b) + c) + d) + e) \div N = T
  BY <1>1, <1>2, <1>3, QuotientExact
<1>11. a \div N + b \div N + c \div N + d \div N + e \div N <= T
  BY <1>1, <1>4, <1>6, <1>7, <1>8, <1>9, <1>10
<1> QED BY <1>11 DEF a, b, c, d, e

\* The cohorts share the supply.
LEMMA CohortSuppliesFit ==
  ASSUME CoinTypeOK
  PROVE  CohortSupply("insurance") + CohortSupply("backing") + CohortSupply("lp")
           + CohortSupply("trader") + CohortSupply("funding") <= total_supply
<1>1. /\ Bps \in Nat /\ Bps > 0 /\ total_supply \in Nat
      /\ BpsOf("insurance") \in Nat /\ BpsOf("backing") \in Nat /\ BpsOf("lp") \in Nat
      /\ BpsOf("trader") \in Nat /\ BpsOf("funding") \in Nat
      /\ BpsOf("insurance") + BpsOf("backing") + BpsOf("lp") + BpsOf("trader")
           + BpsOf("funding") = Bps
  BY RewardAssumption DEF CoinTypeOK, BpsOf
<1> QED BY <1>1, RoundedSharesFit DEF CohortSupply

\* No stake has more points than its cohort's total.
LEMMA PointsFit ==
  ASSUME RewardInv, CoinTypeOK, frozen, NEW s \in Stakes, Registered(s)
  PROVE  /\ stake[s].cohort \in Cohorts /\ stake[s].points \in Nat
         /\ frozen_total[stake[s].cohort] \in Nat
         /\ stake[s].points <= frozen_total[stake[s].cohort]
<1> DEFINE c == stake[s].cohort
           f == PointsIn(c)
<1>1. \A r \in Stakes : stake[r] \in Stake /\ stake[r].points \in Nat
  BY DEF RewardInv, RewardTypeOK, Stake
<1>2. c \in Cohorts
  BY <1>1 DEF Registered, Stake
<1>3. frozen_total[c] = Total(f, Stakes) /\ frozen_total[c] \in Nat
  BY <1>2 DEF RewardInv, TotalsMatchStakes, CoinTypeOK
<1>4. \A r \in Stakes : f[r] \in Nat
  BY <1>1 DEF PointsIn
<1>5. f[s] = stake[s].points
  BY DEF PointsIn
<1> HIDE DEF f
<1>6. f[s] <= Total(f, Stakes)
  BY <1>4, StakesFinite, TotalCovers
<1> QED BY <1>1, <1>2, <1>3, <1>5, <1>6

\* The share of points that are no more than the stake's.
LEMMA ShareOfPoints ==
  ASSUME RewardInv, CoinTypeOK, frozen, NEW s \in Open, NEW points \in Nat,
         points <= stake[s].points
  PROVE  /\ Share(s, points) \in Nat
         /\ Share(s, points) <= Share(s, stake[s].points)
         /\ Share(s, stake[s].points) \in Nat
         /\ LET total  == frozen_total[stake[s].cohort]
                supply == CohortSupply(stake[s].cohort)
            IN  /\ total = 0 => Share(s, points) = 0 /\ points = 0
                /\ total > 0 => Share(s, points) = (supply * points) \div total
<1> DEFINE total  == frozen_total[stake[s].cohort]
           supply == CohortSupply(stake[s].cohort)
           all    == stake[s].points
<1>1. s \in Stakes /\ Registered(s)
  BY DEF Open
<1>2. all \in Nat /\ total \in Nat /\ all <= total /\ stake[s].cohort \in Cohorts
  BY <1>1, PointsFit
<1>3. supply \in Nat /\ supply < 2^SupplyBits
  BY <1>2, CohortSupplyType
<1>4. Share(s, points) = PointsToAmount(supply, points, total)
      /\ Share(s, all) = PointsToAmount(supply, all, total)
  BY DEF Share
<1> HIDE DEF total, supply, all
<1>5. points <= all
  BY DEF all
<1>6. CASE total = 0
  <2>1. points = 0 /\ Share(s, points) = 0 /\ Share(s, all) = 0
    BY <1>2, <1>4, <1>5, <1>6 DEF PointsToAmount
  <2> QED BY <1>6, <2>1 DEF total, supply, all
<1>7. CASE total > 0
  <2>1. points <= total
    BY <1>2, <1>5
  <2>2. /\ Share(s, points) = (supply * points) \div total
        /\ Share(s, all) = (supply * all) \div total
    BY <1>2, <1>3, <1>4, <1>7, <2>1, ShareIsExact
  <2>3. supply * points \in Nat /\ supply * all \in Nat /\ supply * points <= supply * all
    BY <1>2, <1>3, <1>5
  <2>4. (supply * points) * total <= (supply * all) * total
    <3> DEFINE x == supply * points
               y == supply * all
    <3>1. x \in Nat /\ y \in Nat /\ x <= y
      BY <2>3
    <3> HIDE DEF x, y
    <3>2. x * total <= y * total
      BY <1>2, <3>1
    <3> QED BY <3>2 DEF x, y
  <2>5. (supply * points) \div total <= (supply * all) \div total
    BY <1>2, <1>7, <2>3, <2>4, QuotientMonotone
  <2>6. (supply * points) \div total \in Nat /\ (supply * all) \div total \in Nat
    BY <1>2, <1>7, <2>3, Quotient
  <2> QED BY <1>7, <2>2, <2>5, <2>6 DEF total, supply, all
<1> QED BY <1>2, <1>6, <1>7

LEMMA OpenFinite ==
  /\ Open \subseteq Stakes /\ IsFiniteSet(Open)
  /\ \A c \in Cohorts : OpenIn(c) \subseteq Open /\ IsFiniteSet(OpenIn(c))
<1>1. Open \subseteq Stakes /\ \A c \in Cohorts : OpenIn(c) \subseteq Open
  BY DEF Open, OpenIn
<1> QED BY <1>1, StakesFinite, FS_Subset

\* What a cohort's open stakes are worth is no more than its supply.
LEMMA CohortIsCovered ==
  ASSUME RewardInv, CoinTypeOK, frozen, NEW c \in Cohorts
  PROVE  Total(FullShare, OpenIn(c)) <= CohortSupply(c)
<1> DEFINE total  == frozen_total[c]
           supply == CohortSupply(c)
           f      == PointsIn(c)
           O      == OpenIn(c)
<1>1. total \in Nat /\ supply \in Nat /\ total = Total(f, Stakes)
  BY CohortSupplyType DEF CoinTypeOK, RewardInv, TotalsMatchStakes
<1>2. \A s \in Stakes : f[s] \in Nat
  BY DEF PointsIn, RewardInv, RewardTypeOK, Stake
<1>3. O \subseteq Stakes /\ IsFiniteSet(O)
  BY OpenFinite
<1>4. ASSUME NEW s \in O
      PROVE  /\ f[s] = stake[s].points /\ f[s] \in Nat
             /\ total = 0 => FullShare[s] = 0
             /\ total > 0 => FullShare[s] = (f[s] * supply) \div total
  <2>1. s \in Open /\ s \in Stakes /\ stake[s].cohort = c
    BY <1>3 DEF OpenIn
  <2>2. f[s] = stake[s].points /\ f[s] \in Nat
    BY <1>2, <2>1 DEF PointsIn
  <2>3. FullShare[s] = Share(s, stake[s].points)
    BY <2>1 DEF FullShare
  <2>4. supply * f[s] = f[s] * supply
    BY <1>1, <2>2
  <2> QED BY <2>1, <2>2, <2>3, <2>4, ShareOfPoints
<1>5. Total(f, O) <= total
  BY <1>1, <1>2, <1>3, StakesFinite, TotalSubset
<1> HIDE DEF f, O, total, supply
<1>6. CASE total = 0
  <2>1. Total(FullShare, O) = 0
    BY <1>4, <1>6, TotalZero
  <2> QED BY <1>1, <2>1 DEF O, supply
<1>7. CASE total > 0
  <2>1. Total(FullShare, O) <= (total * supply) \div total
    BY <1>1, <1>3, <1>4, <1>5, <1>7, TotalQuotients
  <2>2. (total * supply) \div total = supply
    BY <1>1, <1>7, QuotientExact
  <2> QED BY <2>1, <2>2 DEF O, supply
<1> QED BY <1>1, <1>6, <1>7

\* A total over the open stakes is the sum of the cohorts'.
LEMMA TotalOverCohorts ==
  ASSUME RewardInv, NEW f, \A s \in Open : f[s] \in Nat
  PROVE  /\ \A c \in Cohorts : Total(f, OpenIn(c)) \in Nat
         /\ Total(f, Open) = Total(f, OpenIn("insurance")) + Total(f, OpenIn("backing"))
              + Total(f, OpenIn("lp")) + Total(f, OpenIn("trader")) + Total(f, OpenIn("funding"))
<1> DEFINE O(c) == OpenIn(c)
           R1 == Open \ O("insurance")
           R2 == R1 \ O("backing")
           R3 == R2 \ O("lp")
           R4 == R3 \ O("trader")
<1>1. \A s \in Open : stake[s].cohort \in Cohorts
  BY DEF Open, Registered, RewardInv, RewardTypeOK, Stake
<1>2. /\ O("insurance") \in SUBSET Open /\ O("backing") \in SUBSET R1
      /\ O("lp") \in SUBSET R2 /\ O("trader") \in SUBSET R3 /\ R4 = O("funding")
  BY <1>1 DEF OpenIn, Cohorts, CapitalCohorts, FlowCohorts
<1>3. /\ IsFiniteSet(Open) /\ IsFiniteSet(R1) /\ IsFiniteSet(R2) /\ IsFiniteSet(R3)
      /\ R1 \subseteq Open /\ R2 \subseteq Open /\ R3 \subseteq Open
  BY OpenFinite, FS_Subset
<1> HIDE DEF O, R1, R2, R3, R4
<1>4. \A c \in Cohorts : Total(f, OpenIn(c)) \in Nat
  BY OpenFinite, TotalType
<1>5. Total(f, Open) = Total(f, O("insurance")) + Total(f, R1)
  BY <1>2, <1>3, TotalSplit DEF R1
<1>6. Total(f, R1) = Total(f, O("backing")) + Total(f, R2)
  BY <1>2, <1>3, TotalSplit DEF R2
<1>7. Total(f, R2) = Total(f, O("lp")) + Total(f, R3)
  BY <1>2, <1>3, TotalSplit DEF R3
<1>8. Total(f, R3) = Total(f, O("trader")) + Total(f, O("funding"))
  BY <1>2, <1>3, TotalSplit DEF R4
<1>9. /\ Total(f, O("insurance")) \in Nat /\ Total(f, O("backing")) \in Nat
      /\ Total(f, O("lp")) \in Nat /\ Total(f, O("trader")) \in Nat
      /\ Total(f, O("funding")) \in Nat
  BY <1>4 DEF O, Cohorts, CapitalCohorts, FlowCohorts
<1>10. /\ Total(f, R1) \in Nat /\ Total(f, R2) \in Nat /\ Total(f, R3) \in Nat
  BY <1>3, TotalType
<1> QED BY <1>4, <1>5, <1>6, <1>7, <1>8, <1>9, <1>10 DEF O

\* What all open stakes are worth is no more than the supply.
LEMMA SupplyCovers ==
  RewardInv /\ CoinTypeOK =>
    (frozen => Total(FullShare, Open) \in Nat /\ Total(FullShare, Open) <= total_supply)
<1> SUFFICES ASSUME RewardInv, CoinTypeOK, frozen
             PROVE  Total(FullShare, Open) \in Nat /\ Total(FullShare, Open) <= total_supply
  OBVIOUS
<1>1. \A s \in Open : FullShare[s] \in Nat
  <2>1. \A s \in Open : stake[s].points \in Nat
    BY DEF Open, RewardInv, RewardTypeOK, Stake
  <2> QED BY <2>1, ShareOfPoints DEF FullShare
<1>2. /\ \A c \in Cohorts : Total(FullShare, OpenIn(c)) \in Nat
      /\ Total(FullShare, Open) = Total(FullShare, OpenIn("insurance"))
           + Total(FullShare, OpenIn("backing")) + Total(FullShare, OpenIn("lp"))
           + Total(FullShare, OpenIn("trader")) + Total(FullShare, OpenIn("funding"))
  BY <1>1, TotalOverCohorts
<1>3. \A c \in Cohorts : /\ Total(FullShare, OpenIn(c)) <= CohortSupply(c)
                         /\ CohortSupply(c) \in Nat
  BY CohortIsCovered, CohortSupplyType
<1>4. total_supply \in Nat
  BY RewardAssumption DEF CoinTypeOK
<1> QED BY <1>2, <1>3, <1>4, CohortSuppliesFit DEF Cohorts, CapitalCohorts, FlowCohorts

\* A stake is rewarded once, and for no more points than it has.
LEMMA RewardedOnce ==
  ASSUME RewardTypeOK, NEW s \in Stakes
  PROVE  /\ \A points \in Rewarded(s) : points \in Nat /\ points <= stake[s].points
         /\ \A p, q \in Rewarded(s) : p = q
<1> DEFINE st == stake[s]
           x  == s[1]
           all == st.points
<1>1. /\ st \in Stake /\ x \in Accounts
      /\ all \in Nat /\ st.earnings_snap \in Nat /\ st.eligible_accum \in Nat
      /\ st.cohort \in Cohorts \cup {"none"} /\ st.residual_snap \in Nat
  BY LinkedAccount DEF RewardTypeOK, Stake
<1>2. CASE st.cohort = "none"
  <2>1. Rewarded(s) = {}
    BY <1>2 DEF Rewarded, CapitalCohorts
  <2> QED BY <2>1
<1>3. CASE st.cohort = "funding"
  <2>1. Rewarded(s) = {all}
    BY <1>3 DEF Rewarded, CapitalCohorts
  <2> QED BY <1>1, <2>1
<1>4. CASE st.cohort \in CapitalCohorts
  <2> DEFINE weight == FloorLog2(Monus(st.eligible_accum, EffectiveStart(s)))
             left   == Lesser(st.earnings_snap, CapitalAtRisk(x))
  <2>1. Rewarded(s) = {Lesser(all, weight * left)}
    BY <1>4 DEF Rewarded, CapitalCohorts
  <2>2. position[x] \in Position
    BY <1>1 DEF RewardTypeOK
  <2>3. EffectiveStart(s) \in Nat /\ CapitalAtRisk(x) \in Nat
    BY <1>1, <2>2 DEF EffectiveStart, Later, CapitalAtRisk, Position, Stake
  <2>4. Monus(st.eligible_accum, EffectiveStart(s)) \in Nat
    BY <1>1, <2>3 DEF Monus
  <2>5. weight \in Nat /\ left \in Nat
    BY <1>1, <2>3, <2>4, FloorLog2Type DEF Lesser
  <2> HIDE DEF weight, left, all
  <2>6. weight * left \in Nat
    BY <2>5
  <2>7. Lesser(all, weight * left) \in Nat /\ Lesser(all, weight * left) <= all
    BY <1>1, <2>6 DEF Lesser
  <2> QED BY <2>1, <2>7 DEF all
<1>5. CASE st.cohort = "lp" /\ LpDetached(x, st.portfolio_id)
  BY <1>1, <1>5 DEF Rewarded, CapitalCohorts
<1>6. CASE /\ st.cohort \in {"lp", "trader"}
           /\ ~(st.cohort = "lp" /\ LpDetached(x, st.portfolio_id))
  <2> DEFINE W == WitnessedTotals(x, st.portfolio_id)
             net(totals) == Monus(Counter(st.cohort, totals), st.residual_snap)
             cap(totals) == IF st.cohort = "lp" THEN net(totals)
                            ELSE TraderLiveCap(st.earnings_snap, st.eligible_accum, net(totals),
                                               totals["spent"])
             kept(totals) == CapResidualPoints(all, st.earnings_snap, cap(totals))
  <2>1. Rewarded(s) = UNION {IF CapIsExact(all, st.earnings_snap, cap(totals))
                             THEN {kept(totals)} ELSE {} : totals \in W}
    BY <1>6 DEF Rewarded, CapitalCohorts
  <2>2. ASSUME NEW totals \in W PROVE kept(totals) \in Nat /\ kept(totals) <= all
    <3>1. totals \in Flow
      BY <1>1, WitnessType
    <3>2. Counter(st.cohort, totals) \in Nat
      BY <1>6, <3>1, CounterType DEF FlowCohorts
    <3>3. net(totals) \in Nat /\ totals["spent"] \in Nat
      BY <1>1, <3>1, <3>2 DEF Monus, Flow, Counters
    <3> HIDE DEF net
    <3>4. cap(totals) \in Nat
      BY <1>1, <3>3 DEF TraderLiveCap, Lesser, Monus
    <3> DEFINE k == cap(totals)
               n == st.earnings_snap
    <3> HIDE DEF cap
    <3>5. k \in Nat /\ n \in Nat
      BY <1>1, <3>4
    <3> HIDE DEF k, n, all
    <3>6. CASE n = 0 \/ k >= n
      BY <1>1, <3>6 DEF CapResidualPoints, k, n
    <3>7. CASE ~(n = 0 \/ k >= n)
      <4> DEFINE w == all \div n
      <4>1. w \in Nat /\ n * w <= all
        BY <1>1, <3>5, <3>7, Quotient
      <4>2. kept(totals) = w * k
        BY <3>7 DEF CapResidualPoints, k, n
      <4> HIDE DEF w
      <4>3. w * k \in Nat /\ w * k <= n * w
        <5>1. w * k <= w * n /\ w * n = n * w /\ w * k \in Nat
          BY <3>5, <3>7, <4>1
        <5> QED BY <5>1
      <4>4. n * w \in Nat
        BY <3>5, <4>1
      <4> HIDE DEF kept
      <4> QED BY <1>1, <4>1, <4>2, <4>3, <4>4
    <3> QED BY <3>6, <3>7
  <2>3. \A t, u \in W : t = u
    BY DEF WitnessedTotals, WithLive
  <2> HIDE DEF W, kept, all
  <2>4. \A points \in Rewarded(s) : \E totals \in W : points = kept(totals)
    BY <2>1
  <2> QED BY <2>2, <2>3, <2>4 DEF all
<1> QED BY <1>1, <1>2, <1>3, <1>4, <1>5, <1>6 DEF Cohorts, CapitalCohorts, FlowCohorts

\* What a stake is due now is no more than its points, as they were frozen, are worth.
LEMMA DueIsWorth ==
  ASSUME RewardInv, CoinTypeOK, frozen, NEW s \in Open
  PROVE  Due(s) \in Nat /\ Due(s) <= FullShare[s] /\ FullShare[s] \in Nat
<1> DEFINE R == Rewarded(s)
           f == [points \in R |-> Share(s, points)]
<1>1. s \in Stakes /\ RewardTypeOK /\ Registered(s)
  BY DEF Open, RewardInv
<1>2. stake[s].points \in Nat
  BY <1>1, PointsFit
<1>3. FullShare[s] = Share(s, stake[s].points) /\ FullShare[s] \in Nat
  BY <1>2, ShareOfPoints DEF FullShare
<1>4. Due(s) = Total(f, R)
  BY DEF Due
<1>5. CASE R = {}
  <2>1. Total(f, R) = 0
    BY <1>5, TotalZero
  <2> QED BY <1>3, <1>4, <2>1
<1>6. CASE R # {}
  <2>1. PICK p \in R : TRUE
    BY <1>6
  <2>2. R = {p} /\ p \in Nat /\ p <= stake[s].points
    BY <1>1, <2>1, RewardedOnce
  <2>3. Share(s, p) \in Nat /\ Share(s, p) <= FullShare[s]
    BY <1>3, <2>2, ShareOfPoints
  <2>4. f[p] = Share(s, p)
    BY <2>1
  <2> HIDE DEF R, f
  <2>5. Total(f, R) = f[p]
    BY <2>2, <2>3, <2>4, TotalSingle
  <2> QED BY <1>3, <1>4, <2>3, <2>4, <2>5
<1> QED BY <1>5, <1>6

\* Covered is what the open stakes are due.
LEMMA CoverImpliesCovered ==
  ASSUME CoverInv
  PROVE  RewardsAreCovered
<1> SUFFICES ASSUME frozen
             PROVE  LET due == [s \in Open |-> Due(s)]
                    IN  /\ Total(due, Open) <= vault
                        /\ \A c \in Cohorts :
                             Total(due, {s \in Open : stake[s].cohort = c}) <= CohortSupply(c)
                        /\ SharesAreExact
  BY DEF RewardsAreCovered
<1> DEFINE due == [s \in Open |-> Due(s)]
<1> USE DEF CoverInv
<1>1. \A s \in Open : due[s] \in Nat /\ FullShare[s] \in Nat /\ due[s] <= FullShare[s]
  BY DueIsWorth
<1> HIDE DEF due
<1>2. Total(due, Open) <= vault
  <2>1. Total(due, Open) <= Total(FullShare, Open)
    BY <1>1, OpenFinite, TotalMonotone
  <2>2. Total(due, Open) \in Nat /\ Total(FullShare, Open) \in Nat
    BY <1>1, OpenFinite, TotalType
  <2> QED BY <2>1, <2>2 DEF VaultCovers, CoinTypeOK
<1>3. ASSUME NEW c \in Cohorts
      PROVE  Total(due, {s \in Open : stake[s].cohort = c}) <= CohortSupply(c)
  <2>1. /\ {s \in Open : stake[s].cohort = c} = OpenIn(c)
        /\ OpenIn(c) \subseteq Open /\ IsFiniteSet(OpenIn(c))
    BY OpenFinite DEF OpenIn
  <2>2. Total(due, OpenIn(c)) <= Total(FullShare, OpenIn(c))
    BY <1>1, <2>1, TotalMonotone
  <2>3. Total(FullShare, OpenIn(c)) <= CohortSupply(c) /\ CohortSupply(c) \in Nat
    BY CohortIsCovered, CohortSupplyType
  <2>4. Total(due, OpenIn(c)) \in Nat /\ Total(FullShare, OpenIn(c)) \in Nat
    BY <1>1, <2>1, TotalType
  <2> QED BY <2>1, <2>2, <2>3, <2>4
<1>4. ASSUME NEW s \in Open, NEW points \in Rewarded(s), points > 0
      PROVE  LET total  == frozen_total[stake[s].cohort]
                 supply == CohortSupply(stake[s].cohort)
             IN  /\ Share(s, points) * total <= supply * points
                 /\ supply * points < (Share(s, points) + 1) * total
  <2> DEFINE total  == frozen_total[stake[s].cohort]
             supply == CohortSupply(stake[s].cohort)
             q      == Share(s, points)
  <2>1. s \in Stakes /\ Registered(s)
    BY DEF Open
  <2>2. points \in Nat /\ points <= stake[s].points
    BY <2>1, RewardedOnce DEF RewardInv
  <2>3. total \in Nat /\ supply \in Nat
    BY <2>1, PointsFit, CohortSupplyType
  <2>4. total > 0 /\ q = (supply * points) \div total
    BY <1>4, <2>2, <2>3, ShareOfPoints
  <2> HIDE DEF total, supply, q
  <2>5. supply * points \in Nat
    BY <2>2, <2>3
  <2>6. q \in Nat /\ total * q <= supply * points /\ supply * points < total * q + total
    BY <2>3, <2>4, <2>5, Quotient
  <2>7. q * total = total * q /\ (q + 1) * total = total * q + total
    BY <2>3, <2>6
  <2>8. q * total <= supply * points /\ supply * points < (q + 1) * total
    BY <2>6, <2>7
  <2> QED BY <2>8 DEF total, supply, q
<1>5. SharesAreExact
  BY <1>4 DEF SharesAreExact
<1> QED BY <1>2, <1>3, <1>5 DEF due

----------------------------------------------------------------------------
LEMMA CoverInit == RewardInit => CoverInv
<1>1. RewardInit => CoinTypeOK /\ VaultCovers
  BY RewardAssumption DEF RewardInit, CoinTypeOK, VaultCovers
<1> QED BY <1>1, RewardInvInit DEF CoverInv

\* The frozen COIN covers what it is divided among.
LEMMA FreezeCovers ==
  ASSUME CoverInv, RewardInv', Freeze,
         (RewardInv /\ CoinTypeOK =>
            (frozen => Total(FullShare, Open) \in Nat
                         /\ Total(FullShare, Open) <= total_supply))'
  PROVE  CoinTypeOK' /\ VaultCovers'
<1>1. /\ frozen' = TRUE /\ vault' = vault /\ frozen_total' = points_total
      /\ total_supply' = IF total_supply # 0 THEN total_supply ELSE vault
      /\ ~frozen
      /\ total_supply # 0 => vault >= total_supply
  BY DEF Freeze, Funded, coin_vars
<1>2. vault \in Nat /\ vault <= MintSupply /\ total_supply \in 0 .. MintSupply
      /\ points_total \in [Cohorts -> Nat] /\ MintSupply \in Nat
  BY <1>1, RewardAssumption DEF CoverInv, CoinTypeOK, RewardInv, RewardTypeOK
<1>3. CoinTypeOK' /\ total_supply' <= vault' /\ total_supply' \in Nat /\ vault' \in Nat
  BY <1>1, <1>2 DEF CoinTypeOK
<1>4. Total(FullShare, Open)' \in Nat /\ Total(FullShare, Open)' <= total_supply'
  BY <1>1, <1>3
<1> QED BY <1>3, <1>4 DEF VaultCovers

\* Whatever leaves the stakes and the frozen supply alone, and takes nothing out of
\* the vault.
LEMMA UntouchedCovers ==
  ASSUME CoverInv, RewardInv', UNCHANGED <<total_supply, frozen, frozen_total, stake>>,
         vault' \in Nat, vault' >= vault, ~frozen => vault' <= MintSupply
  PROVE  CoinTypeOK' /\ VaultCovers'
<1>1. CoinTypeOK'
  BY DEF CoverInv, CoinTypeOK
<1>2. Total(FullShare, Open)' = Total(FullShare, Open)
  BY DEF Total, Units, FullShare, Open, Registered, Share, CohortSupply
<1>3. frozen => Total(FullShare, Open) \in Nat
  BY SupplyCovers DEF CoverInv
<1>4. VaultCovers'
  BY <1>2, <1>3 DEF CoverInv, VaultCovers, CoinTypeOK
<1> QED BY <1>1, <1>4

\* Before the freeze there is nothing to cover.
LEMMA UnfrozenCovers ==
  ASSUME CoverInv, ~frozen, UNCHANGED <<total_supply, frozen, frozen_total, coin_vars>>
  PROVE  CoinTypeOK' /\ VaultCovers'
BY DEF CoverInv, CoinTypeOK, VaultCovers, coin_vars

\* A claim takes no more than its stake was worth.
LEMMA ClaimCovers ==
  ASSUME CoverInv, NEW s \in Stakes, Claim(s)
  PROVE  CoinTypeOK' /\ VaultCovers'
<1>1. /\ frozen /\ s \in Open
      /\ UNCHANGED <<total_supply, frozen, frozen_total>>
      /\ stake' = [stake EXCEPT ![s].claimed = TRUE]
  BY DEF Claim, Open, config_vars
<1>2. PICK points \in Rewarded(s) :
        LET payout == Share(s, points) - Fee(s, Share(s, points))
        IN  payout <= vault /\ vault' = vault - payout
  BY DEF Claim
<1> DEFINE share  == Share(s, points)
           fee    == Fee(s, share)
           payout == share - fee
<1>3. points \in Nat /\ points <= stake[s].points
  BY <1>1, <1>2, RewardedOnce DEF CoverInv, RewardInv
<1>4. share \in Nat /\ share <= FullShare[s] /\ FullShare[s] \in Nat
  BY <1>1, <1>3, ShareOfPoints DEF CoverInv, FullShare
<1>5. fee \in Nat
  <2> HIDE DEF share
  <2>1. Bps \in Nat /\ Bps > 0 /\ FeeBps \in Nat
    BY RewardAssumption
  <2>2. share * FeeBps \in Nat
    BY <1>4, <2>1
  <2>3. share * FeeBps + Bps - 1 \in Nat
    BY <2>1, <2>2
  <2>4. (share * FeeBps + Bps - 1) \div Bps \in Nat
    BY <2>1, <2>3, Quotient
  <2> QED BY <2>4 DEF Fee, CeilDiv
<1> HIDE DEF fee
<1>6. vault' = vault - payout /\ payout <= vault /\ vault \in Nat
  BY <1>2 DEF fee, CoverInv, CoinTypeOK
<1> HIDE DEF share
<1>7. vault' \in Nat /\ vault' >= vault - FullShare[s]
  BY <1>4, <1>5, <1>6
<1>8. CoinTypeOK'
  BY <1>1, <1>7 DEF CoverInv, CoinTypeOK
<1>9. Open' = Open \ {s} /\ \A r \in Open' : stake'[r] = stake[r]
  BY <1>1 DEF Open, Registered, CoverInv, RewardInv, RewardTypeOK, Stake
<1>10. \A r \in Open' : FullShare'[r] = FullShare[r]
  BY <1>1, <1>9 DEF FullShare, Share, CohortSupply
<1>11. \A r \in Open : FullShare[r] \in Nat
  <2>1. \A r \in Open : stake[r].points \in Nat
    BY DEF Open, CoverInv, RewardInv, RewardTypeOK, Stake
  <2> QED BY <1>1, <2>1, ShareOfPoints DEF FullShare, CoverInv
<1>12. /\ Total(FullShare, Open) = FullShare[s] + Total(FullShare, Open \ {s})
       /\ Total(FullShare, Open \ {s}) \in Nat
  BY <1>1, <1>11, OpenFinite, TotalRemove
<1>13. Total(FullShare', Open') = Total(FullShare, Open \ {s})
  BY <1>9, <1>10, TotalSame
<1>14. Total(FullShare, Open) <= vault
  BY <1>1 DEF CoverInv, VaultCovers
<1>15. Total(FullShare', Open') <= vault'
  BY <1>4, <1>6, <1>7, <1>12, <1>13, <1>14
<1> QED BY <1>8, <1>15 DEF VaultCovers

LEMMA CoverNext ==
  ASSUME CoverInv, [RewardNext]_reward_vars, RewardInv',
         (RewardInv /\ CoinTypeOK =>
            (frozen => Total(FullShare, Open) \in Nat
                         /\ Total(FullShare, Open) <= total_supply))'
  PROVE  CoinTypeOK' /\ VaultCovers'
<1> DEFINE config == <<total_supply, frozen, frozen_total>>
<1>0. /\ vault \in Nat
      /\ ~frozen => vault <= MintSupply
  BY DEF CoverInv, CoinTypeOK
<1>1. CASE UNCHANGED <<config, stake, vault>>
  BY <1>0, <1>1, UntouchedCovers
<1>2. CASE ~frozen /\ UNCHANGED <<config, coin_vars>>
  BY <1>2, UnfrozenCovers
<1>3. CASE Freeze
  BY <1>3, FreezeCovers
<1>4. CASE \E s \in Stakes : Claim(s)
  BY <1>4, ClaimCovers
<1>5. CASE \E n \in Supplies \ {0} : FundVault(n)
  <2>1. PICK n \in Supplies \ {0} : FundVault(n)
    BY <1>5
  <2>2. n \in Nat /\ MintSupply \in Nat
    BY RewardAssumption
  <2>3. vault' = vault + n /\ vault + n <= MintSupply /\ UNCHANGED <<config, stake>>
    BY <2>1 DEF FundVault, Outside, config_vars
  <2>4. vault' \in Nat /\ vault' >= vault /\ vault' <= MintSupply
    BY <1>0, <2>2, <2>3
  <2> QED BY <2>3, <2>4, UntouchedCovers
<1>6. CASE \E x \in roster \cap Accounts :
             \/ RegisterCapital(x)
             \/ \E cohort \in roster \cap FlowCohorts : RegisterPortfolio(x, cohort)
  BY <1>2, <1>6 DEF RegisterCapital, RegisterPortfolio, Register, config_vars
<1>7. CASE \E x \in roster \cap Accounts : ByOwner(x) \/ ByPublic(x)
  BY <1>1, <1>7
  DEF ByOwner, ByPublic, Deposit, Withdraw, OpenPortfolio, ClosePortfolio, Accrue,
      TerminalReturn, CleanUp, UnarchivedClose, Outside, config_vars, coin_vars
<1>8. CASE \E s \in Stakes : CrystallizeCapital(s) \/ CrystallizeFlow(s)
  <2>1. PICK s \in Stakes : \E points, net, accum : Recredit(s, points, net, accum)
    BY <1>8 DEF CrystallizeCapital, CrystallizeFlow
  <2>2. ~frozen /\ UNCHANGED <<config, coin_vars>>
    BY <2>1 DEF Recredit
  <2> QED BY <1>2, <2>2
<1>9. CASE NextPhase \/ RevokeMint \/ RewardTime
  BY <1>1, <1>9 DEF NextPhase, RevokeMint, RewardTime, Outside, config_vars, coin_vars
<1>10. CASE UNCHANGED reward_vars
  BY <1>1, <1>10 DEF reward_vars, config_vars, coin_vars
<1> QED BY <1>3, <1>4, <1>5, <1>6, <1>7, <1>8, <1>9, <1>10 DEF RewardNext

\* Whoever claims first and whatever claims were cut to, what all open stakes are due
\* is in the vault, no cohort is due more than its supply, and no stake less than its
\* exact part, where products overflow as well (points_to_amount, freeze, claim).
THEOREM RewardsAlwaysCovered == RewardSpec => []RewardsAreCovered
<1>1. CoverInv /\ [RewardNext]_reward_vars => RewardInv'
  BY RewardInvNext DEF CoverInv
<1>2. /\ CoverInv /\ [RewardNext]_reward_vars /\ RewardInv'
      /\ (RewardInv /\ CoinTypeOK =>
            (frozen => Total(FullShare, Open) \in Nat
                         /\ Total(FullShare, Open) <= total_supply))'
      => CoverInv'
  BY CoverNext DEF CoverInv
<1>3. CoverInv => RewardsAreCovered
  BY CoverImpliesCovered
<1> QED BY CoverInit, <1>1, <1>2, <1>3, SupplyCovers, PTL DEF RewardSpec

----------------------------------------------------------------------------
(* What stakes are rewarded for.                                             *)

\* Portfolios are opened under ever higher numbers, and archived in that order.
IdsOK ==
  /\ next_portfolio_id \in Nat \ {0}
  /\ \A x \in Accounts :
       /\ portfolio[x].holder # "owner" => portfolio[x].id = 0
       /\ archive[x].exists => archive[x].id \in 1 .. next_portfolio_id - 1
       /\ portfolio[x].holder = "owner" /\ market # "retired" =>
            /\ portfolio[x].id \in 1 .. next_portfolio_id - 1
            /\ archive[x].exists => archive[x].id < portfolio[x].id

\* The owner's portfolio that a stake bound to id is about.
LiveUnder(x, id) ==
  market # "retired" /\ portfolio[x].holder = "owner" /\ portfolio[x].id = id

Archives(x, id) == archive[x].exists /\ archive[x].id = id

Witnesses ==
  \A x \in Accounts : \A id \in Nat :
    /\ LiveUnder(x, id) =>
         /\ WitnessedTotals(x, id) = {Plus(archive[x].counters, portfolio[x].counters)}
         /\ ~Archives(x, id)
    /\ ~LiveUnder(x, id) =>
         WitnessedTotals(x, id) = IF Archives(x, id) THEN {archive[x].counters} ELSE {}

LEMMA WitnessOnce == RewardTypeOK /\ IdsOK => Witnesses
<1> SUFFICES ASSUME RewardTypeOK, IdsOK, NEW x \in Accounts, NEW id \in Nat
             PROVE  /\ LiveUnder(x, id) =>
                         /\ WitnessedTotals(x, id)
                              = {Plus(archive[x].counters, portfolio[x].counters)}
                         /\ ~Archives(x, id)
                    /\ ~LiveUnder(x, id) =>
                         WitnessedTotals(x, id)
                           = IF Archives(x, id) THEN {archive[x].counters} ELSE {}
  BY DEF Witnesses
<1>1. (\E live \in LiveOf(x) : live.id = id) <=>
        portfolio[x].holder = "owner" /\ portfolio[x].id = id
  BY DEF LiveOf
<1>2. archive[x].id \in Nat /\ portfolio[x].id \in Nat
  BY DEF RewardTypeOK, Archive, Portfolio
<1>3. LiveUnder(x, id) => ~(archive[x].exists /\ portfolio[x].id <= archive[x].id)
  BY <1>2 DEF LiveUnder, IdsOK
<1>4. LiveUnder(x, id) => ~Archives(x, id)
  BY <1>2, <1>3 DEF LiveUnder, Archives
<1>5. LiveUnder(x, id) => WitnessedTotals(x, id) = WithLive(x, portfolio[x])
  BY <1>1 DEF LiveUnder, WitnessedTotals
<1>6. LiveUnder(x, id) =>
        WithLive(x, portfolio[x]) = {Plus(archive[x].counters, portfolio[x].counters)}
  BY <1>3 DEF WithLive
<1>7. ~LiveUnder(x, id) =>
        WitnessedTotals(x, id) = IF Archives(x, id) THEN {archive[x].counters} ELSE {}
  BY <1>1 DEF LiveUnder, Archives, WitnessedTotals
<1> QED BY <1>4, <1>5, <1>6, <1>7

LEMMA WitnessOnceNext ==
  ASSUME RewardTypeOK', IdsOK'
  PROVE  Witnesses'
  BY WitnessOnce, PTL

\* A stake's portfolio stays as it was, or is gone for it.
Quiet ==
  /\ next_portfolio_id' >= next_portfolio_id
  /\ \A x \in Accounts : \A id \in 1 .. next_portfolio_id - 1 :
       /\ LiveUnder(x, id)' =>
            LiveUnder(x, id) /\ portfolio'[x].counters = portfolio[x].counters
       /\ WitnessedTotals(x, id)' \subseteq WitnessedTotals(x, id)

LEMMA QuietWithoutArchiving ==
  ASSUME RewardTypeOK, RewardTypeOK', IdsOK, IdsOK', UNCHANGED archive,
         next_portfolio_id' >= next_portfolio_id,
         \A x \in Accounts : \A id \in 1 .. next_portfolio_id - 1 :
           LiveUnder(x, id)' =>
             LiveUnder(x, id) /\ portfolio'[x].counters = portfolio[x].counters
  PROVE  Quiet
<1>1. Witnesses /\ Witnesses'
  BY WitnessOnce, WitnessOnceNext
<1> SUFFICES ASSUME NEW x \in Accounts, NEW id \in 1 .. next_portfolio_id - 1
             PROVE  WitnessedTotals(x, id)' \subseteq WitnessedTotals(x, id)
  BY DEF Quiet
<1>2. id \in Nat
  BY DEF IdsOK
<1>3. Archives(x, id)' <=> Archives(x, id)
  BY DEF Archives
<1>4. CASE LiveUnder(x, id)'
  <2>1. LiveUnder(x, id) /\ portfolio'[x].counters = portfolio[x].counters
    BY <1>4
  <2>2. WitnessedTotals(x, id) = {Plus(archive[x].counters, portfolio[x].counters)}
    BY <1>1, <1>2, <2>1 DEF Witnesses
  <2>3. WitnessedTotals(x, id)' = {Plus(archive'[x].counters, portfolio'[x].counters)}
    BY <1>1, <1>2, <1>4 DEF Witnesses
  <2> QED BY <2>1, <2>2, <2>3
<1>5. CASE ~LiveUnder(x, id)'
  <2>1. WitnessedTotals(x, id)' = IF Archives(x, id)' THEN {archive'[x].counters} ELSE {}
    BY <1>1, <1>2, <1>5 DEF Witnesses
  <2>2. Archives(x, id) => WitnessedTotals(x, id) = {archive[x].counters}
    BY <1>1, <1>2 DEF Witnesses
  <2> QED BY <1>3, <2>1, <2>2
<1> QED BY <1>4, <1>5

----------------------------------------------------------------------------
LEMMA IdsElsewhere ==
  ASSUME IdsOK, UNCHANGED <<portfolio, next_portfolio_id, market, archive>>
  PROVE  IdsOK'
  BY DEF IdsOK

LEMMA QuietElsewhere ==
  ASSUME RewardTypeOK, RewardTypeOK', IdsOK, UNCHANGED <<portfolio, next_portfolio_id, market, archive>>
  PROVE  IdsOK' /\ Quiet
<1>1. IdsOK' /\ next_portfolio_id' >= next_portfolio_id
  BY DEF IdsOK
<1>2. \A x \in Accounts : \A id : LiveUnder(x, id)' => LiveUnder(x, id)
  BY DEF LiveUnder
<1> QED BY <1>1, <1>2, QuietWithoutArchiving

LEMMA QuietNextPhase ==
  ASSUME RewardTypeOK, RewardTypeOK', IdsOK, NextPhase
  PROVE  IdsOK' /\ Quiet
<1>1. /\ UNCHANGED <<portfolio, next_portfolio_id, archive>>
      /\ market # "retired"
  BY DEF NextPhase, portfolio_vars
<1>2. IdsOK' /\ next_portfolio_id' >= next_portfolio_id
  BY <1>1 DEF IdsOK
<1>3. \A x \in Accounts : \A id : LiveUnder(x, id)' => LiveUnder(x, id)
  BY <1>1 DEF LiveUnder
<1> QED BY <1>1, <1>2, <1>3, QuietWithoutArchiving

LEMMA QuietClose ==
  ASSUME RewardTypeOK, RewardTypeOK', IdsOK, NEW y \in Accounts, ClosePortfolio(y)
  PROVE  IdsOK' /\ Quiet
<1>1. /\ UNCHANGED <<next_portfolio_id, archive, market>>
      /\ portfolio' = [portfolio EXCEPT ![y] = NoPortfolio]
  BY DEF ClosePortfolio, Outside
<1>2. \A x \in Accounts : portfolio'[x] = IF x = y THEN NoPortfolio ELSE portfolio[x]
  BY <1>1 DEF RewardTypeOK
<1>3. NoPortfolio.holder = "none" /\ NoPortfolio.id = 0
  BY DEF NoPortfolio
<1>4. IdsOK' /\ next_portfolio_id' >= next_portfolio_id
  BY <1>1, <1>2, <1>3 DEF IdsOK
<1>5. \A x \in Accounts : \A id :
        LiveUnder(x, id)' => LiveUnder(x, id) /\ portfolio'[x].counters = portfolio[x].counters
  BY <1>1, <1>2, <1>3 DEF LiveUnder
<1> QED BY <1>1, <1>4, <1>5, QuietWithoutArchiving

LEMMA QuietOpen ==
  ASSUME RewardTypeOK, RewardTypeOK', IdsOK, NEW y \in Accounts,
         NEW holder \in {"owner", "other"}, OpenPortfolio(y, holder)
  PROVE  IdsOK' /\ Quiet
<1>1. PICK id \in IF holder = "other" THEN {0}
                  ELSE IF market = "retired" THEN 1 .. next_portfolio_id
                  ELSE {next_portfolio_id} :
        /\ portfolio' = [portfolio EXCEPT ![y] =
                           [holder |-> holder, id |-> id, counters |-> NoFlow]]
        /\ next_portfolio_id' = IF id = next_portfolio_id THEN id + 1 ELSE next_portfolio_id
  BY DEF OpenPortfolio
<1>2. UNCHANGED <<archive, market>> /\ portfolio[y].holder = "none"
  BY DEF OpenPortfolio, Outside
<1> DEFINE opened == [holder |-> holder, id |-> id, counters |-> NoFlow]
<1>3. \A x \in Accounts : portfolio'[x] = IF x = y THEN opened ELSE portfolio[x]
  BY <1>1 DEF RewardTypeOK
<1>4. /\ next_portfolio_id \in Nat \ {0} /\ id \in Nat
      /\ next_portfolio_id' \in Nat \ {0} /\ next_portfolio_id' >= next_portfolio_id
      /\ holder = "owner" /\ market # "retired" =>
           id = next_portfolio_id /\ next_portfolio_id' = next_portfolio_id + 1
      /\ holder # "owner" => id = 0
  BY <1>1 DEF IdsOK
<1>5. opened.holder = holder /\ opened.id = id
  OBVIOUS
<1> HIDE DEF opened
<1>6. ASSUME NEW x \in Accounts
      PROVE  /\ portfolio'[x].holder # "owner" => portfolio'[x].id = 0
             /\ archive'[x].exists => archive'[x].id \in 1 .. next_portfolio_id' - 1
             /\ portfolio'[x].holder = "owner" /\ market' # "retired" =>
                  /\ portfolio'[x].id \in 1 .. next_portfolio_id' - 1
                  /\ archive'[x].exists => archive'[x].id < portfolio'[x].id
  <2>1. /\ archive'[x] = archive[x] /\ market' = market
        /\ archive[x].exists => archive[x].id \in 1 .. next_portfolio_id - 1
    BY <1>2 DEF IdsOK
  <2>2. CASE x = y
    BY <1>3, <1>4, <1>5, <2>1, <2>2
  <2>3. CASE x # y
    <3>1. /\ portfolio[x].holder # "owner" => portfolio[x].id = 0
          /\ portfolio[x].holder = "owner" /\ market # "retired" =>
               /\ portfolio[x].id \in 1 .. next_portfolio_id - 1
               /\ archive[x].exists => archive[x].id < portfolio[x].id
      BY DEF IdsOK
    <3> QED BY <1>3, <1>4, <2>1, <2>3, <3>1
  <2> QED BY <2>2, <2>3
<1>7. IdsOK'
  BY <1>4, <1>6 DEF IdsOK
<1>8. ASSUME NEW x \in Accounts, NEW n \in 1 .. next_portfolio_id - 1, LiveUnder(x, n)'
      PROVE  LiveUnder(x, n) /\ portfolio'[x].counters = portfolio[x].counters
  <2>1. x # y
    BY <1>2, <1>3, <1>4, <1>5, <1>8 DEF LiveUnder
  <2> QED BY <1>2, <1>3, <1>8, <2>1 DEF LiveUnder
<1> QED BY <1>2, <1>4, <1>7, <1>8, QuietWithoutArchiving

LEMMA QuietCleanUp ==
  ASSUME RewardTypeOK, RewardTypeOK', IdsOK, NEW y \in Accounts, CleanUp(y)
  PROVE  IdsOK' /\ Quiet
<1>1. /\ market = "resolved" /\ portfolio[y].holder = "owner"
      /\ archive' = [archive EXCEPT ![y] = Archived(y)]
      /\ portfolio' = [portfolio EXCEPT ![y] = NoPortfolio]
      /\ UNCHANGED <<market, next_portfolio_id>>
  BY DEF CleanUp
<1>2. \A x \in Accounts : /\ portfolio'[x] = IF x = y THEN NoPortfolio ELSE portfolio[x]
                          /\ archive'[x] = IF x = y THEN Archived(y) ELSE archive[x]
  BY <1>1 DEF RewardTypeOK
<1>3. /\ NoPortfolio.holder = "none" /\ NoPortfolio.id = 0
      /\ Archived(y).exists = TRUE /\ Archived(y).id = portfolio[y].id
      /\ Archived(y).counters = Plus(archive[y].counters, portfolio[y].counters)
  BY DEF NoPortfolio, Archived
<1>4. IdsOK'
  BY <1>1, <1>2, <1>3 DEF IdsOK
<1>5. Witnesses /\ Witnesses'
  BY <1>4, WitnessOnce, WitnessOnceNext
<1>6. ASSUME NEW x \in Accounts, NEW id \in 1 .. next_portfolio_id - 1
      PROVE  /\ LiveUnder(x, id)' =>
                  LiveUnder(x, id) /\ portfolio'[x].counters = portfolio[x].counters
             /\ WitnessedTotals(x, id)' \subseteq WitnessedTotals(x, id)
  <2>1. id \in Nat
    BY DEF IdsOK
  <2>2. CASE x # y
    <3>1. portfolio'[x] = portfolio[x] /\ archive'[x] = archive[x]
      BY <1>2, <2>2
    <3>2. /\ LiveUnder(x, id)' <=> LiveUnder(x, id)
          /\ Archives(x, id)' <=> Archives(x, id)
      BY <1>1, <3>1 DEF LiveUnder, Archives
    <3>3. CASE LiveUnder(x, id)
      <4>1. /\ WitnessedTotals(x, id) = {Plus(archive[x].counters, portfolio[x].counters)}
            /\ WitnessedTotals(x, id)' = {Plus(archive'[x].counters, portfolio'[x].counters)}
        BY <1>5, <2>1, <3>2, <3>3 DEF Witnesses
      <4> QED BY <3>1, <3>2, <4>1
    <3>4. CASE ~LiveUnder(x, id)
      <4>1. /\ WitnessedTotals(x, id) = IF Archives(x, id) THEN {archive[x].counters} ELSE {}
            /\ WitnessedTotals(x, id)' = IF Archives(x, id)' THEN {archive'[x].counters} ELSE {}
        BY <1>5, <2>1, <3>2, <3>4 DEF Witnesses
      <4> QED BY <3>1, <3>2, <3>4, <4>1
    <3> QED BY <3>3, <3>4
  <2>3. CASE x = y
    <3>1. ~LiveUnder(x, id)'
      BY <1>2, <1>3, <2>3 DEF LiveUnder
    <3>2. WitnessedTotals(x, id)' = IF Archives(x, id)' THEN {archive'[x].counters} ELSE {}
      BY <1>5, <2>1, <3>1 DEF Witnesses
    <3>3. Archives(x, id)' => LiveUnder(x, id)
      BY <1>1, <1>2, <1>3, <2>3 DEF Archives, LiveUnder
    <3>4. LiveUnder(x, id) =>
            WitnessedTotals(x, id) = {Plus(archive[x].counters, portfolio[x].counters)}
      BY <1>5, <2>1 DEF Witnesses
    <3> QED BY <1>2, <1>3, <2>3, <3>1, <3>2, <3>3, <3>4
  <2> QED BY <2>2, <2>3
<1>7. next_portfolio_id' >= next_portfolio_id
  BY <1>1 DEF IdsOK
<1> QED BY <1>4, <1>6, <1>7 DEF Quiet

----------------------------------------------------------------------------
(* What was earned since a stake was registered.                            *)

\* What left stays out, and only what left was returned.
PositionsOK ==
  \A x \in Accounts : /\ position[x].withdrawn => position[x].principal = 0
                      /\ position[x].returned # 0 => position[x].withdrawn

\* The longest time weight of a flow stake.
Age(s) == FloorLog2(EpochEnd - stake[s].start_slot)

\* A witness tells what the stake started from and what was earned since.
WitnessOK(s, start) ==
  \A totals \in WitnessedTotals(s[1], stake[s].portfolio_id) : \A c \in Counters :
    c = "spent" \/ slot <= EpochEnd => totals[c] = start[c] + earned[s][c]

\* Points, and the loss they were given for, are of what was earned since.
PointsOK(s, start) ==
  /\ stake[s].residual_snap = Counter(stake[s].cohort, start)
  /\ stake[s].cohort = "lp" => stake[s].points <= Age(s) * earned[s]["received"]
  /\ stake[s].cohort = "funding" => stake[s].points <= earned[s]["funding"]
  /\ stake[s].cohort = "trader" =>
       /\ stake[s].points <= Age(s) * stake[s].earnings_snap
       /\ stake[s].earnings_snap # 0 =>
            stake[s].earnings_snap + stake[s].eligible_accum <= start["spent"] + earned[s]["loss"]

FlowStakeOK(s) ==
  /\ stake[s].portfolio_id \in 1 .. next_portfolio_id - 1
  /\ stake[s].start_slot < EpochEnd
  /\ LiveUnder(s[1], stake[s].portfolio_id) =>
       \A c \in Counters : earned[s][c] <= portfolio[s[1]].counters[c]
  /\ \E start \in Flow : WitnessOK(s, start) /\ PointsOK(s, start)

StakeOK(s) ==
  /\ ~Registered(s) => earned[s] = NoFlow
  /\ stake[s].cohort \in CapitalCohorts => stake[s].eligible_accum <= EpochEnd
  /\ stake[s].cohort \in FlowCohorts => FlowStakeOK(s)

StakesOK == earned \in [Stakes -> Flow] /\ \A s \in Stakes : StakeOK(s)

EarnedInv == RewardInv /\ IdsOK /\ PositionsOK /\ StakesOK

----------------------------------------------------------------------------
LEMMA FlowValues ==
  ASSUME NEW f \in Flow
  PROVE  /\ \A c \in Counters : f[c] \in Nat
         /\ f["received"] \in Nat /\ f["loss"] \in Nat /\ f["spent"] \in Nat /\ f["funding"] \in Nat
BY DEF Flow, Counters

LEMMA CohortKinds ==
  /\ CapitalCohorts \cap FlowCohorts = {}
  /\ "none" \notin CapitalCohorts /\ "none" \notin FlowCohorts
BY DEF CapitalCohorts, FlowCohorts

\* A time weight grows with the time.
LEMMA FloorLog2Monotone ==
  ASSUME NEW m \in Int, NEW n \in Int, m <= n
  PROVE  FloorLog2(m) <= FloorLog2(n)
<1> DEFINE K(i) == {k \in 1 .. i : 2^k <= i}
<1>1. IsFiniteSet(1 .. n)
  BY FS_Interval
<1>2. K(n) \subseteq 1 .. n
  OBVIOUS
<1>3. K(m) \subseteq K(n)
  <2> SUFFICES ASSUME NEW k \in 1 .. m, 2^k <= m PROVE k \in 1 .. n /\ 2^k <= n
    OBVIOUS
  <2>1. k \in Nat
    OBVIOUS
  <2>2. 2^k \in Nat
    BY <2>1, PowerPositive
  <2> QED BY <2>2
<1> HIDE DEF K
<1>4. IsFiniteSet(K(n))
  BY <1>1, <1>2, FS_Subset
<1>5. Cardinality(K(m)) <= Cardinality(K(n))
  BY <1>3, <1>4, FS_Subset
<1> QED BY <1>5 DEF K, FloorLog2

LEMMA ProductMonotone ==
  ASSUME NEW a \in Nat, NEW b \in Nat, NEW c \in Nat, NEW d \in Nat, a <= c, b <= d
  PROVE  a * b <= c * d /\ a * b \in Nat /\ c * d \in Nat
<1>1. a * b <= a * d /\ a * d <= c * d /\ a * b \in Nat /\ a * d \in Nat /\ c * d \in Nat
  OBVIOUS
<1> QED BY <1>1

\* A cut loses the points of what is cut off.
LEMMA CutPoints ==
  ASSUME NEW age \in Nat, NEW points \in Nat, NEW net \in Nat, NEW cap \in Nat,
         points <= age * net
  PROVE  CapResidualPoints(points, net, cap) <= age * Lesser(net, cap)
<1>1. age * net \in Nat /\ age * cap \in Nat /\ age * 0 = 0
  OBVIOUS
<1>2. CASE net = 0
  BY <1>1, <1>2 DEF CapResidualPoints, Lesser
<1>3. CASE net # 0 /\ cap >= net
  BY <1>1, <1>3 DEF CapResidualPoints, Lesser
<1>4. CASE net # 0 /\ ~(cap >= net)
  <2> DEFINE w == points \div net
  <2>1. w \in Nat /\ net * w <= points
    BY <1>4, Quotient
  <2>2. w <= age
    <3>1. net * age = age * net
      OBVIOUS
    <3>2. points < net * age + net
      BY <1>1, <1>4, <3>1
    <3> QED BY <1>4, <3>2, QuotientAtMost
  <2> HIDE DEF w
  <2>3. w * cap <= age * cap
    BY <2>1, <2>2, ProductMonotone
  <2>4. CapResidualPoints(points, net, cap) = w * cap /\ Lesser(net, cap) = cap
    BY <1>4 DEF CapResidualPoints, Lesser, w
  <2> QED BY <2>3, <2>4
<1> QED BY <1>2, <1>3, <1>4

\* A trader's loss that is rewarded was lost since the start and not won back.
LEMMA LossSinceStart ==
  ASSUME NEW lost0 \in Nat, NEW spent0 \in Nat, NEW lost \in Nat, NEW spent \in Nat,
         NEW net, net = Monus(Monus(lost0 + lost, spent0 + spent), Monus(lost0, spent0))
  PROVE  net \in Nat /\ (net # 0 => net + (spent0 + spent) <= spent0 + lost)
BY DEF Monus

LEMMA LossNotWonBack ==
  ASSUME NEW net \in Nat, NEW spent_then \in Nat, NEW net_now \in Nat,
         NEW spent0 \in Nat, NEW lost \in Nat, NEW spent \in Nat,
         net # 0 => net + spent_then <= spent0 + lost,
         NEW cap, cap = TraderLiveCap(net, spent_then, net_now, spent0 + spent)
  PROVE  /\ cap \in Nat
         /\ Lesser(net, cap) <= Monus(lost, spent)
         /\ cap # 0 => cap + (spent0 + spent) <= spent0 + lost
BY DEF TraderLiveCap, Monus, Lesser

\* Natural numbers everywhere.
LEMMA StakeValues ==
  ASSUME RewardTypeOK, earned \in [Stakes -> Flow], NEW s \in Stakes
  PROVE  /\ stake[s] \in Stake /\ earned[s] \in Flow /\ s[1] \in Accounts
         /\ stake[s].points \in Nat /\ stake[s].earnings_snap \in Nat
         /\ stake[s].eligible_accum \in Nat /\ stake[s].start_slot \in Nat
         /\ stake[s].residual_snap \in Nat /\ stake[s].portfolio_id \in Nat
         /\ Age(s) \in Nat
<1>1. stake[s] \in Stake /\ stake[s].start_slot \in Nat
  BY DEF RewardTypeOK, Stake
<1>2. EpochEnd - stake[s].start_slot \in Int
  BY <1>1, RewardAssumption
<1> QED BY <1>1, <1>2, LinkedAccount, FloorLog2Type DEF Stake, Age

\* All of a stake but whether it was claimed.
SameStake(s) ==
  /\ stake'[s].cohort = stake[s].cohort /\ stake'[s].residual_snap = stake[s].residual_snap
  /\ stake'[s].earnings_snap = stake[s].earnings_snap
  /\ stake'[s].start_slot = stake[s].start_slot /\ stake'[s].points = stake[s].points
  /\ stake'[s].eligible_accum = stake[s].eligible_accum
  /\ stake'[s].portfolio_id = stake[s].portfolio_id

LEMMA PointsKept ==
  ASSUME NEW s, NEW start, PointsOK(s, start), SameStake(s), earned'[s] = earned[s]
  PROVE  PointsOK(s, start)'
BY DEF PointsOK, SameStake, Age

\* Nothing that a stake depends on is ever more than it was.
LEMMA QuietKeepsStake ==
  ASSUME RewardTypeOK, RewardTypeOK', Quiet, NEW s \in Stakes, StakeOK(s), SameStake(s),
         earned'[s] = earned[s], slot' >= slot
  PROVE  StakeOK(s)'
<1>1. ~Registered(s)' => earned'[s] = NoFlow
  BY DEF StakeOK, SameStake, Registered
<1>2. stake'[s].cohort \in CapitalCohorts => stake'[s].eligible_accum <= EpochEnd
  BY DEF StakeOK, SameStake
<1>3. ASSUME stake'[s].cohort \in FlowCohorts PROVE FlowStakeOK(s)'
  <2> DEFINE x  == s[1]
             id == stake[s].portfolio_id
  <2>1. FlowStakeOK(s) /\ x \in Accounts /\ stake'[s].portfolio_id = id
    BY <1>3, LinkedAccount DEF StakeOK, SameStake
  <2>2. id \in 1 .. next_portfolio_id - 1
    BY <2>1 DEF FlowStakeOK
  <2>3. /\ LiveUnder(x, id)' =>
             LiveUnder(x, id) /\ portfolio'[x].counters = portfolio[x].counters
        /\ WitnessedTotals(x, id)' \subseteq WitnessedTotals(x, id)
        /\ next_portfolio_id' >= next_portfolio_id
    BY <2>1, <2>2 DEF Quiet
  <2>4. next_portfolio_id \in Nat /\ next_portfolio_id' \in Nat /\ slot \in Nat /\ slot' \in Nat
    BY DEF RewardTypeOK
  <2>5. stake'[s].portfolio_id \in 1 .. next_portfolio_id' - 1
    BY <2>1, <2>2, <2>3, <2>4
  <2>6. stake'[s].start_slot < EpochEnd
    BY <2>1 DEF FlowStakeOK, SameStake
  <2>7. LiveUnder(x, id)' => \A c \in Counters : earned'[s][c] <= portfolio'[x].counters[c]
    BY <2>1, <2>3 DEF FlowStakeOK
  <2>8. PICK start \in Flow : WitnessOK(s, start) /\ PointsOK(s, start)
    BY <2>1 DEF FlowStakeOK
  <2>9. PointsOK(s, start)'
    BY <2>8, PointsKept
  <2>10. WitnessOK(s, start)'
    <3> SUFFICES ASSUME NEW totals \in WitnessedTotals(x, id)', NEW c \in Counters,
                        c = "spent" \/ slot' <= EpochEnd
                 PROVE  totals[c] = start[c] + earned'[s][c]
      BY <2>1 DEF WitnessOK
    <3>1. totals \in WitnessedTotals(x, id) /\ (c = "spent" \/ slot <= EpochEnd)
      BY <2>3, <2>4, RewardAssumption
    <3> QED BY <2>8, <3>1 DEF WitnessOK
  <2>11. LiveUnder(s[1], stake[s].portfolio_id)' <=> LiveUnder(x, id)'
    BY <2>1
  <2> QED BY <2>5, <2>6, <2>7, <2>8, <2>9, <2>10, <2>11 DEF FlowStakeOK
<1> QED BY <1>1, <1>2, <1>3 DEF StakeOK

LEMMA QuietKeepsStakes ==
  ASSUME RewardTypeOK, RewardTypeOK', Quiet, StakesOK, UNCHANGED earned, slot' >= slot,
         \A s \in Stakes : SameStake(s)
  PROVE  StakesOK'
<1>1. ASSUME NEW s \in Stakes PROVE StakeOK(s)'
  <2>1. StakeOK(s) /\ SameStake(s) /\ earned'[s] = earned[s]
    BY DEF StakesOK
  <2> QED BY <2>1, QuietKeepsStake
<1> QED BY <1>1 DEF StakesOK

LEMMA PositionsElsewhere ==
  ASSUME PositionsOK, UNCHANGED position
  PROVE  PositionsOK'
BY DEF PositionsOK

LEMMA PositionsKept ==
  ASSUME RewardTypeOK, PositionsOK, NEW y \in Accounts, Deposit(y) \/ Withdraw(y) \/ TerminalReturn(y)
  PROVE  PositionsOK'
<1>1. position \in [Accounts -> Position] /\ position[y] \in Position
  BY DEF RewardTypeOK
<1>2. /\ position[y].principal \in Nat /\ position[y].returned \in Nat
      /\ position[y].withdrawn => position[y].principal = 0
      /\ position[y].returned # 0 => position[y].withdrawn
  BY <1>1 DEF Position, PositionsOK
<1>3. \A x \in Accounts : x # y => position'[x] = position[x]
  BY <1>1 DEF Deposit, Withdraw, TerminalReturn
<1>4. /\ position'[y].withdrawn => position'[y].principal = 0
      /\ position'[y].returned # 0 => position'[y].withdrawn
  <2>1. CASE Deposit(y)
    <3>1. /\ position'[y].withdrawn = position[y].withdrawn /\ ~position[y].withdrawn
          /\ position'[y].returned = position[y].returned
      BY <1>1, <2>1 DEF Deposit, Position
    <3> QED BY <1>2, <3>1
  <2>2. CASE Withdraw(y)
    <3>1. /\ position[y].principal > 0
          /\ position'[y].withdrawn => position[y].principal = 1
          /\ position'[y].principal = position[y].principal - 1
          /\ position'[y].returned = position[y].returned
      BY <1>1, <2>2 DEF Withdraw, Position
    <3> QED BY <1>2, <3>1
  <2>3. CASE TerminalReturn(y)
    BY <1>1, <2>3 DEF TerminalReturn, Position
  <2> QED BY <2>1, <2>2, <2>3
<1> QED BY <1>3, <1>4 DEF PositionsOK

----------------------------------------------------------------------------
\* A stake that starts now, with what the witness says now.
LEMMA RegisterKeeps ==
  ASSUME RewardTypeOK, RewardTypeOK', IdsOK, StakesOK,
         NEW s \in Stakes, NEW cohort \in Cohorts, NEW snap, NEW id \in Nat,
         Register(s, cohort, snap, id),
         cohort \in FlowCohorts =>
           \E start \in Flow : /\ snap = Counter(cohort, start)
                               /\ WitnessedTotals(s[1], id) \subseteq {start}
                               /\ id \in 1 .. next_portfolio_id - 1
  PROVE  IdsOK' /\ StakesOK'
<1> DEFINE entry == [NoStake EXCEPT !.cohort = cohort, !.residual_snap = snap,
                                    !.start_slot = slot, !.portfolio_id = id]
<1>1. /\ stake' = [stake EXCEPT ![s] = entry]
      /\ UNCHANGED <<slot, portfolio, next_portfolio_id, archive, market, position, earned>>
      /\ ~Registered(s) /\ slot < EpochEnd
  BY DEF Register, market_vars, portfolio_vars
<1>2. /\ entry.cohort = cohort /\ entry.residual_snap = snap /\ entry.start_slot = slot
      /\ entry.points = 0 /\ entry.earnings_snap = 0 /\ entry.eligible_accum = 0
      /\ entry.portfolio_id = id
  BY DEF NoStake
<1>3. \A r \in Stakes : stake'[r] = IF r = s THEN entry ELSE stake[r]
  BY <1>1 DEF RewardTypeOK
<1> HIDE DEF entry
<1>4. IdsOK' /\ Quiet
  BY <1>1, QuietElsewhere
<1>5. earned[s] = NoFlow /\ earned'[s] = NoFlow /\ earned \in [Stakes -> Flow]
  BY <1>1 DEF StakesOK, StakeOK
<1>6. StakeOK(s)'
  <2>1. Registered(s)'
    BY <1>2, <1>3 DEF Registered, Cohorts, CapitalCohorts, FlowCohorts
  <2>2. stake'[s].cohort \in CapitalCohorts => stake'[s].eligible_accum <= EpochEnd
    BY <1>2, <1>3, RewardAssumption
  <2>3. ASSUME cohort \in FlowCohorts PROVE FlowStakeOK(s)'
    <3>1. PICK start \in Flow : /\ snap = Counter(cohort, start)
                                /\ WitnessedTotals(s[1], id) \subseteq {start}
                                /\ id \in 1 .. next_portfolio_id - 1
      BY <2>3
    <3>2. /\ stake'[s].portfolio_id = id /\ stake'[s].start_slot < EpochEnd
          /\ next_portfolio_id' = next_portfolio_id
      BY <1>1, <1>2, <1>3
    <3>3. \A c \in Counters : earned'[s][c] = 0
      BY <1>5 DEF NoFlow
    <3>4. WitnessOK(s, start)'
      <4>1. WitnessedTotals(s[1], id)' \subseteq {start}
        BY <1>4, <3>1, LinkedAccount DEF Quiet
      <4>2. \A c \in Counters : start[c] \in Nat
        BY FlowValues
      <4> QED BY <3>2, <3>3, <4>1, <4>2 DEF WitnessOK
    <3>5. PointsOK(s, start)'
      <4>1. /\ stake'[s].residual_snap = Counter(stake'[s].cohort, start)
            /\ stake'[s].points = 0 /\ stake'[s].earnings_snap = 0
        BY <1>2, <1>3, <3>1
      <4>2. EpochEnd - stake'[s].start_slot \in Int
        BY <1>2, <1>3, RewardAssumption DEF RewardTypeOK
      <4>3. Age(s)' \in Nat
        BY <4>2, FloorLog2Type DEF Age
      <4>4. earned'[s]["received"] = 0 /\ earned'[s]["funding"] = 0
        BY <3>3 DEF Counters
      <4>5. Age(s)' * 0 = 0
        BY <4>3
      <4> QED BY <4>1, <4>4, <4>5 DEF PointsOK
    <3>6. \A c \in Counters : portfolio'[s[1]].counters[c] \in Nat
      <4>1. portfolio'[s[1]].counters \in Flow
        BY LinkedAccount DEF RewardTypeOK, Portfolio
      <4> QED BY <4>1, FlowValues
    <3> QED BY <3>1, <3>2, <3>3, <3>4, <3>5, <3>6 DEF FlowStakeOK
  <2> QED BY <1>2, <1>3, <2>1, <2>2, <2>3 DEF StakeOK
<1>7. ASSUME NEW r \in Stakes, r # s PROVE StakeOK(r)'
  <2>1. SameStake(r) /\ earned'[r] = earned[r] /\ StakeOK(r)
    BY <1>1, <1>3, <1>7 DEF SameStake, StakesOK
  <2>2. slot' >= slot
    BY <1>1 DEF RewardTypeOK
  <2> QED BY <1>4, <2>1, <2>2, QuietKeepsStake
<1> QED BY <1>1, <1>4, <1>5, <1>6, <1>7 DEF StakesOK

LEMMA RegisterCapitalKeeps ==
  ASSUME RewardTypeOK, RewardTypeOK', IdsOK, StakesOK, NEW x \in Accounts, RegisterCapital(x)
  PROVE  IdsOK' /\ StakesOK'
<1>1. x \in InsurancePositions \cup BackingPositions
      /\ PoolOf(x) \in Cohorts /\ PoolOf(x) \notin FlowCohorts
  BY DEF RegisterCapital, PoolOf, Cohorts, CapitalCohorts, FlowCohorts
<1>2. <<x, FamilyOf(PoolOf(x))>> \in Stakes
  BY <1>1 DEF FamilyOf, PoolOf, Stakes
<1>3. Register(<<x, FamilyOf(PoolOf(x))>>, PoolOf(x), 0, 0)
  BY DEF RegisterCapital
<1> QED BY <1>1, <1>2, <1>3, RegisterKeeps

\* What a stake starts from is what its witness says, if there is one.
LEMMA StartIsWitnessed ==
  ASSUME RewardTypeOK, IdsOK, NEW x \in Accounts, market # "retired",
         NEW totals \in StartTotals(x),
         NEW id, id = IF portfolio[x].holder = "owner" THEN portfolio[x].id ELSE archive[x].id
  PROVE  WitnessedTotals(x, id) \subseteq {totals} /\ id \in 1 .. next_portfolio_id - 1
<1>1. CASE portfolio[x].holder = "owner"
  <2>1. LiveOf(x) = {portfolio[x]} /\ LiveUnder(x, id) /\ id \in 1 .. next_portfolio_id - 1
    BY <1>1 DEF LiveOf, LiveUnder, IdsOK
  <2>2. StartTotals(x) = WithLive(x, portfolio[x])
    BY <1>1, <2>1 DEF StartTotals, TotalsToday
  <2>3. WitnessedTotals(x, id) = WithLive(x, portfolio[x])
    BY <1>1, <2>1 DEF WitnessedTotals, LiveUnder
  <2>4. \A t, u \in WithLive(x, portfolio[x]) : t = u
    BY DEF WithLive
  <2> QED BY <2>1, <2>2, <2>3, <2>4
<1>2. CASE portfolio[x].holder = "none"
  <2>1. LiveOf(x) = {} /\ archive[x].exists /\ totals = archive[x].counters
    BY <1>2 DEF StartTotals, TotalsToday, LiveOf
  <2>2. id = archive[x].id /\ id \in 1 .. next_portfolio_id - 1
    BY <1>2, <2>1 DEF IdsOK
  <2>3. WitnessedTotals(x, id) \subseteq {archive[x].counters}
    BY <2>1 DEF WitnessedTotals
  <2> QED BY <2>1, <2>2, <2>3
<1>3. CASE portfolio[x].holder \notin {"owner", "none"}
  <2>1. LiveOf(x) = {}
    BY <1>3 DEF LiveOf
  <2>2. StartTotals(x) = {}
    BY <1>3, <2>1 DEF StartTotals, TotalsToday
  <2> QED BY <2>2
<1> QED BY <1>1, <1>2, <1>3

LEMMA RegisterPortfolioKeeps ==
  ASSUME RewardTypeOK, RewardTypeOK', IdsOK, StakesOK, NEW x \in Accounts,
         NEW cohort \in FlowCohorts, RegisterPortfolio(x, cohort)
  PROVE  IdsOK' /\ StakesOK'
<1> DEFINE id == IF portfolio[x].holder = "owner" THEN portfolio[x].id ELSE archive[x].id
           s  == <<x, FamilyOf(cohort)>>
<1>1. x \in Portfolios /\ cohort \in Cohorts /\ market # "retired"
  BY DEF RegisterPortfolio, Cohorts
<1>2. s \in Stakes
  BY <1>1 DEF FamilyOf, FlowCohorts, Stakes
<1>3. PICK totals \in StartTotals(x) : Register(s, cohort, Counter(cohort, totals), id)
  BY DEF RegisterPortfolio
<1>4. totals \in Flow
  BY <1>3, StartType
<1>5. id \in Nat
  BY DEF RewardTypeOK, Portfolio, Archive
<1>6. s[1] = x
  OBVIOUS
<1> HIDE DEF id, s
<1>7. WitnessedTotals(x, id) \subseteq {totals} /\ id \in 1 .. next_portfolio_id - 1
  BY <1>1, StartIsWitnessed DEF id
<1> QED BY <1>1, <1>2, <1>3, <1>4, <1>5, <1>6, <1>7, RegisterKeeps

\* Earning more leaves points within what was earned.
LEMMA PointsBelow ==
  ASSUME NEW s, NEW start \in Flow, PointsOK(s, start), UNCHANGED stake,
         stake[s].points \in Nat, stake[s].start_slot \in Nat,
         stake[s].earnings_snap \in Nat, stake[s].eligible_accum \in Nat,
         Age(s) \in Nat,
         earned[s] \in Flow, earned'[s] \in Flow, \A c \in Counters : earned[s][c] <= earned'[s][c]
  PROVE  PointsOK(s, start)'
<1>1. /\ earned[s]["received"] \in Nat /\ earned'[s]["received"] \in Nat
      /\ earned[s]["funding"] \in Nat /\ earned'[s]["funding"] \in Nat
      /\ earned[s]["loss"] \in Nat /\ earned'[s]["loss"] \in Nat
      /\ start["spent"] \in Nat
  BY FlowValues
<1>2. /\ earned[s]["received"] <= earned'[s]["received"]
      /\ earned[s]["funding"] <= earned'[s]["funding"]
      /\ earned[s]["loss"] <= earned'[s]["loss"]
  BY DEF Counters
<1>3. Age(s)' = Age(s)
  BY DEF Age
<1>4. /\ Age(s) * earned[s]["received"] <= Age(s) * earned'[s]["received"]
      /\ Age(s) * earned[s]["received"] \in Nat /\ Age(s) * earned'[s]["received"] \in Nat
  BY <1>1, <1>2, ProductMonotone
<1>5. stake'[s].cohort = "lp" => stake'[s].points <= Age(s)' * earned'[s]["received"]
  <2> DEFINE p == Age(s) * earned[s]["received"]
             q == Age(s) * earned'[s]["received"]
  <2>1. stake[s].cohort = "lp" => stake[s].points <= p
    BY DEF PointsOK
  <2>2. p <= q /\ p \in Nat /\ q \in Nat
    BY <1>4
  <2> HIDE DEF p, q
  <2>3. stake[s].cohort = "lp" => stake[s].points <= q
    BY <2>1, <2>2
  <2> QED BY <1>3, <2>3 DEF q
<1>6. stake'[s].cohort = "funding" => stake'[s].points <= earned'[s]["funding"]
  BY <1>1, <1>2 DEF PointsOK
<1>7. stake'[s].cohort = "trader" =>
        /\ stake'[s].points <= Age(s)' * stake'[s].earnings_snap
        /\ stake'[s].earnings_snap # 0 =>
             stake'[s].earnings_snap + stake'[s].eligible_accum
               <= start["spent"] + earned'[s]["loss"]
  BY <1>1, <1>2, <1>3 DEF PointsOK
<1>8. stake'[s].residual_snap = Counter(stake'[s].cohort, start)
  BY DEF PointsOK
<1> QED BY <1>5, <1>6, <1>7, <1>8 DEF PointsOK

\* Whatever a portfolio earns, its witness and its stake gain alike.
LEMMA AccrueKeeps ==
  ASSUME RewardTypeOK, RewardTypeOK', IdsOK, StakesOK,
         NEW y \in Accounts, NEW c \in Counters, Accrue(y, c)
  PROVE  IdsOK' /\ StakesOK'
<1>1. /\ UNCHANGED <<slot, stake, next_portfolio_id, market, archive>>
      /\ portfolio[y].holder = "owner"
      /\ portfolio' = [portfolio EXCEPT ![y].counters[c] = @ + 1]
  BY DEF Accrue, Outside
<1> DEFINE Credited(s) == /\ s[1] = y /\ Registered(s) /\ stake[s].portfolio_id = portfolio[y].id
                          /\ market # "retired"
                          /\ slot <= EpochEnd \/ c = "spent"
<1>2. /\ portfolio[y].counters \in Flow /\ portfolio \in [Accounts -> Portfolio]
      /\ \A x \in Accounts : archive[x].counters \in Flow /\ portfolio[x].counters \in Flow
  BY DEF RewardTypeOK, Portfolio, Archive
<1>3. /\ \A x \in Accounts : /\ portfolio'[x].holder = portfolio[x].holder
                             /\ portfolio'[x].id = portfolio[x].id
      /\ \A x \in Accounts : x # y => portfolio'[x] = portfolio[x]
      /\ \A d \in Counters : portfolio'[y].counters[d]
                               = IF d = c THEN portfolio[y].counters[d] + 1
                                 ELSE portfolio[y].counters[d]
  BY <1>1, <1>2 DEF Portfolio, Flow
<1>4. IdsOK'
  BY <1>1, <1>3 DEF IdsOK
<1>5. Witnesses /\ Witnesses'
  BY <1>4, WitnessOnce, WitnessOnceNext
<1>6. /\ earned \in [Stakes -> Flow]
      /\ \A s \in Stakes : \A d \in Counters : earned[s][d] \in Nat
  BY FlowValues DEF StakesOK
<1>7. \A s \in Stakes : earned'[s] = IF Credited(s) THEN [earned[s] EXCEPT ![c] = @ + 1]
                                     ELSE earned[s]
  BY DEF Accrue
<1> HIDE DEF Credited
<1>8. earned' \in [Stakes -> Flow]
  <2>1. earned' = [s \in Stakes |-> earned'[s]]
    BY DEF Accrue
  <2>2. ASSUME NEW s \in Stakes PROVE earned'[s] \in Flow
    <3>1. earned[s] \in [Counters -> Nat]
      BY <1>6 DEF Flow
    <3>2. [earned[s] EXCEPT ![c] = @ + 1] \in [Counters -> Nat]
      BY <3>1
    <3> QED BY <1>7, <3>1, <3>2 DEF Flow
  <2> QED BY <2>1, <2>2
<1>9. ASSUME NEW s \in Stakes, NEW d \in Counters
      PROVE  earned'[s][d] = IF Credited(s) /\ d = c THEN earned[s][d] + 1 ELSE earned[s][d]
  BY <1>6, <1>7 DEF Flow
<1>10. ASSUME NEW s \in Stakes PROVE StakeOK(s)'
  <2> DEFINE x  == s[1]
             id == stake[s].portfolio_id
  <2>1. StakeOK(s) /\ x \in Accounts
    BY LinkedAccount DEF StakesOK
  <2>2. ~Registered(s)' => earned'[s] = NoFlow
    BY <1>1, <1>7, <2>1 DEF StakeOK, Registered, Credited
  <2>3. stake'[s].cohort \in CapitalCohorts => stake'[s].eligible_accum <= EpochEnd
    BY <1>1, <2>1 DEF StakeOK
  <2>4. ASSUME stake[s].cohort \in FlowCohorts PROVE FlowStakeOK(s)'
    <3>1. FlowStakeOK(s) /\ id \in Nat /\ Registered(s)
      BY <2>1, <2>4 DEF StakeOK, RewardTypeOK, Stake, Registered, FlowCohorts
    <3>2. LiveUnder(x, id)' <=> LiveUnder(x, id)
      BY <1>1, <1>3, <2>1 DEF LiveUnder
    <3>3. Archives(x, id)' <=> Archives(x, id)
      BY <1>1 DEF Archives
    <3>4. Credited(s) <=> x = y /\ LiveUnder(x, id) /\ (slot <= EpochEnd \/ c = "spent")
      BY <1>1, <3>1 DEF Credited, LiveUnder
    <3>5. stake'[s] = stake[s] /\ next_portfolio_id' = next_portfolio_id
      BY <1>1
    <3>6. \A d \in Counters : /\ portfolio[x].counters[d] \in Nat
                              /\ archive[x].counters[d] \in Nat
      BY <1>2, <2>1, FlowValues
    <3>7. ASSUME LiveUnder(x, id), NEW d \in Counters
          PROVE  earned'[s][d] <= portfolio'[x].counters[d]
      <4>1. earned[s][d] <= portfolio[x].counters[d]
        BY <3>1, <3>7 DEF FlowStakeOK
      <4>2. x # y => portfolio'[x].counters[d] = portfolio[x].counters[d]
        BY <1>3, <2>1
      <4> QED BY <1>3, <1>6, <1>9, <3>4, <3>6, <4>1, <4>2
    <3>8. PICK start \in Flow : WitnessOK(s, start) /\ PointsOK(s, start)
      BY <3>1 DEF FlowStakeOK
    <3>9. WitnessOK(s, start)'
      <4> SUFFICES ASSUME NEW totals \in WitnessedTotals(x, id)', NEW d \in Counters,
                          d = "spent" \/ slot <= EpochEnd
                   PROVE  totals[d] = start[d] + earned'[s][d]
        BY <1>1, <3>5 DEF WitnessOK
      <4>1. start[d] \in Nat /\ earned[s][d] \in Nat
        BY <1>6, FlowValues
      <4>2. CASE LiveUnder(x, id)
        <5>1. /\ totals = Plus(archive'[x].counters, portfolio'[x].counters)
              /\ Plus(archive[x].counters, portfolio[x].counters) \in WitnessedTotals(x, id)
          <6>1. WitnessedTotals(x, id) = {Plus(archive[x].counters, portfolio[x].counters)}
            BY <1>5, <2>1, <3>1, <4>2 DEF Witnesses
          <6>2. WitnessedTotals(x, id)' = {Plus(archive'[x].counters, portfolio'[x].counters)}
            BY <1>1, <1>5, <2>1, <3>1, <3>2, <4>2 DEF Witnesses
          <6> QED BY <6>1, <6>2
        <5>2. totals[d] = archive[x].counters[d] + portfolio'[x].counters[d]
          BY <1>1, <5>1 DEF Plus
        <5>3. archive[x].counters[d] + portfolio[x].counters[d] = start[d] + earned[s][d]
          BY <3>8, <5>1 DEF WitnessOK, Plus
        <5>4. portfolio'[x].counters[d] = IF Credited(s) /\ d = c THEN portfolio[x].counters[d] + 1
                                          ELSE portfolio[x].counters[d]
          <6>1. x # y => portfolio'[x].counters[d] = portfolio[x].counters[d]
            BY <1>3, <2>1
          <6>2. x = y => portfolio'[x].counters[d] = IF d = c THEN portfolio[x].counters[d] + 1
                                                     ELSE portfolio[x].counters[d]
            BY <1>3
          <6> QED BY <3>4, <4>2, <6>1, <6>2
        <5>5. earned'[s][d] = IF Credited(s) /\ d = c THEN earned[s][d] + 1 ELSE earned[s][d]
          BY <1>9
        <5> QED BY <3>6, <4>1, <5>2, <5>3, <5>4, <5>5
      <4>3. CASE ~LiveUnder(x, id)
        <5>1. WitnessedTotals(x, id)' = WitnessedTotals(x, id)
          BY <1>1, <1>5, <2>1, <3>1, <3>2, <3>3, <4>3 DEF Witnesses
        <5>2. earned'[s][d] = earned[s][d]
          BY <1>9, <3>4, <4>3
        <5>3. totals[d] = start[d] + earned[s][d]
          BY <3>8, <5>1 DEF WitnessOK
        <5> QED BY <5>2, <5>3
      <4> QED BY <4>2, <4>3
    <3>10. PointsOK(s, start)'
      <4>1. \A d \in Counters : earned[s][d] <= earned'[s][d]
        BY <1>6, <1>9
      <4>2. /\ stake[s].points \in Nat /\ stake[s].start_slot \in Nat
            /\ stake[s].earnings_snap \in Nat /\ stake[s].eligible_accum \in Nat
            /\ Age(s) \in Nat /\ earned[s] \in Flow /\ earned'[s] \in Flow
        BY <1>6, <1>8, StakeValues
      <4> QED BY <1>1, <3>8, <4>1, <4>2, PointsBelow
    <3>11. LiveUnder(s[1], stake[s].portfolio_id)' <=> LiveUnder(x, id)
      BY <3>2, <3>5
    <3> QED BY <3>1, <3>5, <3>7, <3>8, <3>9, <3>10, <3>11 DEF FlowStakeOK
  <2> QED BY <1>1, <2>2, <2>3, <2>4 DEF StakeOK
<1> QED BY <1>4, <1>8, <1>10 DEF StakesOK

----------------------------------------------------------------------------
\* New points of a stake that are of what was earned.
LEMMA RecreditKeeps ==
  ASSUME RewardTypeOK, RewardTypeOK', IdsOK, StakesOK, NEW s \in Stakes, stake[s].cohort \in Cohorts,
         NEW points, NEW net, NEW accum, Recredit(s, points, net, accum),
         stake[s].cohort \in CapitalCohorts => accum <= EpochEnd,
         stake[s].cohort = "lp" => points <= Age(s) * earned[s]["received"],
         stake[s].cohort = "funding" => points <= earned[s]["funding"],
         stake[s].cohort = "trader" =>
           \E start \in Flow :
             /\ WitnessOK(s, start)
             /\ stake[s].residual_snap = Counter("trader", start)
             /\ points <= Age(s) * net
             /\ net # 0 => net + accum <= start["spent"] + earned[s]["loss"]
  PROVE  IdsOK' /\ StakesOK'
<1>1. /\ stake' = [stake EXCEPT ![s].points = points, ![s].earnings_snap = net,
                                ![s].eligible_accum = accum]
      /\ UNCHANGED <<slot, portfolio, next_portfolio_id, archive, market, position, earned>>
  BY DEF Recredit, market_vars, portfolio_vars
<1>2. /\ stake'[s].points = points /\ stake'[s].earnings_snap = net
      /\ stake'[s].eligible_accum = accum /\ stake'[s].cohort = stake[s].cohort
      /\ stake'[s].residual_snap = stake[s].residual_snap
      /\ stake'[s].start_slot = stake[s].start_slot
      /\ stake'[s].portfolio_id = stake[s].portfolio_id
  BY <1>1 DEF RewardTypeOK, Stake
<1>3. \A r \in Stakes : r # s => stake'[r] = stake[r]
  BY <1>1 DEF RewardTypeOK
<1>4. IdsOK' /\ Quiet
  BY <1>1, QuietElsewhere
<1>5. ASSUME NEW r \in Stakes, r # s PROVE StakeOK(r)'
  <2>1. SameStake(r) /\ earned'[r] = earned[r] /\ StakeOK(r) /\ slot' >= slot
    BY <1>1, <1>3, <1>5 DEF SameStake, StakesOK, RewardTypeOK
  <2> QED BY <1>4, <2>1, QuietKeepsStake
<1>6. StakeOK(s)'
  <2>1. StakeOK(s) /\ earned'[s] = earned[s]
    BY <1>1 DEF StakesOK
  <2>2. ~Registered(s)' => earned'[s] = NoFlow
    BY <1>2, <2>1 DEF StakeOK, Registered
  <2>3. ASSUME stake[s].cohort \in FlowCohorts PROVE FlowStakeOK(s)'
    <3>1. FlowStakeOK(s)
      BY <2>1, <2>3 DEF StakeOK
    <3>2. PICK start \in Flow : WitnessOK(s, start) /\ PointsOK(s, start)
      BY <3>1 DEF FlowStakeOK
    <3>3. Age(s)' = Age(s)
      BY <1>2 DEF Age
    <3>4. \E first \in Flow : WitnessOK(s, first) /\ PointsOK(s, first)'
      <4>1. CASE stake[s].cohort = "trader"
        <5>1. PICK first \in Flow :
                 /\ WitnessOK(s, first)
                 /\ stake[s].residual_snap = Counter("trader", first)
                 /\ points <= Age(s) * net
                 /\ net # 0 => net + accum <= first["spent"] + earned[s]["loss"]
          BY <4>1
        <5>2. PointsOK(s, first)'
          BY <1>2, <2>1, <3>3, <4>1, <5>1 DEF PointsOK
        <5> QED BY <5>1, <5>2
      <4>2. CASE stake[s].cohort # "trader"
        <5>1. PointsOK(s, start)'
          BY <1>2, <2>1, <3>2, <3>3, <4>2 DEF PointsOK
        <5> QED BY <3>2, <5>1
      <4> QED BY <4>1, <4>2
    <3>5. PICK first \in Flow : WitnessOK(s, first) /\ PointsOK(s, first)'
      BY <3>4
    <3>6. WitnessOK(s, first)'
      <4>1. WitnessedTotals(s[1], stake[s].portfolio_id)'
              \subseteq WitnessedTotals(s[1], stake[s].portfolio_id)
        BY <1>1, <1>2 DEF WitnessedTotals, LiveOf, WithLive
      <4> QED BY <1>1, <2>1, <3>5, <4>1 DEF WitnessOK
    <3>7. /\ LiveUnder(s[1], stake[s].portfolio_id)' => LiveUnder(s[1], stake[s].portfolio_id)
          /\ portfolio' = portfolio /\ next_portfolio_id' = next_portfolio_id
      BY <1>1, <1>2 DEF LiveUnder
    <3> QED BY <1>2, <2>1, <3>1, <3>5, <3>6, <3>7 DEF FlowStakeOK
  <2> QED BY <1>2, <2>2, <2>3 DEF StakeOK
<1>7. earned' \in [Stakes -> Flow]
  BY <1>1 DEF StakesOK
<1> QED BY <1>4, <1>5, <1>6, <1>7 DEF StakesOK

\* Capital accrues until the epoch's end at the latest.
LEMMA CrystallizeCapitalKeeps ==
  ASSUME RewardTypeOK, RewardTypeOK', IdsOK, StakesOK, NEW s \in Stakes, CrystallizeCapital(s)
  PROVE  IdsOK' /\ StakesOK'
<1> DEFINE x         == s[1]
           accrued   == Lesser(slot, EpochEnd)
           until     == IF position[x].returned # 0 THEN Lesser(accrued, position[x].return_slot)
                        ELSE accrued
           principal == CapitalAtRisk(x)
           points    == FloorLog2(Monus(until, EffectiveStart(s))) * principal
<1>1. Recredit(s, points, principal, until) /\ stake[s].cohort \in CapitalCohorts
  BY DEF CrystallizeCapital
<1>2. position[x].return_slot \in Nat /\ slot \in Nat
  BY LinkedAccount DEF RewardTypeOK, Position
<1>3. until <= EpochEnd
  BY <1>2, RewardAssumption DEF Lesser
<1>4. stake[s].cohort \in Cohorts /\ stake[s].cohort \notin {"lp", "trader", "funding"}
  BY <1>1 DEF Cohorts, CapitalCohorts
<1> HIDE DEF points, principal, until
<1> QED BY <1>1, <1>3, <1>4, RecreditKeeps

\* Flow counts between registration and the epoch's end, and afterwards only what
\* was won back.
LEMMA CrystallizeFlowKeeps ==
  ASSUME RewardTypeOK, RewardTypeOK', IdsOK, StakesOK, NEW s \in Stakes, CrystallizeFlow(s)
  PROVE  IdsOK' /\ StakesOK'
<1> DEFINE st == stake[s]
<1>1. /\ st.cohort \in FlowCohorts /\ st.cohort \in Cohorts /\ st.cohort \notin CapitalCohorts
      /\ AccrualOver => st.cohort = "trader"
  BY CohortKinds DEF CrystallizeFlow, Cohorts
<1>2. PICK totals \in WitnessedTotals(s[1], st.portfolio_id) :
        LET net   == Monus(Counter(st.cohort, totals), st.residual_snap)
            spent == IF st.cohort = "trader" THEN totals["spent"] ELSE 0
            cap   == TraderLiveCap(st.earnings_snap, st.eligible_accum, net, spent)
        IN  IF AccrualOver
            THEN /\ CapIsExact(st.points, st.earnings_snap, cap)
                 /\ Recredit(s, CapResidualPoints(st.points, st.earnings_snap, cap), cap, spent)
            ELSE Recredit(s, IF st.cohort = "funding" THEN net
                             ELSE FloorLog2(slot - st.start_slot) * net, net, spent)
  BY DEF CrystallizeFlow
<1> DEFINE net   == Monus(Counter(st.cohort, totals), st.residual_snap)
           spent == IF st.cohort = "trader" THEN totals["spent"] ELSE 0
           cap   == TraderLiveCap(st.earnings_snap, st.eligible_accum, net, spent)
           late  == CapResidualPoints(st.points, st.earnings_snap, cap)
           weight == FloorLog2(slot - st.start_slot)
           early == IF st.cohort = "funding" THEN net ELSE weight * net
<1>3. FlowStakeOK(s) /\ earned \in [Stakes -> Flow]
  BY <1>1 DEF StakesOK, StakeOK
<1>4. PICK start \in Flow : WitnessOK(s, start) /\ PointsOK(s, start)
  BY <1>3 DEF FlowStakeOK
<1>5. /\ st \in Stake /\ earned[s] \in Flow /\ s[1] \in Accounts
      /\ st.points \in Nat /\ st.earnings_snap \in Nat
      /\ st.eligible_accum \in Nat /\ st.start_slot \in Nat
      /\ st.residual_snap \in Nat /\ Age(s) \in Nat
  BY <1>3, StakeValues
<1>6. totals \in Flow
  BY <1>2, <1>5, WitnessType
<1>7. Counter(st.cohort, totals) \in Nat
  BY <1>1, <1>6, CounterType
<1>8. net \in Nat
  BY <1>5, <1>7 DEF Monus
<1>9. /\ totals["received"] \in Nat /\ totals["loss"] \in Nat
      /\ totals["spent"] \in Nat /\ totals["funding"] \in Nat
      /\ start["received"] \in Nat /\ start["loss"] \in Nat
      /\ start["spent"] \in Nat /\ start["funding"] \in Nat
      /\ earned[s]["received"] \in Nat /\ earned[s]["loss"] \in Nat
      /\ earned[s]["spent"] \in Nat /\ earned[s]["funding"] \in Nat
  BY <1>5, <1>6, FlowValues
<1>10. totals["spent"] = start["spent"] + earned[s]["spent"]
  BY <1>2, <1>4 DEF WitnessOK, Counters
<1>11. slot \in Nat /\ EpochEnd \in Nat
  BY RewardAssumption DEF RewardTypeOK
<1>12. st.residual_snap = Counter(st.cohort, start)
  BY <1>4 DEF PointsOK
<1>13. CASE AccrualOver
  <2>1. st.cohort = "trader" /\ Recredit(s, late, cap, spent)
    BY <1>1, <1>2, <1>13 DEF net, spent, cap
  <2>2. /\ st.points <= Age(s) * st.earnings_snap
        /\ st.earnings_snap # 0 =>
             st.earnings_snap + st.eligible_accum <= start["spent"] + earned[s]["loss"]
    BY <1>4, <2>1 DEF PointsOK
  <2>3. spent = start["spent"] + earned[s]["spent"]
    BY <1>10, <2>1
  <2> HIDE DEF net, spent
  <2>4. cap = TraderLiveCap(st.earnings_snap, st.eligible_accum, net,
                            start["spent"] + earned[s]["spent"])
    BY <2>3
  <2> HIDE DEF cap
  <2>5. cap \in Nat /\ (cap # 0 => cap + spent <= start["spent"] + earned[s]["loss"])
    <3> DEFINE n == st.earnings_snap
               a == st.eligible_accum
               b == start["spent"]
               l == earned[s]["loss"]
               e == earned[s]["spent"]
    <3>1. /\ n \in Nat /\ a \in Nat /\ b \in Nat /\ l \in Nat /\ e \in Nat
          /\ n # 0 => n + a <= b + l
          /\ cap = TraderLiveCap(n, a, net, b + e)
      BY <1>5, <1>9, <2>2, <2>4
    <3> HIDE DEF n, a, b, l, e
    <3>2. cap \in Nat /\ (cap # 0 => cap + (b + e) <= b + l)
      BY <1>8, <3>1, LossNotWonBack
    <3> QED BY <2>3, <3>2 DEF b, l, e
  <2>6. late <= Age(s) * Lesser(st.earnings_snap, cap)
    BY <1>5, <2>2, <2>5, CutPoints
  <2>7. Age(s) * Lesser(st.earnings_snap, cap) <= Age(s) * cap
        /\ Age(s) * Lesser(st.earnings_snap, cap) \in Nat /\ Age(s) * cap \in Nat
    <3>1. Lesser(st.earnings_snap, cap) \in Nat /\ Lesser(st.earnings_snap, cap) <= cap
      BY <1>5, <2>5 DEF Lesser
    <3> QED BY <1>5, <2>5, <3>1, ProductMonotone
  <2>8. late \in Int
    <3> DEFINE w == st.points \div st.earnings_snap
    <3>1. st.earnings_snap # 0 => w \in Nat
      BY <1>5
    <3> HIDE DEF w
    <3>2. st.earnings_snap # 0 => w * cap \in Nat
      BY <2>5, <3>1
    <3> QED BY <1>5, <3>2 DEF CapResidualPoints, w
  <2> HIDE DEF late
  <2>9. late <= Age(s) * cap
    <3> DEFINE p == Age(s) * Lesser(st.earnings_snap, cap)
               q == Age(s) * cap
    <3>1. late <= p /\ p <= q /\ p \in Nat /\ q \in Nat /\ late \in Int
      BY <2>6, <2>7, <2>8
    <3> HIDE DEF p, q
    <3>2. late <= q
      BY <3>1
    <3> QED BY <3>2 DEF q
  <2> QED BY <1>1, <1>4, <1>12, <2>1, <2>5, <2>9, RecreditKeeps
<1>14. CASE ~AccrualOver
  <2>1. Recredit(s, early, net, spent) /\ slot <= EpochEnd
    <3>1. Recredit(s, early, net, spent)
      BY <1>2, <1>14
    <3>2. slot <= EpochEnd
      BY <1>11, <1>14 DEF AccrualOver
    <3> QED BY <3>1, <3>2
  <2>2. /\ totals["received"] = start["received"] + earned[s]["received"]
        /\ totals["loss"] = start["loss"] + earned[s]["loss"]
        /\ totals["funding"] = start["funding"] + earned[s]["funding"]
    BY <1>2, <1>4, <2>1 DEF WitnessOK, Counters
  <2>3. st.cohort = "lp" => net = earned[s]["received"]
    BY <1>9, <1>12, <2>2 DEF Counter, Monus
  <2>4. st.cohort = "funding" => net = earned[s]["funding"]
    BY <1>9, <1>12, <2>2 DEF Counter, Monus
  <2>5. st.cohort = "trader" =>
          spent = totals["spent"] /\ (net # 0 => net + spent <= start["spent"] + earned[s]["loss"])
    <3> SUFFICES ASSUME st.cohort = "trader"
                 PROVE  net # 0 => net + totals["spent"] <= start["spent"] + earned[s]["loss"]
      OBVIOUS
    <3>1. net = Monus(Monus(start["loss"] + earned[s]["loss"], start["spent"] + earned[s]["spent"]),
                      Monus(start["loss"], start["spent"]))
      BY <1>10, <1>12, <2>2 DEF Counter
    <3> HIDE DEF net
    <3> QED BY <1>9, <1>10, <3>1, LossSinceStart
  <2>6. weight \in Nat /\ weight <= Age(s)
    <3>1. slot - st.start_slot \in Int /\ EpochEnd - st.start_slot \in Int
          /\ slot - st.start_slot <= EpochEnd - st.start_slot
      BY <1>5, <1>11, <2>1
    <3> QED BY <3>1, FloorLog2Type, FloorLog2Monotone DEF Age
  <2> HIDE DEF net, spent, weight
  <2>7. weight * net <= Age(s) * net
    BY <1>5, <1>8, <2>6, ProductMonotone
  <2> HIDE DEF early
  <2>8. st.cohort = "lp" => early <= Age(s) * earned[s]["received"]
    BY <2>3, <2>7 DEF early
  <2>9. st.cohort = "funding" => early <= earned[s]["funding"]
    BY <1>9, <2>4 DEF early
  <2>10. st.cohort = "trader" => early <= Age(s) * net
    BY <2>7 DEF early
  <2>11. st.cohort = "trader" =>
           \E first \in Flow :
             /\ WitnessOK(s, first)
             /\ st.residual_snap = Counter("trader", first)
             /\ early <= Age(s) * net
             /\ net # 0 => net + spent <= first["spent"] + earned[s]["loss"]
    BY <1>4, <1>12, <2>5, <2>10
  <2> QED BY <1>1, <2>1, <2>8, <2>9, <2>11, RecreditKeeps
<1> QED BY <1>13, <1>14

LEMMA EarnedInit == RewardInit => EarnedInv
<1> SUFFICES ASSUME RewardInit PROVE IdsOK /\ PositionsOK /\ StakesOK
  BY RewardInvInit DEF EarnedInv
<1>1. IdsOK
  BY DEF RewardInit, IdsOK, NoPortfolio, NoArchive
<1>2. PositionsOK
  BY DEF RewardInit, PositionsOK, NoPosition
<1>3. earned \in [Stakes -> Flow]
  BY NoFlowType DEF RewardInit
<1>4. \A s \in Stakes : StakeOK(s)
  <2>1. ASSUME NEW s \in Stakes
        PROVE  stake[s].cohort = "none" /\ earned[s] = NoFlow
    BY DEF RewardInit, NoStake
  <2> QED BY <2>1, CohortKinds DEF StakeOK
<1> QED BY <1>1, <1>2, <1>3, <1>4 DEF StakesOK

\* What happens around the stakes.
LEMMA AroundKeeps ==
  ASSUME RewardTypeOK, RewardTypeOK', StakesOK, IdsOK' /\ Quiet,
         UNCHANGED <<stake, earned>>, slot' >= slot
  PROVE  IdsOK' /\ StakesOK'
<1>1. \A s \in Stakes : SameStake(s)
  BY DEF SameStake
<1> QED BY <1>1, QuietKeepsStakes

LEMMA ClaimKeeps ==
  ASSUME RewardTypeOK, RewardTypeOK', IdsOK, StakesOK, NEW s \in Stakes, Claim(s)
  PROVE  IdsOK' /\ StakesOK'
<1>1. /\ stake' = [stake EXCEPT ![s].claimed = TRUE]
      /\ UNCHANGED <<slot, portfolio, next_portfolio_id, archive, market, earned>>
  BY DEF Claim, market_vars, portfolio_vars
<1>2. \A r \in Stakes : SameStake(r)
  BY <1>1 DEF SameStake, RewardTypeOK, Stake
<1>3. slot' >= slot
  BY <1>1 DEF RewardTypeOK
<1> QED BY <1>1, <1>2, <1>3, QuietElsewhere, QuietKeepsStakes

LEMMA EarnedNext ==
  ASSUME EarnedInv, RewardInv', [RewardNext]_reward_vars
  PROVE  IdsOK' /\ PositionsOK' /\ StakesOK'
<1>1. /\ RewardTypeOK /\ RewardTypeOK' /\ IdsOK /\ PositionsOK /\ StakesOK
      /\ slot \in Nat
  BY DEF EarnedInv, RewardInv, RewardTypeOK
<1> DEFINE Done == IdsOK' /\ PositionsOK' /\ StakesOK'
<1> SUFFICES Done
  OBVIOUS
<1>2. ASSUME NEW x \in Accounts, RegisterCapital(x) PROVE Done
  <2>1. UNCHANGED position
    BY <1>2 DEF RegisterCapital, Register, market_vars
  <2> QED BY <1>1, <1>2, <2>1, RegisterCapitalKeeps, PositionsElsewhere
<1>3. ASSUME NEW x \in Accounts, NEW cohort \in FlowCohorts, RegisterPortfolio(x, cohort)
      PROVE  Done
  <2>1. UNCHANGED position
    BY <1>3 DEF RegisterPortfolio, Register, market_vars
  <2> QED BY <1>1, <1>3, <2>1, RegisterPortfolioKeeps, PositionsElsewhere
<1>4. ASSUME NEW x \in Accounts, Deposit(x) \/ Withdraw(x) \/ TerminalReturn(x) PROVE Done
  <2>1. /\ UNCHANGED <<portfolio, next_portfolio_id, market, archive, stake, earned>>
        /\ slot' >= slot
    BY <1>1, <1>4 DEF Deposit, Withdraw, TerminalReturn, Outside, portfolio_vars
  <2>2. PositionsOK'
    BY <1>1, <1>4, PositionsKept
  <2> QED BY <1>1, <2>1, <2>2, QuietElsewhere, AroundKeeps
<1>5. ASSUME NEW x \in Accounts, NEW holder \in {"owner", "other"}, OpenPortfolio(x, holder)
      PROVE  Done
  <2>1. UNCHANGED <<position, stake, earned>> /\ slot' >= slot
    BY <1>1, <1>5 DEF OpenPortfolio, Outside
  <2>2. IdsOK' /\ Quiet
    BY <1>1, <1>5, QuietOpen
  <2> QED BY <1>1, <2>1, <2>2, AroundKeeps, PositionsElsewhere
<1>6. ASSUME NEW x \in Accounts, ClosePortfolio(x) PROVE Done
  <2>1. UNCHANGED <<position, stake, earned>> /\ slot' >= slot
    BY <1>1, <1>6 DEF ClosePortfolio, Outside
  <2>2. IdsOK' /\ Quiet
    BY <1>1, <1>6, QuietClose
  <2> QED BY <1>1, <2>1, <2>2, AroundKeeps, PositionsElsewhere
<1>7. ASSUME NEW x \in Accounts, NEW cohort \in FlowCohorts, NEW c \in CountersOf(cohort),
             Accrue(x, c)
      PROVE  Done
  <2>1. c \in Counters
    BY DEF CountersOf, FlowCohorts, Counters
  <2>2. UNCHANGED position
    BY <1>7 DEF Accrue
  <2> QED BY <1>1, <1>7, <2>1, <2>2, AccrueKeeps, PositionsElsewhere
<1>8. ASSUME NEW x \in Accounts, CleanUp(x) PROVE Done
  <2>1. UNCHANGED <<position, stake, earned>> /\ slot' >= slot
    BY <1>1, <1>8 DEF CleanUp
  <2>2. IdsOK' /\ Quiet
    BY <1>1, <1>8, QuietCleanUp
  <2> QED BY <1>1, <2>1, <2>2, AroundKeeps, PositionsElsewhere
<1>9. ASSUME NEW s \in Stakes, CrystallizeCapital(s) PROVE Done
  <2>1. UNCHANGED position
    BY <1>9 DEF CrystallizeCapital, Recredit, market_vars
  <2> QED BY <1>1, <1>9, <2>1, CrystallizeCapitalKeeps, PositionsElsewhere
<1>10. ASSUME NEW s \in Stakes, CrystallizeFlow(s) PROVE Done
  <2>1. UNCHANGED position
    BY <1>10 DEF CrystallizeFlow, Recredit, market_vars
  <2> QED BY <1>1, <1>10, <2>1, CrystallizeFlowKeeps, PositionsElsewhere
<1>11. ASSUME NEW s \in Stakes, Claim(s) PROVE Done
  <2>1. UNCHANGED position
    BY <1>11 DEF Claim, market_vars
  <2> QED BY <1>1, <1>11, <2>1, ClaimKeeps, PositionsElsewhere
<1>12. CASE NextPhase
  <2>1. UNCHANGED <<position, stake, earned>> /\ slot' >= slot
    BY <1>1, <1>12 DEF NextPhase, Outside
  <2>2. IdsOK' /\ Quiet
    BY <1>1, <1>12, QuietNextPhase
  <2> QED BY <1>1, <2>1, <2>2, AroundKeeps, PositionsElsewhere
<1>13. CASE Freeze \/ RevokeMint \/ RewardTime \/ (\E n \in Supplies \ {0} : FundVault(n))
            \/ UNCHANGED reward_vars
  <2>1. /\ UNCHANGED <<position, portfolio, next_portfolio_id, market, archive, stake, earned>>
        /\ slot' = slot \/ slot' = slot + Stride
    BY <1>13 DEF Freeze, RevokeMint, RewardTime, FundVault, Outside, market_vars, portfolio_vars,
                 reward_vars
  <2>2. slot' >= slot
    BY <1>1, <2>1, RewardAssumption
  <2> QED BY <1>1, <2>1, <2>2, QuietElsewhere, AroundKeeps, PositionsElsewhere
<1> HIDE DEF Done
<1>14. CASE \E x \in roster \cap Accounts : ByOwner(x)
  BY <1>4, <1>5, <1>6, <1>7, <1>14 DEF ByOwner
<1>15. CASE \E x \in roster \cap Accounts : ByPublic(x)
  BY <1>4, <1>5, <1>6, <1>8, <1>15 DEF ByPublic, UnarchivedClose
<1>16. CASE \E x \in roster \cap Accounts :
              \/ RegisterCapital(x)
              \/ \E cohort \in roster \cap FlowCohorts : RegisterPortfolio(x, cohort)
  BY <1>2, <1>3, <1>16
<1>17. CASE \E s \in Stakes : CrystallizeCapital(s) \/ CrystallizeFlow(s) \/ Claim(s)
  BY <1>9, <1>10, <1>11, <1>17
<1>18. CASE \E x \in roster \cap Accounts :
              \/ RegisterCapital(x)
              \/ \E cohort \in roster \cap FlowCohorts : RegisterPortfolio(x, cohort)
              \/ ByOwner(x)
              \/ ByPublic(x)
  BY <1>14, <1>15, <1>16, <1>18
<1>19. CASE RewardNext
  BY <1>12, <1>13, <1>17, <1>18, <1>19 DEF RewardNext
<1>20. CASE UNCHANGED reward_vars
  BY <1>13, <1>20
<1> QED BY <1>19, <1>20

----------------------------------------------------------------------------
LEMMA EarnedImpliesEarned ==
  ASSUME EarnedInv
  PROVE  RewardsAreEarned
<1>1. RewardTypeOK /\ StakesOK
  BY DEF EarnedInv, RewardInv
<1> SUFFICES ASSUME NEW s \in Open, NEW points \in Rewarded(s)
             PROVE  points <= Deserved(s)
  BY DEF RewardsAreEarned
<1> DEFINE st == stake[s]
           x  == s[1]
<1>2. s \in Stakes /\ StakeOK(s) /\ earned \in [Stakes -> Flow]
  BY <1>1 DEF Open, StakesOK
<1>3. /\ st \in Stake /\ earned[s] \in Flow /\ x \in Accounts
      /\ st.points \in Nat /\ st.earnings_snap \in Nat
      /\ st.eligible_accum \in Nat /\ st.start_slot \in Nat
      /\ st.residual_snap \in Nat /\ Age(s) \in Nat
  BY <1>1, <1>2, StakeValues
<1>4. /\ earned[s]["received"] \in Nat /\ earned[s]["loss"] \in Nat
      /\ earned[s]["spent"] \in Nat /\ earned[s]["funding"] \in Nat
  BY <1>3, FlowValues
<1>5. points \in Nat /\ points <= st.points
  BY <1>1, <1>2, RewardedOnce
<1>6. CASE st.cohort \in CapitalCohorts
  <2> DEFINE start == EffectiveStart(s)
             accum == st.eligible_accum
             m == Monus(accum, start)
             n == Monus(EpochEnd, start)
             snap == st.earnings_snap
             risk == CapitalAtRisk(x)
             w == FloorLog2(m)
             v == FloorLog2(n)
             left == Lesser(snap, risk)
  <2>1. Rewarded(s) = {Lesser(st.points, w * left)}
    BY <1>6 DEF Rewarded, CapitalCohorts
  <2>2. Deserved(s) = v * risk
    BY <1>6 DEF Deserved, CapitalCohorts, EffectiveStart
  <2>3. position[x] \in Position
    BY <1>1, <1>3 DEF RewardTypeOK
  <2>4. start \in Nat /\ risk \in Nat /\ EpochEnd \in Nat
    BY <1>3, <2>3, RewardAssumption DEF EffectiveStart, Later, CapitalAtRisk, Position
  <2>5. accum \in Nat /\ accum <= EpochEnd /\ snap \in Nat
    BY <1>2, <1>3, <1>6 DEF StakeOK
  <2> HIDE DEF start, accum, snap, risk
  <2>6. m \in Nat /\ n \in Nat /\ m <= n
    BY <2>4, <2>5 DEF Monus
  <2>7. left \in Nat /\ left <= risk
    BY <2>4, <2>5 DEF Lesser
  <2> HIDE DEF m, n, left
  <2>8. w \in Nat /\ v \in Nat /\ w <= v
    BY <2>6, FloorLog2Type, FloorLog2Monotone
  <2> HIDE DEF w, v
  <2>9. w * left <= v * risk /\ w * left \in Nat /\ v * risk \in Nat
    BY <2>4, <2>7, <2>8, ProductMonotone
  <2>10. points <= w * left
    BY <1>3, <2>1, <2>9 DEF Lesser
  <2> DEFINE p == w * left
             q == v * risk
  <2>11. points <= p /\ p <= q /\ p \in Nat /\ q \in Nat /\ Deserved(s) = q
    BY <2>2, <2>9, <2>10
  <2> HIDE DEF p, q
  <2> QED BY <1>5, <2>11
<1>7. ASSUME st.cohort \in FlowCohorts
      PROVE  \E start \in Flow : WitnessOK(s, start) /\ PointsOK(s, start)
  BY <1>2, <1>7 DEF StakeOK, FlowStakeOK
<1>8. CASE st.cohort = "lp"
  <2>1. Deserved(s) = Age(s) * earned[s]["received"]
    BY <1>8 DEF Deserved, Age
  <2> DEFINE d == Age(s) * earned[s]["received"]
  <2>2. st.points <= d
    BY <1>7, <1>8 DEF PointsOK, FlowCohorts
  <2>3. d \in Nat
    BY <1>3, <1>4
  <2> HIDE DEF d
  <2>4. points <= d
    BY <1>3, <1>5, <2>2, <2>3
  <2> QED BY <2>1, <2>4 DEF d
<1>9. CASE st.cohort = "funding"
  <2>1. Deserved(s) = earned[s]["funding"]
    BY <1>9 DEF Deserved
  <2>2. st.points <= earned[s]["funding"]
    BY <1>7, <1>9 DEF PointsOK, FlowCohorts
  <2> QED BY <1>3, <1>4, <1>5, <2>1, <2>2
<1>10. CASE st.cohort = "trader"
  <2>1. PICK start \in Flow : WitnessOK(s, start) /\ PointsOK(s, start)
    BY <1>7, <1>10 DEF FlowCohorts
  <2> DEFINE net(totals) == Monus(Counter("trader", totals), st.residual_snap)
             cap(totals) == TraderLiveCap(st.earnings_snap, st.eligible_accum, net(totals),
                                          totals["spent"])
  <2>2. PICK totals \in WitnessedTotals(x, st.portfolio_id) :
           points = CapResidualPoints(st.points, st.earnings_snap, cap(totals))
    BY <1>10 DEF Rewarded, CapitalCohorts
  <2>3. totals \in Flow
    BY <1>1, <1>3, <2>2, WitnessType
  <2>4. totals["spent"] = start["spent"] + earned[s]["spent"]
    BY <2>1, <2>2 DEF WitnessOK, Counters
  <2>5. Counter("trader", totals) \in Nat /\ start["spent"] \in Nat
    BY <2>3, CounterType, FlowValues DEF FlowCohorts
  <2> DEFINE n == st.earnings_snap
             a == st.eligible_accum
             b == start["spent"]
             l == earned[s]["loss"]
             e == earned[s]["spent"]
             now == net(totals)
             c == cap(totals)
             age == Age(s)
             left == Monus(l, e)
  <2>6. now \in Nat
    BY <1>3, <2>5 DEF Monus
  <2>7. /\ n \in Nat /\ a \in Nat /\ b \in Nat /\ l \in Nat /\ e \in Nat /\ age \in Nat
        /\ n # 0 => n + a <= b + l
        /\ st.points <= age * n
    BY <1>3, <1>4, <1>10, <2>1, <2>5 DEF PointsOK
  <2>8. c = TraderLiveCap(n, a, now, b + e)
    BY <2>4
  <2>9. points = CapResidualPoints(st.points, n, c)
    BY <2>2
  <2>10. Deserved(s) = age * left
    BY <1>10 DEF Deserved, Age
  <2> HIDE DEF n, a, b, l, e, now, c, age, net, cap
  <2>11. c \in Nat /\ Lesser(n, c) <= left
    BY <2>6, <2>7, <2>8, LossNotWonBack
  <2>12. left \in Nat /\ Lesser(n, c) \in Nat
    BY <2>7, <2>11 DEF Monus, Lesser
  <2> HIDE DEF left
  <2> DEFINE cut == Lesser(n, c)
  <2>13. points <= age * cut
    BY <1>3, <2>7, <2>9, <2>11, CutPoints
  <2> HIDE DEF cut
  <2>14. age * cut <= age * left /\ age * cut \in Nat /\ age * left \in Nat
    BY <2>7, <2>11, <2>12, ProductMonotone DEF cut
  <2> DEFINE p == age * cut
             q == age * left
  <2>15. points <= p /\ p <= q /\ p \in Nat /\ q \in Nat /\ Deserved(s) = q
    BY <2>10, <2>13, <2>14
  <2> HIDE DEF p, q
  <2> QED BY <1>5, <2>15
<1>11. CASE st.cohort = "none"
  BY <1>11 DEF Rewarded, CapitalCohorts
<1> QED BY <1>3, <1>6, <1>8, <1>9, <1>10, <1>11 DEF Stake, Cohorts, FlowCohorts

\* No stake is ever rewarded for more than its owner lost, paid, provided or left at
\* risk in the epoch, however often it was crystallized and whatever its portfolio
\* and its market went through (register_start, crystallize, totals_with_live, claim).
THEOREM RewardsAlwaysEarned == RewardSpec => []RewardsAreEarned
<1>1. EarnedInv /\ [RewardNext]_reward_vars => RewardInv'
  BY RewardInvNext DEF EarnedInv
<1>2. EarnedInv /\ RewardInv' /\ [RewardNext]_reward_vars => EarnedInv'
  BY EarnedNext DEF EarnedInv
<1>3. EarnedInv => RewardsAreEarned
  BY EarnedImpliesEarned
<1> QED BY EarnedInit, <1>1, <1>2, <1>3, PTL DEF RewardSpec

----------------------------------------------------------------------------
(* Who can lower what a stake is rewarded for, once frozen.                  *)

\* What a stake is rewarded for is not lowered.
Keeps(s) ==
  \A points \in Rewarded(s) : points = 0 \/ \E kept \in Rewarded(s)' : kept >= points

LEMMA SameKeeps ==
  ASSUME RewardTypeOK, NEW s \in Stakes, Rewarded(s)' = Rewarded(s)
  PROVE  Keeps(s)
<1>1. \A points \in Rewarded(s) : points \in Nat
  BY RewardedOnce
<1> QED BY <1>1 DEF Keeps

LEMMA CapitalKept ==
  ASSUME RewardTypeOK, NEW s \in Stakes, stake[s].cohort \in CapitalCohorts,
         stake'[s] = stake[s], CapitalAtRisk(s[1])' = CapitalAtRisk(s[1]),
         position'[s[1]].start_slot = position[s[1]].start_slot
  PROVE  Keeps(s)
<1>1. EffectiveStart(s)' = EffectiveStart(s)
  BY DEF EffectiveStart
<1>2. Rewarded(s) = {Lesser(stake[s].points,
                            FloorLog2(Monus(stake[s].eligible_accum, EffectiveStart(s)))
                              * Lesser(stake[s].earnings_snap, CapitalAtRisk(s[1])))}
  BY DEF Rewarded, CapitalCohorts
<1>3. Rewarded(s)' = {Lesser(stake'[s].points,
                             FloorLog2(Monus(stake'[s].eligible_accum, EffectiveStart(s)'))
                               * Lesser(stake'[s].earnings_snap, CapitalAtRisk(s[1])'))}
  BY DEF Rewarded, CapitalCohorts
<1>4. Rewarded(s)' = Rewarded(s)
  BY <1>1, <1>2, <1>3
<1> QED BY <1>4, SameKeeps

\* The portfolio of s is witnessed as before, or gone for it.
Detached(s) == LpDetached(s[1], stake[s].portfolio_id)

LEMMA WitnessKept ==
  ASSUME RewardTypeOK, NEW s \in Stakes, stake[s].cohort \in FlowCohorts,
         stake'[s] = stake[s], Detached(s) => Detached(s)',
         WitnessedTotals(s[1], stake[s].portfolio_id)'
           = WitnessedTotals(s[1], stake[s].portfolio_id)
  PROVE  Keeps(s)
<1> DEFINE st == stake[s]
           W  == WitnessedTotals(s[1], st.portfolio_id)
           Kept(t) == LET net == Monus(Counter(st.cohort, t), st.residual_snap)
                          cap == IF st.cohort = "lp" THEN net
                                 ELSE TraderLiveCap(st.earnings_snap, st.eligible_accum, net,
                                                    t["spent"])
                      IN  IF CapIsExact(st.points, st.earnings_snap, cap)
                          THEN {CapResidualPoints(st.points, st.earnings_snap, cap)} ELSE {}
<1>1. CASE st.cohort = "funding"
  <2>1. Rewarded(s) = {st.points} /\ Rewarded(s)' = {stake'[s].points}
    BY <1>1 DEF Rewarded, CapitalCohorts
  <2> QED BY <2>1, SameKeeps
<1>2. CASE st.cohort = "lp" /\ Detached(s)'
  <2>1. Rewarded(s)' = {st.points}
    BY <1>2 DEF Rewarded, CapitalCohorts, Detached
  <2>2. \A points \in Rewarded(s) : points <= st.points
    BY RewardedOnce
  <2>3. \A points \in Rewarded(s) : points \in Nat /\ st.points \in Nat
    BY RewardedOnce DEF RewardTypeOK, Stake
  <2> QED BY <2>1, <2>2, <2>3 DEF Keeps
<1>3. CASE /\ st.cohort \in {"lp", "trader"}
           /\ ~(st.cohort = "lp" /\ Detached(s)')
  <2>1. Rewarded(s) = UNION {Kept(t) : t \in W}
    BY <1>3 DEF Rewarded, CapitalCohorts, Detached
  <2>2. Rewarded(s)' = UNION {Kept(t)' : t \in W'}
    BY <1>3 DEF Rewarded, CapitalCohorts, Detached
  <2>3. W' = W /\ \A t : Kept(t)' = Kept(t)
    OBVIOUS
  <2> HIDE DEF W, Kept
  <2>4. Rewarded(s)' = Rewarded(s)
    BY <2>1, <2>2, <2>3
  <2> QED BY <2>4, SameKeeps
<1> QED BY <1>1, <1>2, <1>3 DEF FlowCohorts

\* As long as neither the archive nor a live portfolio of the stake changes.
LEMMA FlowStays ==
  ASSUME RewardTypeOK, RewardTypeOK', IdsOK, IdsOK',
         NEW s \in Stakes, stake[s].cohort \in FlowCohorts,
         stake'[s] = stake[s], archive'[s[1]] = archive[s[1]],
         LiveUnder(s[1], stake[s].portfolio_id)' <=> LiveUnder(s[1], stake[s].portfolio_id),
         LiveUnder(s[1], stake[s].portfolio_id) =>
           portfolio'[s[1]].counters = portfolio[s[1]].counters
  PROVE  Keeps(s)
<1> DEFINE x  == s[1]
           id == stake[s].portfolio_id
<1>1. Witnesses /\ Witnesses' /\ x \in Accounts /\ id \in Nat
  BY WitnessOnce, WitnessOnceNext, LinkedAccount DEF RewardTypeOK, Stake
<1>2. Detached(s) => Detached(s)'
  BY DEF Detached, LpDetached, LiveUnder
<1>3. /\ LiveUnder(x, id)' =>
           WitnessedTotals(x, id)' = {Plus(archive'[x].counters, portfolio'[x].counters)}
      /\ ~LiveUnder(x, id)' =>
           WitnessedTotals(x, id)' = IF Archives(x, id)' THEN {archive'[x].counters} ELSE {}
  BY <1>1 DEF Witnesses
<1>4. /\ LiveUnder(x, id) =>
           WitnessedTotals(x, id) = {Plus(archive[x].counters, portfolio[x].counters)}
      /\ ~LiveUnder(x, id) =>
           WitnessedTotals(x, id) = IF Archives(x, id) THEN {archive[x].counters} ELSE {}
  BY <1>1 DEF Witnesses
<1>5. Archives(x, id)' <=> Archives(x, id)
  BY DEF Archives
<1>6. WitnessedTotals(x, id)' = WitnessedTotals(x, id)
  BY <1>3, <1>4, <1>5
<1> QED BY <1>2, <1>6, WitnessKept

\* A stake on a portfolio without flow has no points to lose.
LEMMA NothingToLose ==
  ASSUME EarnedInv, NEW s \in Open, stake[s].cohort \in FlowCohorts,
         LiveUnder(s[1], stake[s].portfolio_id), portfolio[s[1]].counters = NoFlow
  PROVE  Keeps(s)
<1>1. /\ RewardTypeOK /\ StakeOK(s) /\ s \in Stakes /\ earned \in [Stakes -> Flow]
      /\ RewardsAreEarned
  BY EarnedImpliesEarned DEF EarnedInv, RewardInv, StakesOK, Open
<1>2. Age(s) \in Nat /\ earned[s] \in Flow
  BY <1>1, StakeValues
<1>3. \A c \in Counters : earned[s][c] \in Nat /\ earned[s][c] <= 0
  BY <1>1, <1>2, FlowValues DEF StakeOK, FlowStakeOK, NoFlow
<1>4. /\ earned[s]["received"] = 0 /\ earned[s]["loss"] = 0
      /\ earned[s]["spent"] = 0 /\ earned[s]["funding"] = 0
  BY <1>3 DEF Counters
<1>5. Age(s) * 0 = 0 /\ Monus(0, 0) = 0
  BY <1>2 DEF Monus
<1>6. Deserved(s) = 0
  <2>1. CASE stake[s].cohort = "lp"
    BY <1>4, <1>5, <2>1 DEF Deserved, Age
  <2>2. CASE stake[s].cohort = "trader"
    <3>1. Deserved(s) = Age(s) * Monus(earned[s]["loss"], earned[s]["spent"])
      BY <2>2 DEF Deserved, Age
    <3> QED BY <1>4, <1>5, <3>1
  <2>3. CASE stake[s].cohort = "funding"
    BY <1>4, <2>3 DEF Deserved
  <2> QED BY <2>1, <2>2, <2>3 DEF FlowCohorts
<1>7. ASSUME NEW points \in Rewarded(s) PROVE points = 0
  <2>1. points <= Deserved(s) /\ points \in Nat
    BY <1>1, RewardedOnce DEF RewardsAreEarned
  <2> QED BY <1>6, <2>1
<1> QED BY <1>7 DEF Keeps

LEMMA OpenStake ==
  ASSUME NEW s \in Open, RewardTypeOK
  PROVE  /\ s \in Stakes /\ s[1] \in Accounts
         /\ stake[s].cohort \in CapitalCohorts \/ stake[s].cohort \in FlowCohorts
<1>1. s \in Stakes /\ stake[s].cohort # "none" /\ stake[s] \in Stake
  BY DEF Open, Registered, RewardTypeOK
<1> QED BY <1>1, LinkedAccount DEF Stake, Cohorts

\* Nothing that s is about changes.
LEMMA ElsewhereKeeps ==
  ASSUME RewardTypeOK, RewardTypeOK', IdsOK, IdsOK', NEW s \in Open, stake'[s] = stake[s],
         position'[s[1]] = position[s[1]], portfolio'[s[1]] = portfolio[s[1]],
         archive'[s[1]] = archive[s[1]], market' = market
  PROVE  Keeps(s)
<1>1. s \in Stakes /\ (stake[s].cohort \in CapitalCohorts \/ stake[s].cohort \in FlowCohorts)
  BY OpenStake
<1>2. CapitalAtRisk(s[1])' = CapitalAtRisk(s[1])
  BY DEF CapitalAtRisk
<1>3. LiveUnder(s[1], stake[s].portfolio_id)' <=> LiveUnder(s[1], stake[s].portfolio_id)
  BY DEF LiveUnder
<1> QED BY <1>1, <1>2, <1>3, CapitalKept, FlowStays

\* Only its owner moves capital, or it is returned and stays rewarded.
LEMMA PositionForfeits ==
  ASSUME EarnedInv, RewardTypeOK', IdsOK', NEW y \in Accounts,
         Deposit(y) \/ Withdraw(y) \/ TerminalReturn(y), NEW s \in Open
  PROVE  OwnerActs(s) \/ Keeps(s)
<1>1. /\ RewardTypeOK /\ IdsOK /\ PositionsOK /\ position \in [Accounts -> Position]
      /\ s \in Stakes /\ s[1] \in Accounts
      /\ stake[s].cohort \in CapitalCohorts \/ stake[s].cohort \in FlowCohorts
  BY OpenStake DEF EarnedInv, RewardInv, RewardTypeOK
<1>2. /\ UNCHANGED <<portfolio, archive, market, stake>>
      /\ \A x \in Accounts : x # y => position'[x] = position[x]
  BY <1>1 DEF Deposit, Withdraw, TerminalReturn, Outside, portfolio_vars
<1>3. CASE position'[s[1]] = position[s[1]]
  BY <1>1, <1>2, <1>3, ElsewhereKeeps
<1>4. CASE position'[s[1]] # position[s[1]] /\ (Deposit(y) \/ Withdraw(y))
  <2>1. s[1] = y
    BY <1>1, <1>2, <1>4
  <2>2. position'[y].returned = position[y].returned
    BY <1>1, <1>4 DEF Deposit, Withdraw, Position
  <2> QED BY <1>4, <2>1, <2>2 DEF OwnerActs
<1>5. CASE stake[s].cohort \in FlowCohorts
  <2>1. LiveUnder(s[1], stake[s].portfolio_id)' <=> LiveUnder(s[1], stake[s].portfolio_id)
    BY <1>2 DEF LiveUnder
  <2> QED BY <1>1, <1>2, <1>5, <2>1, FlowStays
<1>6. CASE position'[s[1]] # position[s[1]] /\ TerminalReturn(y)
           /\ stake[s].cohort \in CapitalCohorts
  <2>1. s[1] = y
    BY <1>1, <1>2, <1>6
  <2>2. /\ position[y].principal > 0 /\ position[y].principal \in Nat
        /\ position[y].returned \in Nat
        /\ position[y].withdrawn => position[y].principal = 0
        /\ position[y].returned # 0 => position[y].withdrawn
    BY <1>1, <1>6 DEF TerminalReturn, PositionsOK, Position
  <2>3. /\ position'[y].returned = position[y].principal
        /\ position'[y].start_slot = position[y].start_slot
    BY <1>1, <1>6 DEF TerminalReturn, Position
  <2>4. CapitalAtRisk(y) = position[y].principal
    BY <2>2 DEF CapitalAtRisk
  <2>5. CapitalAtRisk(y)' = position[y].principal
    BY <2>2, <2>3 DEF CapitalAtRisk
  <2>6. stake'[s] = stake[s]
    BY <1>2
  <2>7. CapitalAtRisk(s[1])' = CapitalAtRisk(s[1])
    BY <2>1, <2>4, <2>5
  <2> QED BY <1>1, <1>6, <2>1, <2>3, <2>6, <2>7, CapitalKept
<1> QED BY <1>1, <1>3, <1>4, <1>5, <1>6

\* A portfolio is opened under another number, or where stakes need an archive.
LEMMA OpenForfeits ==
  ASSUME EarnedInv, RewardTypeOK', IdsOK', NEW y \in Accounts, NEW holder \in {"owner", "other"},
         OpenPortfolio(y, holder), NEW s \in Open
  PROVE  OwnerActs(s) \/ Keeps(s)
<1> DEFINE x  == s[1]
           id == stake[s].portfolio_id
<1>1. /\ RewardTypeOK /\ IdsOK /\ s \in Stakes /\ x \in Accounts
      /\ stake[s].cohort \in CapitalCohorts \/ stake[s].cohort \in FlowCohorts
      /\ StakeOK(s)
  BY OpenStake DEF EarnedInv, RewardInv, StakesOK
<1>2. /\ UNCHANGED <<archive, market, stake, position>>
      /\ portfolio[y].holder = "none"
      /\ \A r \in Accounts : r # y => portfolio'[r] = portfolio[r]
  BY <1>1 DEF OpenPortfolio, Outside, RewardTypeOK
<1>3. Quiet
  BY <1>1, QuietOpen
<1>4. CASE x # y
  BY <1>1, <1>2, <1>4, ElsewhereKeeps
<1>5. CASE stake[s].cohort \in CapitalCohorts
  <2>1. CapitalAtRisk(x)' = CapitalAtRisk(x)
    BY <1>2 DEF CapitalAtRisk
  <2> QED BY <1>1, <1>2, <1>5, <2>1, CapitalKept
<1>6. CASE x = y /\ stake[s].cohort \in FlowCohorts
  <2>1. id \in 1 .. next_portfolio_id - 1
    BY <1>1, <1>6 DEF StakeOK, FlowStakeOK
  <2>2. ~LiveUnder(x, id)
    BY <1>2, <1>6 DEF LiveUnder
  <2>3. ~(LiveUnder(x, id)')
    <3>1. \A n \in 1 .. next_portfolio_id - 1 : LiveUnder(x, n)' => LiveUnder(x, n)
      BY <1>1, <1>2, <1>3 DEF Quiet
    <3>2. id' = id
      BY <1>2
    <3> QED BY <2>1, <2>2, <3>1, <3>2
  <2> QED BY <1>1, <1>2, <1>6, <2>2, <2>3, FlowStays
<1> QED BY <1>1, <1>4, <1>5, <1>6

\* Whoever closes a portfolio that has flow and was not archived is its owner.
LEMMA CloseForfeits ==
  ASSUME EarnedInv, RewardTypeOK', IdsOK', NEW y \in Accounts, ClosePortfolio(y), NEW s \in Open
  PROVE  OwnerActs(s) \/ Keeps(s)
<1> DEFINE x  == s[1]
           id == stake[s].portfolio_id
<1>1. /\ RewardTypeOK /\ IdsOK /\ s \in Stakes /\ x \in Accounts
      /\ stake[s].cohort \in CapitalCohorts \/ stake[s].cohort \in FlowCohorts
  BY OpenStake DEF EarnedInv, RewardInv
<1>2. /\ UNCHANGED <<archive, market, stake, position>>
      /\ \A r \in Accounts : portfolio'[r] = IF r = y THEN NoPortfolio ELSE portfolio[r]
      /\ NoPortfolio.holder = "none"
  BY <1>1 DEF ClosePortfolio, Outside, RewardTypeOK, NoPortfolio
<1>3. CASE x # y
  BY <1>1, <1>2, <1>3, ElsewhereKeeps
<1>4. CASE stake[s].cohort \in CapitalCohorts
  <2>1. CapitalAtRisk(x)' = CapitalAtRisk(x)
    BY <1>2 DEF CapitalAtRisk
  <2> QED BY <1>1, <1>2, <1>4, <2>1, CapitalKept
<1>5. CASE x = y /\ stake[s].cohort \in FlowCohorts
  <2>1. ~(LiveUnder(x, id)')
    BY <1>2, <1>5 DEF LiveUnder
  <2>2. CASE ~LiveUnder(x, id)
    BY <1>1, <1>2, <1>5, <2>1, <2>2, FlowStays
  <2>3. CASE LiveUnder(x, id) /\ portfolio[x].counters = NoFlow
    BY <1>5, <2>3, NothingToLose
  <2>4. CASE LiveUnder(x, id) /\ portfolio[x].counters # NoFlow
    <3>1. portfolio[x].holder = "owner" /\ market # "retired"
      BY <2>4 DEF LiveUnder
    <3>2. portfolio'[x] # portfolio[x] /\ archive'[x] = archive[x]
      BY <1>1, <1>2, <1>5, <3>1
    <3> QED BY <2>4, <3>1, <3>2 DEF OwnerActs
  <2> QED BY <2>2, <2>3, <2>4
<1> QED BY <1>1, <1>3, <1>4, <1>5

\* Only the owner of a portfolio trades with it.
LEMMA AccrueForfeits ==
  ASSUME EarnedInv, RewardTypeOK', IdsOK', NEW y \in Accounts, NEW c \in Counters, Accrue(y, c),
         NEW s \in Open
  PROVE  OwnerActs(s) \/ Keeps(s)
<1> DEFINE x  == s[1]
           id == stake[s].portfolio_id
<1>1. /\ RewardTypeOK /\ IdsOK /\ s \in Stakes /\ x \in Accounts
      /\ stake[s].cohort \in CapitalCohorts \/ stake[s].cohort \in FlowCohorts
  BY OpenStake DEF EarnedInv, RewardInv
<1>2. /\ UNCHANGED <<archive, market, stake, position>>
      /\ portfolio' = [portfolio EXCEPT ![y].counters[c] = @ + 1]
  BY DEF Accrue, Outside
<1>3. /\ portfolio[y].counters \in Flow /\ portfolio \in [Accounts -> Portfolio]
      /\ portfolio[y].counters[c] \in Nat
  BY FlowValues DEF RewardTypeOK, EarnedInv, RewardInv, Portfolio
<1>4. /\ \A r \in Accounts : r # y => portfolio'[r] = portfolio[r]
      /\ portfolio'[y].holder = portfolio[y].holder /\ portfolio'[y].id = portfolio[y].id
      /\ portfolio'[y].counters[c] = portfolio[y].counters[c] + 1
  BY <1>2, <1>3 DEF Portfolio, Flow
<1>5. CASE x # y
  BY <1>1, <1>2, <1>4, <1>5, ElsewhereKeeps
<1>6. CASE stake[s].cohort \in CapitalCohorts
  <2>1. CapitalAtRisk(x)' = CapitalAtRisk(x)
    BY <1>2 DEF CapitalAtRisk
  <2> QED BY <1>1, <1>2, <1>6, <2>1, CapitalKept
<1>7. CASE x = y /\ stake[s].cohort \in FlowCohorts
  <2>1. LiveUnder(x, id)' <=> LiveUnder(x, id)
    BY <1>2, <1>4, <1>7 DEF LiveUnder
  <2>2. CASE ~LiveUnder(x, id)
    BY <1>1, <1>2, <1>7, <2>1, <2>2, FlowStays
  <2>3. CASE LiveUnder(x, id) /\ portfolio[x].counters = NoFlow
    BY <1>7, <2>3, NothingToLose
  <2>4. CASE LiveUnder(x, id) /\ portfolio[x].counters # NoFlow
    <3>1. portfolio[x].holder = "owner" /\ market # "retired"
      BY <2>4 DEF LiveUnder
    <3>2. portfolio'[x] # portfolio[x] /\ archive'[x] = archive[x]
      <4>1. portfolio'[y].counters[c] # portfolio[y].counters[c]
        BY <1>3, <1>4
      <4> QED BY <1>2, <1>7, <4>1
    <3> QED BY <2>4, <3>1, <3>2 DEF OwnerActs
  <2> QED BY <2>2, <2>3, <2>4
<1> QED BY <1>1, <1>5, <1>6, <1>7

\* What was archived is witnessed for the stakes on that portfolio; the archive of an
\* earlier one is lost to its stakes since the owner opened another.
LEMMA CleanUpForfeits ==
  ASSUME EarnedInv, RewardTypeOK', IdsOK', NEW y \in Accounts, CleanUp(y), NEW s \in Open
  PROVE  OwnerActs(s) \/ Keeps(s)
<1> DEFINE x  == s[1]
           id == stake[s].portfolio_id
<1>1. /\ RewardTypeOK /\ IdsOK /\ s \in Stakes /\ x \in Accounts
      /\ stake[s].cohort \in CapitalCohorts \/ stake[s].cohort \in FlowCohorts
      /\ StakeOK(s)
  BY OpenStake DEF EarnedInv, RewardInv, StakesOK
<1>2. /\ market = "resolved" /\ portfolio[y].holder = "owner"
      /\ UNCHANGED <<market, stake, position>>
      /\ archive' = [archive EXCEPT ![y] = Archived(y)]
      /\ portfolio' = [portfolio EXCEPT ![y] = NoPortfolio]
  BY DEF CleanUp
<1>3. \A r \in Accounts : /\ portfolio'[r] = IF r = y THEN NoPortfolio ELSE portfolio[r]
                          /\ archive'[r] = IF r = y THEN Archived(y) ELSE archive[r]
  BY <1>1, <1>2 DEF RewardTypeOK
<1>4. /\ NoPortfolio.holder = "none" /\ NoPortfolio.id = 0
      /\ Archived(y).exists = TRUE /\ Archived(y).id = portfolio[y].id
      /\ Archived(y).counters = Plus(archive[y].counters, portfolio[y].counters)
  BY DEF NoPortfolio, Archived
<1>5. CASE x # y
  BY <1>1, <1>2, <1>3, <1>5, ElsewhereKeeps
<1>6. CASE stake[s].cohort \in CapitalCohorts
  <2>1. CapitalAtRisk(x)' = CapitalAtRisk(x)
    BY <1>2 DEF CapitalAtRisk
  <2> QED BY <1>1, <1>2, <1>6, <2>1, CapitalKept
<1>7. CASE x = y /\ stake[s].cohort \in FlowCohorts
  <2>1. id \in 1 .. next_portfolio_id - 1 /\ id \in Nat /\ id # 0
    BY <1>1, <1>7 DEF StakeOK, FlowStakeOK, IdsOK
  <2>2. ~(LiveUnder(x, id)')
    BY <1>3, <1>4, <1>7 DEF LiveUnder
  <2>3. CASE portfolio[x].id = id
    <3>1. Witnesses /\ Witnesses'
      BY <1>1, WitnessOnce, WitnessOnceNext
    <3>2. LiveUnder(x, id)
      BY <1>2, <1>7, <2>3 DEF LiveUnder
    <3>3. WitnessedTotals(x, id) = {Plus(archive[x].counters, portfolio[x].counters)}
      BY <1>1, <2>1, <3>1, <3>2 DEF Witnesses
    <3>4. id' = id
      BY <1>2
    <3>5. Archives(x, id)'
      BY <1>3, <1>4, <1>7, <2>3, <3>4 DEF Archives
    <3>6. WitnessedTotals(x, id)' = {archive'[x].counters}
      BY <1>1, <2>1, <2>2, <3>1, <3>4, <3>5 DEF Witnesses
    <3>7. WitnessedTotals(x, id)' = WitnessedTotals(x, id)
      BY <1>3, <1>4, <1>7, <3>3, <3>6
    <3>8. Detached(s)' /\ stake'[s] = stake[s]
      BY <1>2, <1>3, <1>4, <1>7 DEF Detached, LpDetached
    <3> QED BY <1>1, <1>7, <3>7, <3>8, WitnessKept
  <2>4. CASE portfolio[x].id # id
    <3>1. portfolio'[x].id = 0
      BY <1>3, <1>4, <1>7
    <3>2. "owner" \in {portfolio[x].holder, portfolio'[x].holder}
      BY <1>2, <1>7
    <3> QED BY <2>1, <2>4, <3>1, <3>2 DEF OwnerActs
  <2> QED BY <2>3, <2>4
<1> QED BY <1>1, <1>5, <1>6, <1>7

LEMMA NextPhaseForfeits ==
  ASSUME EarnedInv, RewardTypeOK', IdsOK', NextPhase, NEW s \in Open
  PROVE  OwnerActs(s) \/ Keeps(s)
<1> DEFINE x  == s[1]
           id == stake[s].portfolio_id
<1>1. /\ RewardTypeOK /\ IdsOK /\ s \in Stakes /\ x \in Accounts
      /\ stake[s].cohort \in CapitalCohorts \/ stake[s].cohort \in FlowCohorts
  BY OpenStake DEF EarnedInv, RewardInv
<1>2. /\ UNCHANGED <<archive, portfolio, stake, position>>
      /\ market # "retired"
      /\ market' = "retired" => portfolio[x].holder # "owner"
  BY <1>1 DEF NextPhase, Outside, portfolio_vars
<1>3. LiveUnder(x, id)' <=> LiveUnder(x, id)
  BY <1>2 DEF LiveUnder
<1>4. CASE stake[s].cohort \in CapitalCohorts
  <2>1. CapitalAtRisk(x)' = CapitalAtRisk(x)
    BY <1>2 DEF CapitalAtRisk
  <2> QED BY <1>1, <1>2, <1>4, <2>1, CapitalKept
<1>5. CASE stake[s].cohort \in FlowCohorts
  BY <1>1, <1>2, <1>3, <1>5, FlowStays
<1> QED BY <1>1, <1>4, <1>5

\* A claim settles its own stake only.
LEMMA ClaimForfeits ==
  ASSUME EarnedInv, RewardTypeOK', IdsOK', NEW r \in Stakes, Claim(r), NEW s \in Open
  PROVE  stake'[s].claimed \/ Keeps(s)
<1>1. RewardTypeOK /\ IdsOK /\ s \in Stakes
  BY OpenStake DEF EarnedInv, RewardInv
<1>2. /\ UNCHANGED <<archive, portfolio, market, position>>
      /\ stake' = [stake EXCEPT ![r].claimed = TRUE]
  BY DEF Claim, market_vars, portfolio_vars
<1>3. CASE s = r
  BY <1>1, <1>2, <1>3 DEF RewardTypeOK, Stake
<1>4. CASE s # r
  <2>1. stake'[s] = stake[s]
    BY <1>1, <1>2, <1>4 DEF RewardTypeOK
  <2> QED BY <1>1, <1>2, <2>1, ElsewhereKeeps
<1> QED BY <1>3, <1>4

LEMMA ForfeitNext ==
  ASSUME EarnedInv, RewardTypeOK', IdsOK', [RewardNext]_reward_vars, frozen, NEW s \in Open
  PROVE  stake'[s].claimed \/ OwnerActs(s) \/ Keeps(s)
<1> DEFINE Done == stake'[s].claimed \/ OwnerActs(s) \/ Keeps(s)
<1> SUFFICES Done
  OBVIOUS
<1>1. RewardTypeOK /\ IdsOK
  BY DEF EarnedInv, RewardInv
<1>2. ASSUME NEW x \in Accounts, ByOwner(x) PROVE Done
  <2>1. CASE Deposit(x) \/ Withdraw(x)
    BY <2>1, PositionForfeits
  <2>2. CASE OpenPortfolio(x, "owner")
    BY <2>2, OpenForfeits
  <2>3. CASE ClosePortfolio(x)
    BY <2>3, CloseForfeits
  <2>4. ASSUME NEW cohort \in FlowCohorts, NEW c \in CountersOf(cohort), Accrue(x, c)
        PROVE  Done
    <3>1. c \in Counters
      BY DEF CountersOf, FlowCohorts, Counters
    <3> QED BY <2>4, <3>1, AccrueForfeits
  <2> QED BY <1>2, <2>1, <2>2, <2>3, <2>4 DEF ByOwner
<1>3. ASSUME NEW x \in Accounts, ByPublic(x) PROVE Done
  <2>1. CASE TerminalReturn(x)
    BY <2>1, PositionForfeits
  <2>2. CASE CleanUp(x)
    BY <2>2, CleanUpForfeits
  <2>3. CASE OpenPortfolio(x, "other")
    BY <2>3, OpenForfeits
  <2>4. CASE UnarchivedClose(x)
    BY <2>4, CloseForfeits DEF UnarchivedClose
  <2> QED BY <1>3, <2>1, <2>2, <2>3, <2>4 DEF ByPublic
<1>4. CASE \E r \in Stakes : Claim(r)
  BY <1>4, ClaimForfeits
<1>5. CASE NextPhase
  BY <1>5, NextPhaseForfeits
<1>6. CASE RevokeMint \/ RewardTime \/ (\E n \in Supplies \ {0} : FundVault(n))
           \/ UNCHANGED reward_vars
  <2>1. UNCHANGED <<position, portfolio, market, archive, stake>>
    BY <1>6 DEF RevokeMint, RewardTime, FundVault, Outside, market_vars, portfolio_vars,
                reward_vars
  <2> QED BY <1>1, <2>1, ElsewhereKeeps
<1>7. CASE \E x \in roster \cap Accounts :
             \/ RegisterCapital(x)
             \/ \E cohort \in roster \cap FlowCohorts : RegisterPortfolio(x, cohort)
  BY <1>7 DEF RegisterCapital, RegisterPortfolio, Register
<1>8. CASE \E r \in Stakes : CrystallizeCapital(r) \/ CrystallizeFlow(r)
  <2>1. PICK r \in Stakes : \E points, net, accum : Recredit(r, points, net, accum)
    BY <1>8 DEF CrystallizeCapital, CrystallizeFlow
  <2> QED BY <2>1 DEF Recredit
<1>9. ~Freeze
  BY DEF Freeze
<1> HIDE DEF Done
<1>10. CASE \E x \in roster \cap Accounts :
              \/ RegisterCapital(x)
              \/ \E cohort \in roster \cap FlowCohorts : RegisterPortfolio(x, cohort)
              \/ ByOwner(x)
              \/ ByPublic(x)
  BY <1>2, <1>3, <1>7, <1>10
<1>11. CASE RewardNext
  BY <1>4, <1>5, <1>6, <1>8, <1>9, <1>10, <1>11 DEF RewardNext
<1>12. CASE UNCHANGED reward_vars
  BY <1>6, <1>12
<1> QED BY <1>11, <1>12

\* Once the totals are frozen, whoever returns capital, cleans up or takes keys, retires
\* the market, claims for others or waits, no open stake is rewarded for less than
\* before, unless its owner gave something up (claim, archive_portfolio).
THEOREM OnlyOwnersEverForfeit == RewardSpec => OnlyOwnersForfeit
<1>1. EarnedInv /\ [RewardNext]_reward_vars => RewardInv'
  BY RewardInvNext DEF EarnedInv
<1>2. EarnedInv /\ RewardInv' /\ [RewardNext]_reward_vars => EarnedInv'
  BY EarnedNext DEF EarnedInv
<1>3. EarnedInv /\ EarnedInv' /\ [RewardNext]_reward_vars
        => [frozen => \A s \in Open :
              stake'[s].claimed \/ OwnerActs(s)
              \/ \A points \in Rewarded(s) : points = 0 \/ \E kept \in Rewarded(s)' : kept >= points
           ]_reward_vars
  <2> SUFFICES ASSUME EarnedInv, EarnedInv', [RewardNext]_reward_vars, frozen, NEW s \in Open
               PROVE  stake'[s].claimed \/ OwnerActs(s) \/ Keeps(s)
    BY DEF Keeps
  <2>1. RewardTypeOK' /\ IdsOK'
    BY DEF EarnedInv, RewardInv
  <2> QED BY <2>1, ForfeitNext
<1> QED BY EarnedInit, <1>1, <1>2, <1>3, PTL DEF RewardSpec, OnlyOwnersForfeit
=============================================================================
