----------------------------- MODULE RewardMath -----------------------------
(***************************************************************************)
(* The point arithmetic of the residual distributor                         *)
(* (residual-distributor/src/lib.rs): time weights, the pro-rata split with *)
(* its long division, and the caps applied when rewards are claimed.        *)
(***************************************************************************)
EXTENDS Integers, FiniteSets

CONSTANTS
  PointLimit,    \* 2^128: point products from here on do not fit a u128
  SupplyBits     \* bits of a supply, 64 in the code

ASSUME RewardMathAssumption ==
  /\ PointLimit \in Nat \ {0}
  /\ SupplyBits \in Nat \ {0}

Lesser(a, b) == IF a <= b THEN a ELSE b
Later(a, b)  == IF a >= b THEN a ELSE b

\* saturating_sub
Monus(a, b) == IF a >= b THEN a - b ELSE 0

FloorLog2(n) == Cardinality({k \in 1 .. n : 2^k <= n})

\* One more quotient bit; the remainder is doubled below the divisor.
Doubled(d, divisor) ==
  IF d.remainder >= divisor - d.remainder
  THEN [quotient |-> 2 * d.quotient + 1, remainder |-> d.remainder - (divisor - d.remainder)]
  ELSE [quotient |-> 2 * d.quotient, remainder |-> 2 * d.remainder]

\* n more, modulo the divisor.
Added(d, n, divisor) ==
  IF d.remainder >= divisor - n
  THEN [quotient |-> d.quotient + 1, remainder |-> d.remainder - (divisor - n)]
  ELSE [quotient |-> d.quotient, remainder |-> d.remainder + n]

\* supply * points \div total, bit by bit of the supply.
LongDivision(supply, points, total) ==
  LET division[i \in 0 .. SupplyBits] ==
        IF i = 0 THEN [quotient |-> 0, remainder |-> 0]
        ELSE LET next == Doubled(division[i - 1], total)
             IN  IF (supply \div 2^(SupplyBits - i)) % 2 = 1
                 THEN Added(next, points, total) ELSE next
  IN  division[SupplyBits].quotient

\* Mutant: an overflowing product saturates.
PointsToAmount_Saturating(supply, points, total) ==
  IF total = 0 \/ points > total THEN 0
  ELSE Lesser(supply * points, PointLimit - 1) \div total

\* Mutant: shares are rounded up.
PointsToAmount_RoundedUp(supply, points, total) ==
  IF total = 0 \/ points > total THEN 0 ELSE (supply * points + total - 1) \div total

PointsToAmount(supply, points, total) ==
  IF total = 0 \/ points > total THEN 0
  ELSE IF supply * points < PointLimit THEN (supply * points) \div total
  ELSE LongDivision(supply, points, total)

\* Mutant: the points that are replaced stay in the total.
ReplacedPoints_Added(total, old, new) == total + new

\* A cohort's total when one stake's points are replaced.
ReplacedPoints(total, old, new) == total - old + new

ReplaceFits(total, old, new) == old <= total /\ ReplacedPoints(total, old, new) < PointLimit

\* Points of a net flow that was cut to cap; the time weight they are a multiple
\* of is kept.
CapResidualPoints(points, net, cap) ==
  IF net = 0 \/ cap >= net THEN points ELSE (points \div net) * cap

\* The division above is exact, and its result fits.
CapIsExact(points, net, cap) ==
  IF net = 0 \/ cap >= net THEN TRUE
  ELSE points % net = 0 /\ (points \div net) * cap < PointLimit

\* Mutant: what was spent after the snapshot is forgotten.
TraderLiveCap_NetOnly(net, spent_then, net_now, spent_now) == Lesser(net, net_now)

\* A loss rewards a trader only while it has not won it back.
TraderLiveCap(net, spent_then, net_now, spent_now) ==
  Lesser(Monus(net, Monus(spent_now, spent_then)), net_now)
=============================================================================
