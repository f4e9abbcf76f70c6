---------------------------- MODULE IntegerPairs ----------------------------
(***************************************************************************)
(* The integer arithmetic of a partial fill (twap-program/src/lib.rs): COIN *)
(* and USD change hands in whole atoms, at the marginal rate rounded in the *)
(* bidder's disfavour but never beyond the rate it asked for.  A rate and a *)
(* pair of amounts are both <<coin, usd>>; a rate is higher the more COIN   *)
(* it gives for a USD.  Amounts are u64 and products u128 in the code, so   *)
(* comparing rates is exact.                                                *)
(***************************************************************************)
EXTENDS FiniteSetsExt, Integers

CONSTANTS
  MaxExcess,     \* MAX_EXCESS_RESIDUES
  MaxSteps       \* steps of the projection

ASSUME PairsAssumption == MaxExcess \in Nat /\ MaxSteps \in Nat

Coin(p) == p[1]
Usd(p)  == p[2]

Least(a, b) == IF a <= b THEN a ELSE b

Rates == (Nat \ {0}) \X (Nat \ {0})

\* No trade: Option::None, and what an unfilled bid gets.
NoPair == <<0, 0>>

Below(a, b)    == Coin(a) * Usd(b) < Coin(b) * Usd(a)
SameRate(a, b) == Coin(a) * Usd(b) = Coin(b) * Usd(a)

Gcd(a, b) ==
  CHOOSE d \in 1 .. a :
    /\ a % d = 0 /\ b % d = 0
    /\ \A e \in 1 .. a : a % e = 0 /\ b % e = 0 => e <= d

\* The smallest whole amounts at a rate.
Lot(rate) ==
  LET d == Gcd(Coin(rate), Usd(rate)) IN <<Coin(rate) \div d, Usd(rate) \div d>>

LargerPair(a, b) ==
  IF Usd(b) > Usd(a) \/ (Usd(b) = Usd(a) /\ Coin(b) > Coin(a)) THEN b ELSE a

\* What coin atoms are paid at a rate.
AtRate(coin, rate) == (coin * Usd(rate)) \div Coin(rate)

\* Whether coin can be bought of a bid at the marginal rate within max_usd, and
\* for what.
TryCoin(coin, max_usd, marginal, bid) ==
  LET pair == <<coin, AtRate(coin, marginal)>>
  IN  IF coin \in Nat \ {0} /\ Usd(pair) \in 1 .. max_usd /\ ~Below(bid, pair) THEN pair
      ELSE NoPair

\* executable_integer_pair: a nominal USD allocation in whole atoms.
ExecutablePair(nominal, marginal, bid) ==
  LET coin == (nominal * Coin(marginal)) \div Usd(marginal)
  IN  IF coin > Coin(bid) THEN NoPair ELSE TryCoin(coin, nominal, marginal, bid)

----------------------------------------------------------------------------
(* The fraction of lowest denominator within two rates, by continued         *)
(* fractions, with its neighbours in the Stern-Brocot tree.                  *)

Intervals == { i \in Rates \X Rates : ~Below(i[2], i[1]) }

\* The fraction within <<lower, upper>> and the convergent before it: the whole
\* number there is, or the whole part of both ends and what the reciprocals of the
\* rest come to.
Convergents[i \in Intervals] ==
  LET lower == i[1]
      upper == i[2]
      term  == Coin(lower) \div Usd(lower)
      rest  == Coin(lower) % Usd(lower)
      Whole(n)  == [last |-> <<n, 1>>, before |-> <<1, 0>>]
      Onto(p)   == <<term * Coin(p) + Usd(p), Coin(p)>>
      Beyond(c) == [last |-> Onto(c.last), before |-> Onto(c.before)]
  IN  IF rest = 0 THEN Whole(term)
      ELSE IF Coin(upper) >= (term + 1) * Usd(upper) THEN Whole(term + 1)
      ELSE Beyond(Convergents[<< <<Usd(upper), Coin(upper) - term * Usd(upper)>>,
                                 <<Usd(lower), rest>> >>])

\* A fraction with its parents in the tree, from its convergents.
Neighbours(c) ==
  LET other == <<Coin(c.last) - Coin(c.before), Usd(c.last) - Usd(c.before)>>
      parents == IF Usd(c.before) # 0 /\ Below(c.before, c.last)
                 THEN <<c.before, other>> ELSE <<other, c.before>>
  IN  [rate |-> c.last, parents |-> parents]

SimplestFraction(lower, upper) == Neighbours(Convergents[<<lower, upper>>])

----------------------------------------------------------------------------
(* The most that can be bought of a bid, candidate by candidate.  A search   *)
(* is for a bid's COIN within max_usd at the marginal rate; m and b are the  *)
(* two rates in lowest terms.                                                *)

\* The most COIN whose floored USD leg is within max_usd.
CoinAtMost(max_usd, marginal) == ((max_usd + 1) * Coin(marginal) - 1) \div Usd(marginal)

Search(max_usd, marginal, bid) ==
  [max_usd |-> max_usd, marginal |-> marginal, bid |-> bid,
   m |-> Lot(marginal), b |-> Lot(bid),
   coin |-> Least(Coin(bid), CoinAtMost(max_usd, marginal))]

Try(coin, s) == TryCoin(coin, s.max_usd, s.marginal, s.bid)

\* As many whole lots of either end of the interval as fit.
LotPair(s) ==
  LET m_lots == Least(s.max_usd \div Usd(s.m), Coin(s.bid) \div Coin(s.m))
      b_lots == s.coin \div Coin(s.b)
  IN  LargerPair(Try(m_lots * Coin(s.m), s), Try(b_lots * Coin(s.b), s))

\* How far apart the two rates are.
Determinant(s) == Coin(s.b) * Usd(s.m) - Coin(s.m) * Usd(s.b)

\* The largest denominator within a limit in the residue class modulo Usd(m) of
\* the COIN legs that are `excess` above the marginal rate.
ResidueUsd(excess, limit, m) ==
  LET parent == IF Usd(m) = 1 THEN <<1, 0>> ELSE SimplestFraction(m, m).parents[2]
      class  == (excess * Usd(parent)) % Usd(m)
  IN  IF class = 0 THEN (limit \div Usd(m)) * Usd(m)
      ELSE IF class > limit THEN 0
      ELSE class + ((limit - class) \div Usd(m)) * Usd(m)

\* Any pair the budget allows lies at one of few excesses.
ResiduePair(best, excess, s) ==
  LET capacity == Usd(s.m) * s.coin
      limit    == Least(s.max_usd, (capacity - excess) \div Coin(s.m))
      Improved(usd) ==
        IF \/ usd = 0 \/ usd < Usd(best)
           \/ Usd(s.b) * excess > Determinant(s) * usd
        THEN best
        ELSE LargerPair(best, Try((Coin(s.m) * usd + excess) \div Usd(s.m), s))
  IN  IF capacity < excess THEN best ELSE Improved(ResidueUsd(excess, limit, s.m))

\* From the simplest fraction inside the interval towards a parent, as far as the
\* budget and the end of the interval allow.
RayPair(interior, parent, s) ==
  LET Apart(p, q) == Coin(p) * Usd(q) - Coin(q) * Usd(p)
      steps == Min({ (s.max_usd - Usd(interior)) \div Usd(parent) }
                   \cup (IF Below(parent, s.m)
                         THEN { Apart(interior, s.m) \div Apart(s.m, parent) } ELSE {})
                   \cup (IF Below(s.b, parent)
                         THEN { Apart(s.b, interior) \div Apart(parent, s.b) } ELSE {}))
  IN  Try(Coin(interior) + steps * Coin(parent), s)

InteriorPair(seed, s) ==
  LET Lots(rate) == Least(s.max_usd \div Usd(rate), Coin(s.bid) \div Coin(rate))
      Ray(rate, parent) == IF Usd(parent) = 0 THEN NoPair ELSE RayPair(rate, parent, s)
      Along(f) ==
        IF Usd(f.rate) > s.max_usd \/ Coin(f.rate) > Coin(s.bid) THEN seed
        ELSE LargerPair(LargerPair(LargerPair(seed, Try(Lots(f.rate) * Coin(f.rate), s)),
                                   Ray(f.rate, f.parents[1])),
                        Ray(f.rate, f.parents[2]))
  IN  Along(SimplestFraction(s.m, s.b))

\* Mutant: only the bidder's limit caps a projection.
ProjectedCoin_BidOnly(usd, marginal, bid) == (Coin(bid) * usd) \div Usd(bid)

\* The most COIN that may be paid usd.
ProjectedCoin(usd, marginal, bid) ==
  Least((Coin(bid) * usd) \div Usd(bid), CoinAtMost(usd, marginal))

\* What denominator usd leads to, if smaller ones lead to what `further` says:
\* denominators descend to what the COIN they allow can support.
ProjectedFrom(usd, further, seed, s) ==
  LET coin == ProjectedCoin(usd, s.marginal, s.bid)
      next == AtRate(coin, s.marginal)
  IN  IF usd = 0 \/ usd < Usd(seed) \/ coin = 0 THEN seed
      ELSE IF coin * Usd(s.marginal) >= Coin(s.marginal) * usd THEN <<coin, usd>>
      ELSE IF next >= usd THEN seed
      ELSE further[next]

ProjectedPair(seed, s) ==
  LET within[steps \in 0 .. MaxSteps] ==
        [usd \in Nat |-> IF steps = 0 THEN seed
                         ELSE ProjectedFrom(usd, within[steps - 1], seed, s)]
  IN  within[MaxSteps][s.max_usd]

\* Pairs of every excess there may be, smallest excess first.
ResiduePairs(seed, residues, s) ==
  LET best[r \in 0 .. MaxExcess] == IF r = 0 THEN seed ELSE ResiduePair(best[r - 1], r, s)
  IN  best[residues]

\* Few excesses are all tried; of many only the likeliest pairs are.
Candidates(seed, s) ==
  LET apart    == Determinant(s)
      residues == (apart * s.max_usd) \div Usd(s.b)
  IN  IF seed = <<s.coin, s.max_usd>> \/ apart = 0 THEN seed
      ELSE IF residues \in 0 .. MaxExcess THEN ResiduePairs(seed, residues, s)
      ELSE IF Usd(s.m) + Usd(s.b) > apart * s.max_usd THEN seed
      ELSE ProjectedPair(InteriorPair(seed, s), s)

\* max_executable_integer_pair
MaxExecutablePair(budget, marginal, bid) ==
  LET Best(s, first) == IF first # NoPair THEN first ELSE Candidates(LotPair(s), s)
      Searched(s) == Best(s, Try(s.coin, s))
      max_usd == Least(budget, Usd(bid))
  IN  IF max_usd = 0 THEN NoPair ELSE Searched(Search(max_usd, marginal, bid))
=============================================================================
