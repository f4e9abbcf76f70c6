------------------------------ MODULE PoolProofs ------------------------------
(***************************************************************************)
(* The shares of a pool of either kind, for any owners, amounts, windows    *)
(* and any width of the share counter that holds the principal at par.      *)
(***************************************************************************)
EXTENDS OwnVault, SumsProofs

----------------------------------------------------------------------------
(* The share arithmetic.                                                    *)

\* A rounded-up quotient is the least number whose multiple is enough.
LEMMA CeilQuotient ==
  ASSUME NEW a \in Nat, NEW b \in Nat, b > 0
  PROVE  /\ CeilDiv(a, b) \in Nat
         /\ a <= b * CeilDiv(a, b)
         /\ b * CeilDiv(a, b) < a + b
<1> DEFINE x == a + b - 1
           q == x \div b
<1>1. x \in Nat
  OBVIOUS
<1> HIDE DEF x
<1>2. q \in Nat /\ b * q <= x /\ x < b * q + b
  BY <1>1, Quotient
<1> HIDE DEF q
<1>3. b * q \in Nat
  BY <1>2
<1>4. a <= b * q /\ b * q < a + b
  BY <1>2, <1>3 DEF x
<1>5. CeilDiv(a, b) = q
  BY DEF CeilDiv, q, x
<1> QED BY <1>2, <1>4, <1>5

\* A number whose multiple is enough is no less than the rounded-up quotient.
LEMMA CeilAtMost ==
  ASSUME NEW a \in Nat, NEW b \in Nat, b > 0, NEW c \in Nat, a <= b * c
  PROVE  CeilDiv(a, b) <= c
<1> DEFINE q == CeilDiv(a, b)
<1>1. q \in Nat /\ b * q < a + b
  BY CeilQuotient
<1> HIDE DEF q
<1>2. SUFFICES ASSUME c + 1 <= q PROVE FALSE
  BY <1>1 DEF q
<1>3. PICK d \in Nat : q = c + 1 + d
  <2>1. q - (c + 1) \in Nat /\ q = c + 1 + (q - (c + 1))
    BY <1>1, <1>2
  <2> QED BY <2>1
<1>4. b * q = b * c + b + b * d /\ b * d \in Nat /\ b * c \in Nat
  BY <1>1, <1>3
<1> QED BY <1>1, <1>4

\* There is always at least one virtual share.
LEMMA VirtualSharesPositive ==
  ASSUME NEW e \in Nat
  PROVE  VirtualSharesAt(e) \in Nat /\ VirtualSharesAt(e) > 0
<1>1. 2^e \in Nat /\ 2^e > 0
  BY PowerPositive
<1>2. VirtualShares \in Nat /\ VirtualShares > 0
  BY ShareAssumption
<1> DEFINE p == 2^e
           q == CeilDiv(VirtualShares, p)
<1>3. p \in Nat /\ p > 0
  BY <1>1
<1> HIDE DEF p
<1>4. q \in Nat /\ VirtualShares <= p * q
  BY <1>2, <1>3, CeilQuotient
<1> HIDE DEF q
<1>5. q # 0
  BY <1>2, <1>3, <1>4
<1>6. VirtualSharesAt(e) = q
  BY DEF VirtualSharesAt, q, p
<1> QED BY <1>4, <1>5, <1>6

\* Without halvings nothing is rescaled.
LEMMA NoRescale ==
  ASSUME NEW t \in Nat
  PROVE  /\ Rescaled(t, 0) = t
         /\ LazilyRescaled(t, 0) = t
         /\ VirtualSharesAt(0) = VirtualShares
<1>1. 2^0 = 1
  BY PowerZero
<1>2. (t + 1 - 1) \div 1 = t /\ t \div 1 = t
  OBVIOUS
<1>3. VirtualShares \in Nat
  BY ShareAssumption
<1>4. (VirtualShares + 1 - 1) \div 1 = VirtualShares
  BY <1>3
<1> QED BY <1>1, <1>2, <1>4 DEF Rescaled, LazilyRescaled, VirtualSharesAt, CeilDiv

\* Shares halved in two goes are halved as often at once.
LEMMA RescaledTwice ==
  ASSUME NEW s \in Nat, NEW j \in Nat, NEW k \in Nat
  PROVE  /\ LazilyRescaled(s, j) \in Nat
         /\ LazilyRescaled(LazilyRescaled(s, j), k) = LazilyRescaled(s, j + k)
<1> DEFINE p == 2^j
           r == 2^k
<1>1. p \in Nat /\ p > 0 /\ r \in Nat /\ r > 0 /\ 2^(j + k) = p * r
  BY PowerPositive, PowerSum
<1> HIDE DEF p, r
<1>2. s \div p \in Nat /\ (s \div p) \div r = s \div (p * r)
  BY <1>1, Quotient, QuotientTwice
<1> QED BY <1>1, <1>2 DEF LazilyRescaled, p, r

\* A rescaled total is a number of shares.
LEMMA RescaledType ==
  ASSUME NEW t \in Nat, NEW k \in Nat
  PROVE  /\ Rescaled(t, k) \in Nat
         /\ t <= 2^k * Rescaled(t, k)
         /\ 2^k \in Nat /\ 2^k > 0
<1>1. 2^k \in Nat /\ 2^k > 0
  BY PowerPositive
<1> DEFINE p == 2^k
<1>2. p \in Nat /\ p > 0
  BY <1>1
<1> HIDE DEF p
<1>3. CeilDiv(t, p) \in Nat /\ t <= p * CeilDiv(t, p)
  BY <1>2, CeilQuotient
<1> QED BY <1>1, <1>3 DEF Rescaled, p

\* What shares are worth: no more than the balance while they are fewer than the
\* basis.
LEMMA RedeemBounds ==
  ASSUME NEW s \in Nat, NEW balance \in Nat, NEW basis \in Nat, s < basis
  PROVE  /\ Redeem(s, balance, basis) \in Nat
         /\ Redeem(s, balance, basis) <= balance
<1>1. basis > 0 /\ balance + 1 \in Nat /\ s * (balance + 1) \in Nat
  OBVIOUS
<1>2. s * (balance + 1) < basis * balance + basis
  <2>1. s + 1 <= basis
    OBVIOUS
  <2>2. (s + 1) * (balance + 1) <= basis * (balance + 1)
    BY <2>1
  <2>3. (s + 1) * (balance + 1) = s * (balance + 1) + balance + 1
    OBVIOUS
  <2>4. basis * (balance + 1) = basis * balance + basis
    OBVIOUS
  <2>5. s * (balance + 1) \in Nat /\ basis * balance \in Nat
    OBVIOUS
  <2> QED BY <2>2, <2>3, <2>4, <2>5
<1>3. (s * (balance + 1)) \div basis <= balance
  BY <1>1, <1>2, QuotientAtMost
<1>4. (s * (balance + 1)) \div basis \in Nat
  BY <1>1, Quotient
<1> QED BY <1>3, <1>4 DEF Redeem

----------------------------------------------------------------------------
(* The invariant.                                                           *)

Generations == [reset : Nat, scale : Nat]
Positions   == [principal : Nat, shares : Nat, generation : Generations,
                vote_locked : BOOLEAN, withdrawn : BOOLEAN]

NumbersOK ==
  /\ policy \in {"principal", "with_surplus"}
  /\ own_vault \in BOOLEAN
  /\ impaired \in BOOLEAN
  /\ outstanding \in Nat
  /\ total_shares \in Nat
  /\ insurance \in Nat
  /\ generation \in Generations
  /\ position \in [Owners -> Positions]

Principals == [o \in Owners |-> position[o].principal]

\* The shares that count: those of positions with principal.
Held == [o \in Owners |-> IF position[o].principal = 0 THEN 0 ELSE CurrentShares(o)]

\* The pool owes the positions' principal and counts at least their shares.
TotalsOK ==
  /\ outstanding = Total(Principals, Owners)
  /\ Total(Held, Owners) <= total_shares

\* A position with principal is not ahead of the pool, one without has no shares.
PositionsOK ==
  \A o \in Owners :
    /\ position[o].principal > 0 => Movable(o)
    /\ position[o].principal = 0 => position[o].shares = 0
    /\ position[o].principal = 0 /\ ~position[o].withdrawn
         => position[o].generation = FirstGeneration

\* A vault of its own never halves shares, holds what a principal pool owes, and
\* never prices a share below par.
VaultOK ==
  own_vault =>
    /\ generation = FirstGeneration
    /\ \A o \in Owners : position[o].generation = FirstGeneration
    /\ policy = "principal" => outstanding <= insurance
    /\ policy = "with_surplus" => total_shares <= VirtualShares * insurance

\* Until a principal pool lost something its shares are the principal at par.
ParOK ==
  policy = "principal" /\ ~own_vault /\ ~impaired =>
    /\ outstanding <= insurance
    /\ total_shares = VirtualShares * outstanding
    /\ generation = FirstGeneration
    /\ \A o \in Owners : /\ position[o].shares = VirtualShares * position[o].principal
                         /\ position[o].generation = FirstGeneration

PoolInv == NumbersOK /\ TotalsOK /\ PositionsOK /\ VaultOK /\ ParOK

\* What the assumptions say of the bounds.
LEMMA PoolBounds ==
  /\ IsFiniteSet(Owners)
  /\ MaxPrincipal \in Nat /\ MaxInsurance \in Nat /\ MaxEpoch \in Nat /\ MaxVault \in Nat
  /\ VirtualShares \in Nat /\ VirtualShares > 0 /\ MaxShares \in Nat /\ MaxRescales \in Nat
  /\ VirtualShares * (MaxPrincipal + 1) <= MaxShares
  /\ \A n \in Sizes \cup MarketMoves \cup VaultMoves : n \in Nat /\ n > 0
BY PoolAssumption, ShareAssumption, VaultAssumption

----------------------------------------------------------------------------
(* What the invariant says of a state.                                      *)

\* The fields of a position are of their types.
LEMMA PositionType ==
  ASSUME NumbersOK, NEW o \in Owners
  PROVE  /\ position[o].principal \in Nat
         /\ position[o].shares \in Nat
         /\ position[o].generation \in Generations
         /\ position[o].generation.reset \in Nat
         /\ position[o].generation.scale \in Nat
         /\ generation.reset \in Nat
         /\ generation.scale \in Nat
         /\ position[o].vote_locked \in BOOLEAN
         /\ position[o].withdrawn \in BOOLEAN
<1>1. position[o] \in Positions
  BY DEF NumbersOK
<1>2. position[o].generation \in Generations
  BY <1>1 DEF Positions
<1>3. generation \in Generations
  BY DEF NumbersOK
<1> QED BY <1>1, <1>2, <1>3 DEF Positions, Generations

\* A position that is not ahead of the pool has a number of shares.
LEMMA SharesType ==
  ASSUME NumbersOK, NEW o \in Owners, Movable(o)
  PROVE  CurrentShares(o) \in Nat
<1> USE PositionType
<1>1. CASE position[o].generation.reset = generation.reset
  <2>1. position[o].generation.scale <= generation.scale
    BY <1>1 DEF Movable
  <2>2. generation.scale - position[o].generation.scale \in Nat
    BY <2>1
  <2>3. LazilyRescaled(position[o].shares, generation.scale - position[o].generation.scale) \in Nat
    BY <2>2, RescaledTwice
  <2> QED BY <1>1, <2>3 DEF CurrentShares
<1>2. CASE position[o].generation.reset # generation.reset
  BY <1>2 DEF CurrentShares
<1> QED BY <1>1, <1>2

\* What is held is what a position with principal has, and fits the pool.
LEMMA HeldType ==
  ASSUME PoolInv
  PROVE  \A o \in Owners :
           /\ Held[o] \in Nat
           /\ Held[o] <= total_shares
           /\ position[o].principal > 0 => Held[o] = CurrentShares(o)
           /\ position[o].principal = 0 => Held[o] = 0
<1>1. \A o \in Owners : /\ position[o].principal \in Nat
                        /\ position[o].principal > 0 => CurrentShares(o) \in Nat
  BY PositionType, SharesType DEF PoolInv, PositionsOK
<1>2. \A o \in Owners :
        /\ Held[o] \in Nat
        /\ position[o].principal > 0 => Held[o] = CurrentShares(o)
        /\ position[o].principal = 0 => Held[o] = 0
  BY <1>1 DEF Held
<1>3. ASSUME NEW o \in Owners PROVE Held[o] <= total_shares
  <2>1. Held[o] <= Total(Held, Owners) /\ Total(Held, Owners) \in Nat
    BY <1>2, PoolBounds, TotalCovers, TotalType
  <2>2. Total(Held, Owners) <= total_shares /\ total_shares \in Nat
    BY DEF PoolInv, TotalsOK, NumbersOK
  <2>3. Held[o] \in Nat
    BY <1>2
  <2> QED BY <2>1, <2>2, <2>3
<1> QED BY <1>2, <1>3

\* The pool owes each position's principal.
LEMMA OwesPrincipal ==
  ASSUME PoolInv
  PROVE  \A o \in Owners : /\ position[o].principal \in Nat
                           /\ position[o].principal <= outstanding
<1>1. \A o \in Owners : Principals[o] = position[o].principal /\ Principals[o] \in Nat
  BY PositionType DEF Principals, PoolInv
<1>2. \A o \in Owners : Principals[o] <= Total(Principals, Owners)
  BY <1>1, PoolBounds, TotalCovers
<1> QED BY <1>1, <1>2 DEF PoolInv, TotalsOK

\* What the shares are priced over, and how many there are.
LEMMA PricedType ==
  ASSUME PoolInv
  PROVE  /\ Priced \in Nat /\ Priced <= insurance
         /\ policy = "with_surplus" => Priced = insurance
         /\ policy = "principal" => Priced <= outstanding
         /\ VirtualSharesAt(generation.scale) \in Nat
         /\ VirtualSharesAt(generation.scale) > 0
         /\ PoolBasis = total_shares + VirtualSharesAt(generation.scale)
         /\ PoolBasis \in Nat /\ PoolBasis > total_shares
<1>1. /\ outstanding \in Nat /\ insurance \in Nat /\ total_shares \in Nat
      /\ policy \in {"principal", "with_surplus"}
      /\ generation \in Generations
  BY DEF PoolInv, NumbersOK
<1>2. generation.scale \in Nat
  BY <1>1 DEF Generations
<1>3. VirtualSharesAt(generation.scale) \in Nat /\ VirtualSharesAt(generation.scale) > 0
  BY <1>2, VirtualSharesPositive
<1>4. PoolBasis = total_shares + VirtualSharesAt(generation.scale)
  <2>1. Rescaled(total_shares, 0) = total_shares
    BY <1>1, NoRescale
  <2>2. generation.scale + 0 = generation.scale
    BY <1>2
  <2> QED BY <2>1, <2>2 DEF PoolBasis, Basis
<1>5. /\ Priced \in Nat /\ Priced <= insurance
      /\ policy = "with_surplus" => Priced = insurance
      /\ policy = "principal" => Priced <= outstanding
  BY <1>1 DEF Priced, PricedBalance, Least
<1> QED BY <1>1, <1>3, <1>4, <1>5

\* The shares that go with part of a position's principal are some of its own.
LEMMA RetiredType ==
  ASSUME PoolInv, NEW o \in Owners, NEW n \in 1 .. position[o].principal
  PROVE  /\ Movable(o)
         /\ CurrentShares(o) \in Nat
         /\ CurrentShares(o) <= total_shares
         /\ Retired(o, n) \in Nat
         /\ Retired(o, n) <= CurrentShares(o)
<1> DEFINE p == position[o].principal
           c == CurrentShares(o)
<1>1. p \in Nat /\ n \in Nat /\ n > 0 /\ n <= p /\ p > 0
  BY OwesPrincipal
<1>2. Movable(o)
  BY <1>1 DEF PoolInv, PositionsOK
<1>3. c \in Nat /\ c <= total_shares
  BY <1>1, HeldType
<1>4. Retired(o, n) = IF n = p THEN c ELSE (c * n) \div p
  BY DEF Retired
<1> HIDE DEF p, c
<1>5. (c * n) \div p \in Nat /\ (c * n) \div p <= c
  <2>1. c * n \in Nat
    BY <1>1, <1>3
  <2>2. c * n < p * c + p
    <3>1. c * n <= c * p
      BY <1>1, <1>3
    <3>2. c * p = p * c /\ c * p \in Nat
      BY <1>1, <1>3
    <3> QED BY <1>1, <2>1, <3>1, <3>2
  <2> QED BY <1>1, <1>3, <2>1, <2>2, Quotient, QuotientAtMost
<1> QED BY <1>2, <1>3, <1>4, <1>5 DEF p, c

\* A payout is never negative and always there.
LEMMA OwedIsThere ==
  ASSUME PoolInv, NEW o \in Owners, NEW n \in 1 .. position[o].principal
  PROVE  /\ Owed(o, n) \in Nat /\ Owed(o, n) <= insurance
         /\ Redeem(Retired(o, n), Priced, PoolBasis) \in Nat
         /\ Redeem(Retired(o, n), Priced, PoolBasis) <= Priced
<1> DEFINE worth == Redeem(Retired(o, n), Priced, PoolBasis)
<1>1. Retired(o, n) \in Nat /\ Retired(o, n) < PoolBasis
  BY RetiredType, PricedType DEF PoolInv, NumbersOK
<1>2. worth \in Nat /\ worth <= Priced
  BY <1>1, PricedType, RedeemBounds
<1>3. worth <= insurance /\ insurance \in Nat
  BY <1>2, PricedType DEF PoolInv, NumbersOK
<1>4. n \in Nat /\ n <= outstanding /\ n > 0 /\ outstanding \in Nat
  BY OwesPrincipal DEF PoolInv, NumbersOK
<1>5. Payout(insurance, outstanding, n) \in Nat /\ Payout(insurance, outstanding, n) <= insurance
  <2>1. insurance * n \in Nat
    BY <1>3, <1>4
  <2>2. insurance * n < outstanding * insurance + outstanding
    <3>1. insurance * n <= insurance * outstanding
      BY <1>3, <1>4
    <3>2. insurance * outstanding = outstanding * insurance /\ insurance * outstanding \in Nat
      BY <1>3, <1>4
    <3> QED BY <1>4, <2>1, <3>1, <3>2
  <2>3. (insurance * n) \div outstanding \in Nat /\ (insurance * n) \div outstanding <= insurance
    BY <1>3, <1>4, <2>1, <2>2, Quotient, QuotientAtMost
  <2> QED BY <1>3, <1>4, <2>3 DEF Payout
<1> HIDE DEF worth
<1>6. Least(n, worth) \in Nat /\ Least(n, worth) <= worth
  BY <1>2, <1>4 DEF Least
<1>7. Owed(o, n) = IF policy = "with_surplus" THEN worth
                   ELSE IF own_vault THEN Payout(insurance, outstanding, n)
                   ELSE Least(n, worth)
  BY DEF Owed, worth
<1>8. Owed(o, n) \in Nat /\ Owed(o, n) <= insurance
  BY <1>2, <1>3, <1>5, <1>6, <1>7
<1> QED BY <1>2, <1>8 DEF worth

\* The arithmetic accepts every exit.
LEMMA InvAdmits == PoolInv => ExitsAreAdmissible
<1> SUFFICES ASSUME PoolInv, NEW o \in Owners, NEW n \in 1 .. position[o].principal
             PROVE  n <= outstanding /\ Admissible(o, n)
  BY DEF ExitsAreAdmissible
<1>1. n <= outstanding
  BY OwesPrincipal DEF PoolInv, NumbersOK
<1>2. total_shares \in Nat
  BY DEF PoolInv, NumbersOK
<1>3. Admissible(o, n)
  BY <1>2, RetiredType, OwedIsThere DEF Admissible, PoolInv, NumbersOK
<1> QED BY <1>1, <1>3

----------------------------------------------------------------------------
(* Every step keeps the invariant.                                          *)

LEMMA PoolInvInit == PoolInit => PoolInv
<1> SUFFICES ASSUME PoolInit PROVE PoolInv
  OBVIOUS
<1> USE PoolBounds
<1>1. \A o \in Owners : /\ position[o] = NoPosition
                        /\ position[o].principal = 0 /\ position[o].shares = 0
                        /\ position[o].generation = FirstGeneration
  BY DEF PoolInit, NoPosition
<1>2. NumbersOK
  <2>1. FirstGeneration \in Generations
    BY DEF FirstGeneration, Generations
  <2>2. NoPosition \in Positions
    BY <2>1 DEF NoPosition, Positions
  <2> QED BY <2>1, <2>2, PoolAssumption DEF PoolInit, NumbersOK
<1>3. TotalsOK
  <2>1. Total(Principals, Owners) = 0
    BY <1>1, TotalZero DEF Principals
  <2>2. Total(Held, Owners) = 0
    BY <1>1, TotalZero DEF Held
  <2> QED BY <2>1, <2>2 DEF TotalsOK, PoolInit
<1>4. PositionsOK
  BY <1>1 DEF PositionsOK
<1>5. VaultOK
  BY <1>1 DEF VaultOK, PoolInit
<1>6. ParOK
  BY <1>1 DEF ParOK, PoolInit
<1> QED BY <1>2, <1>3, <1>4, <1>5, <1>6 DEF PoolInv

\* One position changes: what the pool then owes.
LEMMA OwesAfter ==
  ASSUME PoolInv, NEW o \in Owners, NEW pos, pos.principal \in Nat,
         position' = [position EXCEPT ![o] = pos]
  PROVE  /\ Total(Principals, Owners)' = outstanding - position[o].principal + pos.principal
         /\ \A q \in Owners : q # o => position'[q] = position[q]
         /\ position'[o] = pos
<1>1. position \in [Owners -> Positions]
  BY DEF PoolInv, NumbersOK
<1>2. (\A q \in Owners : q # o => position'[q] = position[q]) /\ position'[o] = pos
  BY <1>1
<1>3. Principals \in [Owners -> Nat] /\ \A q \in Owners : Principals[q] = position[q].principal
  BY PositionType DEF Principals, PoolInv
<1> DEFINE f == [q \in Owners |-> position'[q].principal]
<1>4. Principals' = f
  BY DEF Principals
<1>5. \A q \in Owners : f[q] = IF q = o THEN pos.principal ELSE position[q].principal
  BY <1>2
<1>6. f \in [Owners -> Nat]
  BY <1>3, <1>5
<1>7. f[o] = pos.principal /\ \A q \in Owners : q # o => Principals[q] = f[q]
  BY <1>3, <1>5
<1> HIDE DEF f
<1>8. Total(f, Owners) = Total(Principals, Owners) - Principals[o] + f[o]
  BY <1>3, <1>6, <1>7, PoolBounds, TotalChange
<1>9. Total(Principals, Owners) = outstanding
  BY DEF PoolInv, TotalsOK
<1> QED BY <1>2, <1>3, <1>4, <1>7, <1>8, <1>9

\* One position changes what it holds: what all hold then.
LEMMA HoldAfter ==
  ASSUME PoolInv, NEW o \in Owners, NEW h \in Nat,
         \A q \in Owners : Held'[q] = IF q = o THEN h ELSE Held[q]
  PROVE  Total(Held, Owners)' <= total_shares - Held[o] + h
<1>1. Held \in [Owners -> Nat]
  BY HeldType DEF Held
<1>2. Held' = [q \in Owners |-> Held'[q]]
  BY DEF Held
<1>3. Held' \in [Owners -> Nat]
  BY <1>1, <1>2
<1>4. \A q \in Owners : q # o => Held[q] = Held'[q]
  OBVIOUS
<1> DEFINE f == Held
           g == Held'
<1>5. f \in [Owners -> Nat] /\ g \in [Owners -> Nat] /\ \A q \in Owners : q # o => f[q] = g[q]
  BY <1>1, <1>3, <1>4
<1>6. g[o] = h
  OBVIOUS
<1> HIDE DEF f, g
<1>7. Total(f, Owners) \in Nat /\ Total(g, Owners) = Total(f, Owners) - f[o] + g[o]
  BY <1>5, PoolBounds, TotalChange
<1>8. Total(f, Owners) <= total_shares /\ total_shares \in Nat
  BY DEF PoolInv, TotalsOK, NumbersOK, f
<1>9. Total(Held, Owners)' = Total(g, Owners)
  BY DEF g
<1>10. f[o] \in Nat
  BY <1>5
<1>11. Total(g, Owners) <= total_shares - f[o] + h
  BY <1>6, <1>7, <1>8, <1>10
<1> QED BY <1>9, <1>11 DEF f

\* Burning keeps the price from rising, and burns no more than was retired.
LEMMA BurnBounds ==
  ASSUME NEW retired \in Nat, NEW before \in Nat, NEW after \in Nat, after <= before,
         NEW basis \in Nat
  PROVE  /\ RateSafeBurn(retired, before, after, basis) \in Nat
         /\ RateSafeBurn(retired, before, after, basis) <= retired
         /\ RateSafeBurn(retired, before, after, basis) <= basis
         /\ (after + 1) * basis
              <= (before + 1) * (basis - RateSafeBurn(retired, before, after, basis))
<1> DEFINE x == (after + 1) * basis
           w == before + 1
           c == CeilDiv(x, w)
           burn == RateSafeBurn(retired, before, after, basis)
<1>1. w \in Nat /\ w > 0 /\ x \in Nat /\ x <= w * basis
  OBVIOUS
<1>2. burn = Least(retired, basis - c)
  BY DEF RateSafeBurn
<1> HIDE DEF x, w, burn
<1>3. c \in Nat /\ x <= w * c
  BY <1>1, CeilQuotient
<1>4. c <= basis
  BY <1>1, CeilAtMost
<1> HIDE DEF c
<1>5. burn \in Nat /\ burn <= retired /\ burn <= basis /\ c <= basis - burn
  BY <1>2, <1>3, <1>4 DEF Least
<1>6. w * c <= w * (basis - burn)
  <2>1. basis - burn \in Nat
    BY <1>5
  <2> DEFINE y == basis - burn
  <2> HIDE DEF y
  <2>2. y \in Nat /\ c <= y
    BY <1>5, <2>1 DEF y
  <2>3. w * c <= w * y
    BY <1>1, <1>3, <2>2
  <2> QED BY <2>3 DEF y
<1>7. x <= w * (basis - burn)
  <2>1. w * c \in Nat /\ w * (basis - burn) \in Int
    BY <1>1, <1>3, <1>5
  <2> QED BY <1>1, <1>3, <1>6, <2>1
<1> QED BY <1>5, <1>7 DEF burn, x, w

\* What an exit leaves: the amounts, the price, and no principal when the last
\* one left.
LEMMA ExitLeaves ==
  ASSUME PoolInv, NEW o \in Owners, NEW n, NEW locked, PayOff(o, n),
         position' = [position EXCEPT ![o] = Reduced(o, n, locked)]
  PROVE  /\ n \in 1 .. position[o].principal
         /\ ~position[o].withdrawn
         /\ policy' = policy /\ own_vault' = own_vault
         /\ outstanding' = outstanding - n /\ outstanding' \in Nat
         /\ insurance' = insurance - Owed(o, n) /\ insurance' \in Nat
         /\ total_shares' \in Nat
         /\ Total(Principals, Owners)' = outstanding'
         /\ position'[o] = Reduced(o, n, locked)
         /\ \A q \in Owners : q # o => position'[q] = position[q]
         /\ outstanding' = 0 => /\ \A q \in Owners : position'[q].principal = 0
                                /\ generation' = [generation EXCEPT !.scale = 0]
                                /\ policy = "principal" => total_shares' = 0
                                /\ policy = "with_surplus" =>
                                     total_shares' = insurance' * VirtualShares
         /\ outstanding' # 0 => generation' = generation
         /\ PricedBalance(insurance', outstanding') \in 0 .. Priced
         /\ outstanding' # 0 =>
              LET burnt == IF Retired(o, n) = 0 THEN 0
                           ELSE RateSafeBurn(Retired(o, n), Priced,
                                  PricedBalance(insurance', outstanding'), PoolBasis)
              IN  /\ total_shares' = total_shares - burnt
                  /\ burnt \in Nat /\ burnt <= Retired(o, n)
                  /\ (PricedBalance(insurance', outstanding') + 1) * PoolBasis
                       <= (Priced + 1) * (PoolBasis - burnt)
<1> DEFINE left    == outstanding - n
           balance == PricedBalance(insurance', outstanding')
           burnt   == IF Retired(o, n) = 0 THEN 0
                      ELSE RateSafeBurn(Retired(o, n), Priced, balance, PoolBasis)
<1>1. /\ n \in 1 .. position[o].principal
      /\ ~position[o].withdrawn
      /\ policy' = policy /\ own_vault' = own_vault
      /\ outstanding' = left
      /\ insurance' = insurance - Owed(o, n)
  BY DEF PayOff, pool_kind
<1>2. /\ outstanding \in Nat /\ insurance \in Nat /\ total_shares \in Nat
      /\ policy \in {"principal", "with_surplus"}
      /\ generation \in Generations
  BY DEF PoolInv, NumbersOK
<1>3. n \in Nat /\ n <= position[o].principal /\ position[o].principal \in Nat /\ n <= outstanding
  BY <1>1, <1>2, OwesPrincipal
<1>4. outstanding' \in Nat
  BY <1>1, <1>2, <1>3
<1>5. Owed(o, n) \in Nat /\ insurance' \in Nat
  BY <1>1, <1>2, OwedIsThere
<1>6. balance \in Nat /\ balance <= Priced /\ Priced \in Nat
  <2>1. CASE policy = "principal"
    BY <1>1, <1>2, <1>3, <1>4, <1>5, <2>1 DEF Priced, PricedBalance, Least
  <2>2. CASE policy # "principal"
    BY <1>1, <1>2, <1>5, <2>2 DEF Priced, PricedBalance
  <2> QED BY <2>1, <2>2
<1>7. Retired(o, n) \in Nat /\ Retired(o, n) <= total_shares
  BY <1>1, <1>2, RetiredType
<1>8. PoolBasis \in Nat /\ total_shares < PoolBasis
  BY PricedType
<1>9. /\ total_shares' = TotalAfterExit(left, balance, burnt)
      /\ generation' = IF left = 0 THEN [generation EXCEPT !.scale = 0] ELSE generation
  <2>1. balance = PricedBalance(insurance - Owed(o, n), left)
    BY <1>1 DEF PricedBalance
  <2> QED BY <2>1 DEF PayOff
<1> HIDE DEF balance
<1>10. /\ burnt \in Nat /\ burnt <= Retired(o, n)
       /\ (balance + 1) * PoolBasis <= (Priced + 1) * (PoolBasis - burnt)
  <2>1. CASE Retired(o, n) = 0
    <3>1. burnt = 0
      BY <2>1
    <3>2. (balance + 1) * PoolBasis <= (Priced + 1) * PoolBasis
      BY <1>6, <1>8
    <3> HIDE DEF burnt
    <3> QED BY <1>7, <1>8, <3>1, <3>2
  <2>2. CASE Retired(o, n) # 0
    BY <1>6, <1>7, <1>8, <2>2, BurnBounds
  <2> QED BY <2>1, <2>2
<1> HIDE DEF burnt
<1>11. outstanding' # 0 => total_shares' = total_shares - burnt
  BY <1>1, <1>9 DEF TotalAfterExit
<1>12. outstanding' = 0 => total_shares' = IF policy = "principal" THEN 0 ELSE balance * VirtualShares
  BY <1>1, <1>9 DEF TotalAfterExit
<1>19. policy = "with_surplus" => balance = insurance'
  BY DEF balance, PricedBalance
<1>13. total_shares' \in Nat
  <2>1. balance * VirtualShares \in Nat
    BY <1>6, PoolBounds
  <2> QED BY <1>2, <1>7, <1>10, <1>11, <1>12, <2>1
<1>14. Reduced(o, n, locked).principal = position[o].principal - n
  BY DEF Reduced
<1>15. /\ Total(Principals, Owners)' = outstanding'
       /\ position'[o] = Reduced(o, n, locked)
       /\ \A q \in Owners : q # o => position'[q] = position[q]
  <2> DEFINE pos == Reduced(o, n, locked)
  <2>1. pos.principal \in Nat /\ pos.principal = position[o].principal - n
    BY <1>3, <1>14
  <2>2. position' = [position EXCEPT ![o] = pos]
    OBVIOUS
  <2> HIDE DEF pos
  <2>3. /\ Total(Principals, Owners)' = outstanding - position[o].principal + pos.principal
        /\ \A q \in Owners : q # o => position'[q] = position[q]
        /\ position'[o] = pos
    BY <2>1, <2>2, OwesAfter
  <2>4. outstanding - position[o].principal + pos.principal = outstanding'
    BY <1>1, <1>2, <1>3, <2>1
  <2> QED BY <2>3, <2>4 DEF pos
<1>16. ASSUME outstanding' = 0 PROVE \A q \in Owners : position'[q].principal = 0
  <2> DEFINE f == [q \in Owners |-> position'[q].principal]
  <2>1. Total(f, Owners) = 0
    BY <1>15, <1>16 DEF Principals
  <2>2. \A q \in Owners : position'[q].principal \in Nat
    BY <1>3, <1>14, <1>15, OwesPrincipal
  <2>3. \A q \in Owners : f[q] \in Nat
    BY <2>2
  <2>4. \A q \in Owners : f[q] <= Total(f, Owners)
    BY <2>3, PoolBounds, TotalCovers
  <2>5. \A q \in Owners : f[q] = 0
    BY <2>1, <2>3, <2>4
  <2> QED BY <2>5
<1>17. outstanding' = 0 => generation' = [generation EXCEPT !.scale = 0]
  BY <1>1, <1>9
<1>18. outstanding' # 0 => generation' = generation
  BY <1>1, <1>9
<1> QED
  BY <1>1, <1>4, <1>5, <1>6, <1>10, <1>11, <1>12, <1>13, <1>15, <1>16, <1>17,
     <1>18, <1>19 DEF balance, burnt

\* Where growth belongs to the shares, a burn that falls short of what was retired
\* is the least that keeps the price from rising.
LEMMA ExitPrice ==
  ASSUME PoolInv, NEW o \in Owners, NEW n, NEW locked, PayOff(o, n),
         position' = [position EXCEPT ![o] = Reduced(o, n, locked)],
         policy = "with_surplus", outstanding' # 0
  PROVE  /\ total_shares' + VirtualSharesAt(generation.scale) \in Nat
         /\ \/ (insurance + 1) * (total_shares' + VirtualSharesAt(generation.scale))
                 <= (insurance' + 1) * PoolBasis
            \/ total_shares' + VirtualSharesAt(generation.scale)
                 = CeilDiv((insurance' + 1) * PoolBasis, insurance + 1)
<1> DEFINE r     == Retired(o, n)
           v     == VirtualSharesAt(generation.scale)
           b     == PoolBasis
           p     == insurance + 1
           q     == insurance' + 1
           burnt == IF r = 0 THEN 0
                    ELSE RateSafeBurn(r, Priced, PricedBalance(insurance', outstanding'), b)
<1>1. /\ n \in 1 .. position[o].principal
      /\ insurance' = insurance - Owed(o, n) /\ insurance' \in Nat
      /\ total_shares' \in Nat
      /\ total_shares' = total_shares - burnt
      /\ burnt \in Nat /\ burnt <= r
  BY ExitLeaves
<1>2. /\ insurance \in Nat /\ total_shares \in Nat
  BY DEF PoolInv, NumbersOK
<1>3. Priced = insurance /\ PricedBalance(insurance', outstanding') = insurance'
  BY PricedType DEF PricedBalance
<1>4. v \in Nat /\ v > 0 /\ b \in Nat /\ b > 0 /\ b = total_shares + v
  BY <1>2, PricedType
<1>5. r \in Nat /\ r <= total_shares
  BY <1>1, <1>2, RetiredType
<1>6. p \in Nat /\ p > 0 /\ q \in Nat
  BY <1>1, <1>2
<1>7. Owed(o, n) = (r * p) \div b
  BY <1>3 DEF Owed, Redeem
<1>8. b * Owed(o, n) <= r * p /\ Owed(o, n) \in Nat /\ q = p - Owed(o, n)
  <2> HIDE DEF r, p, b
  <2>1. r * p \in Nat
    BY <1>5, <1>6
  <2>2. Owed(o, n) \in Nat /\ b * Owed(o, n) <= r * p
    BY <1>4, <1>7, <2>1, Quotient
  <2> QED BY <1>1, <1>2, <2>2 DEF p
<1>9. burnt = IF r = 0 THEN 0 ELSE Least(r, b - CeilDiv(q * b, p))
  BY <1>3 DEF RateSafeBurn
<1> HIDE DEF burnt, r, p, q, b
<1>10. total_shares' + v = b - burnt
  BY <1>1, <1>2, <1>4
<1>11. CASE burnt = r
  <2>1. p * (b - r) = p * b - p * r /\ q * b = p * b - b * Owed(o, n)
    BY <1>4, <1>5, <1>6, <1>8
  <2>2. p * b \in Nat /\ p * r \in Nat /\ b * Owed(o, n) \in Nat /\ p * r = r * p
    BY <1>4, <1>5, <1>6, <1>8
  <2>3. p * (b - r) <= q * b
    BY <1>8, <2>1, <2>2
  <2> QED BY <1>1, <1>4, <1>10, <1>11, <2>3 DEF p, q, b
<1>12. CASE burnt # r
  <2>1. burnt = b - CeilDiv(q * b, p)
    BY <1>5, <1>9, <1>12 DEF Least
  <2>2. CeilDiv(q * b, p) \in Nat
    <3>1. q * b \in Nat
      BY <1>4, <1>6
    <3> QED BY <1>6, <3>1, CeilQuotient
  <2>3. total_shares' + v = CeilDiv(q * b, p)
    BY <1>4, <1>10, <2>1, <2>2
  <2> QED BY <1>1, <1>4, <2>3 DEF p, q, b
<1> QED BY <1>11, <1>12

\* Where the shares are the principal at par, an exit pays the principal and
\* burns its shares.
LEMMA ParExit ==
  ASSUME PoolInv, NEW o \in Owners, NEW n \in 1 .. position[o].principal,
         policy = "principal", ~own_vault, ~impaired
  PROVE  /\ Retired(o, n) = VirtualShares * n
         /\ CurrentShares(o) = VirtualShares * position[o].principal
         /\ Owed(o, n) = n
         /\ Priced = outstanding
         /\ PoolBasis = VirtualShares * (outstanding + 1)
         /\ RateSafeBurn(Retired(o, n), Priced, outstanding - n, PoolBasis)
              = VirtualShares * n
<1> DEFINE p == position[o].principal
           v == VirtualShares
           owed == outstanding
<1>1. /\ outstanding <= insurance
      /\ total_shares = v * owed
      /\ generation = FirstGeneration
      /\ position[o].shares = v * p
      /\ position[o].generation = FirstGeneration
  BY DEF PoolInv, ParOK
<1>2. /\ p \in Nat /\ p > 0 /\ n \in Nat /\ n <= p /\ p <= owed /\ owed \in Nat
      /\ insurance \in Nat
  BY OwesPrincipal DEF PoolInv, NumbersOK
<1>3. v \in Nat /\ v > 0
  BY PoolBounds
<1>4. v * p \in Nat /\ v * n \in Nat
  BY <1>2, <1>3
<1>5. CurrentShares(o) = v * p
  <2>1. generation.scale - position[o].generation.scale = 0
    BY <1>1 DEF FirstGeneration
  <2>2. position[o].generation.reset = generation.reset
    BY <1>1
  <2>3. LazilyRescaled(v * p, 0) = v * p
    BY <1>4, NoRescale
  <2> QED BY <1>1, <2>1, <2>2, <2>3 DEF CurrentShares
<1>6. Retired(o, n) = v * n
  <2>1. CASE n = p
    BY <1>5, <2>1 DEF Retired
  <2>2. CASE n # p
    <3>1. Retired(o, n) = ((v * p) * n) \div p
      BY <1>5, <2>2 DEF Retired
    <3> HIDE DEF p, v
    <3>2. (v * p) * n = p * (v * n)
      BY <1>2, <1>3
    <3>3. (p * (v * n)) \div p = v * n
      BY <1>2, <1>4, QuotientExact
    <3> QED BY <3>1, <3>2, <3>3
  <2> QED BY <2>1, <2>2
<1>7. Priced = owed
  BY <1>1, <1>2 DEF Priced, PricedBalance, Least
<1>8. PoolBasis = v * (owed + 1)
  <2>1. VirtualSharesAt(generation.scale) = v
    BY <1>1, NoRescale DEF FirstGeneration
  <2>2. PoolBasis = v * owed + v
    BY <1>1, <2>1, PricedType
  <2>3. v * owed + v = v * (owed + 1)
    BY <1>2, <1>3
  <2> QED BY <2>2, <2>3
<1> HIDE DEF p, v, owed
<1>9. Redeem(v * n, owed, v * (owed + 1)) = n
  <2>1. (v * n) * (owed + 1) = (v * (owed + 1)) * n
    BY <1>2, <1>3
  <2>2. v * (owed + 1) \in Nat /\ v * (owed + 1) > 0
    BY <1>2, <1>3
  <2> DEFINE b == v * (owed + 1)
  <2>3. (b * n) \div b = n
    <3>1. b \in Nat /\ b > 0
      BY <2>2
    <3> HIDE DEF b
    <3> QED BY <1>2, <3>1, QuotientExact
  <2> QED BY <2>1, <2>3 DEF Redeem
<1>10. Owed(o, n) = n
  BY <1>2, <1>6, <1>7, <1>8, <1>9 DEF Owed, Least
<1>11. RateSafeBurn(v * n, owed, owed - n, v * (owed + 1)) = v * n
  <2> DEFINE w == owed + 1
             y == owed - n + 1
             c == CeilDiv(y * (v * w), w)
  <2>1. w \in Nat /\ w > 0 /\ y \in Nat /\ v * y \in Nat
    BY <1>2, <1>3
  <2>2. y * (v * w) = w * (v * y) /\ y * (v * w) \in Nat
    <3> HIDE DEF w, y
    <3> QED BY <1>3, <2>1
  <2>3. c = v * y
    <3> HIDE DEF w, y
    <3>1. c <= v * y
      BY <2>1, <2>2, CeilAtMost
    <3>2. c \in Nat /\ w * (v * y) <= w * c
      BY <2>1, <2>2, CeilQuotient
    <3>3. v * y <= c
      <4> DEFINE z == v * y
      <4>1. z \in Nat /\ w * z <= w * c
        BY <2>1, <3>2
      <4> HIDE DEF z, c
      <4>2. z <= c
        BY <2>1, <3>2, <4>1
      <4> QED BY <4>2 DEF z
    <3> QED BY <2>1, <3>1, <3>2, <3>3
  <2>4. v * w - v * y = v * n
    BY <1>2, <1>3
  <2>5. (owed - n) + 1 = y
    OBVIOUS
  <2>6. RateSafeBurn(v * n, owed, owed - n, v * w) = Least(v * n, v * w - c)
    BY <2>5 DEF RateSafeBurn
  <2> QED BY <1>4, <2>3, <2>4, <2>6 DEF Least
<1> QED
  BY <1>5, <1>6, <1>7, <1>8, <1>10, <1>11 DEF p, v, owed

\* A price that is at least par stays so when the basis shrinks with the balance.
LEMMA BasisAtPar ==
  ASSUME NEW v \in Nat, NEW before \in Nat, NEW after \in Nat, NEW total \in Nat,
         total <= v * before, NEW t \in Nat,
         \/ (before + 1) * t <= (after + 1) * (total + v)
         \/ t = CeilDiv((after + 1) * (total + v), before + 1)
  PROVE  t <= v * (after + 1)
<1> DEFINE p == before + 1
           q == after + 1
           b == total + v
           c == v * q
<1>1. p \in Nat /\ p > 0 /\ q \in Nat /\ b \in Nat /\ c \in Nat
  OBVIOUS
<1>2. b <= v * p
  <2>1. v * p = v * before + v /\ v * before \in Nat
    OBVIOUS
  <2> QED BY <2>1
<1>3. \/ p * t <= q * b
      \/ t = CeilDiv(q * b, p)
  OBVIOUS
<1> HIDE DEF p, b, q
<1>4. q * b <= p * c
  <2>1. q * b <= q * (v * p)
    <3> DEFINE x == v * p
    <3>1. x \in Nat /\ b <= x
      BY <1>1, <1>2
    <3> HIDE DEF x
    <3>2. q * b <= q * x
      BY <1>1, <3>1
    <3> QED BY <3>2 DEF x
  <2>2. q * (v * p) = p * c
    BY <1>1
  <2> QED BY <2>1, <2>2
<1> HIDE DEF c
<1>5. q * b \in Nat /\ p * c \in Nat /\ p * t \in Nat
  BY <1>1
<1>6. CASE p * t <= q * b
  <2>1. p * t <= p * c
    BY <1>4, <1>5, <1>6
  <2>2. t <= c
    BY <1>1, <2>1
  <2> QED BY <2>2 DEF c, q
<1>7. CASE t = CeilDiv(q * b, p)
  BY <1>1, <1>4, <1>5, <1>7, CeilAtMost DEF c, q
<1> QED BY <1>3, <1>6, <1>7

\* What a reduced position is.
LEMMA ReducedType ==
  ASSUME PoolInv, NEW o \in Owners, NEW n \in 1 .. position[o].principal,
         NEW locked \in BOOLEAN
  PROVE  LET pos == Reduced(o, n, locked)
         IN  /\ pos \in Positions
             /\ pos.principal = position[o].principal - n
             /\ pos.shares = CurrentShares(o) - Retired(o, n)
             /\ pos.generation = generation
             /\ pos.principal = 0 => pos.shares = 0 /\ pos.withdrawn
<1>1. position[o].principal \in Nat /\ n \in Nat /\ n <= position[o].principal
  BY OwesPrincipal
<1>2. CurrentShares(o) \in Nat /\ Retired(o, n) \in Nat /\ Retired(o, n) <= CurrentShares(o)
  BY RetiredType
<1>3. generation \in Generations
  BY DEF PoolInv, NumbersOK
<1>4. n = position[o].principal => Retired(o, n) = CurrentShares(o)
  BY DEF Retired
<1> DEFINE a == position[o].principal - n
           b == CurrentShares(o) - Retired(o, n)
           w == n = position[o].principal
<1>5. a \in Nat /\ b \in Nat /\ w \in BOOLEAN /\ (a = 0 => b = 0 /\ w)
  BY <1>1, <1>2, <1>4
<1>6. Reduced(o, n, locked) = [principal |-> a, shares |-> b, generation |-> generation,
                               vote_locked |-> locked, withdrawn |-> w]
  BY DEF Reduced
<1> HIDE DEF a, b, w
<1>7. Reduced(o, n, locked) \in Positions
  BY <1>3, <1>5, <1>6 DEF Positions
<1>8. LET pos == Reduced(o, n, locked)
      IN  /\ pos.principal = a /\ pos.shares = b /\ pos.generation = generation
          /\ pos.principal = 0 => pos.shares = 0 /\ pos.withdrawn
  BY <1>5, <1>6
<1> QED BY <1>7, <1>8 DEF a, b

\* An exit, whoever asked for it.
LEMMA ExitKeepsInv ==
  ASSUME PoolInv, NEW o \in Owners, NEW n, NEW locked \in BOOLEAN, PayOff(o, n),
         position' = [position EXCEPT ![o] = Reduced(o, n, locked)],
         NotesImpairment
  PROVE  PoolInv'
<1> DEFINE pos == Reduced(o, n, locked)
           p   == position[o].principal
<1>1. /\ n \in 1 .. p
      /\ policy' = policy /\ own_vault' = own_vault
      /\ outstanding' = outstanding - n /\ outstanding' \in Nat
      /\ insurance' = insurance - Owed(o, n) /\ insurance' \in Nat
      /\ total_shares' \in Nat
      /\ Total(Principals, Owners)' = outstanding'
      /\ position'[o] = pos
      /\ \A q \in Owners : q # o => position'[q] = position[q]
      /\ outstanding' = 0 => /\ \A q \in Owners : position'[q].principal = 0
                             /\ generation' = [generation EXCEPT !.scale = 0]
                             /\ policy = "principal" => total_shares' = 0
      /\ outstanding' # 0 => generation' = generation
  BY ExitLeaves
<1>2. /\ pos \in Positions
      /\ pos.principal = p - n
      /\ pos.shares = CurrentShares(o) - Retired(o, n)
      /\ pos.generation = generation
      /\ pos.principal = 0 => pos.shares = 0 /\ pos.withdrawn
  BY <1>1, ReducedType
<1>3. /\ outstanding \in Nat /\ insurance \in Nat /\ total_shares \in Nat
      /\ policy \in {"principal", "with_surplus"}
      /\ own_vault \in BOOLEAN /\ impaired \in BOOLEAN
      /\ generation \in Generations
      /\ position \in [Owners -> Positions]
  BY DEF PoolInv, NumbersOK
<1>4. generation.reset \in Nat /\ generation.scale \in Nat
  BY <1>3 DEF Generations
<1>5. p \in Nat /\ n \in Nat /\ n > 0 /\ n <= p
  BY <1>1, OwesPrincipal
<1>6. /\ CurrentShares(o) \in Nat /\ Retired(o, n) \in Nat
      /\ Retired(o, n) <= CurrentShares(o)
  BY <1>1, RetiredType
<1>7. [generation EXCEPT !.scale = 0] = [reset |-> generation.reset, scale |-> 0]
  BY <1>3 DEF Generations
<1>8. generation' \in Generations
  BY <1>1, <1>3, <1>4, <1>7 DEF Generations
<1>9. generation = FirstGeneration => generation' = FirstGeneration
  BY <1>1, <1>7 DEF FirstGeneration
<1>10. position' \in [Owners -> Positions]
  <2>1. position' = [position EXCEPT ![o] = pos]
    OBVIOUS
  <2> HIDE DEF pos
  <2> QED BY <1>2, <1>3, <2>1
<1> HIDE DEF pos
<1>11. NumbersOK'
  <2>1. impaired' \in BOOLEAN
    BY DEF NotesImpairment
  <2> QED BY <1>1, <1>3, <1>8, <1>10, <2>1 DEF NumbersOK
<1>12. TotalsOK'
  <2>1. CASE outstanding' = 0
    <3>1. \A q \in Owners : Held'[q] = 0
      BY <1>1, <2>1 DEF Held
    <3>2. Total(Held', Owners) = 0
      BY <3>1, TotalZero
    <3> QED BY <1>1, <3>2 DEF TotalsOK
  <2>2. CASE outstanding' # 0
    <3> DEFINE h == CurrentShares(o) - Retired(o, n)
    <3>1. h \in Nat
      BY <1>6
    <3>2. generation' = generation
      BY <1>1, <2>2
    <3>3. Held'[o] = h
      <4>1. CASE n = p
        <5>1. pos.principal = 0 /\ h = 0
          BY <1>2, <1>5, <1>6, <4>1 DEF Retired
        <5> QED BY <1>1, <5>1 DEF Held
      <4>2. CASE n # p
        <5>1. pos.principal # 0
          BY <1>2, <1>5, <4>2
        <5>2. CurrentShares(o)' = LazilyRescaled(h, generation.scale - generation.scale)
          BY <1>1, <1>2, <3>2 DEF CurrentShares
        <5>3. generation.scale - generation.scale = 0
          BY <1>4
        <5> HIDE DEF h
        <5>4. CurrentShares(o)' = h
          BY <3>1, <5>2, <5>3, NoRescale
        <5> QED BY <1>1, <5>1, <5>4 DEF Held
      <4> QED BY <4>1, <4>2
    <3>4. \A q \in Owners : q # o => Held'[q] = Held[q]
      BY <1>1, <3>2 DEF Held, CurrentShares
    <3>5. Held[o] = CurrentShares(o)
      BY <1>5, HeldType
    <3>6. Total(Held, Owners)' <= total_shares - Held[o] + h
      <4> HIDE DEF h
      <4> QED BY <3>1, <3>3, <3>4, HoldAfter
    <3>7. total_shares - Held[o] + h = total_shares - Retired(o, n)
      BY <1>3, <1>6, <3>5
    <3> DEFINE burnt == IF Retired(o, n) = 0 THEN 0
                        ELSE RateSafeBurn(Retired(o, n), Priced,
                               PricedBalance(insurance', outstanding'), PoolBasis)
    <3>8. total_shares' = total_shares - burnt /\ burnt \in Nat /\ burnt <= Retired(o, n)
      BY <2>2, ExitLeaves
    <3> HIDE DEF burnt, h
    <3>9. total_shares - Retired(o, n) <= total_shares'
      BY <1>3, <1>6, <3>8
    <3>10. Total(Held, Owners)' \in Nat
      <4>1. \A q \in Owners : Held'[q] \in Nat
        BY <3>1, <3>3, <3>4, HeldType
      <4>2. Total(Held', Owners) \in Nat
        BY <4>1, PoolBounds, TotalType
      <4> QED BY <4>2
    <3>11. Total(Held, Owners)' <= total_shares'
      BY <1>1, <1>3, <1>6, <3>6, <3>7, <3>9, <3>10
    <3> QED BY <1>1, <3>11 DEF TotalsOK
  <2> QED BY <2>1, <2>2
<1>13. PositionsOK'
  <2>1. ASSUME NEW q \in Owners
        PROVE /\ position'[q].principal > 0 => Movable(q)'
              /\ position'[q].principal = 0 => position'[q].shares = 0
              /\ position'[q].principal = 0 /\ ~position'[q].withdrawn
                   => position'[q].generation = FirstGeneration
    <3>1. position'[q].principal > 0 => generation' = generation
      BY <1>1, <2>1
    <3>2. CASE q = o
      <4>1. position'[q].generation = generation
        BY <1>1, <1>2, <3>2
      <4>2. position'[q].principal > 0 => Movable(q)'
        BY <1>4, <3>1, <4>1 DEF Movable
      <4> QED BY <1>1, <1>2, <3>2, <4>2
    <3>3. CASE q # o
      <4>1. position'[q] = position[q]
        BY <1>1, <3>3
      <4> QED BY <3>1, <4>1 DEF PoolInv, PositionsOK, Movable
    <3> QED BY <3>2, <3>3
  <2> QED BY <2>1 DEF PositionsOK
<1>14. VaultOK'
  <2>1. ASSUME own_vault'
        PROVE  /\ generation' = FirstGeneration
               /\ \A q \in Owners : position'[q].generation = FirstGeneration
               /\ policy' = "principal" => outstanding' <= insurance'
               /\ policy' = "with_surplus" => total_shares' <= VirtualShares * insurance'
    <3>1. /\ generation = FirstGeneration
          /\ \A q \in Owners : position[q].generation = FirstGeneration
          /\ policy = "principal" => outstanding <= insurance
          /\ policy = "with_surplus" => total_shares <= VirtualShares * insurance
      BY <1>1, <2>1 DEF PoolInv, VaultOK
    <3>2. ASSUME policy = "principal" PROVE outstanding' <= insurance'
      <4>1. Owed(o, n) = n
        BY <1>1, <1>3, <2>1, <3>1, <3>2 DEF Owed, Payout
      <4> QED BY <1>1, <1>3, <1>5, <3>1, <3>2, <4>1
    <3>3. ASSUME policy = "with_surplus" PROVE total_shares' <= VirtualShares * insurance'
      <4>1. CASE outstanding' = 0
        <5>1. total_shares' = insurance' * VirtualShares
          BY <3>3, <4>1, ExitLeaves
        <5>2. VirtualShares \in Nat
          BY PoolBounds
        <5>3. insurance' * VirtualShares = VirtualShares * insurance'
              /\ insurance' * VirtualShares \in Nat
          BY <1>1, <5>2
        <5> QED BY <5>1, <5>3
      <4>2. CASE outstanding' # 0
        <5> DEFINE t == total_shares' + VirtualSharesAt(generation.scale)
        <5>1. VirtualSharesAt(generation.scale) = VirtualShares
          BY <3>1, NoRescale DEF FirstGeneration
        <5>2. /\ t \in Nat
              /\ \/ (insurance + 1) * t <= (insurance' + 1) * PoolBasis
                 \/ t = CeilDiv((insurance' + 1) * PoolBasis, insurance + 1)
          BY <3>3, <4>2, ExitPrice
        <5>3. PoolBasis = total_shares + VirtualShares /\ PoolBasis \in Nat
          BY <5>1, PricedType
        <5>4. t <= VirtualShares * (insurance' + 1)
          <6> HIDE DEF t
          <6> QED BY <1>1, <1>3, <3>1, <3>3, <5>2, <5>3, PoolBounds, BasisAtPar
        <5>5. VirtualShares \in Nat
              /\ VirtualShares * (insurance' + 1) = VirtualShares * insurance' + VirtualShares
              /\ VirtualShares * insurance' \in Nat
          BY <1>1, PoolBounds
        <5> QED BY <1>1, <5>1, <5>4, <5>5
      <4> QED BY <4>1, <4>2
    <3> QED BY <1>1, <1>2, <1>9, <3>1, <3>2, <3>3
  <2> QED BY <2>1 DEF VaultOK
<1>15. ParOK'
  <2> SUFFICES ASSUME policy' = "principal", ~own_vault', ~impaired'
               PROVE  /\ outstanding' <= insurance'
                      /\ total_shares' = VirtualShares * outstanding'
                      /\ generation' = FirstGeneration
                      /\ \A q \in Owners :
                           /\ position'[q].shares = VirtualShares * position'[q].principal
                           /\ position'[q].generation = FirstGeneration
    BY DEF ParOK
  <2>1. policy = "principal" /\ ~own_vault /\ ~impaired
    BY <1>1 DEF NotesImpairment
  <2>2. /\ outstanding <= insurance
        /\ total_shares = VirtualShares * outstanding
        /\ generation = FirstGeneration
        /\ \A q \in Owners : /\ position[q].shares = VirtualShares * position[q].principal
                             /\ position[q].generation = FirstGeneration
    BY <2>1 DEF PoolInv, ParOK
  <2>3. /\ Retired(o, n) = VirtualShares * n
        /\ CurrentShares(o) = VirtualShares * p
        /\ Owed(o, n) = n
        /\ RateSafeBurn(Retired(o, n), Priced, outstanding - n, PoolBasis) = VirtualShares * n
    BY <1>1, <2>1, ParExit
  <2>4. outstanding' <= insurance'
    BY <1>1, <1>3, <1>5, <2>2, <2>3
  <2>5. VirtualShares \in Nat /\ VirtualShares > 0
    BY PoolBounds
  <2>6. total_shares' = VirtualShares * outstanding'
    <3>1. CASE outstanding' = 0
      BY <1>1, <2>1, <2>5, <3>1
    <3>2. CASE outstanding' # 0
      <4>1. PricedBalance(insurance', outstanding') = outstanding - n
        BY <1>1, <2>1, <2>4 DEF PricedBalance, Least
      <4>2. Retired(o, n) # 0
        BY <1>5, <2>3, <2>5
      <4> DEFINE burnt == IF Retired(o, n) = 0 THEN 0
                          ELSE RateSafeBurn(Retired(o, n), Priced,
                                 PricedBalance(insurance', outstanding'), PoolBasis)
      <4>3. total_shares' = total_shares - VirtualShares * n
        <5>1. total_shares' = total_shares - burnt
          BY <3>2, ExitLeaves
        <5>2. burnt = VirtualShares * n
          BY <2>3, <4>1, <4>2
        <5> QED BY <5>1, <5>2
      <4>4. VirtualShares * outstanding - VirtualShares * n = VirtualShares * (outstanding - n)
        BY <1>3, <1>5, <2>5
      <4> QED BY <1>1, <2>2, <4>3, <4>4
    <3> QED BY <3>1, <3>2
  <2>7. VirtualShares * p - VirtualShares * n = VirtualShares * (p - n)
    BY <1>5, <2>5
  <2>8. pos.shares = VirtualShares * pos.principal
    BY <1>2, <2>3, <2>7
  <2> QED BY <1>1, <1>2, <1>9, <2>2, <2>4, <2>6, <2>8
<1> QED BY <1>11, <1>12, <1>13, <1>14, <1>15 DEF PoolInv

----------------------------------------------------------------------------
(* Deposits.                                                                *)

\* The shares minted are a number.
LEMMA MintedType ==
  ASSUME NEW amount \in Nat, NEW balance \in Nat, NEW total \in Nat, NEW epoch \in Nat,
         NEW k \in Nat
  PROVE  /\ Basis(total, epoch, k) \in Nat
         /\ Basis(total, epoch, k) = Rescaled(total, k) + VirtualSharesAt(epoch + k)
         /\ Minted(amount, balance, total, epoch, k) \in Nat
<1>1. \A j \in Nat : Basis(total, epoch, j) \in Nat
  <2>1. ASSUME NEW j \in Nat PROVE Basis(total, epoch, j) \in Nat
    <3>1. epoch + j \in Nat
      OBVIOUS
    <3>2. Rescaled(total, j) \in Nat /\ VirtualSharesAt(epoch + j) \in Nat
      BY <3>1, RescaledType, VirtualSharesPositive
    <3> QED BY <3>2 DEF Basis
  <2> QED BY <2>1
<1> DEFINE a == amount * Basis(total, epoch, 0)
           b == amount * Basis(total, epoch, k)
           w == balance + 1
<1>2. a \in Nat /\ b \in Nat /\ w \in Nat /\ w > 0
  BY <1>1
<1>3. Minted(amount, balance, total, epoch, k) = IF k = 0 THEN a \div w ELSE CeilDiv(b, w)
  BY DEF Minted
<1> HIDE DEF a, b, w
<1>4. a \div w \in Nat /\ CeilDiv(b, w) \in Nat
  BY <1>2, Quotient, CeilQuotient
<1> QED BY <1>1, <1>3, <1>4 DEF Basis

\* The shares of q in the generation gen that a deposit mints in.
CarriedTo(gen, q) ==
  IF position[q].generation.reset = gen.reset
  THEN LazilyRescaled(position[q].shares, gen.scale - position[q].generation.scale)
  ELSE 0

\* A restarted generation is the pool's or a later one.
LEMMA RestartedType ==
  ASSUME PoolInv
  PROVE  /\ RestartedGeneration \in Generations
         /\ RestartedTotal \in Nat
         /\ \/ RestartedGeneration = generation
            \/ /\ Wiped /\ outstanding # 0
               /\ RestartedGeneration = [reset |-> generation.reset + 1, scale |-> 0]
         /\ Wiped /\ outstanding # 0
              => RestartedGeneration = [reset |-> generation.reset + 1, scale |-> 0]
<1>1. generation \in Generations /\ total_shares \in Nat
  BY DEF PoolInv, NumbersOK
<1>2. generation.reset + 1 \in Nat
  BY <1>1 DEF Generations
<1> QED BY <1>1, <1>2 DEF RestartedGeneration, RestartedTotal, Generations

\* Halved k times, shares that count are at most what is held, and none if the
\* shares start afresh.
LEMMA CarriedShares ==
  ASSUME PoolInv, NEW q \in Owners, NEW k \in Nat,
         position[q].principal > 0 \/ ~position[q].withdrawn
  PROVE  LET gen == [RestartedGeneration EXCEPT !.scale = @ + k]
         IN  /\ CarriedTo(gen, q) \in Nat
             /\ 2^k * CarriedTo(gen, q) <= Held[q]
             /\ Wiped /\ outstanding # 0 => CarriedTo(gen, q) = 0
             /\ position[q].principal = 0 => CarriedTo(gen, q) = 0
<1> DEFINE gen == [RestartedGeneration EXCEPT !.scale = @ + k]
           pos == position[q]
<1>1. /\ pos.principal \in Nat /\ pos.shares \in Nat
      /\ pos.generation.reset \in Nat /\ pos.generation.scale \in Nat
      /\ generation.reset \in Nat /\ generation.scale \in Nat
      /\ pos.generation \in Generations
  BY PositionType DEF PoolInv
<1>2. gen.reset = RestartedGeneration.reset /\ gen.scale = RestartedGeneration.scale + k
  BY RestartedType DEF Generations
<1>3. \/ pos.generation.reset < generation.reset
      \/ /\ pos.generation.reset = generation.reset
         /\ pos.generation.scale <= generation.scale
      \/ pos.generation = FirstGeneration /\ pos.shares = 0 /\ pos.principal = 0
  BY <1>1 DEF PoolInv, PositionsOK, Movable
<1>4. pos.generation.reset <= generation.reset /\ generation.reset + 1 \in Nat
  BY <1>1, <1>3 DEF FirstGeneration
<1>5. Held[q] \in Nat /\ 2^k \in Nat /\ 2^k > 0
  BY HeldType, PowerPositive
<1>6. CASE Wiped /\ outstanding # 0
  <2>1. gen.reset = generation.reset + 1
    BY <1>2, <1>6, RestartedType
  <2>2. pos.generation.reset # gen.reset
    BY <1>1, <1>4, <2>1
  <2>3. CarriedTo(gen, q) = 0
    BY <2>2 DEF CarriedTo
  <2> HIDE DEF gen
  <2>4. 2^k * CarriedTo(gen, q) = 0
    BY <1>5, <2>3
  <2>5. CarriedTo(gen, q) \in Nat /\ 2^k * CarriedTo(gen, q) <= Held[q]
    BY <1>5, <2>3, <2>4
  <2> QED BY <2>3, <2>5 DEF gen
<1>7. CASE ~(Wiped /\ outstanding # 0)
  <2>1. gen.reset = generation.reset /\ gen.scale = generation.scale + k
    BY <1>2, <1>7, RestartedType
  <2> HIDE DEF gen
  <2>2. CASE pos.generation.reset # generation.reset
    <3>1. CarriedTo(gen, q) = 0
      BY <2>1, <2>2 DEF CarriedTo
    <3>2. 2^k * CarriedTo(gen, q) = 0
      BY <1>5, <3>1
    <3>3. CarriedTo(gen, q) \in Nat /\ 2^k * CarriedTo(gen, q) <= Held[q]
      BY <1>5, <3>1, <3>2
    <3> QED BY <1>7, <3>1, <3>3 DEF gen
  <2>3. CASE pos.generation.reset = generation.reset
    <3> DEFINE d == generation.scale - pos.generation.scale
               c == LazilyRescaled(pos.shares, d)
    <3>1. d \in Nat /\ gen.scale - pos.generation.scale = d + k
      BY <1>1, <1>3, <2>1, <2>3 DEF FirstGeneration
    <3> HIDE DEF d
    <3>2. CarriedTo(gen, q) = LazilyRescaled(pos.shares, d + k)
      BY <2>1, <2>3, <3>1 DEF CarriedTo
    <3>3. c \in Nat /\ CarriedTo(gen, q) = LazilyRescaled(c, k)
      <4>1. /\ LazilyRescaled(pos.shares, d) \in Nat
            /\ LazilyRescaled(LazilyRescaled(pos.shares, d), k)
                 = LazilyRescaled(pos.shares, d + k)
        <5>1. pos.shares \in Nat /\ d \in Nat /\ k \in Nat
          BY <1>1, <3>1
        <5> QED BY ONLY <5>1, RescaledTwice
      <4> QED BY <3>2, <4>1
    <3>4. c = CurrentShares(q)
      BY <2>3 DEF CurrentShares, d
    <3> HIDE DEF c
    <3>5. LazilyRescaled(c, k) \in Nat /\ 2^k * LazilyRescaled(c, k) <= c
      <4> DEFINE r == 2^k
      <4>1. r \in Nat /\ r > 0
        BY <1>5
      <4> HIDE DEF r
      <4>2. c \div r \in Nat /\ r * (c \div r) <= c
        BY <3>3, <4>1, Quotient
      <4> QED BY <4>2 DEF LazilyRescaled, r
    <3>6. CASE pos.principal > 0
      <4>1. c = Held[q]
        BY <3>4, <3>6, HeldType
      <4> QED BY <1>1, <1>7, <3>3, <3>5, <3>6, <4>1 DEF gen
    <3>7. CASE pos.principal = 0
      <4>1. pos.shares = 0
        BY <3>7 DEF PoolInv, PositionsOK
      <4>2. 2^d \in Nat /\ 2^d > 0
        BY <3>1, PowerPositive
      <4>3. c = 0
        <5> DEFINE r == 2^d
        <5>1. r \in Nat /\ r > 0
          BY <4>2
        <5> HIDE DEF r
        <5>2. r * 0 = 0
          BY <5>1
        <5>3. 0 \div r = 0
          BY <5>1, <5>2, QuotientExact
        <5> QED BY <4>1, <5>3 DEF c, LazilyRescaled, r
      <4>4. LazilyRescaled(c, k) = 0
        <5> DEFINE r == 2^k
                   y == c \div r
        <5>1. r \in Nat /\ r > 0 /\ c \in Nat
          BY <1>5, <4>3
        <5> HIDE DEF r
        <5>2. y \in Nat /\ r * y <= c
          BY <5>1, Quotient
        <5> HIDE DEF y
        <5>3. y = 0
          BY <4>3, <5>1, <5>2
        <5> QED BY <5>3 DEF LazilyRescaled, r, y
      <4>5. 2^k * 0 = 0
        BY <1>5
      <4> QED BY <1>5, <1>7, <3>3, <4>4, <4>5 DEF gen
    <3> QED BY <1>1, <3>6, <3>7
  <2> QED BY <2>2, <2>3
<1> QED BY <1>6, <1>7

\* At par the counter has room and the deposit mints at par.
LEMMA ParMint ==
  ASSUME NEW n \in Nat, n > 0, NEW owed \in Nat, owed + n <= MaxPrincipal
  PROVE  /\ Fits(n, owed, VirtualShares * owed, 0, 0)
         /\ Minted(n, owed, VirtualShares * owed, 0, 0) = VirtualShares * n
<1> DEFINE v == VirtualShares
           w == owed + 1
           b == Basis(v * owed, 0, 0)
           m == Minted(n, owed, v * owed, 0, 0)
<1>1. /\ v \in Nat /\ v > 0 /\ MaxShares \in Nat /\ MaxPrincipal \in Nat
      /\ v * (MaxPrincipal + 1) <= MaxShares
  BY PoolBounds
<1>2. w \in Nat /\ w > 0 /\ w + n \in Nat /\ w + n <= MaxPrincipal + 1
  BY <1>1
<1>3. v * owed \in Nat
  BY <1>1
<1>4. b = v * w
  <2>1. Rescaled(v * owed, 0) = v * owed /\ VirtualSharesAt(0) = v
    BY <1>3, NoRescale
  <2>2. b = v * owed + v
    BY <2>1 DEF Basis
  <2> QED BY <1>1, <2>2
<1>5. v * (w + n) <= MaxShares
  <2> DEFINE x == w + n
             y == MaxPrincipal + 1
  <2>1. x \in Nat /\ y \in Nat /\ x <= y
    BY <1>1, <1>2
  <2> HIDE DEF x, y, v, w
  <2>2. v * x <= v * y /\ v * x \in Nat /\ v * y \in Nat
    BY <1>1, <2>1
  <2>3. v * y <= MaxShares
    BY <1>1 DEF y
  <2>4. v * x <= MaxShares
    BY <1>1, <2>2, <2>3
  <2> QED BY <2>4 DEF x
<1>6. m = v * n
  <2>1. m = (n * b) \div w
    BY DEF Minted
  <2> HIDE DEF v, w, b, m
  <2>2. n * b = w * (v * n)
    BY <1>1, <1>2, <1>4
  <2>3. v * n \in Nat
    BY <1>1
  <2>4. (w * (v * n)) \div w = v * n
    BY <1>2, <2>3, QuotientExact
  <2> QED BY <2>1, <2>2, <2>4
<1>7. b + m <= MaxShares
  <2> HIDE DEF v, w, b, m
  <2>1. v * (w + n) = v * w + v * n
    BY <1>1, <1>2
  <2> QED BY <1>4, <1>5, <1>6, <2>1
<1>8. b <= (MaxShares * w) \div (w + n)
  <2> HIDE DEF v, w, b, m
  <2>1. MaxShares * w \in Nat /\ b \in Nat
    BY <1>1, <1>2, <1>4
  <2>2. (w + n) * b <= MaxShares * w
    <3> DEFINE x == v * (w + n)
    <3>1. x \in Nat /\ x <= MaxShares
      BY <1>1, <1>2, <1>5
    <3>2. (w + n) * b = x * w
      BY <1>1, <1>2, <1>4
    <3> HIDE DEF x
    <3>3. x * w <= MaxShares * w
      BY <1>1, <1>2, <3>1
    <3> QED BY <3>2, <3>3
  <2>3. w + n > 0
    BY <1>2
  <2> QED BY <1>2, <2>1, <2>2, <2>3, QuotientAtLeast
<1>9. owed + 1 + n = w + n
  OBVIOUS
<1>10. Fits(n, owed, v * owed, 0, 0)
  BY <1>7, <1>8, <1>9 DEF Fits
<1> QED BY <1>6, <1>10

\* A deposit: the insurance pool's, also when it starts the shares afresh or
\* halves them.
LEMMA DepositKeepsInv ==
  ASSUME PoolInv, ~own_vault, NEW o \in Owners, NEW n \in Nat, n > 0, Deposit(o, n),
         NotesImpairment
  PROVE  PoolInv'
<1>1. /\ ~position[o].withdrawn
      /\ outstanding + n <= MaxPrincipal
      /\ outstanding' = outstanding + n
      /\ insurance' = insurance + n
      /\ policy' = policy /\ own_vault' = own_vault
  BY DEF Deposit, pool_kind
<1>2. /\ outstanding \in Nat /\ insurance \in Nat /\ total_shares \in Nat
      /\ policy \in {"principal", "with_surplus"}
      /\ own_vault \in BOOLEAN /\ impaired \in BOOLEAN
      /\ generation \in Generations
      /\ position \in [Owners -> Positions]
  BY DEF PoolInv, NumbersOK
<1>3. PICK k \in FittingRescales(n, Priced, RestartedTotal, RestartedGeneration.scale) :
        LET gen    == [RestartedGeneration EXCEPT !.scale = @ + k]
            total  == Rescaled(RestartedTotal, k)
            minted == Minted(n, Priced, RestartedTotal, RestartedGeneration.scale, k)
        IN  /\ total_shares' = total + minted
            /\ generation' = gen
            /\ position' = [position EXCEPT ![o] =
                 [principal   |-> position[o].principal + n,
                  shares      |-> CarriedTo(gen, o) + minted,
                  generation  |-> gen,
                  vote_locked |-> position[o].vote_locked,
                  withdrawn   |-> FALSE]]
  BY DEF Deposit, CarriedTo
<1>4. k \in Nat
  BY PoolBounds DEF FittingRescales
<1> DEFINE rg     == RestartedGeneration
           gen    == [rg EXCEPT !.scale = @ + k]
           total  == Rescaled(RestartedTotal, k)
           minted == Minted(n, Priced, RestartedTotal, rg.scale, k)
           kept   == CarriedTo(gen, o)
           pos    == [principal |-> position[o].principal + n, shares |-> kept + minted,
                      generation |-> gen, vote_locked |-> position[o].vote_locked,
                      withdrawn |-> FALSE]
<1>5. /\ rg \in Generations /\ RestartedTotal \in Nat
      /\ \/ rg = generation
         \/ Wiped /\ outstanding # 0 /\ rg = [reset |-> generation.reset + 1, scale |-> 0]
      /\ Wiped /\ outstanding # 0 => rg = [reset |-> generation.reset + 1, scale |-> 0]
  BY RestartedType
<1>6. rg.reset \in Nat /\ rg.scale \in Nat
  BY <1>5 DEF Generations
<1>7. gen = [reset |-> rg.reset, scale |-> rg.scale + k] /\ gen \in Generations
  BY <1>4, <1>5, <1>6 DEF Generations
<1>8. minted \in Nat
  BY <1>4, <1>5, <1>6, PricedType, MintedType
<1>9. total \in Nat /\ RestartedTotal <= 2^k * total /\ 2^k \in Nat /\ 2^k > 0
  BY <1>4, <1>5, RescaledType
<1>10. /\ kept \in Nat
       /\ position[o].principal = 0 => kept = 0
  BY <1>1, <1>4, CarriedShares
<1>11. /\ position[o].principal \in Nat /\ position[o].vote_locked \in BOOLEAN
       /\ generation.reset \in Nat /\ generation.scale \in Nat
  BY PositionType DEF PoolInv
<1>12. \A q \in Owners : position[q].principal \in Nat
  BY OwesPrincipal
<1>13. /\ total_shares' = total + minted
       /\ generation' = gen
       /\ position' = [position EXCEPT ![o] = pos]
  BY <1>3
<1> HIDE DEF gen, total, minted, kept
<1>14. /\ pos.principal = position[o].principal + n
       /\ pos.shares = kept + minted
       /\ pos.generation = gen
       /\ pos.principal \in Nat /\ pos.principal > 0
       /\ pos \in Positions
  BY <1>7, <1>8, <1>10, <1>11 DEF Positions
<1> HIDE DEF pos, rg
<1>15. /\ Total(Principals, Owners)' = outstanding - position[o].principal + pos.principal
       /\ \A q \in Owners : q # o => position'[q] = position[q]
       /\ position'[o] = pos
  BY <1>13, <1>14, OwesAfter
<1>16. NumbersOK'
  <2>1. position' \in [Owners -> Positions]
    BY <1>2, <1>13, <1>14
  <2>2. impaired' \in BOOLEAN
    BY DEF NotesImpairment
  <2>3. total_shares' \in Nat
    BY <1>8, <1>9, <1>13
  <2>4. outstanding' \in Nat /\ insurance' \in Nat
    BY <1>1, <1>2
  <2>5. generation' \in Generations
    BY <1>7, <1>13
  <2> QED BY <1>1, <1>2, <2>1, <2>2, <2>3, <2>4, <2>5 DEF NumbersOK
<1>17. TotalsOK'
  <2>1. outstanding' = Total(Principals, Owners)'
    BY <1>1, <1>2, <1>11, <1>14, <1>15
  <2> DEFINE carried == [q \in Owners |-> IF position[q].principal = 0 THEN 0
                                          ELSE CarriedTo(gen, q)]
             held    == [q \in Owners |-> IF q = o THEN kept + minted ELSE carried[q]]
  <2>2. \A q \in Owners : /\ Held[q] \in Nat /\ carried[q] \in Nat
                          /\ 2^k * carried[q] <= 1 * Held[q]
                          /\ Wiped /\ outstanding # 0 => carried[q] = 0
    <3>1. ASSUME NEW q \in Owners
          PROVE  /\ Held[q] \in Nat /\ carried[q] \in Nat
                 /\ 2^k * carried[q] <= 1 * Held[q]
                 /\ Wiped /\ outstanding # 0 => carried[q] = 0
      <4>1. Held[q] \in Nat
        BY HeldType
      <4>2. CASE position[q].principal = 0
        BY <1>9, <4>1, <4>2
      <4>3. CASE position[q].principal # 0
        <5>1. position[q].principal > 0
          BY <1>12, <4>3
        <5>2. /\ CarriedTo(gen, q) \in Nat /\ 2^k * CarriedTo(gen, q) <= Held[q]
              /\ Wiped /\ outstanding # 0 => CarriedTo(gen, q) = 0
          BY <1>4, <5>1, CarriedShares DEF gen, rg
        <5> QED BY <4>1, <4>3, <5>2
      <4> QED BY <4>2, <4>3
    <3> QED BY <3>1
  <2>3. carried[o] = kept
    <3>1. CASE position[o].principal = 0
      BY <1>10, <3>1
    <3>2. CASE position[o].principal # 0
      BY <3>2 DEF kept
    <3> QED BY <3>1, <3>2
  <2>4. \A q \in Owners : position[q].principal = 0 => carried[q] = 0
    OBVIOUS
  <2>5. carried \in [Owners -> Nat]
    BY <2>2
  <2>6. Held' = held
    <3>1. ASSUME NEW q \in Owners PROVE Held'[q] = held[q]
      <4>1. CASE q = o
        <5>1. CurrentShares(o)' = LazilyRescaled(kept + minted, gen.scale - gen.scale)
          BY <1>13, <1>14, <1>15 DEF CurrentShares
        <5>2. gen.scale - gen.scale = 0
          BY <1>7 DEF Generations
        <5>3. kept + minted \in Nat
          BY <1>8, <1>10
        <5>4. CurrentShares(o)' = kept + minted
          BY <5>1, <5>2, <5>3, NoRescale
        <5>5. position'[o].principal # 0
          BY <1>14, <1>15
        <5> QED BY <4>1, <5>4, <5>5 DEF Held
      <4>2. CASE q # o
        <5>1. position'[q] = position[q]
          BY <1>15, <4>2
        <5> QED BY <1>13, <4>2, <5>1 DEF Held, CurrentShares, CarriedTo
      <4> QED BY <4>1, <4>2
    <3>2. Held' = [q \in Owners |-> Held'[q]]
      BY DEF Held
    <3>3. held = [q \in Owners |-> held[q]]
      OBVIOUS
    <3> HIDE DEF held
    <3> QED BY <3>1, <3>2, <3>3
  <2> HIDE DEF carried
  <2>7. held \in [Owners -> Nat] /\ held[o] = kept + minted
        /\ \A q \in Owners : q # o => carried[q] = held[q]
    BY <1>8, <1>10, <2>5
  <2> HIDE DEF held
  <2>8. /\ Total(carried, Owners) \in Nat
        /\ Total(held, Owners) = Total(carried, Owners) - carried[o] + held[o]
    BY <2>5, <2>7, PoolBounds, TotalChange
  <2>9. Total(carried, Owners) <= total
    <3>1. 2^k * Total(carried, Owners) <= RestartedTotal
      <4>1. CASE Wiped /\ outstanding # 0
        <5>1. Total(carried, Owners) = 0
          BY <2>2, <4>1, TotalZero
        <5> QED BY <1>5, <1>9, <5>1
      <4>2. CASE outstanding = 0
        <5>1. \A q \in Owners : position[q].principal = 0
          BY <1>12, <4>2, OwesPrincipal
        <5>2. \A q \in Owners : carried[q] = 0
          BY <2>4, <5>1
        <5>3. Total(carried, Owners) = 0
          BY <5>2, TotalZero
        <5> QED BY <1>5, <1>9, <5>3
      <4>3. CASE ~Wiped
        <5>1. RestartedTotal = total_shares
          BY <4>3 DEF RestartedTotal
        <5>2. 2^k * Total(carried, Owners) <= 1 * Total(Held, Owners)
          BY <1>9, <2>2, PoolBounds, TotalScaled
        <5>3. Total(Held, Owners) \in Nat
          BY <2>2, PoolBounds, TotalType
        <5>4. Total(Held, Owners) <= total_shares
          BY DEF PoolInv, TotalsOK
        <5>5. 2^k * Total(carried, Owners) \in Nat
          BY <1>9, <2>8
        <5> QED BY <1>2, <5>1, <5>2, <5>3, <5>4, <5>5
      <4> QED BY <4>1, <4>2, <4>3
    <3> DEFINE r == 2^k
               t == Total(carried, Owners)
    <3>2. r \in Nat /\ r > 0 /\ t \in Nat /\ total \in Nat
      BY <1>9, <2>8
    <3>3. r * t <= r * total
      <4>1. r * t \in Nat /\ r * total \in Nat
        BY <3>2
      <4> QED BY <1>5, <1>9, <3>1, <4>1
    <3> HIDE DEF r, t
    <3>4. t <= total
      BY <3>2, <3>3
    <3> QED BY <3>4 DEF t
  <2>10. Total(held, Owners) <= total + minted
    BY <1>8, <1>9, <1>10, <2>3, <2>7, <2>8, <2>9
  <2> QED BY <1>13, <2>1, <2>6, <2>10 DEF TotalsOK
<1>18. PositionsOK'
  <2>1. ASSUME NEW q \in Owners
        PROVE /\ position'[q].principal > 0 => Movable(q)'
              /\ position'[q].principal = 0 => position'[q].shares = 0
              /\ position'[q].principal = 0 /\ ~position'[q].withdrawn
                   => position'[q].generation = FirstGeneration
    <3>1. CASE q = o
      <4>1. position'[q] = pos
        BY <1>15, <3>1
      <4>2. gen.reset \in Nat /\ gen.scale \in Nat
        BY <1>7 DEF Generations
      <4>3. Movable(q)'
        BY <1>13, <1>14, <4>1, <4>2 DEF Movable
      <4> QED BY <1>14, <4>1, <4>3
    <3>2. CASE q # o
      <4>1. position'[q] = position[q]
        BY <1>15, <3>2
      <4>2. Movable(q) => Movable(q)'
        <5>1. /\ position[q].generation.reset \in Nat
              /\ position[q].generation.scale \in Nat
          BY PositionType DEF PoolInv
        <5>2. \/ gen.reset = generation.reset /\ gen.scale = generation.scale + k
              \/ gen.reset = generation.reset + 1
          BY <1>5, <1>7
        <5> QED BY <1>4, <1>11, <1>13, <4>1, <5>1, <5>2 DEF Movable
      <4> QED BY <4>1, <4>2 DEF PoolInv, PositionsOK
    <3> QED BY <3>1, <3>2
  <2> QED BY <2>1 DEF PositionsOK
<1>19. VaultOK'
  BY <1>1 DEF VaultOK
<1>20. ParOK'
  <2> SUFFICES ASSUME policy' = "principal", ~impaired'
               PROVE  /\ outstanding' <= insurance'
                      /\ total_shares' = VirtualShares * outstanding'
                      /\ generation' = FirstGeneration
                      /\ \A q \in Owners :
                           /\ position'[q].shares = VirtualShares * position'[q].principal
                           /\ position'[q].generation = FirstGeneration
    BY DEF ParOK
  <2>1. policy = "principal" /\ ~impaired
    BY <1>1 DEF NotesImpairment
  <2>2. /\ outstanding <= insurance
        /\ total_shares = VirtualShares * outstanding
        /\ generation = FirstGeneration
        /\ \A q \in Owners : /\ position[q].shares = VirtualShares * position[q].principal
                             /\ position[q].generation = FirstGeneration
    BY <2>1 DEF PoolInv, ParOK
  <2>3. VirtualShares \in Nat /\ VirtualShares > 0 /\ MaxRescales \in Nat
    BY PoolBounds
  <2>4. Priced = outstanding
    BY <1>2, <2>1, <2>2 DEF Priced, PricedBalance, Least
  <2>5. ~Wiped
    BY <2>2, <2>3, <2>4 DEF Wiped
  <2>6. rg = FirstGeneration /\ RestartedTotal = VirtualShares * outstanding
    BY <2>2, <2>5 DEF RestartedGeneration, RestartedTotal, rg
  <2>7. rg.scale = 0
    BY <2>6 DEF FirstGeneration
  <2>8. /\ Fits(n, outstanding, VirtualShares * outstanding, 0, 0)
        /\ Minted(n, outstanding, VirtualShares * outstanding, 0, 0) = VirtualShares * n
    BY <1>1, <1>2, ParMint
  <2>9. k = 0
    <3>1. \A j \in 0 .. k - 1 : ~Fits(n, outstanding, VirtualShares * outstanding, 0, j)
      BY <1>3, <2>4, <2>6, <2>7 DEF FittingRescales, rg
    <3>2. 0 \notin 0 .. k - 1
      BY <2>8, <3>1
    <3> QED BY <1>4, <3>2
  <2>10. minted = VirtualShares * n /\ total = VirtualShares * outstanding
    <3>1. RestartedTotal \in Nat
      BY <1>5
    <3>2. total = RestartedTotal
      BY <2>9, <3>1, NoRescale DEF total
    <3> QED BY <2>4, <2>6, <2>7, <2>8, <2>9, <3>2 DEF minted, rg
  <2>11. gen = FirstGeneration
    BY <1>7, <2>6, <2>9 DEF FirstGeneration
  <2>12. kept = VirtualShares * position[o].principal
    <3>1. kept = LazilyRescaled(position[o].shares, 0)
      BY <2>2, <2>11 DEF kept, CarriedTo, FirstGeneration
    <3>2. position[o].shares \in Nat
      BY PositionType DEF PoolInv
    <3> QED BY <2>2, <3>1, <3>2, NoRescale
  <2>13. total_shares' = VirtualShares * outstanding'
    <3>1. VirtualShares * outstanding + VirtualShares * n = VirtualShares * (outstanding + n)
      BY <1>2, <2>3
    <3> QED BY <1>1, <1>13, <2>10, <3>1
  <2>14. pos.shares = VirtualShares * pos.principal
    <3>1. VirtualShares * position[o].principal + VirtualShares * n
            = VirtualShares * (position[o].principal + n)
      BY <1>11, <2>3
    <3> QED BY <1>14, <2>10, <2>12, <3>1
  <2> QED BY <1>1, <1>2, <1>13, <1>14, <1>15, <2>2, <2>11, <2>13, <2>14
<1> QED BY <1>16, <1>17, <1>18, <1>19, <1>20 DEF PoolInv

\* A share that is not below par is not minted for less.
LEMMA MintsAtParOrLess ==
  ASSUME NEW n \in Nat, NEW balance \in Nat, NEW total \in Nat,
         total <= VirtualShares * balance
  PROVE  Minted(n, balance, total, 0, 0) <= VirtualShares * n
<1> DEFINE v == VirtualShares
           w == balance + 1
           b == total + v
<1>1. v \in Nat /\ w \in Nat /\ w > 0 /\ b \in Nat
  BY PoolBounds
<1>2. Basis(total, 0, 0) = b
  BY NoRescale DEF Basis
<1>3. Minted(n, balance, total, 0, 0) = (n * b) \div w
  BY <1>2 DEF Minted
<1>4. b <= v * w
  <2>1. v * w = v * balance + v /\ v * balance \in Nat
    BY <1>1
  <2> QED BY <1>1, <2>1
<1> HIDE DEF v, w, b
<1>5. n * b < w * (v * n) + w
  <2> DEFINE x == v * w
  <2>1. x \in Nat /\ b <= x
    BY <1>1, <1>4
  <2>2. n * x = w * (v * n)
    BY <1>1
  <2> HIDE DEF x
  <2>3. n * b <= n * x /\ n * b \in Nat /\ n * x \in Nat
    BY <1>1, <2>1
  <2> QED BY <1>1, <2>2, <2>3
<1>6. n * b \in Nat /\ v * n \in Nat
  BY <1>1
<1>7. (n * b) \div w <= v * n
  BY <1>1, <1>5, <1>6, QuotientAtMost
<1> QED BY <1>3, <1>7 DEF v

\* A deposit into an own vault.
LEMMA VaultDepositKeepsInv ==
  ASSUME PoolInv, own_vault, NEW o \in Owners, NEW n \in Nat, n > 0, VaultDeposit(o, n),
         NotesImpairment
  PROVE  PoolInv'
<1> DEFINE minted == IF policy = "principal" THEN 0
                     ELSE Minted(n, insurance, total_shares, 0, 0)
           old == position[o]
           pos == [principal |-> old.principal + n, shares |-> old.shares + minted,
                   generation |-> old.generation, vote_locked |-> old.vote_locked,
                   withdrawn |-> old.withdrawn]
<1>1. /\ ~position[o].withdrawn
      /\ outstanding' = outstanding + n
      /\ insurance' = insurance + n
      /\ total_shares' = total_shares + minted
      /\ generation' = generation
      /\ policy' = policy /\ own_vault' = own_vault
      /\ position' = [position EXCEPT ![o].principal = @ + n, ![o].shares = @ + minted]
  BY DEF VaultDeposit, pool_kind
<1>2. /\ outstanding \in Nat /\ insurance \in Nat /\ total_shares \in Nat
      /\ policy \in {"principal", "with_surplus"}
      /\ own_vault \in BOOLEAN /\ impaired \in BOOLEAN
      /\ generation \in Generations
      /\ position \in [Owners -> Positions]
  BY DEF PoolInv, NumbersOK
<1>3. minted \in Nat
  <2>1. Minted(n, insurance, total_shares, 0, 0) \in Nat
    BY <1>2, MintedType
  <2> QED BY <2>1
<1> HIDE DEF minted
<1>4. /\ old.principal \in Nat /\ old.shares \in Nat
      /\ generation.reset \in Nat /\ generation.scale \in Nat
      /\ old \in Positions /\ old.vote_locked \in BOOLEAN /\ old.withdrawn \in BOOLEAN
      /\ old.generation \in Generations
  BY <1>2, PositionType DEF PoolInv
<1>5. position' = [position EXCEPT ![o] = pos]
  <2> DEFINE new == [[old EXCEPT !.principal = @ + n] EXCEPT !.shares = @ + minted]
  <2>1. position' = [position EXCEPT ![o] = new]
    BY <1>1, <1>2
  <2>2. new = pos
    <3> DEFINE mid == [principal |-> old.principal + n, shares |-> old.shares,
                       generation |-> old.generation, vote_locked |-> old.vote_locked,
                       withdrawn |-> old.withdrawn]
    <3>1. old = [principal |-> old.principal, shares |-> old.shares,
                 generation |-> old.generation, vote_locked |-> old.vote_locked,
                 withdrawn |-> old.withdrawn]
      BY <1>4 DEF Positions
    <3>2. [old EXCEPT !.principal = @ + n] = mid
      BY <3>1
    <3>3. [mid EXCEPT !.shares = @ + minted] = pos
      OBVIOUS
    <3> HIDE DEF mid, pos, old
    <3> QED BY <3>2, <3>3
  <2> QED BY <2>1, <2>2
<1>6. /\ pos.principal = position[o].principal + n
      /\ pos.shares = position[o].shares + minted
      /\ pos.generation = position[o].generation
      /\ pos \in Positions
      /\ pos.principal \in Nat /\ pos.principal > 0
  BY <1>3, <1>4 DEF Positions
<1> HIDE DEF pos
<1>7. /\ Total(Principals, Owners)' = outstanding - position[o].principal + pos.principal
      /\ \A q \in Owners : q # o => position'[q] = position[q]
      /\ position'[o] = pos
  BY <1>5, <1>6, OwesAfter
<1>8. /\ generation = FirstGeneration
      /\ \A q \in Owners : position[q].generation = FirstGeneration
      /\ policy = "principal" => outstanding <= insurance
      /\ policy = "with_surplus" => total_shares <= VirtualShares * insurance
  BY DEF PoolInv, VaultOK
<1>9. NumbersOK'
  <2>1. impaired' \in BOOLEAN
    BY DEF NotesImpairment
  <2>2. position' \in [Owners -> Positions]
    BY <1>2, <1>5, <1>6
  <2> QED BY <1>1, <1>2, <1>3, <2>1, <2>2 DEF NumbersOK
<1>10. TotalsOK'
  <2>1. outstanding' = Total(Principals, Owners)'
    BY <1>1, <1>2, <1>4, <1>6, <1>7
  <2>2. ASSUME NEW q \in Owners, q # o PROVE Held'[q] = Held[q]
    <3>1. position'[q] = position[q] /\ generation' = generation
      BY <1>1, <1>7, <2>2
    <3> QED BY <3>1 DEF Held, CurrentShares
  <2> DEFINE h == position[o].shares + minted
  <2>3. h \in Nat
    BY <1>3, <1>4
  <2>4. Held[o] = position[o].shares
    <3>1. CASE position[o].principal = 0
      <4>1. position[o].shares = 0
        BY <3>1 DEF PoolInv, PositionsOK
      <4> QED BY <3>1, <4>1, HeldType
    <3>2. CASE position[o].principal # 0
      <4>1. Held[o] = CurrentShares(o)
        BY <1>4, <3>2, HeldType
      <4>2. CurrentShares(o) = LazilyRescaled(position[o].shares, 0)
        BY <1>8 DEF CurrentShares, FirstGeneration
      <4> QED BY <1>4, <4>1, <4>2, NoRescale
    <3> QED BY <3>1, <3>2
  <2>5. Held'[o] = h
    <3>1. CurrentShares(o)' = LazilyRescaled(h, 0)
      BY <1>1, <1>6, <1>7, <1>8 DEF CurrentShares, FirstGeneration
    <3>2. CurrentShares(o)' = h
      BY <2>3, <3>1, NoRescale
    <3> QED BY <1>6, <1>7, <3>2 DEF Held
  <2> HIDE DEF h
  <2>6. Total(Held, Owners)' <= total_shares - Held[o] + h
    BY <2>2, <2>3, <2>5, HoldAfter
  <2>7. total_shares - Held[o] + h = total_shares'
    BY <1>1, <1>2, <1>3, <1>4, <2>4 DEF h
  <2> QED BY <2>1, <2>6, <2>7 DEF TotalsOK
<1>11. PositionsOK'
  <2>1. ASSUME NEW q \in Owners
        PROVE /\ position'[q].principal > 0 => Movable(q)'
              /\ position'[q].principal = 0 => position'[q].shares = 0
              /\ position'[q].principal = 0 /\ ~position'[q].withdrawn
                   => position'[q].generation = FirstGeneration
    <3>1. generation' = generation /\ generation = FirstGeneration
      BY <1>1, <1>8
    <3>2. CASE q = o
      <4>1. position'[q].generation = FirstGeneration /\ position'[q].principal > 0
            /\ position'[q].principal \in Nat
        BY <1>6, <1>7, <1>8, <3>2
      <4> QED BY <3>1, <4>1 DEF Movable, FirstGeneration
    <3>3. CASE q # o
      <4>1. position'[q] = position[q]
        BY <1>7, <3>3
      <4> QED BY <3>1, <4>1 DEF PoolInv, PositionsOK, Movable
    <3> QED BY <3>2, <3>3
  <2> QED BY <2>1 DEF PositionsOK
<1>12. VaultOK'
  <2>1. ASSUME policy = "with_surplus" PROVE total_shares' <= VirtualShares * insurance'
    <3>1. minted <= VirtualShares * n
      BY <1>2, <1>8, <2>1, MintsAtParOrLess DEF minted
    <3>2. VirtualShares * (insurance + n) = VirtualShares * insurance + VirtualShares * n
          /\ VirtualShares * insurance \in Nat /\ VirtualShares * n \in Nat
      BY <1>2, PoolBounds
    <3> QED BY <1>1, <1>2, <1>3, <1>8, <2>1, <3>1, <3>2
  <2>2. policy = "principal" => outstanding' <= insurance'
    BY <1>1, <1>2, <1>8
  <2>3. \A q \in Owners : position'[q].generation = FirstGeneration
    BY <1>6, <1>7, <1>8
  <2> QED BY <1>1, <1>8, <2>1, <2>2, <2>3 DEF VaultOK
<1>13. ParOK'
  BY <1>1 DEF ParOK
<1> QED BY <1>9, <1>10, <1>11, <1>12, <1>13 DEF PoolInv

----------------------------------------------------------------------------
(* The other steps touch no share.                                          *)

\* The market, and whoever sends tokens, changes what the pool holds, and losses
\* are noted; none of them reaches an own vault.
LEMMA HoldingKeepsInv ==
  ASSUME PoolInv, insurance' \in Nat, NotesImpairment,
         UNCHANGED <<pool_kind, outstanding, total_shares, generation, position>>,
         own_vault => insurance <= insurance'
  PROVE  PoolInv'
<1>1. /\ policy' = policy /\ own_vault' = own_vault
      /\ outstanding' = outstanding /\ total_shares' = total_shares
      /\ generation' = generation /\ position' = position
  BY DEF pool_kind
<1>2. /\ outstanding \in Nat /\ insurance \in Nat
      /\ own_vault \in BOOLEAN /\ impaired \in BOOLEAN
  BY DEF PoolInv, NumbersOK
<1>3. NumbersOK'
  <2>1. impaired' \in BOOLEAN
    BY DEF NotesImpairment
  <2> QED BY <1>1, <2>1 DEF PoolInv, NumbersOK
<1>4. TotalsOK'
  <2>1. Principals' = Principals
    BY <1>1 DEF Principals
  <2>2. Held' = Held
    BY <1>1 DEF Held, CurrentShares
  <2> QED BY <1>1, <2>1, <2>2 DEF PoolInv, TotalsOK
<1>5. PositionsOK'
  BY <1>1 DEF PoolInv, PositionsOK, Movable
<1>6. VaultOK'
  <2>1. ASSUME own_vault, policy = "with_surplus"
        PROVE  total_shares <= VirtualShares * insurance'
    <3>1. total_shares <= VirtualShares * insurance
      BY <2>1 DEF PoolInv, VaultOK
    <3>2. VirtualShares \in Nat /\ total_shares \in Nat
      BY PoolBounds DEF PoolInv, NumbersOK
    <3> DEFINE was == insurance
    <3> DEFINE is  == insurance'
    <3>3. was \in Nat /\ is \in Nat /\ was <= is
      BY <1>2, <2>1
    <3>4. total_shares <= VirtualShares * was
      BY <3>1
    <3> HIDE DEF was, is
    <3>5. VirtualShares * was <= VirtualShares * is
          /\ VirtualShares * was \in Nat /\ VirtualShares * is \in Nat
      BY <3>2, <3>3
    <3>6. total_shares <= VirtualShares * is
      BY <3>2, <3>4, <3>5
    <3> QED BY <3>6 DEF is
  <2>2. own_vault /\ policy = "principal" => outstanding <= insurance'
    BY <1>2 DEF PoolInv, VaultOK
  <2> QED BY <1>1, <2>1, <2>2 DEF PoolInv, VaultOK
<1>7. ParOK'
  <2>1. ~impaired' => ~impaired /\ outstanding' <= insurance'
    <3>1. ~impaired' => ~impaired /\ ~(insurance' < outstanding')
      BY DEF NotesImpairment
    <3>2. outstanding' \in Nat
      BY <1>1, <1>2
    <3> QED BY <3>1, <3>2
  <2> QED BY <1>1, <2>1 DEF PoolInv, ParOK
<1> QED BY <1>3, <1>4, <1>5, <1>6, <1>7 DEF PoolInv

\* A vote lock is no matter of shares.
LEMMA LockKeepsInv ==
  ASSUME PoolInv, NEW o \in Owners, NEW locked \in BOOLEAN, SetVoteLock(o, locked),
         NotesImpairment
  PROVE  PoolInv'
<1>1. /\ position' = [position EXCEPT ![o].vote_locked = locked]
      /\ policy' = policy /\ own_vault' = own_vault
      /\ outstanding' = outstanding /\ total_shares' = total_shares
      /\ generation' = generation /\ insurance' = insurance
  BY DEF SetVoteLock, pool_kind, market_vars
<1>2. position \in [Owners -> Positions] /\ insurance \in Nat /\ outstanding \in Nat
      /\ impaired \in BOOLEAN
  BY DEF PoolInv, NumbersOK
<1>3. \A q \in Owners : /\ position'[q].principal = position[q].principal
                        /\ position'[q].shares = position[q].shares
                        /\ position'[q].generation = position[q].generation
                        /\ position'[q].withdrawn = position[q].withdrawn
  BY <1>1, <1>2 DEF Positions
<1>4. NumbersOK'
  <2>1. position' \in [Owners -> Positions]
    BY <1>1, <1>2 DEF Positions
  <2>2. impaired' \in BOOLEAN
    BY DEF NotesImpairment
  <2> QED BY <1>1, <2>1, <2>2 DEF PoolInv, NumbersOK
<1>5. TotalsOK'
  <2>1. Principals' = Principals
    BY <1>3 DEF Principals
  <2>2. Held' = Held
    BY <1>1, <1>3 DEF Held, CurrentShares
  <2> QED BY <1>1, <2>1, <2>2 DEF PoolInv, TotalsOK
<1>6. PositionsOK'
  BY <1>1, <1>3 DEF PoolInv, PositionsOK, Movable
<1>7. VaultOK'
  BY <1>1, <1>3 DEF PoolInv, VaultOK
<1>8. ParOK'
  <2>1. ~impaired' => ~impaired
    BY DEF NotesImpairment
  <2> QED BY <1>1, <1>3, <2>1 DEF PoolInv, ParOK
<1> QED BY <1>4, <1>5, <1>6, <1>7, <1>8 DEF PoolInv

\* Every step of a pool of either kind.
LEMMA PoolInvStep == PoolInv /\ [PoolsNext]_ins_vars => PoolInv'
<1> SUFFICES ASSUME PoolInv, [PoolsNext]_ins_vars PROVE PoolInv'
  OBVIOUS
<1>1. insurance \in Nat /\ own_vault \in BOOLEAN
  BY DEF PoolInv, NumbersOK
<1>2. CASE UNCHANGED ins_vars
  <2>1. /\ policy' = policy /\ own_vault' = own_vault /\ impaired' = impaired
        /\ outstanding' = outstanding /\ total_shares' = total_shares
        /\ generation' = generation /\ position' = position /\ insurance' = insurance
    BY <1>2 DEF ins_vars, pool_vars, pool_kind, market_vars
  <2>2. Principals' = Principals /\ Held' = Held
    BY <2>1 DEF Principals, Held, CurrentShares
  <2>3. NumbersOK' /\ TotalsOK'
    BY <2>1, <2>2 DEF PoolInv, NumbersOK, TotalsOK
  <2>4. PositionsOK' /\ VaultOK' /\ ParOK'
    BY <2>1 DEF PoolInv, PositionsOK, Movable, VaultOK, ParOK
  <2> QED BY <2>3, <2>4 DEF PoolInv
<1>3. CASE own_vault /\ VaultNext
  <2>0. own_vault /\ NotesImpairment
    BY <1>3 DEF VaultNext
  <2>1. ASSUME InitVaultPool PROVE PoolInv'
    <3>1. /\ insurance' = insurance
          /\ UNCHANGED <<pool_kind, outstanding, total_shares, generation, position>>
      BY <2>1 DEF InitVaultPool, market_vars
    <3> QED BY <1>1, <2>0, <3>1, HoldingKeepsInv
  <2>2. ASSUME NEW o \in Owners, VaultWithdraw(o) PROVE PoolInv'
    BY <2>0, <2>2, ExitKeepsInv DEF VaultWithdraw
  <2>3. ASSUME NEW o \in Owners, NEW n \in VaultMoves, VaultDeposit(o, n) PROVE PoolInv'
    BY <2>0, <2>3, PoolBounds, VaultDepositKeepsInv
  <2>4. ASSUME NEW n \in VaultMoves, Send(n) PROVE PoolInv'
    <3>1. n \in Nat
      BY PoolBounds
    <3>2. insurance' = insurance + n
      BY <2>4 DEF Send
    <3>3. UNCHANGED <<pool_kind, outstanding, total_shares, generation, position>>
      BY <2>4 DEF Send, MarketUnchanged, pool_vars
    <3>4. insurance' \in Nat /\ insurance <= insurance'
      BY <1>1, <3>1, <3>2
    <3> QED BY <2>0, <3>3, <3>4, HoldingKeepsInv
  <2> QED BY <1>3, <2>1, <2>2, <2>3, <2>4 DEF VaultNext
<1>4. CASE ~own_vault /\ InsuranceNext
  <2>0. ~own_vault /\ NotesImpairment
    BY <1>4 DEF InsuranceNext
  <2>1. ASSUME PoolNext PROVE PoolInv'
    <3>1. ASSUME InitPool PROVE PoolInv'
      <4>1. /\ insurance' = insurance
            /\ UNCHANGED <<pool_kind, outstanding, total_shares, generation, position>>
        BY <3>1 DEF InitPool, market_vars
      <4> QED BY <1>1, <2>0, <4>1, HoldingKeepsInv
    <3>2. ASSUME NEW o \in Owners, NEW n \in Sizes, Deposit(o, n) PROVE PoolInv'
      BY <2>0, <3>2, PoolBounds, DepositKeepsInv
    <3>3. ASSUME NEW o \in Owners, NEW n, Exit(o, n) PROVE PoolInv'
      <4>1. /\ PayOff(o, n)
            /\ position' = [position EXCEPT ![o] = Reduced(o, n, position[o].vote_locked)]
        BY <3>3 DEF Exit, Leave
      <4>2. position[o].vote_locked \in BOOLEAN
        BY PositionType DEF PoolInv
      <4> QED BY <2>0, <4>1, <4>2, ExitKeepsInv
    <3>4. ASSUME NEW o \in Owners, TerminalReturn(o) PROVE PoolInv'
      BY <2>0, <3>4, ExitKeepsInv DEF TerminalReturn
    <3>5. ASSUME NEW o \in Owners, NEW locked \in BOOLEAN, SetVoteLock(o, locked) PROVE PoolInv'
      BY <2>0, <3>5, LockKeepsInv
    <3> QED BY <2>1, <3>1, <3>2, <3>3, <3>4, <3>5 DEF PoolNext
  <2>2. ASSUME MarketNext \/ MoveRoles \/ PoolTime PROVE PoolInv'
    <3>1. UNCHANGED <<pool_kind, outstanding, total_shares, generation, position>>
      BY <2>2 DEF MarketNext, Earn, Lose, Trade, ResolveMarket, MoveRoles, PoolTime,
         MarketUnchanged, pool_vars
    <3>2. insurance' \in Nat
      <4>1. ASSUME NEW n \in MarketMoves, Earn(n) \/ Lose(n) PROVE insurance' \in Nat
        <5>1. n \in Nat
          BY PoolBounds
        <5> QED BY <1>1, <4>1, <5>1 DEF Earn, Lose
      <4>2. ASSUME Trade \/ ResolveMarket \/ MoveRoles \/ PoolTime PROVE insurance' \in Nat
        BY <1>1, <4>2 DEF Trade, ResolveMarket, MoveRoles, PoolTime, market_vars
      <4> QED BY <2>2, <4>1, <4>2 DEF MarketNext
    <3> QED BY <2>0, <3>1, <3>2, HoldingKeepsInv
  <2> QED BY <1>4, <2>1, <2>2 DEF InsuranceNext
<1> QED BY <1>2, <1>3, <1>4 DEF PoolsNext

----------------------------------------------------------------------------
(* What follows.                                                            *)

\* Shares are worth no more than their part of what is priced.
LEMMA ClaimsFit ==
  ASSUME PoolInv
  PROVE  /\ \A o \in Owners : Claim(o) \in Nat
         /\ Total([o \in Owners |-> Claim(o)], Owners) <= insurance
<1> DEFINE claims == [o \in Owners |-> Claim(o)]
           worths == [o \in Owners |-> Redeem(Held[o], Priced, PoolBasis)]
<1>1. /\ Priced \in Nat /\ Priced <= insurance /\ PoolBasis \in Nat
      /\ total_shares < PoolBasis /\ total_shares \in Nat /\ insurance \in Nat
      /\ policy \in {"principal", "with_surplus"}
  BY PricedType DEF PoolInv, NumbersOK
<1>2. \A o \in Owners : position[o].principal \in Nat /\ position[o].principal <= outstanding
  BY OwesPrincipal
<1>3. \A o \in Owners : position[o].principal > 0 =>
        /\ Claim(o) = Owed(o, position[o].principal)
        /\ Claim(o) \in Nat
        /\ Retired(o, position[o].principal) = Held[o]
  <2>1. ASSUME NEW o \in Owners, position[o].principal > 0
        PROVE  /\ Claim(o) = Owed(o, position[o].principal)
               /\ Claim(o) \in Nat
               /\ Retired(o, position[o].principal) = Held[o]
    <3>1. position[o].principal \in 1 .. position[o].principal
      BY <1>2, <2>1
    <3>2. Claim(o) = Owed(o, position[o].principal)
      BY <2>1 DEF Claim
    <3>3. Retired(o, position[o].principal) = CurrentShares(o)
      BY DEF Retired
    <3> QED BY <2>1, <3>1, <3>2, <3>3, OwedIsThere, HeldType
  <2> QED BY <2>1
<1>4. \A o \in Owners : Claim(o) \in Nat /\ claims[o] = Claim(o)
  BY <1>2, <1>3 DEF Claim
<1>5. \A o \in Owners : /\ Held[o] \in Nat
                        /\ worths[o] = (Held[o] * (Priced + 1)) \div PoolBasis
  BY HeldType DEF Redeem
<1>6. /\ \A o \in Owners : worths[o] \in Nat
      /\ Total(worths, Owners) \in Nat
      /\ Total(worths, Owners) <= (total_shares * (Priced + 1)) \div PoolBasis
  <2>1. Total(Held, Owners) <= total_shares
    BY DEF PoolInv, TotalsOK
  <2>2. Priced + 1 \in Nat /\ PoolBasis > 0
    BY <1>1
  <2> HIDE DEF worths
  <2> QED BY <1>1, <1>5, <2>1, <2>2, PoolBounds, TotalQuotients
<1>7. (total_shares * (Priced + 1)) \div PoolBasis <= Priced
  BY <1>1, RedeemBounds DEF Redeem
<1>8. Total(worths, Owners) <= insurance
  <2>1. (total_shares * (Priced + 1)) \div PoolBasis \in Nat
    BY <1>1, RedeemBounds DEF Redeem
  <2> QED BY <1>1, <1>6, <1>7, <2>1
<1>9. CASE policy = "principal" /\ own_vault
  <2>1. outstanding <= insurance /\ outstanding \in Nat
    BY <1>9 DEF PoolInv, VaultOK, NumbersOK
  <2>2. ASSUME NEW o \in Owners PROVE claims[o] = Principals[o]
    <3>1. CASE position[o].principal = 0
      BY <1>4, <3>1 DEF Claim, Principals
    <3>2. CASE position[o].principal # 0
      <4>1. Claim(o) = Owed(o, position[o].principal)
        BY <1>2, <1>3, <3>2
      <4>2. Owed(o, position[o].principal) = position[o].principal
        BY <1>1, <1>9, <2>1 DEF Owed, Payout
      <4> QED BY <1>4, <4>1, <4>2 DEF Principals
    <3> QED BY <3>1, <3>2
  <2>3. Total(claims, Owners) = Total(Principals, Owners)
    BY <2>2, TotalSame
  <2> QED BY <1>4, <2>1, <2>3 DEF PoolInv, TotalsOK
<1>10. CASE ~(policy = "principal" /\ own_vault)
  <2>1. ASSUME NEW o \in Owners
        PROVE  claims[o] \in Nat /\ worths[o] \in Nat /\ claims[o] <= worths[o]
    <3>1. CASE position[o].principal = 0
      BY <1>4, <1>6, <3>1 DEF Claim
    <3>2. CASE position[o].principal # 0
      <4>1. /\ Claim(o) = Owed(o, position[o].principal)
            /\ Retired(o, position[o].principal) = Held[o]
            /\ position[o].principal \in Nat
        BY <1>2, <1>3, <3>2
      <4>2. \/ Claim(o) = worths[o]
            \/ Claim(o) = Least(position[o].principal, worths[o])
        BY <1>1, <1>10, <4>1 DEF Owed
      <4> HIDE DEF worths, claims
      <4> QED BY <1>4, <1>6, <4>1, <4>2 DEF Least
    <3> QED BY <3>1, <3>2
  <2>2. Total(claims, Owners) <= Total(worths, Owners)
    <3> HIDE DEF claims, worths
    <3> QED BY <2>1, PoolBounds, TotalMonotone
  <2>3. Total(claims, Owners) \in Nat
    <3> HIDE DEF claims
    <3> QED BY <2>1, PoolBounds, TotalType
  <2> QED BY <1>1, <1>4, <1>6, <1>8, <2>2, <2>3
<1> QED BY <1>9, <1>10

LEMMA InvCovers == PoolInv => ClaimsAreCovered
<1> SUFFICES ASSUME PoolInv PROVE ClaimsAreCovered
  OBVIOUS
<1>1. ASSUME policy = "principal", own_vault \/ ~impaired, NEW o \in Owners
      PROVE  Claim(o) = position[o].principal
  <2>1. position[o].principal \in Nat /\ outstanding \in Nat /\ insurance \in Nat
    BY OwesPrincipal DEF PoolInv, NumbersOK
  <2>2. CASE position[o].principal = 0
    BY <2>2 DEF Claim
  <2>3. CASE position[o].principal # 0
    <3>1. position[o].principal \in 1 .. position[o].principal
      BY <2>1, <2>3
    <3>2. CASE own_vault
      <4>1. outstanding <= insurance
        BY <1>1, <3>2 DEF PoolInv, VaultOK
      <4> QED BY <1>1, <2>1, <2>3, <3>2, <4>1 DEF Claim, Owed, Payout
    <3>3. CASE ~own_vault
      <4>1. Owed(o, position[o].principal) = position[o].principal
        BY <1>1, <3>1, <3>3, ParExit
      <4> QED BY <2>3, <4>1 DEF Claim
    <3> QED BY <3>2, <3>3
  <2> QED BY <2>2, <2>3
<1> QED BY <1>1, ClaimsFit DEF ClaimsAreCovered

\* A pool of either kind is always in a state of the invariant.
LEMMA AlwaysPoolInv == PoolsSpec => []PoolInv
<1> QED BY PoolInvInit, PoolInvStep, PTL DEF PoolsSpec

\* No exit is ever refused by the arithmetic itself, whatever was deposited, lost,
\* earned, sent, halved or started afresh before it.
THEOREM ExitsAlwaysAdmissible == PoolsSpec => []ExitsAreAdmissible
<1> QED BY AlwaysPoolInv, InvAdmits, PTL

\* All owners together can always be paid what each would be paid if it left now,
\* and a principal pool that never lost anything owes every owner its principal.
THEOREM ClaimsAlwaysCovered == PoolsSpec => []ClaimsAreCovered
<1> QED BY AlwaysPoolInv, InvCovers, PTL

----------------------------------------------------------------------------
(* Exits move no value.                                                     *)

\* At a price that is no higher, shares are worth no more.
LEMMA RedeemLess ==
  ASSUME NEW s \in Nat, NEW low \in Nat, NEW high \in Nat,
         NEW more \in Nat, more > 0, NEW basis \in Nat, basis > 0,
         (low + 1) * basis <= (high + 1) * more
  PROVE  Redeem(s, low, more) <= Redeem(s, high, basis)
<1> DEFINE x == low + 1
           y == high + 1
<1>1. x \in Nat /\ y \in Nat /\ s * x \in Nat /\ s * y \in Nat
  OBVIOUS
<1>2. (s * x) * basis <= (s * y) * more
  <2>1. x * basis <= y * more
    OBVIOUS
  <2> HIDE DEF x, y
  <2> DEFINE a == x * basis
             b == y * more
  <2>2. a \in Nat /\ b \in Nat /\ a <= b
    BY <1>1, <2>1
  <2>3. (s * x) * basis = s * a /\ (s * y) * more = s * b
    BY <1>1
  <2> HIDE DEF a, b
  <2>4. s * a <= s * b
    BY <2>2
  <2> QED BY <2>3, <2>4
<1> HIDE DEF x, y
<1>3. (s * x) \div more <= (s * y) \div basis
  BY <1>1, <1>2, QuotientMonotone
<1> QED BY <1>3 DEF Redeem, x, y

\* Shares redeemed in two parts are worth no more than at once.
LEMMA RedeemParts ==
  ASSUME NEW a \in Nat, NEW b \in Nat, NEW balance \in Nat, NEW basis \in Nat, basis > 0
  PROVE  Redeem(a, balance, basis) + Redeem(b, balance, basis)
           <= Redeem(a + b, balance, basis)
<1> DEFINE x == a * (balance + 1)
           y == b * (balance + 1)
<1>1. x \in Nat /\ y \in Nat /\ x + y = (a + b) * (balance + 1)
  OBVIOUS
<1> HIDE DEF x, y
<1>2. x \div basis + y \div basis <= (x + y) \div basis
  BY <1>1, QuotientSum
<1> QED BY <1>1, <1>2 DEF Redeem, x, y

\* The burn leaves the price at most one share's worth short of what it was.
LEMMA RedeemKept ==
  ASSUME NEW s \in Nat, NEW after \in Nat, NEW before \in Nat,
         NEW left \in Nat, s < left, NEW basis \in Nat, basis > 0,
         (before + 1) * (left - 1) <= (after + 1) * basis
  PROVE  Redeem(s, after, left) >= Redeem(s, before, basis) - Redeem(1, before, basis) - 1
<1> DEFINE p == before + 1
           q == after + 1
           w == Redeem(s, before, basis)
           f == Redeem(1, before, basis)
           z == Redeem(s, after, left)
<1>1. p \in Nat /\ p > 0 /\ q \in Nat /\ left > 0 /\ left - 1 \in Nat
  OBVIOUS
<1>2. p * (left - 1) <= q * basis
  OBVIOUS
<1>3. w = (s * p) \div basis /\ f = p \div basis /\ z = (s * q) \div left
  BY <1>1 DEF Redeem
<1> HIDE DEF p, q, w, f, z
<1>4. w \in Nat /\ basis * w <= s * p /\ s * p \in Nat
  <2>1. s * p \in Nat
    BY <1>1
  <2> QED BY <1>3, <2>1, Quotient
<1>5. f \in Nat /\ p < basis * f + basis
  BY <1>1, <1>3, Quotient
<1>6. z \in Nat /\ s * q < left * z + left
  <2>1. s * q \in Nat
    BY <1>1
  <2> QED BY <1>1, <1>3, <2>1, Quotient
<1>7. SUFFICES ASSUME z + f + 2 <= w PROVE FALSE
  BY <1>4, <1>5, <1>6 DEF w, f, z
\* basis * left * (f + 1) would be at most s * p.
<1>8. basis * (left * (z + 1)) + basis * (left * (f + 1)) <= left * (s * p)
  <2>1. left * (basis * w) <= left * (s * p)
    <3> DEFINE a == basis * w
               b == s * p
    <3>1. a \in Nat /\ b \in Nat /\ a <= b
      BY <1>4
    <3> HIDE DEF a, b
    <3>2. left * a <= left * b
      BY <3>1
    <3> QED BY <3>2 DEF a, b
  <2>2. basis * (left * (z + f + 2)) <= basis * (left * w)
    <3> DEFINE a == left * (z + f + 2)
               b == left * w
    <3>1. a \in Nat /\ b \in Nat /\ a <= b
      BY <1>4, <1>5, <1>6, <1>7
    <3> HIDE DEF a, b
    <3>2. basis * a <= basis * b
      BY <3>1
    <3> QED BY <3>2 DEF a, b
  <2>3. basis * (left * w) = left * (basis * w)
    BY <1>4
  <2>4. basis * (left * (z + f + 2))
          = basis * (left * (z + 1)) + basis * (left * (f + 1))
    BY <1>5, <1>6
  <2>5. /\ basis * (left * w) \in Nat /\ left * (s * p) \in Nat
        /\ basis * (left * (z + f + 2)) \in Nat
    BY <1>4, <1>5, <1>6
  <2> QED BY <2>1, <2>2, <2>3, <2>4, <2>5
<1>9. s * (p * left) <= s * (q * basis) + s * p
  <2>1. p * (left - 1) = p * left - p /\ p * left \in Nat /\ q * basis \in Nat
    BY <1>1
  <2>2. p * left <= q * basis + p
    BY <1>1, <1>2, <2>1
  <2> DEFINE a == p * left
             b == q * basis + p
  <2>3. a \in Nat /\ b \in Nat /\ a <= b
    BY <1>1, <2>1, <2>2
  <2>4. s * b = s * (q * basis) + s * p
    BY <1>1
  <2> HIDE DEF a, b
  <2>5. s * a <= s * b
    BY <2>3
  <2> QED BY <2>4, <2>5 DEF a
<1>10. s * (q * basis) < basis * (left * (z + 1))
  <2> DEFINE a == s * q
             b == left * z + left
  <2>1. a \in Nat /\ b \in Nat /\ a < b
    BY <1>1, <1>6
  <2>2. s * (q * basis) = basis * a /\ basis * (left * (z + 1)) = basis * b
    BY <1>1, <1>6
  <2> HIDE DEF a, b
  <2>3. basis * a < basis * b
    BY <2>1
  <2> QED BY <2>2, <2>3
<1>11. s * p <= basis * (left * (f + 1))
  <2>1. s * p <= left * p
    BY <1>1
  <2> DEFINE b == basis * f + basis
  <2>2. b \in Nat /\ p <= b
    BY <1>1, <1>5
  <2>3. left * b = basis * (left * (f + 1))
    BY <1>5
  <2> HIDE DEF b
  <2>4. left * p <= left * b
    BY <1>1, <2>2
  <2>5. s * p \in Nat /\ left * p \in Nat /\ left * b \in Nat
    BY <1>1, <2>2
  <2> QED BY <2>1, <2>3, <2>4, <2>5
<1>12. left * (s * p) = s * (p * left)
  BY <1>1
<1>13. /\ basis * (left * (z + 1)) \in Nat /\ basis * (left * (f + 1)) \in Nat
       /\ s * (p * left) \in Nat /\ s * (q * basis) \in Nat /\ s * p \in Nat
  BY <1>1, <1>4, <1>5, <1>6
<1> QED BY <1>8, <1>9, <1>10, <1>11, <1>12, <1>13

\* What a position is worth, seen from its shares ...
Value(o) ==
  IF policy = "with_surplus" THEN Redeem(Held[o], Priced, PoolBasis)
  ELSE IF own_vault THEN position[o].principal
  ELSE Least(position[o].principal, Redeem(Held[o], Priced, PoolBasis))

\* ... and what the invariant says of it and of the price.
ValuesOK ==
  /\ policy \in {"principal", "with_surplus"} /\ own_vault \in BOOLEAN
  /\ outstanding \in Nat /\ insurance \in Nat /\ total_shares \in Nat
  /\ generation \in Generations
  /\ Priced = PricedBalance(insurance, outstanding) /\ Priced \in Nat
  /\ PoolBasis = total_shares + VirtualSharesAt(generation.scale)
  /\ PoolBasis \in Nat /\ PoolBasis > total_shares
  /\ \A o \in Owners :
       /\ position[o].principal \in Nat /\ position[o].principal <= outstanding
       /\ Held[o] \in Nat /\ Held[o] <= total_shares
       /\ position[o].principal > 0 => Held[o] = CurrentShares(o)
       /\ position[o].principal = 0 => Held[o] = 0
       /\ Redeem(Held[o], Priced, PoolBasis) \in Nat
       /\ Claim(o) = Value(o) /\ Claim(o) \in Nat

LEMMA InvValues == PoolInv => ValuesOK
<1> SUFFICES ASSUME PoolInv PROVE ValuesOK
  OBVIOUS
<1>1. /\ policy \in {"principal", "with_surplus"} /\ own_vault \in BOOLEAN
      /\ outstanding \in Nat /\ insurance \in Nat /\ total_shares \in Nat
      /\ generation \in Generations
  BY DEF PoolInv, NumbersOK
<1>2. /\ Priced = PricedBalance(insurance, outstanding) /\ Priced \in Nat
      /\ PoolBasis = total_shares + VirtualSharesAt(generation.scale)
      /\ PoolBasis \in Nat /\ PoolBasis > total_shares
  BY PricedType DEF Priced
<1>3. ASSUME NEW o \in Owners
      PROVE  /\ position[o].principal \in Nat /\ position[o].principal <= outstanding
             /\ Held[o] \in Nat /\ Held[o] <= total_shares
             /\ position[o].principal > 0 => Held[o] = CurrentShares(o)
             /\ position[o].principal = 0 => Held[o] = 0
             /\ Redeem(Held[o], Priced, PoolBasis) \in Nat
             /\ Claim(o) = Value(o) /\ Claim(o) \in Nat
  <2>1. position[o].principal \in Nat /\ position[o].principal <= outstanding
    BY OwesPrincipal
  <2>2. /\ Held[o] \in Nat /\ Held[o] <= total_shares
        /\ position[o].principal > 0 => Held[o] = CurrentShares(o)
        /\ position[o].principal = 0 => Held[o] = 0
    BY HeldType
  <2> DEFINE worth == Redeem(Held[o], Priced, PoolBasis)
  <2>3. worth \in Nat
    BY <1>1, <1>2, <2>2, RedeemBounds
  <2>4. Claim(o) \in Nat
    BY ClaimsFit
  <2>5. CASE position[o].principal = 0
    <3>1. Held[o] = 0 /\ 0 < PoolBasis
      BY <1>1, <1>2, <2>2, <2>5
    <3>2. 0 * (Priced + 1) = 0
      BY <1>2
    <3>3. worth = 0
      <4>1. 0 \div PoolBasis = 0
        BY <1>2, <3>1
      <4> QED BY <3>1, <3>2, <4>1 DEF Redeem
    <3>4. Claim(o) = 0
      BY <2>5 DEF Claim
    <3> HIDE DEF worth
    <3>5. Value(o) = 0
      BY <2>5, <3>3 DEF Value, Least, worth
    <3> QED BY <2>1, <2>2, <2>3, <2>4, <3>4, <3>5 DEF worth
  <2>6. CASE position[o].principal # 0
    <3>1. Retired(o, position[o].principal) = Held[o]
      BY <2>1, <2>2, <2>6 DEF Retired
    <3>2. Claim(o) = Owed(o, position[o].principal)
      BY <2>6 DEF Claim
    <3>3. CASE policy = "with_surplus"
      BY <2>1, <2>2, <2>3, <2>4, <3>1, <3>2, <3>3 DEF Owed, Value
    <3>4. CASE policy = "principal" /\ own_vault
      <4>1. Claim(o) = position[o].principal
        BY <3>4, InvCovers DEF ClaimsAreCovered
      <4> QED BY <2>1, <2>2, <2>3, <2>4, <3>4, <4>1 DEF Value
    <3>5. CASE policy = "principal" /\ ~own_vault
      BY <2>1, <2>2, <2>3, <2>4, <3>1, <3>2, <3>5 DEF Owed, Value
    <3> QED BY <1>1, <3>3, <3>4, <3>5
  <2> QED BY <2>1, <2>5, <2>6
<1> QED BY <1>1, <1>2, <1>3 DEF ValuesOK

LEMMA InvValuesNext == PoolInv' => ValuesOK'
<1> QED BY InvValues, PTL

\* An exit takes the retired shares from its owner and from nobody else.
LEMMA ExitHolds ==
  ASSUME PoolInv, PoolInv', NEW o \in Owners, NEW n, NEW locked \in BOOLEAN, PayOff(o, n),
         position' = [position EXCEPT ![o] = Reduced(o, n, locked)], outstanding' # 0
  PROVE  /\ Retired(o, n) \in Nat /\ Held'[o] \in Nat
         /\ Held[o] = Held'[o] + Retired(o, n)
         /\ \A q \in Owners \ {o} : Held'[q] = Held[q]
<1>1. /\ n \in 1 .. position[o].principal
      /\ position'[o] = Reduced(o, n, locked)
      /\ \A q \in Owners : q # o => position'[q] = position[q]
      /\ generation' = generation
  BY ExitLeaves
<1>2. ValuesOK /\ ValuesOK'
  BY InvValues, InvValuesNext
<1>3. /\ Retired(o, n) \in Nat /\ Retired(o, n) <= CurrentShares(o)
      /\ CurrentShares(o) \in Nat
  BY <1>1, RetiredType
<1>4. Held[o] = CurrentShares(o) /\ position[o].principal \in Nat
  BY <1>1, <1>2 DEF ValuesOK
<1>5. /\ position'[o].principal = position[o].principal - n
      /\ position'[o].shares = CurrentShares(o) - Retired(o, n)
      /\ position'[o].generation = generation
  BY <1>1 DEF Reduced
<1>6. Held'[o] = CurrentShares(o) - Retired(o, n)
  <2>1. CASE n = position[o].principal
    <3>1. position'[o].principal = 0 /\ Retired(o, n) = CurrentShares(o)
      BY <1>4, <1>5, <2>1 DEF Retired
    <3> QED BY <1>2, <1>3, <3>1 DEF ValuesOK
  <2>2. CASE n # position[o].principal
    <3>1. position'[o].principal > 0
      BY <1>1, <1>4, <1>5, <2>2
    <3>2. Held'[o] = CurrentShares(o)'
      BY <1>2, <3>1 DEF ValuesOK
    <3>3. generation.scale - generation.scale = 0
      BY <1>2 DEF ValuesOK, Generations
    <3>4. CurrentShares(o)' = LazilyRescaled(position'[o].shares, 0)
      BY <1>1, <1>5, <3>3 DEF CurrentShares
    <3>5. position'[o].shares \in Nat
      BY <1>3, <1>5
    <3> QED BY <1>5, <3>2, <3>4, <3>5, NoRescale
  <2> QED BY <2>1, <2>2
<1>7. ASSUME NEW q \in Owners \ {o} PROVE Held'[q] = Held[q]
  <2>1. position'[q] = position[q]
    BY <1>1, <1>7
  <2>2. CurrentShares(q)' = CurrentShares(q)
    BY <1>1, <2>1 DEF CurrentShares
  <2>3. position[q].principal > 0 \/ position[q].principal = 0
    BY <1>2, <1>7 DEF ValuesOK
  <2> QED BY <1>2, <1>7, <2>1, <2>2, <2>3 DEF ValuesOK
<1> QED BY <1>3, <1>4, <1>6, <1>7, <1>2 DEF ValuesOK

\* No exit lets the price of a share rise.
LEMMA ExitPriceFalls ==
  ASSUME PoolInv, PoolInv', NEW o \in Owners, NEW n, NEW locked \in BOOLEAN, PayOff(o, n),
         position' = [position EXCEPT ![o] = Reduced(o, n, locked)], outstanding' # 0
  PROVE  /\ Priced' \in Nat /\ PoolBasis' \in Nat /\ PoolBasis' > 0
         /\ (Priced' + 1) * PoolBasis <= (Priced + 1) * PoolBasis'
<1> DEFINE burnt == IF Retired(o, n) = 0 THEN 0
                    ELSE RateSafeBurn(Retired(o, n), Priced,
                           PricedBalance(insurance', outstanding'), PoolBasis)
<1>1. /\ policy' = policy /\ generation' = generation
      /\ total_shares' = total_shares - burnt
      /\ burnt \in Nat
      /\ (PricedBalance(insurance', outstanding') + 1) * PoolBasis
           <= (Priced + 1) * (PoolBasis - burnt)
  BY ExitLeaves
<1> HIDE DEF burnt
<1>2. ValuesOK /\ ValuesOK'
  BY InvValues, InvValuesNext
<1>3. Priced' = PricedBalance(insurance', outstanding')
  BY <1>1 DEF Priced, PricedBalance
<1>4. PoolBasis' = PoolBasis - burnt
  <2>1. VirtualSharesAt(generation.scale)' = VirtualSharesAt(generation.scale)
    BY <1>1
  <2>2. generation.scale \in Nat
    BY <1>2 DEF ValuesOK, Generations
  <2>3. VirtualSharesAt(generation.scale) \in Nat
    BY <2>2, VirtualSharesPositive
  <2>4. /\ PoolBasis = total_shares + VirtualSharesAt(generation.scale)
        /\ PoolBasis' = total_shares' + VirtualSharesAt(generation.scale)'
        /\ total_shares \in Nat /\ total_shares' \in Nat
    BY <1>2 DEF ValuesOK
  <2> QED BY <1>1, <2>1, <2>3, <2>4
<1>5. /\ Priced' \in Nat /\ PoolBasis' \in Nat /\ PoolBasis' > total_shares'
      /\ total_shares' \in Nat
  BY <1>2 DEF ValuesOK
<1> QED BY <1>1, <1>3, <1>4, <1>5

\* What an exit does to every claim.
LEMMA ExitClaims ==
  ASSUME PoolInv, PoolInv', NEW o \in Owners, NEW n, NEW locked \in BOOLEAN, PayOff(o, n),
         position' = [position EXCEPT ![o] = Reduced(o, n, locked)]
  PROVE  /\ insurance - insurance' + Claim(o)' <= Claim(o)
         /\ \A q \in Owners \ {o} : Claim(q)' <= Claim(q)
<1>1. /\ n \in 1 .. position[o].principal
      /\ policy' = policy /\ own_vault' = own_vault
      /\ insurance' = insurance - Owed(o, n)
      /\ position'[o] = Reduced(o, n, locked)
      /\ \A q \in Owners : q # o => position'[q] = position[q]
      /\ outstanding' = 0 => \A q \in Owners : position'[q].principal = 0
  BY ExitLeaves
<1>2. ValuesOK /\ ValuesOK'
  BY InvValues, InvValuesNext
<1>3. /\ insurance \in Nat /\ insurance' \in Nat /\ Owed(o, n) \in Nat
      /\ insurance - insurance' = Owed(o, n)
  BY <1>1, <1>2, OwedIsThere DEF ValuesOK
<1>4. position'[o].principal = position[o].principal - n
  BY <1>1 DEF Reduced
<1>5. CASE outstanding' = 0
  <2>1. \A q \in Owners : position'[q].principal = 0 /\ Claim(q)' = 0
    BY <1>1, <1>5 DEF Claim
  <2>2. n = position[o].principal
    <3>1. position[o].principal \in Nat /\ position[o].principal - n = 0
      BY <1>2, <1>4, <2>1 DEF ValuesOK
    <3> QED BY <1>1, <3>1
  <2>3. Claim(o) = Owed(o, n)
    BY <1>1, <2>2 DEF Claim
  <2>4. \A q \in Owners : Claim(q) \in Nat
    BY <1>2 DEF ValuesOK
  <2> QED BY <1>3, <2>1, <2>3, <2>4
<1>6. CASE outstanding' # 0
  <2>1. /\ Retired(o, n) \in Nat /\ Held'[o] \in Nat
        /\ Held[o] = Held'[o] + Retired(o, n)
        /\ \A q \in Owners \ {o} : Held'[q] = Held[q]
    BY <1>6, ExitHolds
  <2>2. /\ Priced' \in Nat /\ PoolBasis' \in Nat /\ PoolBasis' > 0
        /\ (Priced' + 1) * PoolBasis <= (Priced + 1) * PoolBasis'
    BY <1>6, ExitPriceFalls
  <2>3. /\ Priced \in Nat /\ PoolBasis \in Nat /\ PoolBasis > 0
    BY <1>2 DEF ValuesOK
  <2> DEFINE all  == Redeem(Held[o], Priced, PoolBasis)
             kept == Redeem(Held'[o], Priced, PoolBasis)
             out  == Redeem(Retired(o, n), Priced, PoolBasis)
             left == Redeem(Held'[o], Priced', PoolBasis')
  <2>4. kept + out <= all
    BY <2>1, <2>3, RedeemParts
  <2>5. left <= kept
    BY <2>1, <2>2, <2>3, RedeemLess
  <2>6. /\ all \in Nat /\ left \in Nat /\ out \in Nat
        /\ Claim(o) = Value(o) /\ Claim(o)' = Value(o)'
        /\ policy \in {"principal", "with_surplus"}
        /\ position[o].principal \in Nat /\ position'[o].principal \in Nat
    BY <1>1, <1>2, OwedIsThere DEF ValuesOK
  <2>7. kept \in Nat
    <3>1. Held'[o] < PoolBasis
      BY <1>2, <2>1 DEF ValuesOK
    <3> QED BY <2>1, <2>3, <3>1, RedeemBounds
  <2>8. Owed(o, n) + Claim(o)' <= Claim(o)
    <3>1. CASE policy = "with_surplus"
      <4>1. Owed(o, n) = out /\ Claim(o)' = left /\ Claim(o) = all
        BY <1>1, <2>6, <3>1 DEF Owed, Value
      <4> HIDE DEF all, kept, out, left
      <4> QED BY <2>4, <2>5, <2>6, <2>7, <4>1
    <3>2. CASE policy = "principal" /\ own_vault
      <4>1. insurance >= outstanding
        BY <1>2, <3>2 DEF PoolInv, VaultOK, ValuesOK
      <4>2. Owed(o, n) = n
        BY <3>2, <4>1 DEF Owed, Payout
      <4>3. Claim(o)' = position'[o].principal /\ Claim(o) = position[o].principal
        BY <1>1, <2>6, <3>2 DEF Value
      <4> QED BY <1>1, <1>4, <2>6, <4>2, <4>3
    <3>3. CASE policy = "principal" /\ ~own_vault
      <4>1. /\ Owed(o, n) = Least(n, out)
            /\ Claim(o)' = Least(position'[o].principal, left)
            /\ Claim(o) = Least(position[o].principal, all)
        BY <1>1, <2>6, <3>3 DEF Owed, Value
      <4> HIDE DEF all, kept, out, left
      <4> QED BY <1>1, <1>4, <2>4, <2>5, <2>6, <2>7, <4>1 DEF Least
    <3> QED BY <2>6, <3>1, <3>2, <3>3
  <2>9. ASSUME NEW q \in Owners \ {o} PROVE Claim(q)' <= Claim(q)
    <3> DEFINE before == Redeem(Held[q], Priced, PoolBasis)
               after  == Redeem(Held[q], Priced', PoolBasis')
    <3>1. /\ before \in Nat /\ after \in Nat
          /\ Claim(q) = Value(q) /\ Claim(q)' = Value(q)'
          /\ Held[q] \in Nat /\ position[q].principal \in Nat
          /\ Held'[q] = Held[q] /\ position'[q] = position[q]
      BY <1>1, <1>2, <2>1, <2>9 DEF ValuesOK
    <3>2. after <= before
      BY <2>2, <2>3, <3>1, RedeemLess
    <3>3. /\ Claim(q) = IF policy = "with_surplus" THEN before
                        ELSE IF own_vault THEN position[q].principal
                        ELSE Least(position[q].principal, before)
          /\ Claim(q)' = IF policy = "with_surplus" THEN after
                         ELSE IF own_vault THEN position[q].principal
                         ELSE Least(position[q].principal, after)
      BY <1>1, <3>1 DEF Value
    <3> HIDE DEF before, after
    <3> QED BY <3>1, <3>2, <3>3 DEF Least
  <2> QED BY <1>3, <2>8, <2>9
<1> QED BY <1>5, <1>6

\* Where growth belongs to the shares, an exit costs the others only rounding.
LEMMA ExitKeepsClaims ==
  ASSUME PoolInv, PoolInv', NEW o \in Owners, NEW n, NEW locked \in BOOLEAN, PayOff(o, n),
         position' = [position EXCEPT ![o] = Reduced(o, n, locked)],
         policy = "with_surplus", NEW q \in Owners \ {o}
  PROVE  Claim(q)' >= Claim(q) - SharePrice - 1
<1>1. /\ policy' = policy
      /\ position'[q] = position[q]
      /\ outstanding' = 0 => position'[q].principal = 0
      /\ outstanding' # 0 => generation' = generation
  BY ExitLeaves
<1>2. ValuesOK /\ ValuesOK'
  BY InvValues, InvValuesNext
<1>3. /\ Priced = insurance /\ Priced' = insurance'
      /\ insurance \in Nat /\ insurance' \in Nat
      /\ PoolBasis \in Nat /\ PoolBasis > 0
      /\ Claim(q) = Value(q) /\ Claim(q)' = Value(q)'
      /\ Claim(q) \in Nat /\ Claim(q)' \in Nat
  BY <1>1, <1>2 DEF ValuesOK, PricedBalance
<1>4. SharePrice \in Nat
  <2>1. 1 * (Priced + 1) \in Nat
    BY <1>3
  <2> QED BY <1>3, <2>1, Quotient DEF SharePrice, Redeem
<1>5. CASE outstanding' = 0
  <2>1. Claim(q) = 0
    BY <1>1, <1>5 DEF Claim
  <2> QED BY <1>3, <1>4, <2>1
<1>6. CASE outstanding' # 0
  <2>1. Held'[q] = Held[q]
    BY <1>6, ExitHolds
  <2> DEFINE left == PoolBasis'
  <2>2. /\ left = total_shares' + VirtualSharesAt(generation.scale)
        /\ left \in Nat /\ Held[q] < left /\ Held[q] \in Nat
    BY <1>1, <1>2, <1>6, <2>1 DEF ValuesOK
  <2>3. \/ (insurance + 1) * left <= (insurance' + 1) * PoolBasis
        \/ left = CeilDiv((insurance' + 1) * PoolBasis, insurance + 1)
    BY <1>6, <2>2, ExitPrice
  <2> HIDE DEF left
  <2> DEFINE was == insurance
             is  == insurance'
  <2>4. was \in Nat /\ is \in Nat
    BY <1>3
  <2>5. (was + 1) * (left - 1) <= (is + 1) * PoolBasis
    <3>1. /\ (was + 1) * left = (was + 1) * (left - 1) + was + 1
          /\ (was + 1) * (left - 1) \in Nat /\ (is + 1) * PoolBasis \in Nat
      <4>1. PoolBasis \in Nat /\ left - 1 \in Nat /\ left \in Nat
        BY <1>3, <2>2
      <4> HIDE DEF was, is
      <4> QED BY <2>4, <4>1
    <3>2. CASE (was + 1) * left <= (is + 1) * PoolBasis
      <4> HIDE DEF was, is
      <4> QED BY <2>4, <3>1, <3>2
    <3>3. CASE left = CeilDiv((is + 1) * PoolBasis, was + 1)
      <4> HIDE DEF was, is
      <4>1. was + 1 \in Nat /\ was + 1 > 0
        BY <2>4
      <4>2. (was + 1) * left < (is + 1) * PoolBasis + (was + 1)
        BY <3>1, <3>3, <4>1, CeilQuotient
      <4> QED BY <2>4, <3>1, <4>2
    <3> QED BY <2>3, <3>2, <3>3
  <2>6. Redeem(Held[q], insurance', left)
          >= Redeem(Held[q], insurance, PoolBasis) - Redeem(1, insurance, PoolBasis) - 1
    BY <1>3, <2>2, <2>5, RedeemKept
  <2>7. /\ Claim(q) = Redeem(Held[q], insurance, PoolBasis)
        /\ Claim(q)' = Redeem(Held[q], insurance', left)
        /\ SharePrice = Redeem(1, insurance, PoolBasis)
    BY <1>1, <1>3, <2>1 DEF Value, SharePrice, left
  <2> QED BY <2>6, <2>7
<1> QED BY <1>5, <1>6

\* o leaves with n of its principal.
Exits(o, n, locked) ==
  /\ PayOff(o, n)
  /\ position' = [position EXCEPT ![o] = Reduced(o, n, locked)]

\* A step is an exit, a deposit, a vote lock, or touches no share.
LEMMA KindsOfStep ==
  ASSUME PoolInv, PoolsNext
  PROVE  \/ \E o \in Owners, locked \in BOOLEAN : \E n : Exits(o, n, locked)
         \/ ~own_vault /\ \E o \in Owners, n \in Nat \ {0} : Deposit(o, n)
         \/ own_vault /\ \E o \in Owners, n \in Nat \ {0} : VaultDeposit(o, n)
         \/ \E o \in Owners, locked \in BOOLEAN : SetVoteLock(o, locked)
         \/ UNCHANGED position
<1>1. CASE own_vault /\ VaultNext
  <2>1. ASSUME InitVaultPool \/ \E n \in VaultMoves : Send(n) PROVE UNCHANGED position
    BY <2>1 DEF InitVaultPool, Send, MarketUnchanged, pool_vars
  <2>2. ASSUME NEW o \in Owners, VaultWithdraw(o)
        PROVE  Exits(o, position[o].principal, FALSE)
    BY <2>2 DEF VaultWithdraw, Exits
  <2>3. ASSUME NEW o \in Owners, NEW n \in VaultMoves, VaultDeposit(o, n)
        PROVE  n \in Nat \ {0}
    BY PoolBounds
  <2> QED BY <1>1, <2>1, <2>2, <2>3 DEF VaultNext
<1>2. CASE ~own_vault /\ InsuranceNext
  <2>1. ASSUME InitPool \/ MarketNext \/ MoveRoles \/ PoolTime PROVE UNCHANGED position
    BY <2>1 DEF InitPool, MarketNext, Earn, Lose, Trade, ResolveMarket, MoveRoles, PoolTime,
       MarketUnchanged, pool_vars
  <2>2. ASSUME NEW o \in Owners, NEW n \in Sizes, Deposit(o, n)
        PROVE  n \in Nat \ {0}
    BY PoolBounds
  <2>3. ASSUME NEW o \in Owners, NEW n, Exit(o, n)
        PROVE  Exits(o, n, position[o].vote_locked) /\ position[o].vote_locked \in BOOLEAN
    BY <2>3, PositionType DEF Exit, Leave, Exits, PoolInv
  <2>4. ASSUME NEW o \in Owners, TerminalReturn(o)
        PROVE  Exits(o, position[o].principal, FALSE)
    BY <2>4 DEF TerminalReturn, Exits
  <2>5. CASE PoolNext
    <3>1. CASE \E o \in Owners, n \in Sizes : Deposit(o, n)
      BY <1>2, <2>2, <3>1
    <3>2. CASE \E o \in Owners : \E n : Exit(o, n)
      BY <2>3, <3>2
    <3>3. CASE \E o \in Owners : TerminalReturn(o)
      BY <2>4, <3>3
    <3> QED BY <2>1, <2>5, <3>1, <3>2, <3>3 DEF PoolNext
  <2> QED BY <1>2, <2>1, <2>5 DEF InsuranceNext
<1> QED BY <1>1, <1>2 DEF PoolsNext

\* A deposit adds to the principal of its owner.
LEMMA DepositAdds ==
  ASSUME PoolInv, NEW q \in Owners, NEW n \in Nat, Deposit(q, n) \/ VaultDeposit(q, n)
  PROVE  /\ \A r \in Owners : r # q => position'[r] = position[r]
         /\ position'[q].principal = position[q].principal + n
<1>1. position \in [Owners -> Positions]
  BY DEF PoolInv, NumbersOK
<1>2. CASE Deposit(q, n)
  <2>1. PICK k \in FittingRescales(n, Priced, RestartedTotal, RestartedGeneration.scale) :
          LET gen    == [RestartedGeneration EXCEPT !.scale = @ + k]
              minted == Minted(n, Priced, RestartedTotal, RestartedGeneration.scale, k)
          IN  position' = [position EXCEPT ![q] =
                [principal   |-> position[q].principal + n,
                 shares      |-> CarriedTo(gen, q) + minted,
                 generation  |-> gen,
                 vote_locked |-> position[q].vote_locked,
                 withdrawn   |-> FALSE]]
    BY <1>2 DEF Deposit, CarriedTo
  <2> QED BY <1>1, <2>1
<1>3. CASE VaultDeposit(q, n)
  <2>1. PICK m : position' = [position EXCEPT ![q].principal = @ + n, ![q].shares = @ + m]
    BY <1>3 DEF VaultDeposit
  <2>2. position[q] \in Positions
    BY <1>1
  <2> QED BY <1>1, <2>1, <2>2 DEF Positions
<1> QED BY <1>2, <1>3

\* Only an exit of its owner takes principal out of a position.
LEMMA OnlyExitsReduce ==
  ASSUME PoolInv, [PoolsNext]_ins_vars, NEW o \in Owners, Deposited(o) < 0
  PROVE  \E locked \in BOOLEAN : \E n : Exits(o, n, locked)
<1>1. position \in [Owners -> Positions] /\ \A q \in Owners : position[q].principal \in Nat
  BY PositionType DEF PoolInv, NumbersOK
<1>2. position'[o].principal # position[o].principal
  <2>1. SUFFICES ASSUME position'[o].principal = position[o].principal PROVE FALSE
    OBVIOUS
  <2> QED BY <1>1, <2>1 DEF Deposited
<1>3. CASE UNCHANGED ins_vars
  BY <1>2, <1>3 DEF ins_vars, pool_vars
<1>4. CASE PoolsNext
  <2>1. ASSUME NEW q \in Owners, NEW n \in Nat \ {0}, Deposit(q, n) \/ VaultDeposit(q, n)
        PROVE  FALSE
    <3>1. /\ \A r \in Owners : r # q => position'[r] = position[r]
          /\ position'[q].principal = position[q].principal + n
      BY <1>1, <2>1, DepositAdds
    <3>2. q = o
      BY <1>2, <3>1
    <3> QED BY <1>1, <3>1, <3>2 DEF Deposited
  <2>2. ASSUME NEW q \in Owners, NEW locked \in BOOLEAN, SetVoteLock(q, locked) PROVE FALSE
    <3>1. position' = [position EXCEPT ![q].vote_locked = locked]
      BY <2>2 DEF SetVoteLock
    <3>2. position'[o].principal = position[o].principal
      BY <1>1, <3>1 DEF Positions
    <3> QED BY <1>2, <3>2
  <2>3. ASSUME NEW q \in Owners, NEW locked \in BOOLEAN, NEW n, Exits(q, n, locked)
        PROVE  q = o
    BY <1>1, <1>2, <2>3 DEF Exits
  <2> QED BY <1>2, <1>4, <2>1, <2>2, <2>3, KindsOfStep
<1> QED BY <1>3, <1>4

\* Leaving first, last or in parts wins nothing, and costs the others no more than
\* the rounding of what is burnt and of their claims.
THEOREM ExitsNeverMoveValue == PoolsSpec => ExitsMoveNoValue
<1>1. ASSUME PoolInv, [PoolsNext]_ins_vars, NEW o \in Owners, Deposited(o) < 0
      PROVE  /\ insurance - insurance' + Claim(o)' <= Claim(o)
             /\ \A q \in Owners \ {o} :
                  /\ Claim(q)' <= Claim(q)
                  /\ policy = "with_surplus" => Claim(q)' >= Claim(q) - SharePrice - 1
  <2>1. PICK locked \in BOOLEAN : \E n : Exits(o, n, locked)
    BY <1>1, OnlyExitsReduce
  <2>2. PICK n : Exits(o, n, locked)
    BY <2>1
  <2>3. PoolInv'
    BY <1>1, PoolInvStep
  <2>4. PayOff(o, n) /\ position' = [position EXCEPT ![o] = Reduced(o, n, locked)]
    BY <2>2 DEF Exits
  <2> QED BY <1>1, <2>2, <2>3, <2>4, ExitClaims, ExitKeepsClaims
<1>2. PoolInv /\ [PoolsNext]_ins_vars =>
        [\A o \in Owners : Deposited(o) < 0 =>
           /\ insurance - insurance' + Claim(o)' <= Claim(o)
           /\ \A q \in Owners \ {o} :
                /\ Claim(q)' <= Claim(q)
                /\ policy = "with_surplus" => Claim(q)' >= Claim(q) - SharePrice - 1]_ins_vars
  BY <1>1
<1> QED BY <1>2, AlwaysPoolInv, PTL DEF PoolsSpec, ExitsMoveNoValue

----------------------------------------------------------------------------
(* Deposits keep claims: the arithmetic.                                    *)

LEMMA Scale ==
  ASSUME NEW a \in Nat, NEW b \in Nat, NEW c \in Nat, a <= b
  PROVE  c * a <= c * b /\ c * a \in Nat /\ c * b \in Nat
  OBVIOUS

LEMMA Unscale ==
  ASSUME NEW a \in Nat, NEW b \in Nat, NEW c \in Nat, c * a < c * b
  PROVE  a < b
<1> SUFFICES ASSUME b <= a PROVE FALSE
  OBVIOUS
<1>1. c * b <= c * a /\ c * a \in Nat /\ c * b \in Nat
  BY Scale
<1> QED BY <1>1

\* A mint that rounds down, and is worth what was paid up to one atom, moves what
\* other shares are worth by one atom at most; `price` is one above the balance.
LEMMA RoundedDown ==
  ASSUME NEW price \in Nat, NEW basis \in Nat, basis > 0, NEW n \in Nat, NEW m \in Nat,
         NEW s \in Nat, s <= basis, NEW w \in Nat,
         m * price <= n * basis,
         n * (basis + m) <= m * (price + n) + (basis + m),
         w * basis <= s * price, s * price < w * basis + basis
  PROVE  /\ w * (basis + m) <= s * (price + n)
         /\ s * (price + n) < w * (basis + m) + 2 * (basis + m)
         /\ m * (price + n) <= n * (basis + m)
<1> DEFINE sp == s * price
           wb == w * basis
           mp == m * price
           nb == n * basis
<1>1. sp \in Nat /\ wb \in Nat /\ mp \in Nat /\ nb \in Nat /\ m * n \in Nat
  OBVIOUS
<1>2. m * (price + n) = mp + m * n /\ n * (basis + m) = nb + m * n
  OBVIOUS
<1>3. mp <= nb /\ nb <= mp + basis + m /\ wb <= sp /\ sp + 1 <= wb + basis
  BY <1>1, <1>2
<1>4. /\ basis * (s * (price + n)) = basis * sp + s * nb
      /\ basis * (w * (basis + m)) = basis * wb + m * wb
      /\ basis * (w * (basis + m) + 2 * (basis + m))
           = basis * wb + m * wb + 2 * (basis * basis) + 2 * (basis * m)
      /\ s * mp = m * sp
      /\ s * (mp + basis + m) = m * sp + s * (basis + m)
      /\ basis * (wb + basis) = basis * wb + basis * basis
      /\ m * (wb + basis) = m * wb + basis * m
      /\ basis * (basis + m) = basis * basis + basis * m
      /\ (basis + m) * s = s * (basis + m)
      /\ (basis + m) * basis = basis * (basis + m)
  OBVIOUS
<1> HIDE DEF sp, wb, mp, nb
<1>5. /\ basis * sp \in Nat /\ basis * wb \in Nat /\ m * sp \in Nat /\ m * wb \in Nat
      /\ s * nb \in Nat /\ basis * basis \in Nat /\ basis * m \in Nat
      /\ s * (basis + m) \in Nat
  BY <1>1
<1>6. w * (basis + m) <= s * (price + n)
  <2>1. basis * wb <= basis * sp /\ m * wb <= m * sp /\ s * mp <= s * nb
    BY <1>1, <1>3, Scale
  <2>2. basis * (w * (basis + m)) <= basis * (s * (price + n))
    BY <1>4, <1>5, <2>1
  <2> DEFINE x == w * (basis + m)
             y == s * (price + n)
  <2>3. x \in Nat /\ y \in Nat
    OBVIOUS
  <2> HIDE DEF x, y
  <2>4. SUFFICES ASSUME y < x PROVE FALSE
    BY <2>3 DEF x, y
  <2>5. basis * x <= basis * y
    BY <2>2 DEF x, y
  <2>6. basis * (y + 1) <= basis * x /\ basis * (y + 1) = basis * y + basis
        /\ basis * x \in Nat /\ basis * y \in Nat
    BY <2>3, <2>4, Scale
  <2> QED BY <2>5, <2>6
<1>7. s * (price + n) < w * (basis + m) + 2 * (basis + m)
  <2>1. basis * (sp + 1) <= basis * (wb + basis) /\ basis * (sp + 1) = basis * sp + basis
    BY <1>1, <1>3, Scale
  <2>2. m * sp <= m * (wb + basis)
    BY <1>1, <1>3, Scale
  <2>3. s * nb <= s * (mp + basis + m)
    BY <1>1, <1>3, Scale
  <2>4. s * (basis + m) <= basis * (basis + m)
    BY <1>4, Scale
  <2>5. basis * (s * (price + n)) < basis * (w * (basis + m) + 2 * (basis + m))
    BY <1>4, <1>5, <2>1, <2>2, <2>3, <2>4
  <2> DEFINE x == s * (price + n)
             y == w * (basis + m) + 2 * (basis + m)
  <2>6. x \in Nat /\ y \in Nat
    OBVIOUS
  <2> HIDE DEF x, y
  <2> QED BY <2>5, <2>6, Unscale DEF x, y
<1> QED BY <1>1, <1>2, <1>3, <1>6, <1>7

\* So does one that rounds up, after halvings, where a share is worth less than a
\* quarter of an atom.
LEMMA RoundedUp ==
  ASSUME NEW price \in Nat, price > 0, NEW basis \in Nat, 4 * price <= basis,
         NEW n \in Nat, NEW m \in Nat, NEW s \in Nat, s <= basis,
         NEW w \in Nat, w <= price,
         n * basis <= m * price, m * price < n * basis + price,
         w * basis <= s * price + price + 2 * w,
         s * price < w * basis + basis
  PROVE  /\ w * (basis + m) <= s * (price + n) + (basis + m)
         /\ s * (price + n) < w * (basis + m) + (basis + m)
         /\ n * (basis + m) <= m * (price + n)
         /\ m * (price + n) < n * (basis + m) + (basis + m)
<1> DEFINE sp == s * price
           wb == w * basis
           mp == m * price
           nb == n * basis
           d  == basis + m
<1>0. d \in Nat /\ d > 0 /\ basis > 0 /\ basis <= d
  OBVIOUS
<1>1. sp \in Nat /\ wb \in Nat /\ mp \in Nat /\ nb \in Nat /\ m * n \in Nat
  OBVIOUS
<1>2. m * (price + n) = mp + m * n /\ n * d = nb + m * n
  OBVIOUS
<1>3. /\ nb <= mp /\ mp + 1 <= nb + price /\ wb <= sp + price + 2 * w
      /\ sp + 1 <= wb + basis
  BY <1>1
<1>4. /\ basis * (s * (price + n)) = basis * sp + s * nb
      /\ basis * (w * d) = d * wb
      /\ basis * (w * d + d) = d * (wb + basis)
      /\ d * (wb + basis) = d * wb + d * basis
      /\ s * mp = m * sp
      /\ s * (nb + price) = s * nb + sp
      /\ d * sp = basis * sp + m * sp
      /\ d * (sp + price + 2 * w) = d * sp + d * price + 2 * (d * w)
      /\ d * (4 * price) = 4 * (d * price)
      /\ basis * (s * (price + n) + d) = basis * sp + s * nb + d * basis
  OBVIOUS
<1>5. n * d <= m * (price + n) /\ m * (price + n) < n * d + d
  <2>1. price <= d
    BY <1>0
  <2> HIDE DEF sp, wb, mp, nb, d
  <2> QED BY <1>0, <1>1, <1>2, <1>3, <2>1
<1>6. /\ basis * sp \in Nat /\ m * sp \in Nat /\ s * nb \in Nat /\ d * wb \in Nat
      /\ d * basis \in Nat /\ d * price \in Nat /\ d * w \in Nat /\ d * sp \in Nat
  BY <1>0, <1>1
<1>7. sp <= d * price
  <2>1. price * s <= price * d
    BY <1>0, Scale
  <2> QED BY <2>1
<1> HIDE DEF sp, wb, mp, nb, d
<1>8. s * nb <= m * sp /\ m * sp <= s * nb + sp
  <2>1. s * nb <= s * mp /\ s * mp <= s * (nb + price)
    BY <1>1, <1>3, Scale
  <2> QED BY <1>4, <2>1
<1>9. s * (price + n) < w * d + d
  <2>1. d * (sp + 1) <= d * (wb + basis) /\ d * (sp + 1) = d * sp + d
    BY <1>0, <1>1, <1>3, Scale
  <2>2. basis * (s * (price + n)) < basis * (w * d + d)
    BY <1>0, <1>4, <1>6, <1>8, <2>1
  <2> DEFINE x == s * (price + n)
             y == w * d + d
  <2>3. x \in Nat /\ y \in Nat
    BY <1>0
  <2> HIDE DEF x, y
  <2> QED BY <2>2, <2>3, Unscale DEF x, y
<1>10. w * d <= s * (price + n) + d
  <2> DEFINE x == s * (price + n) + d
             y == w * d
  <2>1. x \in Nat /\ y \in Nat
    BY <1>0
  <2>2. SUFFICES ASSUME x < y PROVE FALSE
    BY <2>1
  <2>3. basis * (x + 1) <= basis * y /\ basis * (x + 1) = basis * x + basis
        /\ basis * x \in Nat /\ basis * y \in Nat
    <3> HIDE DEF x, y
    <3> QED BY <2>1, <2>2, Scale
  <2>4. basis * x < basis * y
    <3> HIDE DEF x, y
    <3> QED BY <1>0, <2>3
  <2>5. d * wb <= d * sp + d * price + 2 * (d * w)
    <3>1. d * wb <= d * (sp + price + 2 * w)
      BY <1>0, <1>1, <1>3, Scale
    <3> QED BY <1>4, <3>1
  <2>6. d * w <= d * price /\ 4 * (d * price) <= d * basis
    <3>1. d * w <= d * price /\ d * (4 * price) <= d * basis
      BY <1>0, Scale
    <3> QED BY <1>4, <3>1
  <2>7. basis * sp + s * nb + d * basis < d * wb
    BY <1>4, <2>4
  <2> DEFINE bs == basis * sp
             ms == m * sp
             sn == s * nb
             dp == d * price
             dw == d * w
             db == d * basis
             dd == d * wb
  <2>8. /\ bs + sn + db < dd /\ dd <= bs + ms + dp + 2 * dw
        /\ ms <= sn + sp /\ sp <= dp /\ dw <= dp /\ 4 * dp <= db
        /\ bs \in Nat /\ ms \in Nat /\ sn \in Nat /\ dp \in Nat /\ dw \in Nat /\ db \in Nat
        /\ dd \in Nat /\ sp \in Nat
    BY <1>1, <1>4, <1>6, <1>7, <1>8, <2>5, <2>6, <2>7
  <2> HIDE DEF bs, ms, sn, dp, dw, db, dd
  <2> QED BY <2>8
<1> QED BY <1>5, <1>9, <1>10 DEF d

\* What halvings leave of shares, and of the basis, is worth about the same.
LEMMA Halved ==
  ASSUME NEW k \in Nat, k > 0, NEW s \in Nat, NEW t \in Nat, k * t <= s, s < k * t + k,
         NEW first \in Nat, NEW basis \in Nat,
         first <= k * basis, k * basis < first + 2 * k,
         NEW price \in Nat, price > 0, NEW w \in Nat,
         w * first <= s * price, s * price < w * first + first
  PROVE  /\ w * basis <= t * price + price + 2 * w
         /\ t * price < w * basis + basis
<1> DEFINE tp == t * price
           wb == w * basis
           sp == s * price
           wf == w * first
           kt == k * t
           kb == k * basis
<1>1. /\ tp \in Nat /\ wb \in Nat /\ sp \in Nat /\ wf \in Nat /\ kt \in Nat /\ kb \in Nat
  OBVIOUS
<1>2. /\ kt <= s /\ s + 1 <= kt + k /\ first <= kb /\ kb <= first + 2 * k
      /\ wf <= sp /\ sp + 1 <= wf + first
  BY <1>1
<1>3. /\ price * kt = k * tp /\ price * s = sp /\ price * (kt + k) = k * tp + k * price
      /\ price * (s + 1) = sp + price
      /\ w * kb = k * wb /\ w * (first + 2 * k) = wf + 2 * (k * w)
      /\ k * (tp + price + 2 * w) = k * tp + k * price + 2 * (k * w)
      /\ k * (wb + basis) = k * wb + kb
  OBVIOUS
<1>4. /\ k * tp \in Nat /\ k * price \in Nat /\ k * w \in Nat /\ k * wb \in Nat
  BY <1>1
<1>5. /\ k * tp <= sp /\ sp + price <= k * tp + k * price
      /\ w * first <= w * kb /\ k * wb <= wf + 2 * (k * w)
  <2>1. price * kt <= price * s /\ price * (s + 1) <= price * (kt + k)
    <3> HIDE DEF kt
    <3> QED BY <1>1, <1>2, Scale
  <2>2. w * first <= w * kb /\ w * kb <= w * (first + 2 * k)
    <3> HIDE DEF kb
    <3> QED BY <1>1, <1>2, Scale
  <2> QED BY <1>3, <2>1, <2>2
<1>6. /\ k * wb < k * (tp + price + 2 * w)
      /\ k * tp < k * (wb + basis)
  <2>1. wf <= k * wb
    BY <1>3, <1>5
  <2> HIDE DEF tp, wb, sp, wf, kt, kb
  <2> DEFINE ktp == k * tp
             kpr == k * price
             kw  == k * w
             kwb == k * wb
  <2>2. /\ ktp \in Nat /\ kpr \in Nat /\ kw \in Nat /\ kwb \in Nat
        /\ ktp <= sp /\ sp + price <= ktp + kpr /\ wf <= kwb /\ kwb <= wf + 2 * kw
        /\ k * (tp + price + 2 * w) = ktp + kpr + 2 * kw
        /\ k * (wb + basis) = kwb + kb
    BY <1>3, <1>4, <1>5, <2>1
  <2>3. kwb < ktp + kpr + 2 * kw /\ ktp < kwb + kb
    <3> HIDE DEF ktp, kpr, kw, kwb
    <3> QED BY <1>1, <1>2, <2>2
  <2> QED BY <2>2, <2>3
<1>7. wb < tp + price + 2 * w /\ tp < wb + basis
  <2> HIDE DEF tp, wb
  <2> DEFINE x == tp + price + 2 * w
             y == wb + basis
  <2>1. x \in Nat /\ y \in Nat
    BY <1>1
  <2> HIDE DEF x, y
  <2>2. k * wb < k * x /\ k * tp < k * y
    BY <1>6 DEF x, y
  <2>3. wb < x /\ tp < y
    BY <1>1, <2>1, <2>2, Unscale
  <2> QED BY <2>3 DEF x, y
<1> QED BY <1>1, <1>7

\* Halvings leave of the virtual shares what is due, and at most one more.
LEMMA VirtualHalved ==
  ASSUME NEW e \in Nat, NEW k \in Nat
  PROVE  /\ VirtualSharesAt(e) <= 2^k * VirtualSharesAt(e + k)
         /\ 2^k * VirtualSharesAt(e + k) < VirtualSharesAt(e) + 2^k
<1> DEFINE p == 2^e
           r == 2^k
           v == VirtualSharesAt(e)
           h == VirtualSharesAt(e + k)
<1>1. /\ p \in Nat /\ p > 0 /\ r \in Nat /\ r > 0 /\ 2^(e + k) = p * r
      /\ VirtualShares \in Nat
  BY PowerPositive, PowerSum, ShareAssumption
<1> HIDE DEF p, r
<1>2. v = CeilDiv(VirtualShares, p) /\ h = CeilDiv(VirtualShares, p * r)
  BY <1>1 DEF VirtualSharesAt, p
<1>3. p * r \in Nat /\ p * r > 0
  BY <1>1
<1>4. /\ v \in Nat /\ VirtualShares <= p * v
      /\ h \in Nat /\ VirtualShares <= (p * r) * h /\ (p * r) * h < VirtualShares + p * r
  BY <1>1, <1>2, <1>3, CeilQuotient
<1> HIDE DEF v, h
<1>5. (p * r) * h = p * (r * h) /\ r * h \in Nat /\ p * v \in Nat /\ p * (v + r) = p * v + p * r
  BY <1>1, <1>4
<1>6. v <= r * h
  BY <1>1, <1>2, <1>4, <1>5, CeilAtMost
<1>7. r * h < v + r
  <2> DEFINE x == r * h
             y == v + r
  <2>1. x \in Nat /\ y \in Nat
    BY <1>1, <1>4, <1>5
  <2>2. p * x < p * y
    BY <1>1, <1>3, <1>4, <1>5
  <2> HIDE DEF x, y
  <2>3. x < y
    BY <1>1, <2>1, <2>2, Unscale
  <2> QED BY <2>3 DEF x, y
<1> QED BY <1>6, <1>7 DEF v, h, r

\* So do they of the basis, with at most two more.
LEMMA BasisHalved ==
  ASSUME NEW total \in Nat, NEW e \in Nat, NEW k \in Nat
  PROVE  /\ Basis(total, e, 0) = total + VirtualSharesAt(e)
         /\ Basis(total, e, 0) <= 2^k * Basis(total, e, k)
         /\ 2^k * Basis(total, e, k) < Basis(total, e, 0) + 2 * 2^k
<1> DEFINE r == 2^k
           t == Rescaled(total, k)
           v == VirtualSharesAt(e)
           h == VirtualSharesAt(e + k)
<1>1. r \in Nat /\ r > 0 /\ v \in Nat /\ h \in Nat
  BY PowerPositive, VirtualSharesPositive
<1>2. v <= r * h /\ r * h < v + r
  BY VirtualHalved
<1>3. e + 0 = e
  OBVIOUS
<1>4. Basis(total, e, 0) = total + v
  BY <1>3, NoRescale DEF Basis
<1>5. Basis(total, e, k) = t + h
  BY DEF Basis
<1>6. t = CeilDiv(total, r)
  BY DEF Rescaled
<1> HIDE DEF r, t, v, h
<1>7. t \in Nat /\ total <= r * t /\ r * t < total + r
  BY <1>1, <1>6, CeilQuotient
<1>8. r * (t + h) = r * t + r * h /\ r * t \in Nat /\ r * h \in Nat
  BY <1>1, <1>7
<1> QED BY <1>1, <1>2, <1>4, <1>5, <1>7, <1>8 DEF r, v

\* One halving less leaves at most twice the basis.
LEMMA BasisTwice ==
  ASSUME NEW total \in Nat, NEW e \in Nat, NEW k \in Nat
  PROVE  Basis(total, e, k) <= 2 * Basis(total, e, k + 1)
<1> DEFINE p == 2^k
           t == Rescaled(total, k + 1)
           v == VirtualSharesAt(e + k)
           h == VirtualSharesAt(e + k + 1)
<1>1. 2^1 = 2
  <2>1. 1 = 0 + 1 /\ 2^(0 + 1) = 2 * 2^0 /\ 2^0 = 1
    BY PowerPlus, PowerZero
  <2> QED BY <2>1
<1>2. p \in Nat /\ p > 0 /\ 2^(k + 1) = p * 2
  BY <1>1, PowerPositive, PowerSum
<1>3. v <= 2 * h /\ v \in Nat /\ h \in Nat
  <2> DEFINE d == e + k
  <2>1. d \in Nat /\ d + 1 \in Nat /\ 1 \in Nat
    OBVIOUS
  <2> HIDE DEF d
  <2>2. VirtualSharesAt(d) <= 2^1 * VirtualSharesAt(d + 1)
    BY <2>1, VirtualHalved
  <2>3. VirtualSharesAt(d) \in Nat /\ VirtualSharesAt(d + 1) \in Nat
    BY <2>1, VirtualSharesPositive
  <2> QED BY <1>1, <2>2, <2>3 DEF d
<1>4. Basis(total, e, k) = Rescaled(total, k) + v
  BY DEF Basis
<1>5. Basis(total, e, k + 1) = t + h
  BY DEF Basis
<1> HIDE DEF p, v, h
<1>6. t = CeilDiv(total, p * 2) /\ Rescaled(total, k) = CeilDiv(total, p)
  BY <1>2 DEF Rescaled, p
<1> HIDE DEF t
<1>7. t \in Nat /\ total <= (p * 2) * t
  <2>1. p * 2 \in Nat /\ p * 2 > 0
    BY <1>2
  <2> QED BY <1>6, <2>1, CeilQuotient
<1>8. (p * 2) * t = p * (2 * t) /\ 2 * t \in Nat
  BY <1>2, <1>7
<1>9. CeilDiv(total, p) <= 2 * t
  BY <1>2, <1>7, <1>8, CeilAtMost
<1>10. CeilDiv(total, p) \in Nat
  BY <1>2, CeilQuotient
<1> QED BY <1>3, <1>4, <1>5, <1>6, <1>7, <1>9, <1>10

\* A deposit that halves the shares could not mint with a halving less: then they
\* are many for what they price.
LEMMA FitsLate ==
  ASSUME NEW n \in Nat, n > 0, NEW balance \in Nat, balance + n <= MaxInsurance,
         NEW total \in Nat, NEW e \in Nat, NEW k \in Nat,
         Fits(n, balance, total, e, k + 1), ~Fits(n, balance, total, e, k)
  PROVE  4 * (balance + 1) <= Basis(total, e, k + 1)
<1> DEFINE price == balance + 1
           after == balance + 1 + n
           b     == Basis(total, e, k)
           m     == Minted(n, balance, total, e, k)
<1>1. /\ price \in Nat /\ price > 0 /\ after \in Nat /\ after > 0 /\ after = price + n
      /\ MaxShares \in Nat /\ MaxInsurance \in Nat /\ 8 * after <= MaxShares
  <2>1. 8 * (MaxInsurance + 1) <= MaxShares /\ MaxInsurance \in Nat /\ MaxShares \in Nat
    BY CounterAssumption, PoolBounds
  <2> QED BY <2>1
<1>2. b \in Nat /\ m \in Nat
  BY MintedType
<1>3. \A j \in 0 .. k - 1 : Rescaled(total, j) > 1
  <2>1. \A j \in 0 .. (k + 1) - 1 : Rescaled(total, j) > 1
    BY DEF Fits
  <2>2. \A j \in 0 .. k - 1 : j \in 0 .. (k + 1) - 1
    OBVIOUS
  <2> QED BY <2>1, <2>2
<1>4. \/ ~(b <= (MaxShares * price) \div after)
      \/ ~(b + m <= MaxShares)
  BY <1>3 DEF Fits
<1>5. m = IF k = 0 THEN (n * Basis(total, e, 0)) \div price ELSE CeilDiv(n * b, price)
  BY DEF Minted
<1> HIDE DEF price, after, b, m
\* What mints too many shares would price them over too little.
<1>6. MaxShares * price < b * after
  <2> DEFINE mx == MaxShares * price
             nb == n * b
  <2>1. mx \in Nat /\ nb \in Nat
    BY <1>1, <1>2
  <2>2. CASE ~(b <= mx \div after)
    <3> HIDE DEF mx
    <3>1. SUFFICES ASSUME after * b <= mx PROVE FALSE
      <4>1. after * b \in Nat /\ after * b = b * after
        BY <1>1, <1>2
      <4> QED BY <2>1, <4>1 DEF mx
    <3> QED BY <1>1, <1>2, <2>1, <2>2, <3>1, QuotientAtLeast
  <2>3. CASE ~(b + m <= MaxShares)
    <3>1. price * m < nb + price
      <4> HIDE DEF nb
      <4>1. CASE k = 0
        <5>1. m = nb \div price
          BY <1>5, <4>1 DEF nb, b
        <5>2. price * m <= nb
          BY <1>1, <2>1, <5>1, Quotient
        <5>3. price * m \in Nat
          BY <1>1, <1>2
        <5> QED BY <1>1, <2>1, <5>2, <5>3
      <4>2. CASE k # 0
        <5>1. m = CeilDiv(nb, price)
          BY <1>5, <4>2 DEF nb
        <5> QED BY <1>1, <2>1, <5>1, CeilQuotient
      <4> QED BY <4>1, <4>2
    <3>2. price * (MaxShares + 1) <= price * (b + m)
      <4>1. MaxShares + 1 <= b + m /\ MaxShares + 1 \in Nat /\ b + m \in Nat
        BY <1>1, <1>2, <2>3
      <4> QED BY <1>1, <4>1, Scale
    <3>3. /\ price * (MaxShares + 1) = mx + price
          /\ price * (b + m) = price * b + price * m
          /\ b * after = price * b + nb
          /\ price * b \in Nat /\ price * m \in Nat
      BY <1>1, <1>2
    <3> HIDE DEF mx, nb
    <3> QED BY <1>1, <2>1, <3>1, <3>2, <3>3 DEF mx
  <2> QED BY <1>4, <2>2, <2>3
<1>7. 8 * price < b
  <2>1. price * (8 * after) <= price * MaxShares
    <3> DEFINE x == 8 * after
    <3>1. x \in Nat /\ x <= MaxShares
      BY <1>1
    <3> HIDE DEF x
    <3>2. price * x <= price * MaxShares
      BY <1>1, <3>1, Scale
    <3> QED BY <3>2 DEF x
  <2>2. /\ price * (8 * after) = after * (8 * price) /\ price * MaxShares = MaxShares * price
        /\ b * after = after * b
        /\ after * (8 * price) \in Nat /\ MaxShares * price \in Nat /\ after * b \in Nat
    BY <1>1, <1>2
  <2> DEFINE x == 8 * price
  <2>3. x \in Nat
    BY <1>1
  <2>4. after * x < after * b
    BY <1>6, <2>1, <2>2
  <2> HIDE DEF x
  <2>5. x < b
    BY <1>1, <1>2, <2>3, <2>4, Unscale
  <2> QED BY <2>5 DEF x
<1>8. b <= 2 * Basis(total, e, k + 1)
  BY BasisTwice DEF b
<1>9. Basis(total, e, k + 1) \in Nat
  <2> DEFINE j == k + 1
  <2>1. j \in Nat
    OBVIOUS
  <2> HIDE DEF j
  <2>2. Basis(total, e, j) \in Nat /\ Minted(n, balance, total, e, j) \in Nat
    BY <2>1, MintedType
  <2> QED BY <2>2 DEF j
<1> QED BY <1>1, <1>2, <1>7, <1>8, <1>9 DEF price

\* A deposit changes what shares are worth by an atom at most, its own ones included.
LEMMA MintKeepsWorth ==
  ASSUME NEW n \in Nat, n > 0, NEW balance \in Nat, NEW total \in Nat, NEW e \in Nat,
         NEW k \in Nat, NEW s \in Nat, s <= total,
         k = 0 \/ /\ balance + n <= MaxInsurance
                  /\ k \in FittingRescales(n, balance, total, e),
         FairlyMinted(n, Minted(n, balance, total, e, k), balance, Basis(total, e, k))
  PROVE  LET m     == Minted(n, balance, total, e, k)
             after == Basis(total, e, k) + m
             t     == LazilyRescaled(s, k)
             was   == Redeem(s, balance, Basis(total, e, 0))
         IN  /\ t \in Nat /\ was \in Nat
             /\ Redeem(t, balance + n, after) \in was - 1 .. was + 1
             /\ Redeem(t + m, balance + n, after) \in was + n - 1 .. was + n + 1
<1> DEFINE price == balance + 1
           first == Basis(total, e, 0)
           basis == Basis(total, e, k)
           m     == Minted(n, balance, total, e, k)
           r     == 2^k
           t     == LazilyRescaled(s, k)
           was   == Redeem(s, balance, first)
           after == basis + m
           fund  == price + n
<1>1. /\ price \in Nat /\ price > 0 /\ balance + n + 1 = fund /\ fund \in Nat
  OBVIOUS
<1>2. first \in Nat /\ basis \in Nat /\ m \in Nat
  BY MintedType
<1>3. r \in Nat /\ r > 0
  BY PowerPositive
<1>4. /\ first = total + VirtualSharesAt(e)
      /\ first <= r * basis /\ r * basis < first + 2 * r
      /\ k = 0 => basis = first
  BY BasisHalved
<1>5. VirtualSharesAt(e) \in Nat /\ VirtualSharesAt(e) > 0
  BY VirtualSharesPositive
<1>6. first > total /\ first > 0 /\ s < first
  BY <1>4, <1>5
<1>7. basis > 0
  <2>1. SUFFICES ASSUME basis = 0 PROVE FALSE
    BY <1>2
  <2>2. r * 0 = 0
    BY <1>3
  <2> HIDE DEF basis, first, r
  <2> QED BY <1>2, <1>4, <1>6, <2>1, <2>2
<1>8. m = IF k = 0 THEN (n * first) \div price ELSE CeilDiv(n * basis, price)
  BY DEF Minted
<1>9. t = s \div r
  BY DEF LazilyRescaled
<1>10. was = (s * price) \div first
  BY DEF Redeem
<1>11. /\ Redeem(t, balance + n, after) = (t * fund) \div after
       /\ Redeem(t + m, balance + n, after) = ((t + m) * fund) \div after
       /\ Redeem(m, balance + n, after) = (m * fund) \div after
  <2>1. balance + n + 1 = fund
    BY <1>1
  <2> HIDE DEF t, after, m, fund
  <2> QED BY <2>1 DEF Redeem
<1>12. n - ((m * fund) \div after) <= 1
  <2>1. n - Redeem(m, balance + n, after) <= 1
    BY DEF FairlyMinted
  <2> QED BY <1>11, <2>1
<1> HIDE DEF price, first, basis, m, r, t, was
<1>13. after \in Nat /\ after > 0
  BY <1>2, <1>7
<1>14. t \in Nat /\ r * t <= s /\ s < r * t + r
  BY <1>3, <1>9, Quotient
<1>15. was \in Nat /\ first * was <= s * price /\ s * price < first * was + first
       /\ s * price \in Nat
  <2>1. s * price \in Nat
    BY <1>1
  <2> QED BY <1>2, <1>6, <1>10, <2>1, Quotient
<1>16. was * first <= s * price /\ s * price < was * first + first
  <2>1. was * first = first * was
    BY <1>2, <1>15
  <2> QED BY <1>15, <2>1
\* Whichever way the mint rounds.
<1>17. /\ was * after <= t * fund + after
       /\ t * fund < was * after + 2 * after
       /\ was * after + n * after <= (t + m) * fund + after
       /\ (t + m) * fund < was * after + n * after + 2 * after
  <2> DEFINE tf == t * fund
             mf == m * fund
             wa == was * after
             na == n * after
  <2>1. tf \in Nat /\ mf \in Nat /\ wa \in Nat /\ na \in Nat /\ (t + m) * fund = tf + mf
    BY <1>1, <1>2, <1>13, <1>14, <1>15
  <2>2. CASE k = 0
    <3>1. basis = first /\ r = 1
      BY <1>4, <2>2, PowerZero DEF r
    <3>2. t = s
      BY <1>14, <3>1
    <3>3. m * price <= n * basis
      <4>1. m = (n * basis) \div price
        BY <1>8, <2>2, <3>1
      <4>2. n * basis \in Nat
        BY <1>2
      <4>3. price * m <= n * basis
        BY <1>1, <4>1, <4>2, Quotient
      <4> QED BY <1>1, <1>2, <4>3
    <3>4. n * (basis + m) <= m * (price + n) + (basis + m)
      <4> DEFINE f == mf \div after
      <4>1. f \in Nat /\ after * f <= mf /\ n <= f + 1
        <5>1. f \in Nat /\ after * f <= mf
          <6> HIDE DEF mf, after
          <6> QED BY <1>13, <2>1, Quotient
        <5> QED BY <1>12, <5>1
      <4> HIDE DEF f
      <4>2. after * n <= after * (f + 1) /\ after * (f + 1) = after * f + after
        <5> HIDE DEF after
        <5> QED BY <1>13, <4>1, Scale
      <4>3. after * n = n * after /\ after * f \in Nat
        BY <1>13, <4>1
      <4>4. n * after <= mf + after
        <5> HIDE DEF after, mf
        <5> QED BY <1>13, <2>1, <4>1, <4>2, <4>3 DEF na
      <4> QED BY <4>4
    <3>5. /\ was * (basis + m) <= s * (price + n)
          /\ s * (price + n) < was * (basis + m) + 2 * (basis + m)
          /\ m * (price + n) <= n * (basis + m)
      <4>1. s <= basis
        BY <1>2, <1>6, <3>1
      <4> QED BY <1>1, <1>2, <1>7, <1>15, <1>16, <3>1, <3>3, <3>4, <4>1, RoundedDown
    <3>6. /\ wa <= tf /\ tf < wa + 2 * after /\ mf <= na /\ na <= mf + after
      BY <3>2, <3>4, <3>5
    <3> HIDE DEF tf, mf, wa, na, after
    <3>7. /\ wa <= tf + after /\ tf < wa + 2 * after
          /\ wa + na <= tf + mf + after /\ tf + mf < wa + na + 2 * after
      BY <1>13, <2>1, <3>6
    <3> QED BY <2>1, <3>7 DEF tf, mf, wa, na
  <2>3. CASE k # 0
    <3>1. 4 * price <= basis
      <4>1. k - 1 \in Nat /\ k = (k - 1) + 1 /\ k - 1 \in 0 .. k - 1
        BY <2>3
      <4>2. Fits(n, balance, total, e, k) /\ ~Fits(n, balance, total, e, k - 1)
        BY <2>3, <4>1 DEF FittingRescales
      <4> DEFINE j == k - 1
      <4>3. j \in Nat /\ k = j + 1
        BY <4>1
      <4> HIDE DEF j
      <4>4. Fits(n, balance, total, e, j + 1) /\ ~Fits(n, balance, total, e, j)
        BY <4>2, <4>3 DEF j
      <4>5. 4 * (balance + 1) <= Basis(total, e, j + 1)
        BY <2>3, <4>3, <4>4, FitsLate
      <4> QED BY <4>3, <4>5 DEF price, basis
    <3>2. n * basis <= m * price /\ m * price < n * basis + price
      <4>1. m = CeilDiv(n * basis, price) /\ n * basis \in Nat
        BY <1>2, <1>8, <2>3
      <4>2. n * basis <= price * m /\ price * m < n * basis + price
        BY <1>1, <4>1, CeilQuotient
      <4>3. price * m = m * price
        BY <1>1, <1>2
      <4> QED BY <4>2, <4>3
    <3>3. /\ was * basis <= t * price + price + 2 * was
          /\ t * price < was * basis + basis
      BY <1>1, <1>2, <1>3, <1>4, <1>14, <1>15, <1>16, Halved
    <3>4. was <= price
      <4>1. s * price <= first * price /\ first * price \in Nat
        <5>1. price * s <= price * first
          BY <1>1, <1>2, <1>6, Scale
        <5> QED BY <1>1, <1>2, <5>1
      <4>2. s * price < first * price + first
        BY <1>2, <1>6, <1>15, <4>1
      <4> QED BY <1>1, <1>2, <1>6, <1>10, <1>15, <4>2, QuotientAtMost
    <3>5. t <= basis
      <4>1. SUFFICES ASSUME basis + 1 <= t PROVE FALSE
        BY <1>2, <1>14
      <4>2. r * (basis + 1) <= r * t /\ r * (basis + 1) = r * basis + r
            /\ r * basis \in Nat /\ r * t \in Nat
        BY <1>2, <1>3, <1>14, <4>1, Scale
      <4> QED BY <1>2, <1>3, <1>4, <1>6, <1>14, <4>2
    <3>6. /\ was * (basis + m) <= t * (price + n) + (basis + m)
          /\ t * (price + n) < was * (basis + m) + (basis + m)
          /\ n * (basis + m) <= m * (price + n)
          /\ m * (price + n) < n * (basis + m) + (basis + m)
      BY <1>1, <1>2, <1>14, <1>15, <3>1, <3>2, <3>3, <3>4, <3>5, RoundedUp
    <3>7. /\ wa <= tf + after /\ tf < wa + after /\ na <= mf /\ mf < na + after
      BY <3>6
    <3> HIDE DEF tf, mf, wa, na, after
    <3>8. /\ wa <= tf + after /\ tf < wa + 2 * after
          /\ wa + na <= tf + mf + after /\ tf + mf < wa + na + 2 * after
      BY <1>13, <2>1, <3>7
    <3> QED BY <2>1, <3>8 DEF tf, mf, wa, na
  <2> QED BY <2>2, <2>3
<1> HIDE DEF after, fund
<1>18. ASSUME NEW x \in Nat, NEW y \in Nat, y * after <= x + after, x < y * after + 2 * after
       PROVE  x \div after \in y - 1 .. y + 1
  <2> DEFINE q == x \div after
  <2>1. q \in Nat /\ after * q <= x /\ x < after * q + after
    BY <1>13, <1>18, Quotient
  <2> HIDE DEF q
  <2>2. y <= q + 1
    <3>1. /\ after * y = y * after /\ after * (q + 2) = after * q + 2 * after
          /\ after * y \in Nat /\ after * q \in Nat
      BY <1>13, <1>18, <2>1
    <3>2. after * y < after * (q + 2)
      BY <1>13, <1>18, <2>1, <3>1
    <3>3. y < q + 2
      BY <1>13, <1>18, <2>1, <3>2, Unscale
    <3> QED BY <2>1, <3>3
  <2>3. q <= y + 1
    <3>1. /\ after * (y + 2) = y * after + 2 * after /\ after * q \in Nat
          /\ y * after \in Nat
      BY <1>13, <1>18, <2>1
    <3>2. after * q < after * (y + 2)
      BY <1>13, <1>18, <2>1, <3>1
    <3>3. q < y + 2
      BY <1>13, <1>18, <2>1, <3>2, Unscale
    <3> QED BY <2>1, <3>3
  <2> QED BY <2>1, <2>2, <2>3 DEF q
<1>19. (t * fund) \div after \in was - 1 .. was + 1
  <2>1. t * fund \in Nat
    BY <1>1, <1>14
  <2> QED BY <1>15, <1>17, <1>18, <2>1
<1>20. ((t + m) * fund) \div after \in was + n - 1 .. was + n + 1
  <2> DEFINE y == was + n
  <2>1. (t + m) * fund \in Nat /\ y \in Nat /\ y * after = was * after + n * after
    BY <1>1, <1>2, <1>13, <1>14, <1>15
  <2>2. y * after <= (t + m) * fund + after /\ (t + m) * fund < y * after + 2 * after
    BY <1>17, <2>1
  <2> HIDE DEF y
  <2> DEFINE x == ((t + m) * fund) \div after
  <2>3. x \in y - 1 .. y + 1
    BY <1>18, <2>1, <2>2
  <2> HIDE DEF x
  <2>4. x \in was + n - 1 .. was + n + 1
    BY <1>15, <2>1, <2>3 DEF y
  <2> QED BY <2>4 DEF x
<1> QED BY <1>11, <1>14, <1>15, <1>19, <1>20 DEF after, m, t, was, basis, first

----------------------------------------------------------------------------
(* Deposits keep claims: the states.                                        *)

\* The shares q still has when a deposit is priced: none where they start afresh.
Surviving(q) == IF Wiped THEN 0 ELSE Held[q]

LEMMA NoShares ==
  ASSUME NEW balance \in Nat, NEW basis \in Nat, basis > 0, NEW k \in Nat
  PROVE  Redeem(0, balance, basis) = 0 /\ LazilyRescaled(0, k) = 0
<1>1. 2^k \in Nat /\ 2^k > 0
  BY PowerPositive
<1> DEFINE r == 2^k
<1>2. r \in Nat /\ r > 0
  BY <1>1
<1> HIDE DEF r
<1>3. 0 \div r = 0 /\ 0 \div basis = 0 /\ 0 * (balance + 1) = 0
  BY <1>2
<1> QED BY <1>3 DEF Redeem, LazilyRescaled, r

\* A position carries over what survives of its shares.
LEMMA CarriedIs ==
  ASSUME PoolInv, NEW q \in Owners, NEW k \in Nat,
         position[q].principal > 0 \/ ~position[q].withdrawn
  PROVE  CarriedTo([RestartedGeneration EXCEPT !.scale = @ + k], q)
           = LazilyRescaled(Surviving(q), k)
<1> DEFINE gen == [RestartedGeneration EXCEPT !.scale = @ + k]
           pos == position[q]
<1>1. ValuesOK
  BY InvValues
<1>2. /\ Wiped /\ outstanding # 0 => CarriedTo(gen, q) = 0
      /\ pos.principal = 0 => CarriedTo(gen, q) = 0
  BY CarriedShares
<1>3. LazilyRescaled(0, k) = 0
  BY NoShares
<1>4. CASE Wiped /\ outstanding # 0
  BY <1>2, <1>3, <1>4 DEF Surviving
<1>5. CASE pos.principal = 0
  <2>1. Surviving(q) = 0
    BY <1>1, <1>5 DEF Surviving, ValuesOK
  <2> QED BY <1>2, <1>3, <1>5, <2>1
<1>6. CASE ~(Wiped /\ outstanding # 0) /\ pos.principal # 0
  <2>1. pos.principal > 0 /\ outstanding # 0
    BY <1>1, <1>6 DEF ValuesOK
  <2>2. ~Wiped /\ Surviving(q) = CurrentShares(q)
    BY <1>1, <1>6, <2>1 DEF Surviving, ValuesOK
  <2>3. RestartedGeneration = generation
    BY <2>2 DEF RestartedGeneration
  <2>4. /\ pos.shares \in Nat /\ pos.generation.scale \in Nat
        /\ generation.reset \in Nat /\ generation.scale \in Nat
        /\ generation \in Generations
    BY PositionType DEF PoolInv, NumbersOK
  <2>5. gen.reset = generation.reset /\ gen.scale = generation.scale + k
    BY <2>3, <2>4 DEF Generations
  <2>6. Movable(q)
    BY <2>1 DEF PoolInv, PositionsOK
  <2> HIDE DEF gen
  <2>7. CASE pos.generation.reset # generation.reset
    <3>1. CarriedTo(gen, q) = 0 /\ CurrentShares(q) = 0
      BY <2>5, <2>7 DEF CarriedTo, CurrentShares
    <3> QED BY <1>3, <2>2, <3>1 DEF gen
  <2>8. CASE pos.generation.reset = generation.reset
    <3> DEFINE d == generation.scale - pos.generation.scale
    <3>1. d \in Nat /\ gen.scale - pos.generation.scale = d + k
      BY <2>4, <2>5, <2>6, <2>8 DEF Movable
    <3>2. CurrentShares(q) = LazilyRescaled(pos.shares, d)
      BY <2>8 DEF CurrentShares
    <3> HIDE DEF d
    <3>3. CarriedTo(gen, q) = LazilyRescaled(pos.shares, d + k)
      BY <2>5, <2>8, <3>1 DEF CarriedTo
    <3> QED BY <2>2, <2>4, <3>1, <3>2, <3>3, RescaledTwice DEF gen
  <2> QED BY <2>7, <2>8
<1> QED BY <1>4, <1>5, <1>6

\* Surviving shares are worth what was held, and no more than the pool counts.
LEMMA SurvivingWorth ==
  ASSUME PoolInv, NEW q \in Owners
  PROVE  /\ Surviving(q) \in Nat /\ Surviving(q) <= RestartedTotal
         /\ RestartedTotal \in Nat /\ RestartedGeneration.scale \in Nat
         /\ Redeem(Surviving(q), Priced, Basis(RestartedTotal, RestartedGeneration.scale, 0))
              = Redeem(Held[q], Priced, PoolBasis)
         /\ Priced = 0 => Surviving(q) = 0
<1>1. ValuesOK
  BY InvValues
<1>2. RestartedTotal \in Nat /\ RestartedGeneration.scale \in Nat
  BY RestartedType DEF Generations
<1>3. CASE Wiped
  <2> DEFINE basis == Basis(RestartedTotal, RestartedGeneration.scale, 0)
  <2>1. Surviving(q) = 0 /\ Priced = 0
    BY <1>3 DEF Surviving, Wiped
  <2>2. basis \in Nat /\ basis > 0
    <3>1. basis = RestartedTotal + VirtualSharesAt(RestartedGeneration.scale)
      BY <1>2, BasisHalved
    <3>2. /\ VirtualSharesAt(RestartedGeneration.scale) \in Nat
          /\ VirtualSharesAt(RestartedGeneration.scale) > 0
      BY <1>2, VirtualSharesPositive
    <3> QED BY <1>2, <3>1, <3>2
  <2> HIDE DEF basis
  <2>3. Redeem(0, 0, basis) = 0
    BY <2>2, NoShares
  <2>4. Redeem(Held[q], 0, PoolBasis) = 0
    <3> DEFINE h == Held[q]
    <3>1. h \in Nat /\ h < PoolBasis /\ PoolBasis \in Nat
      BY <1>1 DEF ValuesOK
    <3> HIDE DEF h
    <3>2. Redeem(h, 0, PoolBasis) \in Nat /\ Redeem(h, 0, PoolBasis) <= 0
      BY <3>1, RedeemBounds
    <3> QED BY <3>2 DEF h
  <2> QED BY <1>2, <2>1, <2>3, <2>4 DEF basis
<1>4. CASE ~Wiped
  <2>1. RestartedTotal = total_shares /\ RestartedGeneration = generation
    BY <1>4 DEF RestartedTotal, RestartedGeneration
  <2>2. Surviving(q) = Held[q] /\ Held[q] \in Nat /\ Held[q] <= total_shares
    BY <1>1, <1>4 DEF Surviving, ValuesOK
  <2>3. Priced = 0 => Surviving(q) = 0
    BY <1>1, <1>4, <2>2 DEF Wiped, ValuesOK
  <2> QED BY <1>2, <2>1, <2>2, <2>3 DEF PoolBasis
<1> QED BY <1>3, <1>4

\* What a deposit that mints does to every claim.
LEMMA MintClaims ==
  ASSUME PoolInv, PoolInv', NEW o \in Owners, NEW n \in Nat, n > 0, NEW k \in Nat,
         policy' = policy, own_vault' = own_vault,
         policy = "with_surplus" \/ ~own_vault,
         Priced' = Priced + n,
         PoolBasis' = Basis(RestartedTotal, RestartedGeneration.scale, k)
           + Minted(n, Priced, RestartedTotal, RestartedGeneration.scale, k),
         Held'[o] = LazilyRescaled(Surviving(o), k)
           + Minted(n, Priced, RestartedTotal, RestartedGeneration.scale, k),
         \A q \in Owners \ {o} : Held'[q] = LazilyRescaled(Surviving(q), k),
         position'[o].principal = position[o].principal + n,
         \A q \in Owners \ {o} : position'[q].principal = position[q].principal,
         k = 0 \/ /\ Priced + n <= MaxInsurance
                  /\ k \in FittingRescales(n, Priced, RestartedTotal,
                                           RestartedGeneration.scale),
         FairlyMinted(n, Minted(n, Priced, RestartedTotal, RestartedGeneration.scale, k),
                      Priced, Basis(RestartedTotal, RestartedGeneration.scale, k))
  PROVE  /\ Claim(o)' - Claim(o) \in n - 1 .. n + 1
         /\ \A q \in Owners \ {o} : /\ Claim(q)' \in Claim(q) - 1 .. Claim(q) + 1
                                   /\ Priced = 0 => Claim(q)' = 0
<1>1. ValuesOK /\ ValuesOK'
  BY InvValues, InvValuesNext
<1>2. Priced \in Nat /\ policy \in {"principal", "with_surplus"}
  BY <1>1 DEF ValuesOK
<1> DEFINE Was(q) == Redeem(Held[q], Priced, PoolBasis)
           Is(q)  == Redeem(Held'[q], Priced', PoolBasis')
<1>3. ASSUME NEW q \in Owners
      PROVE  /\ Was(q) \in Nat /\ Is(q) \in Nat
             /\ q # o => Is(q) \in Was(q) - 1 .. Was(q) + 1
             /\ q = o => Is(q) \in Was(q) + n - 1 .. Was(q) + n + 1
             /\ q # o /\ Priced = 0 => Is(q) = 0
             /\ Claim(q) = IF policy = "with_surplus" THEN Was(q)
                           ELSE Least(position[q].principal, Was(q))
             /\ Claim(q)' = IF policy = "with_surplus" THEN Is(q)
                            ELSE Least(position'[q].principal, Is(q))
             /\ position[q].principal \in Nat /\ position'[q].principal \in Nat
  <2>1. /\ Was(q) \in Nat /\ Is(q) \in Nat
        /\ Claim(q) = Value(q) /\ Claim(q)' = Value(q)'
        /\ position[q].principal \in Nat /\ position'[q].principal \in Nat
    BY <1>1 DEF ValuesOK
  <2>2. /\ Claim(q) = IF policy = "with_surplus" THEN Was(q)
                      ELSE Least(position[q].principal, Was(q))
        /\ Claim(q)' = IF policy = "with_surplus" THEN Is(q)
                       ELSE Least(position'[q].principal, Is(q))
    BY <1>2, <2>1 DEF Value
  <2> DEFINE total == RestartedTotal
             e     == RestartedGeneration.scale
             s     == Surviving(q)
             m     == Minted(n, Priced, total, e, k)
             t     == LazilyRescaled(s, k)
             after == Basis(total, e, k) + m
             was   == Redeem(s, Priced, Basis(total, e, 0))
  <2>3. /\ s \in Nat /\ s <= total /\ total \in Nat /\ e \in Nat
        /\ was = Was(q)
        /\ Priced = 0 => s = 0
    BY SurvivingWorth
  <2>4. /\ FairlyMinted(n, m, Priced, Basis(total, e, k))
        /\ k = 0 \/ /\ Priced + n <= MaxInsurance
                    /\ k \in FittingRescales(n, Priced, total, e)
        /\ PoolBasis' = after
        /\ q # o => Held'[q] = t
        /\ q = o => Held'[q] = t + m
    OBVIOUS
  <2>5. after \in Nat /\ after > 0
    BY <1>1, <2>4 DEF ValuesOK
  <2> HIDE DEF total, e, s, Was
  <2>6. /\ Redeem(t, Priced + n, after) \in was - 1 .. was + 1
        /\ Redeem(t + m, Priced + n, after) \in was + n - 1 .. was + n + 1
    BY <1>2, <2>3, <2>4, MintKeepsWorth
  <2>7. q # o /\ Priced = 0 => Is(q) = 0
    <3>1. SUFFICES ASSUME q # o, Priced = 0 PROVE Is(q) = 0
      OBVIOUS
    <3>2. t = 0
      BY <1>2, <2>3, <2>5, <3>1, NoShares
    <3>3. Priced' \in Nat
      BY <1>2
    <3> QED BY <2>4, <2>5, <3>1, <3>2, <3>3, NoShares
  <2>8. /\ q # o => Is(q) \in Was(q) - 1 .. Was(q) + 1
        /\ q = o => Is(q) \in Was(q) + n - 1 .. Was(q) + n + 1
    BY <2>3, <2>4, <2>6
  <2> QED BY <2>1, <2>2, <2>7, <2>8 DEF Was
<1> HIDE DEF Was, Is
<1>4. Claim(o)' - Claim(o) \in n - 1 .. n + 1
  <2>1. /\ Was(o) \in Nat /\ Is(o) \in Nat
        /\ Is(o) \in Was(o) + n - 1 .. Was(o) + n + 1
        /\ Claim(o) = IF policy = "with_surplus" THEN Was(o)
                      ELSE Least(position[o].principal, Was(o))
        /\ Claim(o)' = IF policy = "with_surplus" THEN Is(o)
                       ELSE Least(position'[o].principal, Is(o))
        /\ position[o].principal \in Nat
    BY <1>3
  <2> DEFINE p == position[o].principal
             c == Claim(o)
             d == Claim(o)'
  <2>2. /\ p \in Nat /\ position'[o].principal = p + n
        /\ c = IF policy = "with_surplus" THEN Was(o) ELSE Least(p, Was(o))
        /\ d = IF policy = "with_surplus" THEN Is(o) ELSE Least(p + n, Is(o))
    BY <2>1
  <2> HIDE DEF p, c, d
  <2>3. d - c \in n - 1 .. n + 1
    BY <2>1, <2>2 DEF Least
  <2> QED BY <2>3 DEF c, d
<1>5. ASSUME NEW q \in Owners \ {o}
      PROVE  /\ Claim(q)' \in Claim(q) - 1 .. Claim(q) + 1
             /\ Priced = 0 => Claim(q)' = 0
  <2> DEFINE p == position[q].principal
             c == Claim(q)
             d == Claim(q)'
  <2>1. /\ Was(q) \in Nat /\ Is(q) \in Nat /\ p \in Nat
        /\ Is(q) \in Was(q) - 1 .. Was(q) + 1
        /\ Priced = 0 => Is(q) = 0
        /\ c = IF policy = "with_surplus" THEN Was(q) ELSE Least(p, Was(q))
        /\ d = IF policy = "with_surplus" THEN Is(q) ELSE Least(p, Is(q))
    BY <1>3, <1>5
  <2> HIDE DEF p, c, d
  <2>2. d \in c - 1 .. c + 1 /\ (Priced = 0 => d = 0)
    BY <1>2, <2>1 DEF Least
  <2> QED BY <2>2 DEF c, d
<1> QED BY <1>4, <1>5

\* A deposit into an insurance pool ...
LEMMA DepositClaims ==
  ASSUME PoolInv, PoolInv', ~own_vault, NEW o \in Owners, NEW n \in Nat, n > 0, Deposit(o, n)
  PROVE  /\ Claim(o)' - Claim(o) \in n - 1 .. n + 1
         /\ \A q \in Owners \ {o} : /\ Claim(q)' \in Claim(q) - 1 .. Claim(q) + 1
                                   /\ Priced = 0 => Claim(q)' = 0
<1> DEFINE rt == RestartedTotal
           rg == RestartedGeneration
<1>1. /\ ~position[o].withdrawn
      /\ outstanding' = outstanding + n
      /\ insurance' = insurance + n /\ insurance + n <= MaxInsurance
      /\ policy' = policy /\ own_vault' = own_vault
  BY DEF Deposit, pool_kind
<1>2. PICK k \in FittingRescales(n, Priced, rt, rg.scale) :
        LET gen    == [rg EXCEPT !.scale = @ + k]
            minted == Minted(n, Priced, rt, rg.scale, k)
        IN  /\ FairlyMinted(n, minted, Priced, Rescaled(rt, k) + VirtualSharesAt(gen.scale))
            /\ total_shares' = Rescaled(rt, k) + minted
            /\ generation' = gen
            /\ position' = [position EXCEPT ![o] =
                 [principal   |-> position[o].principal + n,
                  shares      |-> CarriedTo(gen, o) + minted,
                  generation  |-> gen,
                  vote_locked |-> position[o].vote_locked,
                  withdrawn   |-> FALSE]]
  BY DEF Deposit, CarriedTo
<1>3. k \in Nat
  BY PoolBounds DEF FittingRescales
<1> DEFINE gen    == [rg EXCEPT !.scale = @ + k]
           minted == Minted(n, Priced, rt, rg.scale, k)
           basis  == Basis(rt, rg.scale, k)
<1>4. ValuesOK /\ ValuesOK'
  BY InvValues, InvValuesNext
<1>5. /\ rg \in Generations /\ rt \in Nat /\ rg.scale \in Nat
      /\ gen.scale = rg.scale + k /\ gen.scale \in Nat
  BY <1>3, RestartedType DEF Generations
<1>6. /\ Priced \in Nat /\ Priced <= insurance /\ insurance \in Nat /\ outstanding \in Nat
      /\ policy \in {"principal", "with_surplus"}
      /\ Priced = PricedBalance(insurance, outstanding)
      /\ Priced' = PricedBalance(insurance, outstanding)'
  BY <1>4, PricedType DEF ValuesOK
<1>7. Priced' = Priced + n
  BY <1>1, <1>6 DEF PricedBalance, Least
<1>8. minted \in Nat /\ Rescaled(rt, k) \in Nat
      /\ basis = Rescaled(rt, k) + VirtualSharesAt(gen.scale)
  <2>1. basis = Rescaled(rt, k) + VirtualSharesAt(rg.scale + k)
    BY DEF Basis
  <2>2. minted \in Nat /\ Rescaled(rt, k) \in Nat
    BY <1>3, <1>5, <1>6, MintedType, RescaledType
  <2> QED BY <1>5, <2>1, <2>2
<1>9. PoolBasis' = basis + minted
  <2>1. /\ total_shares' = Rescaled(rt, k) + minted /\ generation' = gen
        /\ PoolBasis' = total_shares' + VirtualSharesAt(generation.scale)'
    BY <1>2, <1>4 DEF ValuesOK
  <2>2. VirtualSharesAt(gen.scale) \in Nat
    BY <1>5, VirtualSharesPositive
  <2>3. VirtualSharesAt(generation.scale)' = VirtualSharesAt(gen.scale)
    BY <2>1
  <2> HIDE DEF minted, basis, rt, gen
  <2> QED BY <1>8, <2>1, <2>2, <2>3
<1>10. /\ \A q \in Owners \ {o} : position'[q] = position[q]
       /\ position'[o].principal = position[o].principal + n
       /\ position'[o].shares = CarriedTo(gen, o) + minted
       /\ position'[o].generation = gen /\ generation' = gen
  BY <1>2 DEF PoolInv, NumbersOK
<1>11. Held'[o] = LazilyRescaled(Surviving(o), k) + minted
  <2>1. position'[o].principal > 0
    BY <1>4, <1>10 DEF ValuesOK
  <2>2. Held'[o] = CurrentShares(o)'
    BY <1>4, <2>1 DEF ValuesOK
  <2>3. gen.scale - gen.scale = 0
    BY <1>5
  <2>4. CurrentShares(o)' = LazilyRescaled(CarriedTo(gen, o) + minted, 0)
    BY <1>10, <2>3 DEF CurrentShares
  <2>5. CarriedTo(gen, o) \in Nat /\ CarriedTo(gen, o) = LazilyRescaled(Surviving(o), k)
    BY <1>1, <1>3, CarriedShares, CarriedIs
  <2>6. CarriedTo(gen, o) + minted \in Nat
    BY <1>8, <2>5
  <2> QED BY <2>2, <2>4, <2>5, <2>6, NoRescale
<1>12. ASSUME NEW q \in Owners \ {o}
       PROVE  Held'[q] = LazilyRescaled(Surviving(q), k)
  <2>1. CASE position[q].principal = 0
    <3>1. Held'[q] = 0 /\ Held[q] = 0
      BY <1>4, <1>10, <1>12, <2>1 DEF ValuesOK
    <3>2. LazilyRescaled(0, k) = 0
      BY <1>3, NoShares
    <3> QED BY <3>1, <3>2 DEF Surviving
  <2>2. CASE position[q].principal # 0
    <3>1. position[q].principal > 0
      BY <1>4, <1>12, <2>2 DEF ValuesOK
    <3>2. Held'[q] = CurrentShares(q)'
      BY <1>4, <1>10, <1>12, <3>1 DEF ValuesOK
    <3>3. CurrentShares(q)' = CarriedTo(gen, q)
      BY <1>10, <1>12 DEF CurrentShares, CarriedTo
    <3> QED BY <1>3, <1>12, <3>1, <3>2, <3>3, CarriedIs
  <2> QED BY <2>1, <2>2
<1>13. Priced + n <= MaxInsurance
  BY <1>1, <1>6, PoolBounds
<1>14. FairlyMinted(n, minted, Priced, basis)
  BY <1>2, <1>8
<1> QED BY <1>1, <1>2, <1>3, <1>7, <1>9, <1>10, <1>11, <1>12, <1>13, <1>14, MintClaims

\* ... and into an own vault.
LEMMA VaultDepositClaims ==
  ASSUME PoolInv, PoolInv', own_vault, NEW o \in Owners, NEW n \in Nat, n > 0,
         VaultDeposit(o, n)
  PROVE  /\ Claim(o)' - Claim(o) \in n - 1 .. n + 1
         /\ \A q \in Owners \ {o} : /\ Claim(q)' \in Claim(q) - 1 .. Claim(q) + 1
                                   /\ Priced = 0 => Claim(q)' = 0
<1> DEFINE minted == IF policy = "principal" THEN 0
                     ELSE Minted(n, insurance, total_shares, 0, 0)
<1>1. /\ ~position[o].withdrawn
      /\ outstanding' = outstanding + n /\ insurance' = insurance + n
      /\ policy' = policy /\ own_vault' = own_vault /\ generation' = generation
      /\ total_shares' = total_shares + minted
      /\ position' = [position EXCEPT ![o].principal = @ + n, ![o].shares = @ + minted]
      /\ policy = "with_surplus" => FairlyMinted(n, minted, insurance, PoolBasis)
  BY DEF VaultDeposit, pool_kind
<1>2. ValuesOK /\ ValuesOK'
  BY InvValues, InvValuesNext
<1>3. /\ position \in [Owners -> Positions] /\ \A q \in Owners : position[q] \in Positions
  BY DEF PoolInv, NumbersOK
<1> HIDE DEF minted
<1>4. /\ \A q \in Owners \ {o} : position'[q] = position[q]
      /\ position'[o].principal = position[o].principal + n
      /\ position'[o].shares = position[o].shares + minted
      /\ position'[o].generation = position[o].generation
      /\ position[o].shares \in Nat
  BY <1>1, <1>3 DEF Positions
<1>5. /\ insurance \in Nat /\ outstanding \in Nat
      /\ policy \in {"principal", "with_surplus"}
      /\ Priced = PricedBalance(insurance, outstanding)
      /\ \A q \in Owners : position[q].principal \in Nat /\ position[q].principal <= outstanding
  BY <1>2 DEF ValuesOK
<1>6. CASE policy = "principal"
  <2>1. ASSUME NEW q \in Owners
        PROVE  Claim(q) = position[q].principal /\ Claim(q)' = position'[q].principal
    BY <1>1, <1>2, <1>6 DEF ValuesOK, Value
  <2>2. Priced = 0 => \A q \in Owners : position[q].principal = 0
    <3>1. outstanding <= insurance
      BY <1>6 DEF PoolInv, VaultOK
    <3>2. Priced = outstanding
      BY <1>5, <1>6, <3>1 DEF PricedBalance, Least
    <3> QED BY <1>5, <3>2
  <2>3. ASSUME NEW q \in Owners \ {o}
        PROVE  /\ Claim(q)' \in Claim(q) - 1 .. Claim(q) + 1
               /\ Priced = 0 => Claim(q)' = 0
    <3>1. Claim(q)' = position[q].principal /\ Claim(q) = position[q].principal
      BY <1>4, <2>1, <2>3
    <3> QED BY <1>5, <2>2, <3>1
  <2>4. Claim(o)' = position[o].principal + n /\ Claim(o) = position[o].principal
    BY <1>4, <2>1
  <2> QED BY <1>5, <2>3, <2>4
<1>7. CASE policy = "with_surplus"
  <2>1. /\ Priced = insurance /\ Priced' = insurance' /\ total_shares \in Nat
        /\ generation \in Generations /\ insurance' \in Nat
    BY <1>1, <1>2, <1>7 DEF ValuesOK, PricedBalance
  <2>2. /\ generation = FirstGeneration
        /\ \A q \in Owners : position[q].generation = FirstGeneration
        /\ total_shares <= VirtualShares * insurance
    BY <1>7 DEF PoolInv, VaultOK
  <2>3. ~Wiped
    <3>1. SUFFICES ASSUME insurance = 0 PROVE total_shares = 0
      BY <2>1 DEF Wiped
    <3>2. VirtualShares * 0 = 0
      BY PoolBounds
    <3> QED BY <2>1, <2>2, <3>1, <3>2
  <2>4. RestartedTotal = total_shares /\ RestartedGeneration = generation
    BY <2>3 DEF RestartedTotal, RestartedGeneration
  <2>5. RestartedGeneration.scale = 0
    BY <2>2, <2>4 DEF FirstGeneration
  <2>6. minted = Minted(n, Priced, RestartedTotal, RestartedGeneration.scale, 0)
    BY <1>7, <2>1, <2>4, <2>5 DEF minted
  <2>7. PoolBasis = Basis(RestartedTotal, RestartedGeneration.scale, 0)
    BY <2>4 DEF PoolBasis
  <2>8. minted \in Nat
    <3>1. Minted(n, insurance, total_shares, 0, 0) \in Nat
      BY <1>5, <2>1, MintedType
    <3> QED BY <1>7, <3>1 DEF minted
  <2>9. PoolBasis' = PoolBasis + minted
    <3>1. /\ PoolBasis = total_shares + VirtualSharesAt(generation.scale)
          /\ PoolBasis' = total_shares' + VirtualSharesAt(generation.scale)'
      BY <1>2 DEF ValuesOK
    <3>2. VirtualSharesAt(generation.scale) \in Nat
      BY <2>4, <2>5, VirtualSharesPositive
    <3>3. VirtualSharesAt(generation.scale)' = VirtualSharesAt(generation.scale)
      BY <1>1
    <3> QED BY <1>1, <2>1, <2>8, <3>1, <3>2, <3>3
  <2>10. ASSUME NEW q \in Owners
         PROVE  /\ Surviving(q) \in Nat /\ LazilyRescaled(Surviving(q), 0) = Surviving(q)
                /\ Surviving(q) = Held[q]
    <3>1. Surviving(q) = Held[q] /\ Held[q] \in Nat
      BY <1>2, <2>3 DEF Surviving, ValuesOK
    <3> QED BY <3>1, NoRescale
  <2>11. ASSUME NEW q \in Owners \ {o} PROVE Held'[q] = Held[q]
    <3>1. position'[q] = position[q] /\ generation' = generation
      BY <1>1, <1>4, <2>11
    <3>2. CurrentShares(q)' = CurrentShares(q)
      BY <3>1 DEF CurrentShares
    <3>3. position[q].principal > 0 \/ position[q].principal = 0
      BY <1>5, <2>11
    <3> QED BY <1>2, <2>11, <3>1, <3>2, <3>3 DEF ValuesOK
  <2>12. Held'[o] = Held[o] + minted
    <3>1. 0 - 0 = 0 /\ FirstGeneration.scale = 0
      BY DEF FirstGeneration
    <3>2. /\ CurrentShares(o) = LazilyRescaled(position[o].shares, 0)
          /\ CurrentShares(o)' = LazilyRescaled(position[o].shares + minted, 0)
      BY <1>1, <1>4, <2>2, <3>1 DEF CurrentShares
    <3>3. CurrentShares(o) = position[o].shares /\ CurrentShares(o)' = position[o].shares + minted
      BY <1>4, <2>8, <3>2, NoRescale
    <3>4. position'[o].principal > 0
      BY <1>4, <1>5
    <3>5. Held'[o] = CurrentShares(o)'
      BY <1>2, <3>4 DEF ValuesOK
    <3>6. Held[o] = position[o].shares
      <4>1. CASE position[o].principal = 0
        BY <1>2, <4>1 DEF ValuesOK, PoolInv, PositionsOK
      <4>2. CASE position[o].principal > 0
        BY <1>2, <3>3, <4>2 DEF ValuesOK
      <4> QED BY <1>5, <4>1, <4>2
    <3> QED BY <3>3, <3>5, <3>6
  <2>13. Priced' = Priced + n
    BY <1>1, <2>1
  <2>14. FairlyMinted(n, minted, Priced, PoolBasis)
    BY <1>1, <1>7, <2>1
  <2> DEFINE m     == Minted(n, Priced, RestartedTotal, RestartedGeneration.scale, 0)
             basis == Basis(RestartedTotal, RestartedGeneration.scale, 0)
  <2>15. /\ PoolBasis' = basis + m
         /\ Held'[o] = LazilyRescaled(Surviving(o), 0) + m
         /\ FairlyMinted(n, m, Priced, basis)
    BY <2>6, <2>7, <2>9, <2>10, <2>12, <2>14
  <2>16. ASSUME NEW q \in Owners \ {o}
         PROVE  /\ Held'[q] = LazilyRescaled(Surviving(q), 0)
                /\ position'[q].principal = position[q].principal
    BY <1>4, <2>10, <2>11, <2>16
  <2>17. position'[o].principal = position[o].principal + n
    BY <1>4
  <2>18. policy' = policy /\ own_vault' = own_vault
    BY <1>1
  <2> QED BY <1>7, <2>13, <2>15, <2>16, <2>17, <2>18, MintClaims
<1> QED BY <1>5, <1>6, <1>7

\* Only a deposit of its owner adds principal to a position.
LEMMA OnlyDepositsAdd ==
  ASSUME PoolInv, [PoolsNext]_ins_vars, NEW o \in Owners, Deposited(o) > 0
  PROVE  \E n \in Nat \ {0} : /\ Deposited(o) = n
                              /\ \/ ~own_vault /\ Deposit(o, n)
                                 \/ own_vault /\ VaultDeposit(o, n)
<1>1. position \in [Owners -> Positions] /\ \A q \in Owners : position[q].principal \in Nat
  BY PositionType DEF PoolInv, NumbersOK
<1>2. position'[o].principal # position[o].principal
  <2>1. SUFFICES ASSUME position'[o].principal = position[o].principal PROVE FALSE
    OBVIOUS
  <2> QED BY <1>1, <2>1 DEF Deposited
<1>3. CASE UNCHANGED ins_vars
  BY <1>2, <1>3 DEF ins_vars, pool_vars
<1>4. CASE PoolsNext
  <2>1. ASSUME NEW q \in Owners, NEW n \in Nat \ {0}, Deposit(q, n) \/ VaultDeposit(q, n)
        PROVE  q = o /\ Deposited(o) = n
    <3>1. /\ \A r \in Owners : r # q => position'[r] = position[r]
          /\ position'[q].principal = position[q].principal + n
      BY <1>1, <2>1, DepositAdds
    <3>2. q = o
      BY <1>2, <3>1
    <3> QED BY <1>1, <3>1, <3>2 DEF Deposited
  <2>2. ASSUME NEW q \in Owners, NEW locked \in BOOLEAN, SetVoteLock(q, locked) PROVE FALSE
    <3>1. position' = [position EXCEPT ![q].vote_locked = locked]
      BY <2>2 DEF SetVoteLock
    <3>2. position'[o].principal = position[o].principal
      BY <1>1, <3>1 DEF Positions
    <3> QED BY <1>2, <3>2
  <2>3. ASSUME NEW q \in Owners, NEW locked \in BOOLEAN, NEW n, Exits(q, n, locked)
        PROVE  FALSE
    <3>1. PayOff(q, n) /\ position' = [position EXCEPT ![q] = Reduced(q, n, locked)]
      BY <2>3 DEF Exits
    <3>2. q = o
      BY <1>1, <1>2, <3>1
    <3>3. n \in 1 .. position[o].principal
      BY <3>1, <3>2 DEF PayOff
    <3>4. position'[o].principal = position[o].principal - n
      BY <1>1, <3>1, <3>2 DEF Reduced
    <3> QED BY <1>1, <3>3, <3>4 DEF Deposited
  <2> QED BY <1>2, <1>4, <2>1, <2>2, <2>3, KindsOfStep
<1> QED BY <1>3, <1>4

\* A deposit is worth itself and moves nobody else's claim, up to one atom each,
\* and recapitalises nobody wiped out before it.
THEOREM DepositsAlwaysKeepClaims == PoolsSpec => DepositsKeepClaims
<1>1. ASSUME PoolInv, [PoolsNext]_ins_vars, NEW o \in Owners, Deposited(o) > 0
      PROVE  /\ Claim(o)' - Claim(o) \in Deposited(o) - 1 .. Deposited(o) + 1
             /\ \A q \in Owners \ {o} : /\ Claim(q)' \in Claim(q) - 1 .. Claim(q) + 1
                                       /\ Priced = 0 => Claim(q)' = 0
  <2>1. PICK n \in Nat \ {0} : /\ Deposited(o) = n
                               /\ \/ ~own_vault /\ Deposit(o, n)
                                  \/ own_vault /\ VaultDeposit(o, n)
    BY <1>1, OnlyDepositsAdd
  <2>2. PoolInv'
    BY <1>1, PoolInvStep
  <2>3. n \in Nat /\ n > 0
    BY <2>1
  <2> QED BY <1>1, <2>1, <2>2, <2>3, DepositClaims, VaultDepositClaims
<1>2. PoolInv /\ [PoolsNext]_ins_vars =>
        [\A o \in Owners : Deposited(o) > 0 =>
           /\ Claim(o)' - Claim(o) \in Deposited(o) - 1 .. Deposited(o) + 1
           /\ \A q \in Owners \ {o} : /\ Claim(q)' \in Claim(q) - 1 .. Claim(q) + 1
                                     /\ Priced = 0 => Claim(q)' = 0]_ins_vars
  BY <1>1
<1> QED BY <1>2, AlwaysPoolInv, PTL DEF PoolsSpec, DepositsKeepClaims
=============================================================================
