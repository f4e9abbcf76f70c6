--------------------------- MODULE AuctionProofs ---------------------------
(***************************************************************************)
(* Proofs about Auction, for every number of bidders and slots, every round  *)
(* length and every book: every clearing is fair, trades when one bid can,   *)
(* and misses no sale its search can reach; rounds run in full, bids stay    *)
(* committed and their commitments unique; the escrow and the settlement     *)
(* account back the book; and the auction implements OfferBook.              *)
(***************************************************************************)
EXTENDS Auction, BookClearing, SumsProofs

----------------------------------------------------------------------------
(* Rates, and the order of the bids.                                         *)

LEMMA RateLegs ==
  ASSUME NEW a \in Rates
  PROVE  Coin(a) \in Nat /\ Coin(a) > 0 /\ Usd(a) \in Nat /\ Usd(a) > 0
  BY DEF Rates, Coin, Usd

LEMMA ProductOrder ==
  ASSUME NEW p \in Nat, NEW q \in Nat, NEW r \in Nat, r > 0
  PROVE  (p >= q => p * r >= q * r) /\ (p > q => p * r > q * r)
  OBVIOUS

\* Ratios are compared transitively.
LEMMA RatioOrder ==
  ASSUME NEW ac \in Nat, NEW au \in Nat, NEW bc \in Nat, NEW bu \in Nat, NEW cc \in Nat,
         NEW cu \in Nat, au > 0, bu > 0, cu > 0,
         bc * au >= ac * bu, cc * bu >= bc * cu
  PROVE  /\ cc * au >= ac * cu
         /\ bc * au > ac * bu \/ cc * bu > bc * cu => cc * au > ac * cu
<1>1. /\ (bc * au) * cu >= (ac * bu) * cu
      /\ (cc * bu) * au >= (bc * cu) * au
      /\ bc * au > ac * bu => (bc * au) * cu > (ac * bu) * cu
      /\ cc * bu > bc * cu => (cc * bu) * au > (bc * cu) * au
  <2>2. bc * au \in Nat /\ ac * bu \in Nat /\ cc * bu \in Nat /\ bc * cu \in Nat
    OBVIOUS
  <2> QED BY <2>2, ProductOrder
<1>2. (bc * au) * cu = (bc * cu) * au
  OBVIOUS
<1>3. /\ (ac * bu) * cu = (ac * cu) * bu
      /\ (cc * bu) * au = (cc * au) * bu
  OBVIOUS
<1>4. ac * cu \in Nat /\ cc * au \in Nat
  OBVIOUS
<1>5. /\ (cc * au) * bu >= (ac * cu) * bu
      /\ bc * au > ac * bu \/ cc * bu > bc * cu => (cc * au) * bu > (ac * cu) * bu
  <2> DEFINE p == (bc * au) * cu
             q == (ac * cu) * bu
             r == (cc * au) * bu
  <2>1. p \in Nat /\ q \in Nat /\ r \in Nat
    OBVIOUS
  <2>2. /\ p >= q /\ r >= p
        /\ bc * au > ac * bu => p > q
        /\ cc * bu > bc * cu => r > p
    BY <1>1, <1>2, <1>3
  <2> HIDE DEF p, q, r
  <2>3. r >= q /\ (bc * au > ac * bu \/ cc * bu > bc * cu => r > q)
    BY <2>1, <2>2
  <2> QED BY <2>3 DEF q, r
<1>6. ASSUME NEW p \in Nat, NEW q \in Nat
      PROVE  (p * bu >= q * bu => p >= q) /\ (p * bu > q * bu => p > q)
  OBVIOUS
<1> QED BY <1>4, <1>5, <1>6

LEMMA RateOrder ==
  ASSUME NEW a \in Rates, NEW b \in Rates, NEW c \in Rates, ~Below(b, a), ~Below(c, b)
  PROVE  ~Below(c, a) /\ (Below(a, b) \/ Below(b, c) => Below(a, c))
<1>1. /\ Coin(a) \in Nat /\ Usd(a) \in Nat /\ Usd(a) > 0
      /\ Coin(b) \in Nat /\ Usd(b) \in Nat /\ Usd(b) > 0
      /\ Coin(c) \in Nat /\ Usd(c) \in Nat /\ Usd(c) > 0
  BY RateLegs
<1>2. Coin(b) * Usd(a) >= Coin(a) * Usd(b) /\ Coin(c) * Usd(b) >= Coin(b) * Usd(c)
  <2>1. ASSUME NEW p \in Nat, NEW q \in Nat, NEW r \in Nat, NEW s \in Nat, ~(p * q < r * s)
        PROVE  p * q >= r * s
    BY <2>1
  <2> QED BY <1>1, <2>1 DEF Below
<1>3. /\ Coin(c) * Usd(a) >= Coin(a) * Usd(c)
      /\ Coin(b) * Usd(a) > Coin(a) * Usd(b) \/ Coin(c) * Usd(b) > Coin(b) * Usd(c)
           => Coin(c) * Usd(a) > Coin(a) * Usd(c)
  BY <1>1, <1>2, RatioOrder
<1>4. ASSUME NEW p \in Nat, NEW q \in Nat, NEW r \in Nat, NEW s \in Nat
      PROVE  (p * q >= r * s => ~(p * q < r * s)) /\ (p * q > r * s <=> r * s < p * q)
  OBVIOUS
<1> QED BY <1>1, <1>3, <1>4 DEF Below

\* A book: bids in finitely many slots.
Books == UNION { [S -> Rates] : S \in { T \in SUBSET (Nat \ {NoSlot}) : IsFiniteSet(T) } }

LEMMA BookOf ==
  ASSUME NEW b \in Books
  PROVE  /\ IsFiniteSet(DOMAIN b) /\ DOMAIN b \subseteq Nat \ {0}
         /\ \A i \in DOMAIN b : b[i] \in Rates /\ i \in Nat \ {0}
  BY DEF Books, NoSlot

LEMMA RateCases ==
  ASSUME NEW a \in Rates, NEW b \in Rates
  PROVE  /\ Below(a, b) \/ Below(b, a) \/ SameRate(a, b)
         /\ SameRate(a, b) => SameRate(b, a) /\ ~Below(a, b) /\ ~Below(b, a)
         /\ Below(a, b) => ~Below(b, a) /\ ~SameRate(a, b)
<1>1. /\ Coin(a) \in Nat /\ Usd(a) \in Nat /\ Coin(b) \in Nat /\ Usd(b) \in Nat
  BY RateLegs
<1> DEFINE p == Coin(a) * Usd(b)
           q == Coin(b) * Usd(a)
<1>2. p \in Nat /\ q \in Nat
  BY <1>1
<1>3. /\ Below(a, b) <=> p < q
      /\ Below(b, a) <=> q < p
      /\ SameRate(a, b) <=> p = q
      /\ SameRate(b, a) <=> q = p
  BY DEF Below, SameRate
<1> HIDE DEF p, q
<1> QED BY <1>2, <1>3

\* Bids rank in a total order, no better one behind a worse one.
LEMMA AheadOrder ==
  ASSUME NEW b \in Books, NEW i \in DOMAIN b, NEW j \in DOMAIN b, NEW k \in DOMAIN b
  PROVE  /\ i # j => Ahead(b, i, j) \/ Ahead(b, j, i)
         /\ Ahead(b, i, j) /\ Ahead(b, j, k) => Ahead(b, i, k)
         /\ Ahead(b, i, j) => ~Below(b[i], b[j])
<1>1. b[i] \in Rates /\ b[j] \in Rates /\ b[k] \in Rates /\ i \in Nat /\ j \in Nat /\ k \in Nat
  BY BookOf
<1>2. i # j => Ahead(b, i, j) \/ Ahead(b, j, i)
  BY <1>1, RateCases DEF Ahead
<1>3. Ahead(b, i, j) => ~Below(b[i], b[j])
  BY <1>1, RateCases DEF Ahead
<1>4. ASSUME Ahead(b, i, j), Ahead(b, j, k) PROVE Ahead(b, i, k)
  <2>1. ~Below(b[i], b[j]) /\ ~Below(b[j], b[k])
    BY <1>1, <1>4, RateCases DEF Ahead
  <2>2. ~Below(b[i], b[k]) /\ (Below(b[k], b[j]) \/ Below(b[j], b[i]) => Below(b[k], b[i]))
    BY <1>1, <2>1, RateOrder
  <2>3. CASE Below(b[k], b[j]) \/ Below(b[j], b[i])
    BY <2>2, <2>3 DEF Ahead
  <2>4. CASE SameRate(b[j], b[k]) /\ j < k /\ SameRate(b[i], b[j]) /\ i < j
    <3>1. ~Below(b[k], b[i])
      BY <1>1, <2>4, RateCases, RateOrder
    <3>2. SameRate(b[i], b[k])
      BY <1>1, <2>2, <3>1, RateCases
    <3> QED BY <1>1, <2>4, <3>2 DEF Ahead
  <2> QED BY <1>4, <2>3, <2>4 DEF Ahead
<1> QED BY <1>2, <1>3, <1>4

\* Some bid ranks last.
LEMMA LastRanks ==
  ASSUME NEW b \in Books, NEW S \in SUBSET DOMAIN b, S # {}
  PROVE  LastOf(b, S) \in S /\ \A j \in S \ {LastOf(b, S)} : Ahead(b, j, LastOf(b, S))
<1> DEFINE D == DOMAIN b
           ends(i, R) == \A j \in R \ {i} : Ahead(b, j, i)
           T == {R \in SUBSET D : R = {} \/ \E i \in R : ends(i, R)}
<1>1. {} \in T
  OBVIOUS
<1>2. ASSUME NEW R \in SUBSET D, R # {}, \A x \in R : R \ {x} \in T
      PROVE  R \in T
  <2>1. PICK x \in R : TRUE
    BY <1>2
  <2>2. CASE R \ {x} = {}
    <3>1. ends(x, R)
      BY <2>2
    <3> QED BY <2>1, <3>1
  <2>3. CASE R \ {x} # {}
    <3>1. PICK i \in R \ {x} : ends(i, R \ {x})
      BY <1>2, <2>1, <2>3
    <3>2. CASE Ahead(b, x, i)
      <4>1. ends(i, R)
        BY <3>1, <3>2
      <4> QED BY <3>1, <4>1
    <3>3. CASE ~Ahead(b, x, i)
      <4>1. Ahead(b, i, x)
        BY <2>1, <3>1, <3>3, AheadOrder
      <4>2. \A j \in R \ {x, i} : Ahead(b, j, i)
        BY <3>1
      <4>3. \A j \in R \ {x, i} : Ahead(b, j, x)
        BY <2>1, <3>1, <4>1, <4>2, AheadOrder
      <4>4. ends(x, R)
        BY <4>1, <4>3
      <4> QED BY <2>1, <4>4
    <3> QED BY <3>2, <3>3
  <2> QED BY <2>2, <2>3
<1>3. SUBSET D \subseteq T
  <2>1. IsFiniteSet(D)
    BY BookOf
  <2> HIDE DEF T, D
  <2> QED BY <1>1, <1>2, <2>1, SetInduction
<1>4. \E i \in S : ends(i, S)
  BY <1>3
<1> QED BY <1>4 DEF LastOf

----------------------------------------------------------------------------
(* Lots and pairs.                                                           *)

LEMMA LargestExists ==
  ASSUME NEW a \in Nat, NEW S \in SUBSET (1 .. a), S # {}
  PROVE  \E d \in S : \A e \in S : e <= d
<1> DEFINE D == 1 .. a
           T == {R \in SUBSET D : R = {} \/ \E d \in R : \A e \in R : e <= d}
<1>1. {} \in T
  OBVIOUS
<1>2. ASSUME NEW R \in SUBSET D, R # {}, \A x \in R : R \ {x} \in T
      PROVE  R \in T
  <2>1. PICK x \in R : TRUE
    BY <1>2
  <2>2. CASE R \ {x} = {}
    BY <2>1, <2>2
  <2>3. CASE R \ {x} # {}
    <3>1. PICK d \in R \ {x} : \A e \in R \ {x} : e <= d
      BY <1>2, <2>1, <2>3
    <3>2. CASE x <= d
      BY <3>1, <3>2
    <3>3. CASE ~(x <= d)
      BY <2>1, <3>1, <3>3
    <3> QED BY <3>2, <3>3
  <2> QED BY <2>2, <2>3
<1>3. SUBSET D \subseteq T
  <2>1. IsFiniteSet(D)
    BY FS_Interval
  <2> HIDE DEF T, D
  <2> QED BY <1>1, <1>2, <2>1, SetInduction
<1> QED BY <1>3

LEMMA GcdDivides ==
  ASSUME NEW a \in Nat, a > 0, NEW b \in Nat, b > 0
  PROVE  /\ Gcd(a, b) \in 1 .. a /\ a % Gcd(a, b) = 0 /\ b % Gcd(a, b) = 0
         /\ \A e \in 1 .. a : a % e = 0 /\ b % e = 0 => e <= Gcd(a, b)
<1> DEFINE S == {d \in 1 .. a : a % d = 0 /\ b % d = 0}
<1>1. 1 \in S
  <2>1. a % 1 = 0 /\ b % 1 = 0
    OBVIOUS
  <2> QED BY <2>1
<1>2. \E d \in S : \A e \in S : e <= d
  BY <1>1, LargestExists
<1>3. \E d \in 1 .. a : /\ a % d = 0 /\ b % d = 0
                        /\ \A e \in 1 .. a : a % e = 0 /\ b % e = 0 => e <= d
  BY <1>2
<1> QED BY <1>3 DEF Gcd

LEMMA LotType ==
  ASSUME NEW rate \in Rates
  PROVE  Lot(rate) \in Rates
<1> DEFINE d == Gcd(Coin(rate), Usd(rate))
<1>1. d \in 1 .. Coin(rate) /\ Usd(rate) % d = 0
  BY RateLegs, GcdDivides
<1>2. d \in Nat /\ d > 0 /\ d <= Coin(rate) /\ d <= Usd(rate)
  <2>1. ASSUME NEW u \in Nat, u > 0, NEW g \in Nat, g > 0, u % g = 0
        PROVE  g <= u
    BY <2>1
  <2>2. d \in Nat /\ d > 0
    BY <1>1, RateLegs
  <2> QED BY <1>1, <2>1, <2>2, RateLegs
<1>3. ASSUME NEW x \in Nat, d <= x PROVE x \div d \in Nat \ {0}
  <2>1. x \div d \in Nat /\ 1 <= x \div d
    BY <1>2, <1>3, Quotient, QuotientAtLeast
  <2> QED BY <2>1
<1>4. Lot(rate) = <<Coin(rate) \div d, Usd(rate) \div d>>
  BY DEF Lot
<1> HIDE DEF d
<1> QED BY <1>2, <1>3, <1>4, RateLegs DEF Rates

\* What may be bought of a bid at a price within usd: nothing, or what the price
\* comes to in whole atoms, at no more COIN per USD than the bid offers.
Fairly(price, bid, usd) ==
  {NoPair} \cup {p \in Rates : /\ Usd(p) <= usd
                               /\ Usd(p) = AtRate(Coin(p), price)
                               /\ ~Below(bid, p)}

LEMMA TryFair ==
  ASSUME NEW usd \in Nat, NEW price, NEW bid, NEW coin
  PROVE  TryCoin(coin, usd, price, bid) \in Fairly(price, bid, usd)
<1> DEFINE pair == <<coin, AtRate(coin, price)>>
<1>1. CASE coin \in Nat \ {0} /\ Usd(pair) \in 1 .. usd /\ ~Below(bid, pair)
  <2>1. TryCoin(coin, usd, price, bid) = pair
    BY <1>1 DEF TryCoin
  <2>2. pair \in Rates /\ Usd(pair) <= usd /\ Usd(pair) = AtRate(Coin(pair), price)
    BY <1>1 DEF Rates, Coin, Usd
  <2> QED BY <1>1, <2>1, <2>2 DEF Fairly
<1>2. CASE ~(coin \in Nat \ {0} /\ Usd(pair) \in 1 .. usd /\ ~Below(bid, pair))
  BY <1>2 DEF TryCoin, Fairly
<1> QED BY <1>1, <1>2

LEMMA LargerFair ==
  ASSUME NEW X, NEW p \in X, NEW q \in X
  PROVE  LargerPair(p, q) \in X
  BY DEF LargerPair

LEMMA ExecutableFair ==
  ASSUME NEW nominal \in Nat, NEW price, NEW bid
  PROVE  ExecutablePair(nominal, price, bid) \in Fairly(price, bid, nominal)
<1>1. NoPair \in Fairly(price, bid, nominal)
  BY DEF Fairly
<1> QED BY <1>1, TryFair DEF ExecutablePair

LEMMA FairWithin ==
  ASSUME NEW price, NEW bid, NEW usd \in Nat, NEW p \in Fairly(price, bid, usd)
  PROVE  /\ Coin(p) \in Nat /\ Usd(p) \in Nat /\ Usd(p) <= usd
         /\ \A more \in Nat : usd <= more => p \in Fairly(price, bid, more)
<1>1. CASE p = NoPair
  BY <1>1 DEF NoPair, Coin, Usd, Fairly
<1>2. CASE p \in Rates /\ Usd(p) <= usd
  BY <1>2, RateLegs DEF Fairly
<1> QED BY <1>1, <1>2 DEF Fairly

\* Nobody sells more COIN than it escrowed.
LEMMA FairFits ==
  ASSUME NEW price, NEW bid \in Rates, NEW p \in Fairly(price, bid, Usd(bid))
  PROVE  Coin(p) <= Coin(bid)
<1>1. Coin(bid) \in Nat /\ Usd(bid) \in Nat /\ Usd(bid) > 0
  BY RateLegs
<1>2. CASE p = NoPair
  BY <1>1, <1>2 DEF NoPair, Coin
<1>3. CASE p \in Rates /\ Usd(p) <= Usd(bid) /\ ~Below(bid, p)
  <2>1. Coin(p) \in Nat /\ Usd(p) \in Nat
    BY <1>3, RateLegs
  <2>2. ASSUME NEW c \in Nat, NEW u \in Nat, u > 0, NEW pc \in Nat, NEW pu \in Nat,
               pu <= u, ~(c * pu < pc * u)
        PROVE  pc <= c
    <3>1. c * pu <= c * u /\ pc * u <= c * pu
      BY <2>2
    <3>2. pc * u <= c * u
      BY <2>2, <3>1
    <3> QED BY <2>2, <3>2
  <2> QED BY <1>1, <1>3, <2>1, <2>2 DEF Below
<1> QED BY <1>2, <1>3 DEF Fairly

----------------------------------------------------------------------------
(* The most that can be bought of a bid.                                     *)

LEMMA AtRateType ==
  ASSUME NEW coin \in Nat, NEW price \in Rates
  PROVE  AtRate(coin, price) \in Nat
<1>1. Coin(price) \in Nat /\ Coin(price) > 0 /\ Usd(price) \in Nat
  BY RateLegs
<1>2. coin * Usd(price) \in Nat
  BY <1>1
<1> QED BY <1>1, <1>2, Quotient DEF AtRate

LEMMA ProjectedCoinBounds ==
  ASSUME NEW usd \in Nat, NEW price \in Rates, NEW bid \in Rates
  PROVE  /\ ProjectedCoin(usd, price, bid) \in Nat
         /\ ProjectedCoin(usd, price, bid) * Usd(bid) <= Coin(bid) * usd
         /\ ProjectedCoin(usd, price, bid) * Usd(price) < Coin(price) * usd + Coin(price)
<1> DEFINE coin == ProjectedCoin(usd, price, bid)
           p == Coin(bid) * usd
           q == (usd + 1) * Coin(price) - 1
<1>1. /\ Coin(bid) \in Nat /\ Usd(bid) \in Nat /\ Usd(bid) > 0
      /\ Coin(price) \in Nat /\ Coin(price) > 0 /\ Usd(price) \in Nat /\ Usd(price) > 0
  BY RateLegs
<1>2. p \in Nat
  BY <1>1
<1>3. q \in Nat /\ q < Coin(price) * usd + Coin(price)
  <2>1. ASSUME NEW c \in Nat, c > 0
        PROVE  (usd + 1) * c - 1 \in Nat /\ (usd + 1) * c = c * usd + c
    <3>1. (usd + 1) * c = c * usd + c /\ c * usd \in Nat
      OBVIOUS
    <3> QED BY <2>1, <3>1
  <2>2. Coin(price) * usd \in Nat
    BY <1>1
  <2> QED BY <1>1, <2>1, <2>2
<1>4. coin = Least(p \div Usd(bid), q \div Usd(price))
  BY DEF ProjectedCoin, CoinAtMost
<1> HIDE DEF coin, p, q
<1>5. /\ p \div Usd(bid) \in Nat /\ Usd(bid) * (p \div Usd(bid)) <= p
      /\ q \div Usd(price) \in Nat /\ Usd(price) * (q \div Usd(price)) <= q
  BY <1>1, <1>2, <1>3, Quotient
<1>6. coin \in Nat /\ coin <= p \div Usd(bid) /\ coin <= q \div Usd(price)
  BY <1>4, <1>5 DEF Least
<1>7. ASSUME NEW u \in Nat, NEW d \in Nat, NEW r \in Nat, coin <= d, u * d <= r
      PROVE  coin * u <= r
  <2>1. coin * u <= d * u /\ d * u = u * d /\ coin * u \in Nat /\ d * u \in Nat
    BY <1>6, <1>7
  <2> QED BY <1>7, <2>1
<1>8. coin * Usd(bid) <= p
  BY <1>1, <1>2, <1>5, <1>6, <1>7
<1>9. coin * Usd(price) <= q
  BY <1>1, <1>3, <1>5, <1>6, <1>7
<1>10. coin * Usd(price) \in Nat /\ Coin(price) * usd \in Nat
  BY <1>1, <1>6
<1>11. coin * Usd(price) < Coin(price) * usd + Coin(price)
  BY <1>1, <1>3, <1>9, <1>10
<1> QED BY <1>6, <1>8, <1>11 DEF p, coin

\* Where a projection ends the price comes to just that many USD.
LEMMA ProjectionFair ==
  ASSUME NEW max \in Nat, NEW usd \in Nat, usd # 0, usd <= max, NEW price \in Rates,
         NEW bid \in Rates, NEW coin, coin = ProjectedCoin(usd, price, bid), coin # 0,
         coin * Usd(price) >= Coin(price) * usd
  PROVE  <<coin, usd>> \in Fairly(price, bid, max)
<1>1. /\ coin \in Nat
      /\ coin * Usd(bid) <= Coin(bid) * usd
      /\ coin * Usd(price) < Coin(price) * usd + Coin(price)
  BY ProjectedCoinBounds
<1>2. /\ Coin(bid) \in Nat /\ Usd(bid) \in Nat
      /\ Coin(price) \in Nat /\ Coin(price) > 0 /\ Usd(price) \in Nat
  BY RateLegs
<1>3. AtRate(coin, price) = usd
  <2> DEFINE n == coin * Usd(price)
  <2>1. n \in Nat /\ Coin(price) * usd <= n /\ n < Coin(price) * usd + Coin(price)
    BY <1>1, <1>2
  <2> HIDE DEF n
  <2>2. usd <= n \div Coin(price) /\ n \div Coin(price) <= usd /\ n \div Coin(price) \in Nat
    BY <1>2, <2>1, Quotient, QuotientAtLeast, QuotientAtMost
  <2> QED BY <2>2 DEF AtRate, n
<1>4. ~(Coin(bid) * usd < coin * Usd(bid))
  <2>1. Coin(bid) * usd \in Nat /\ coin * Usd(bid) \in Nat
    BY <1>1, <1>2
  <2> QED BY <1>1, <2>1
<1>5. <<coin, usd>> \in Rates /\ Coin(<<coin, usd>>) = coin /\ Usd(<<coin, usd>>) = usd
  BY <1>1 DEF Rates, Coin, Usd
<1> QED BY <1>3, <1>4, <1>5 DEF Fairly, Below

LEMMA SearchFields ==
  ASSUME NEW max, NEW price, NEW bid, NEW s, s = Search(max, price, bid)
  PROVE  s.max_usd = max /\ s.marginal = price /\ s.bid = bid
  BY DEF Search

\* The projection goes denominator by denominator: within[k][usd] is what it finds
\* from usd on in k steps.
IsProjection(within, seed, s) ==
  \A k \in 0 .. MaxSteps :
    within[k] = [usd \in Nat |-> IF k = 0 THEN seed
                                ELSE ProjectedFrom(usd, within[k - 1], seed, s)]

LEMMA ProjectionSteps ==
  ASSUME NEW max \in Nat, NEW price \in Rates, NEW bid \in Rates,
         NEW s, s = Search(max, price, bid), NEW seed \in Fairly(price, bid, max)
  PROVE  \E within : /\ ProjectedPair(seed, s) = within[MaxSteps][max]
                     /\ within[MaxSteps][max] \in Fairly(price, bid, max)
                     /\ IsProjection(within, seed, s)
<1> DEFINE X == Fairly(price, bid, max)
           Y == {h \in [Nat -> Nat \X Nat] : \A usd \in Nat : usd <= max => h[usd] \in X}
           from(h) == [usd \in Nat |-> ProjectedFrom(usd, h, seed, s)]
           start == [usd \in Nat |-> seed]
           F == [k \in 1 .. MaxSteps |-> [h \in Y |-> from(h)]]
           is(f) == f = [steps \in 0 .. MaxSteps |->
                           [usd \in Nat |-> IF steps = 0 THEN seed
                                            ELSE ProjectedFrom(usd, f[steps - 1], seed, s)]]
<1>1. s.max_usd = max /\ s.marginal = price /\ s.bid = bid
  BY SearchFields
<1>2. X \subseteq Nat \X Nat
  BY DEF Fairly, Rates, NoPair
<1>3. start \in Y
  BY <1>2
<1>4. ASSUME NEW h \in Y PROVE from(h) \in Y
  <2>1. ASSUME NEW usd \in Nat
        PROVE  /\ ProjectedFrom(usd, h, seed, s) \in Nat \X Nat
               /\ usd <= max => ProjectedFrom(usd, h, seed, s) \in X
    <3> DEFINE coin == ProjectedCoin(usd, price, bid)
               next == AtRate(coin, price)
    <3>1. coin \in Nat /\ next \in Nat
      BY ProjectedCoinBounds, AtRateType
    <3>2. ProjectedFrom(usd, h, seed, s) =
            IF usd = 0 \/ usd < Usd(seed) \/ coin = 0 THEN seed
            ELSE IF coin * Usd(price) >= Coin(price) * usd THEN <<coin, usd>>
            ELSE IF next >= usd THEN seed
            ELSE h[next]
      BY <1>1 DEF ProjectedFrom
    <3> HIDE DEF next
    <3>3. CASE usd # 0 /\ coin # 0 /\ coin * Usd(price) >= Coin(price) * usd
      <4>1. usd <= max => <<coin, usd>> \in X
        BY <3>3, ProjectionFair
      <4>2. <<coin, usd>> \in Nat \X Nat /\ seed \in X
        BY <3>1
      <4> HIDE DEF coin
      <4> QED BY <1>2, <3>2, <3>3, <4>1, <4>2
    <3>4. CASE ~(usd # 0 /\ coin # 0 /\ coin * Usd(price) >= Coin(price) * usd)
      <4> HIDE DEF coin
      <4>1. \/ ProjectedFrom(usd, h, seed, s) = seed
            \/ ProjectedFrom(usd, h, seed, s) = h[next] /\ ~(next >= usd)
        BY <3>2, <3>4
      <4> QED BY <1>2, <3>1, <4>1
    <3> QED BY <3>3, <3>4
  <2> QED BY <2>1
<1>5. \A k \in 1 .. MaxSteps : \A h \in Y : F[k][h] \in Y
  BY <1>4
<1>6. MaxSteps \in Nat
  BY PairsAssumption
<1>7. PICK f : IsCount(f, MaxSteps, start, F) /\ \A k \in 0 .. MaxSteps : f[k] \in Y
  <2> HIDE DEF F, Y, start
  <2> QED BY <1>3, <1>5, <1>6, CountFits
<1>8. is(f)
  <2>1. ASSUME NEW k \in 0 .. MaxSteps
        PROVE  (IF k = 0 THEN start ELSE F[k][f[k - 1]])
                 = [usd \in Nat |-> IF k = 0 THEN seed
                                    ELSE ProjectedFrom(usd, f[k - 1], seed, s)]
    <3>1. CASE k = 0
      BY <3>1
    <3>2. CASE k # 0
      <4>0. k \in 1 .. MaxSteps /\ k - 1 \in 0 .. MaxSteps
        BY <1>6, <3>2
      <4>1. k \in 1 .. MaxSteps /\ f[k - 1] \in Y
        BY <1>7, <4>0
      <4>2. F[k][f[k - 1]] = from(f[k - 1])
        BY <4>1
      <4>3. k # 0
        BY <3>2
      <4> HIDE DEF F, Y, start
      <4> QED BY <4>2, <4>3
    <3> QED BY <3>1, <3>2
  <2>2. f = [k \in 0 .. MaxSteps |-> IF k = 0 THEN start ELSE F[k][f[k - 1]]]
    BY <1>7 DEF IsCount
  <2> HIDE DEF F, start
  <2> QED BY <2>1, <2>2
<1> DEFINE g == CHOOSE f1 : is(f1)
<1>9. is(g)
  BY <1>8
<1>10. ProjectedPair(seed, s) = g[MaxSteps][max]
  BY <1>1 DEF ProjectedPair
<1> HIDE DEF g
<1>11. /\ \A k \in 0 .. MaxSteps : g[k] = [usd \in Nat |-> IF k = 0 THEN seed
                                              ELSE ProjectedFrom(usd, g[k - 1], seed, s)]
  BY <1>9
<1>12. g[0] \in Y
  <2>1. 0 \in 0 .. MaxSteps
    BY <1>6
  <2>2. g[0] = start
    BY <1>11, <2>1
  <2> QED BY <1>3, <2>2
<1>13. ASSUME NEW k \in 1 .. MaxSteps, g[k - 1] \in Y PROVE g[k] \in Y
  <2>1. k \in 0 .. MaxSteps /\ k # 0
    BY <1>6
  <2>2. g[k] = from(g[k - 1])
    BY <1>11, <2>1
  <2> QED BY <1>4, <1>13, <2>2
<1>14. g[MaxSteps] \in Y
  <2> HIDE DEF Y
  <2>1. \A k \in 0 .. MaxSteps : g[k] \in Y
    BY <1>6, <1>12, <1>13, CountKeeps
  <2> QED BY <1>6, <2>1
<1>15. IsProjection(g, seed, s)
  BY <1>11 DEF IsProjection
<1>16. g[MaxSteps][max] \in X
  BY <1>14
<1> HIDE DEF X, Y
<1>17. /\ ProjectedPair(seed, s) = g[MaxSteps][max] /\ IsProjection(g, seed, s)
       /\ g[MaxSteps][max] \in Fairly(price, bid, max)
  BY <1>10, <1>15, <1>16 DEF X
<1> QED BY <1>17

LEMMA ProjectedFair ==
  ASSUME NEW max \in Nat, NEW price \in Rates, NEW bid \in Rates,
         NEW s, s = Search(max, price, bid), NEW seed \in Fairly(price, bid, max)
  PROVE  ProjectedPair(seed, s) \in Fairly(price, bid, max)
<1>1. PICK within : /\ ProjectedPair(seed, s) = within[MaxSteps][max]
                    /\ within[MaxSteps][max] \in Fairly(price, bid, max)
                    /\ IsProjection(within, seed, s)
  BY ProjectionSteps
<1> QED BY <1>1

LEMMA ResidueFair ==
  ASSUME NEW max \in Nat, NEW price, NEW bid, NEW s, s = Search(max, price, bid),
         NEW best \in Fairly(price, bid, max), NEW excess
  PROVE  ResiduePair(best, excess, s) \in Fairly(price, bid, max)
<1>1. \A coin : Try(coin, s) \in Fairly(price, bid, max)
  BY SearchFields, TryFair DEF Try
<1> HIDE DEF Try
<1> QED BY <1>1, LargerFair DEF ResiduePair

\* Excesses are tried one by one.
IsResidues(best, seed, s) ==
  \A r \in 0 .. MaxExcess : best[r] = IF r = 0 THEN seed ELSE ResiduePair(best[r - 1], r, s)

LEMMA ResiduesSteps ==
  ASSUME NEW max \in Nat, NEW price, NEW bid, NEW s, s = Search(max, price, bid),
         NEW seed \in Fairly(price, bid, max), NEW residues \in 0 .. MaxExcess
  PROVE  \E best : /\ ResiduePairs(seed, residues, s) = best[residues]
                   /\ \A r \in 0 .. MaxExcess : best[r] \in Fairly(price, bid, max)
                   /\ IsResidues(best, seed, s)
<1> DEFINE X == Fairly(price, bid, max)
           F == [r \in 1 .. MaxExcess |-> [p \in X |-> ResiduePair(p, r, s)]]
           is(f) == f = [r \in 0 .. MaxExcess |->
                           IF r = 0 THEN seed ELSE ResiduePair(f[r - 1], r, s)]
<1>1. MaxExcess \in Nat
  BY PairsAssumption
<1>2. \A r, p : p \in X => ResiduePair(p, r, s) \in X
  BY ResidueFair
<1>3. \A r \in 1 .. MaxExcess : \A p \in X : F[r][p] \in X
  BY <1>2
<1>4. PICK f : IsCount(f, MaxExcess, seed, F) /\ \A r \in 0 .. MaxExcess : f[r] \in X
  <2> HIDE DEF F, X
  <2>1. seed \in X
    BY DEF X
  <2> QED BY <1>1, <1>3, <2>1, CountFits
<1>5. is(f)
  <2>1. ASSUME NEW r \in 0 .. MaxExcess, r # 0
        PROVE  F[r][f[r - 1]] = ResiduePair(f[r - 1], r, s)
    <3>1. r \in 1 .. MaxExcess /\ r - 1 \in 0 .. MaxExcess
      BY <1>1, <2>1
    <3>2. f[r - 1] \in X
      BY <1>4, <3>1
    <3> HIDE DEF X
    <3> QED BY <3>1, <3>2
  <2>2. f = [r \in 0 .. MaxExcess |-> IF r = 0 THEN seed ELSE F[r][f[r - 1]]]
    BY <1>4 DEF IsCount
  <2> HIDE DEF F, X
  <2> QED BY <2>1, <2>2
<1> DEFINE g == CHOOSE f1 : is(f1)
<1>6. is(g)
  BY <1>5
<1>7. ResiduePairs(seed, residues, s) = g[residues]
  BY DEF ResiduePairs
<1> HIDE DEF g
<1>8. \A r \in 0 .. MaxExcess : g[r] = IF r = 0 THEN seed ELSE ResiduePair(g[r - 1], r, s)
  BY <1>6
<1>9. g[0] \in X
  <2>1. 0 \in 0 .. MaxExcess
    BY <1>1
  <2> QED BY <1>8, <2>1
<1>10. ASSUME NEW r \in 1 .. MaxExcess, g[r - 1] \in X PROVE g[r] \in X
  <2>1. r \in 0 .. MaxExcess /\ r # 0
    BY <1>1
  <2>2. g[r] = ResiduePair(g[r - 1], r, s)
    BY <1>8, <2>1
  <2> HIDE DEF X
  <2> QED BY <1>2, <1>10, <2>2
<1> HIDE DEF X
<1>11. \A r \in 0 .. MaxExcess : g[r] \in X
  BY <1>1, <1>9, <1>10, CountKeeps
<1>12. IsResidues(g, seed, s)
  BY <1>8 DEF IsResidues
<1>13. \A r \in 0 .. MaxExcess : g[r] \in Fairly(price, bid, max)
  BY <1>11 DEF X
<1> QED BY <1>7, <1>12, <1>13

LEMMA ResiduesFair ==
  ASSUME NEW max \in Nat, NEW price, NEW bid, NEW s, s = Search(max, price, bid),
         NEW seed \in Fairly(price, bid, max), NEW residues \in 0 .. MaxExcess
  PROVE  ResiduePairs(seed, residues, s) \in Fairly(price, bid, max)
<1>1. PICK best : /\ ResiduePairs(seed, residues, s) = best[residues]
                  /\ \A r \in 0 .. MaxExcess : best[r] \in Fairly(price, bid, max)
                  /\ IsResidues(best, seed, s)
  BY ResiduesSteps
<1> QED BY <1>1

LEMMA InteriorFair ==
  ASSUME NEW max \in Nat, NEW price, NEW bid, NEW s, s = Search(max, price, bid),
         NEW seed \in Fairly(price, bid, max)
  PROVE  InteriorPair(seed, s) \in Fairly(price, bid, max)
<1> DEFINE X == Fairly(price, bid, max)
<1>1. \A coin : Try(coin, s) \in X
  BY SearchFields, TryFair DEF Try
<1>2. NoPair \in X
  BY DEF Fairly
<1>3. \A rate, parent : RayPair(rate, parent, s) \in X
  BY <1>1 DEF RayPair
<1>4. \A p, q : p \in X /\ q \in X => LargerPair(p, q) \in X
  BY LargerFair
<1> DEFINE f == SimplestFraction(s.m, s.b)
           ray(parent) == IF Usd(parent) = 0 THEN NoPair ELSE RayPair(f.rate, parent, s)
           lots == Least(s.max_usd \div Usd(f.rate), Coin(s.bid) \div Coin(f.rate))
           one == LargerPair(seed, Try(lots * Coin(f.rate), s))
           two == LargerPair(one, ray(f.parents[1]))
<1>5. \/ InteriorPair(seed, s) = seed
      \/ InteriorPair(seed, s) = LargerPair(two, ray(f.parents[2]))
  BY DEF InteriorPair
<1> HIDE DEF X, f
<1>6. \A parent : ray(parent) \in X
  BY <1>2, <1>3
<1>7. one \in X
  BY <1>1, <1>4 DEF X
<1> HIDE DEF one, ray
<1>8. two \in X
  BY <1>4, <1>6, <1>7
<1> HIDE DEF two
<1> QED BY <1>4, <1>5, <1>6, <1>8 DEF X

\* What the search ends with is fair to the bid.
LEMMA MaxExecutableFair ==
  ASSUME NEW budget \in Nat, NEW price \in Rates, NEW bid \in Rates
  PROVE  MaxExecutablePair(budget, price, bid) \in Fairly(price, bid, Least(budget, Usd(bid)))
<1> DEFINE max == Least(budget, Usd(bid))
           X == Fairly(price, bid, max)
           s == Search(max, price, bid)
           first == Try(s.coin, s)
           seed == LotPair(s)
           apart == Determinant(s)
           residues == (apart * s.max_usd) \div Usd(s.b)
<1>1. max \in Nat
  BY RateLegs DEF Least
<1>2. NoPair \in X
  BY DEF Fairly
<1> HIDE DEF max
<1>3. \A coin : Try(coin, s) \in X
  BY <1>1, SearchFields, TryFair DEF Try
<1>4. seed \in X
  <2> HIDE DEF s, X
  <2>1. \A p, q : p \in X /\ q \in X => LargerPair(p, q) \in X
    BY LargerFair
  <2> QED BY <1>3, <2>1 DEF LotPair
<1> DEFINE t == s
<1>5. t = Search(max, price, bid)
  OBVIOUS
<1>6. MaxExecutablePair(budget, price, bid)
        \in {NoPair, Try(t.coin, t), Candidates(LotPair(t), t)}
  BY DEF MaxExecutablePair, max
<1>7. Candidates(LotPair(t), t) \in X
  <2> DEFINE p == LotPair(t)
             n == (Determinant(t) * t.max_usd) \div Usd(t.b)
  <2>1. Candidates(p, t) \in {p, ProjectedPair(InteriorPair(p, t), t)}
          \cup (IF n \in 0 .. MaxExcess THEN {ResiduePairs(p, n, t)} ELSE {})
    BY DEF Candidates
  <2>2. p \in X
    BY <1>4
  <2> HIDE DEF p, n, t
  <2>3. ProjectedPair(InteriorPair(p, t), t) \in X
    <3>1. InteriorPair(p, t) \in X
      BY <1>1, <1>5, <2>2, InteriorFair
    <3> HIDE DEF X
    <3>2. InteriorPair(p, t) \in Fairly(price, bid, max)
      BY <3>1 DEF X
    <3> QED BY <1>1, <1>5, <3>2, ProjectedFair DEF X
  <2>4. n \in 0 .. MaxExcess => ResiduePairs(p, n, t) \in X
    BY <1>1, <1>5, <2>2, ResiduesFair
  <2> HIDE DEF X
  <2>5. CASE n \in 0 .. MaxExcess
    BY <2>1, <2>2, <2>3, <2>4, <2>5 DEF p
  <2>6. CASE n \notin 0 .. MaxExcess
    BY <2>1, <2>2, <2>3, <2>6 DEF p
  <2> QED BY <2>5, <2>6
<1> HIDE DEF X
<1>8. Try(t.coin, t) \in X
  BY <1>3
<1> HIDE DEF t, s
<1>9. MaxExecutablePair(budget, price, bid) \in X
  BY <1>2, <1>6, <1>7, <1>8
<1> QED BY <1>9 DEF X, max

----------------------------------------------------------------------------
(* The nominal walk.                                                         *)

LEMMA NominalFits ==
  ASSUME NEW bid \in Rates, NEW left \in Nat
  PROVE  Nominal(bid, left) \in Nat /\ Nominal(bid, left) <= left
         /\ Nominal(bid, left) <= Usd(bid)
<1> DEFINE n == Least(left, Usd(bid))
           u == Usd(Lot(bid))
<1>1. n \in Nat /\ n <= left /\ n <= Usd(bid) /\ Usd(bid) \in Nat
  BY RateLegs DEF Least
<1>2. u \in Nat /\ u > 0
  BY LotType, RateLegs
<1>3. Nominal(bid, left) \in {n, (n \div u) * u}
  BY DEF Nominal
<1> HIDE DEF n, u
<1>4. (n \div u) * u \in Nat /\ (n \div u) * u <= n
  <2>1. n \div u \in Nat /\ u * (n \div u) <= n
    BY <1>1, <1>2, Quotient
  <2> DEFINE q == n \div u
  <2> HIDE DEF q
  <2>2. q \in Nat /\ u * q <= n
    BY <2>1 DEF q
  <2>3. q * u = u * q /\ q * u \in Nat
    BY <1>2, <2>2
  <2>4. q * u \in Nat /\ q * u <= n
    BY <2>2, <2>3
  <2> QED BY <2>4 DEF q
<1> QED BY <1>1, <1>3, <1>4

\* Walks of a budget over the bids of S: what is taken and what is left make up
\* the budget, no bid takes more than it wants, and the marginal one is the last.
Walks(b, budget, S) ==
  { w \in [left : Nat, marginal : Nat, taken : [DOMAIN b -> Nat]] :
      /\ w.left + Total(w.taken, DOMAIN b) = budget
      /\ \A i \in DOMAIN b : w.taken[i] <= Usd(b[i]) /\ (w.taken[i] # 0 => i \in S)
      /\ IF w.marginal = NoSlot THEN \A i \in DOMAIN b : w.taken[i] = 0
         ELSE /\ w.marginal \in S
              /\ \A i \in DOMAIN b : w.taken[i] # 0 => i = w.marginal \/ Ahead(b, i, w.marginal) }

LEMMA WalkStarts ==
  ASSUME NEW b \in Books, NEW budget \in Nat
  PROVE  [left |-> budget, marginal |-> NoSlot, taken |-> [i \in DOMAIN b |-> 0]]
           \in Walks(b, budget, {})
<1> DEFINE z == [i \in DOMAIN b |-> 0]
<1>1. z \in [DOMAIN b -> Nat] /\ \A i \in DOMAIN b : z[i] = 0
  OBVIOUS
<1>2. Total(z, DOMAIN b) = 0
  BY <1>1, TotalZero
<1>3. \A i \in DOMAIN b : 0 <= Usd(b[i])
  BY BookOf, RateLegs
<1> HIDE DEF z
<1> QED BY <1>1, <1>2, <1>3 DEF Walks, NoSlot

LEMMA TakeFits ==
  ASSUME NEW b \in Books, NEW budget \in Nat, NEW S \in SUBSET DOMAIN b, S # {},
         NEW i, i = LastOf(b, S), NEW w \in Walks(b, budget, S \ {i}),
         NEW usd \in Nat, usd <= w.left, usd <= Usd(b[i])
  PROVE  Take(w, i, usd) \in Walks(b, budget, S)
<1> DEFINE D == DOMAIN b
           taken == [w.taken EXCEPT ![i] = usd]
           v == [left |-> w.left - usd, marginal |-> i, taken |-> taken]
<1>1. i \in S /\ i \in D /\ i \in Nat \ {0} /\ \A j \in S \ {i} : Ahead(b, j, i)
  BY LastRanks, BookOf
<1>2. /\ w \in [left : Nat, marginal : Nat, taken : [D -> Nat]]
      /\ w.left + Total(w.taken, D) = budget
      /\ \A j \in D : w.taken[j] <= Usd(b[j]) /\ (w.taken[j] # 0 => j \in S \ {i})
      /\ IF w.marginal = NoSlot THEN \A j \in D : w.taken[j] = 0
         ELSE /\ w.marginal \in S \ {i}
              /\ \A j \in D : w.taken[j] # 0 => j = w.marginal \/ Ahead(b, j, w.marginal)
  BY DEF Walks
<1>3. CASE usd = 0
  <2>1. Take(w, i, usd) = w
    BY <1>3 DEF Take
  <2>2. w \in Walks(b, budget, S)
    BY <1>2 DEF Walks
  <2> QED BY <2>1, <2>2
<1>4. CASE usd # 0
  <2>1. Take(w, i, usd) = v
    BY <1>4 DEF Take
  <2>2. w.taken \in [D -> Nat] /\ w.taken[i] = 0
    BY <1>1, <1>2
  <2>3. taken \in [D -> Nat] /\ taken[i] = usd /\ \A j \in D : j # i => taken[j] = w.taken[j]
    BY <1>1, <2>2
  <2>4. Total(w.taken, D) \in Nat /\ Total(taken, D) = Total(w.taken, D) - w.taken[i] + taken[i]
    <3> HIDE DEF taken
    <3>1. IsFiniteSet(D)
      BY BookOf
    <3> QED BY <1>1, <2>2, <2>3, <3>1, TotalChange
  <2> HIDE DEF taken
  <2>5. w.left \in Nat /\ w.left - usd \in Nat
    BY <1>2
  <2>6. w.left - usd + Total(taken, D) = budget
    BY <1>2, <2>2, <2>3, <2>4, <2>5
  <2>7. \A j \in D : taken[j] <= Usd(b[j]) /\ (taken[j] # 0 => j \in S)
    BY <1>1, <1>2, <2>3
  <2>8. \A j \in D : taken[j] # 0 => j = i \/ Ahead(b, j, i)
    BY <1>1, <1>2, <2>3
  <2>9. v \in [left : Nat, marginal : Nat, taken : [D -> Nat]]
    BY <1>1, <2>3, <2>5
  <2>10. v.left = w.left - usd /\ v.marginal = i /\ v.taken = taken
    OBVIOUS
  <2>11. i # NoSlot
    BY <1>1 DEF NoSlot
  <2> HIDE DEF v
  <2>12. v \in Walks(b, budget, S)
    BY <1>1, <2>6, <2>7, <2>8, <2>9, <2>10, <2>11 DEF Walks
  <2> QED BY <2>1, <2>12
<1> QED BY <1>3, <1>4

\* The walk goes bid by bid: walk[S] is the walk over the bids of S.
IsWalk(walk, b, slots, excluded, budget) ==
  /\ walk[{}] = [left |-> budget, marginal |-> NoSlot, taken |-> [i \in DOMAIN b |-> 0]]
  /\ \A S \in SUBSET slots : walk[S] \in Walks(b, budget, S)
  /\ \A S \in SUBSET slots :
       S # {} =>
         LET i == LastOf(b, S)
             w == walk[S \ {i}]
         IN  walk[S] = Take(w, i, IF i \in excluded THEN 0 ELSE Nominal(b[i], w.left))

LEMMA WalkSteps ==
  ASSUME NEW b \in Books, NEW slots \in SUBSET DOMAIN b, NEW excluded, NEW budget \in Nat
  PROVE  \E walk : /\ Walk(b, slots, excluded, budget) = walk[slots]
                   /\ IsWalk(walk, b, slots, excluded, budget)
<1> DEFINE X == [S \in SUBSET slots |-> Walks(b, budget, S)]
           last == [S \in SUBSET slots |-> LastOf(b, S)]
           start == [left |-> budget, marginal |-> NoSlot, taken |-> [i \in DOMAIN b |-> 0]]
           next(w, i) == Take(w, i, IF i \in excluded THEN 0 ELSE Nominal(b[i], w.left))
           F == [S \in SUBSET slots |-> [w \in X[S \ {last[S]}] |-> next(w, last[S])]]
           is(f) == f = [S \in SUBSET slots |->
                           IF S = {} THEN start
                           ELSE next(f[S \ {LastOf(b, S)}], LastOf(b, S))]
<1>1. IsFiniteSet(slots)
  BY BookOf, FS_Subset
<1>2. \A S \in SUBSET slots : S # {} => last[S] \in S
  BY LastRanks
<1>3. start \in X[{}]
  BY WalkStarts
<1>4. ASSUME NEW S \in SUBSET slots, S # {}, NEW w \in X[S \ {last[S]}]
      PROVE  next(w, last[S]) \in X[S]
  <2>1. last[S] = LastOf(b, S) /\ last[S] \in S /\ last[S] \in DOMAIN b
    BY <1>2, <1>4
  <2>2. w \in Walks(b, budget, S \ {last[S]}) /\ w.left \in Nat
    BY <1>4 DEF Walks
  <2>3. b[last[S]] \in Rates
    BY <2>1, BookOf
  <2> DEFINE usd == IF last[S] \in excluded THEN 0 ELSE Nominal(b[last[S]], w.left)
  <2>4. usd \in Nat /\ usd <= w.left /\ usd <= Usd(b[last[S]])
    BY <2>2, <2>3, NominalFits, RateLegs
  <2> HIDE DEF usd, last
  <2>5. Take(w, last[S], usd) \in Walks(b, budget, S)
    BY <1>4, <2>1, <2>2, <2>4, TakeFits
  <2> QED BY <2>5 DEF usd
<1> HIDE DEF next
<1>5. \A S \in SUBSET slots : S # {} => \A w \in X[S \ {last[S]}] : F[S][w] \in X[S]
  BY <1>4
<1>6. PICK f : IsFold(f, slots, last, start, F) /\ \A S \in SUBSET slots : f[S] \in X[S]
  <2> HIDE DEF F, X, last, start
  <2> QED BY <1>1, <1>2, <1>3, <1>5, FoldFits
<1>7. is(f)
  <2>1. ASSUME NEW S \in SUBSET slots, S # {}
        PROVE  F[S][f[S \ {last[S]}]] = next(f[S \ {LastOf(b, S)}], LastOf(b, S))
    <3>1. f[S \ {last[S]}] \in X[S \ {last[S]}]
      BY <1>6
    <3>2. last[S] = LastOf(b, S)
      OBVIOUS
    <3> HIDE DEF X, last
    <3> QED BY <3>1, <3>2
  <2>2. f = [S \in SUBSET slots |-> IF S = {} THEN start ELSE F[S][f[S \ {last[S]}]]]
    BY <1>6 DEF IsFold
  <2> HIDE DEF F, last, start
  <2> QED BY <2>1, <2>2
<1> DEFINE g == CHOOSE f1 : is(f1)
<1>8. is(g)
  BY <1>7
<1>9. Walk(b, slots, excluded, budget) = g[slots]
  BY DEF Walk, BestFirst, next
<1> HIDE DEF g
<1>10. /\ g[{}] = start
       /\ \A S \in SUBSET slots : S # {} => g[S] = next(g[S \ {last[S]}], last[S])
  BY <1>8
<1>11. g[{}] \in X[{}]
  BY <1>3, <1>10
<1>12. ASSUME NEW S \in SUBSET slots, S # {}, g[S \ {last[S]}] \in X[S \ {last[S]}]
       PROVE  g[S] \in X[S]
  BY <1>4, <1>10, <1>12
<1>13. \A S \in SUBSET slots : g[S] \in X[S]
  <2> HIDE DEF X, last
  <2> QED BY <1>1, <1>2, <1>11, <1>12, FoldKeeps
<1>14. ASSUME NEW S \in SUBSET slots, S # {}
       PROVE  LET k == LastOf(b, S)
                  w == g[S \ {k}]
              IN  g[S] = Take(w, k, IF k \in excluded THEN 0 ELSE Nominal(b[k], w.left))
  BY <1>10, <1>14 DEF next
<1>15. \A S \in SUBSET slots : g[S] \in Walks(b, budget, S)
  BY <1>13
<1> HIDE DEF X, last, F
<1>16. IsWalk(g, b, slots, excluded, budget)
  BY <1>10, <1>14, <1>15 DEF IsWalk
<1> QED BY <1>9, <1>16

LEMMA WalkFair ==
  ASSUME NEW b \in Books, NEW slots \in SUBSET DOMAIN b, NEW excluded, NEW budget \in Nat
  PROVE  Walk(b, slots, excluded, budget) \in Walks(b, budget, slots)
<1>1. PICK walk : /\ Walk(b, slots, excluded, budget) = walk[slots]
                  /\ IsWalk(walk, b, slots, excluded, budget)
  BY WalkSteps
<1>2. \A S \in SUBSET slots : walk[S] \in Walks(b, budget, S)
  BY <1>1 DEF IsWalk
<1> QED BY <1>1, <1>2

----------------------------------------------------------------------------
(* Fills at a price within a budget.                                         *)

Usds(fill) == [i \in DOMAIN fill |-> Usd(fill[i])]

\* Fills that are fair to every bid: none below the price sells at it.
Fills(b, price, budget) ==
  { fill \in [DOMAIN b -> Nat \X Nat] :
      /\ \A i \in DOMAIN b : /\ fill[i] \in Fairly(price, b[i], Usd(b[i]))
                             /\ fill[i] # NoPair => ~Below(b[i], price)
      /\ Spent(fill) <= budget }

LEMMA SpentType ==
  ASSUME NEW b \in Books, NEW fill \in [DOMAIN b -> Nat \X Nat]
  PROVE  /\ Usds(fill) \in [DOMAIN b -> Nat]
         /\ Spent(fill) = Total(Usds(fill), DOMAIN b)
         /\ Spent(fill) \in Nat
<1>1. IsFiniteSet(DOMAIN b) /\ DOMAIN fill = DOMAIN b
  BY BookOf
<1>2. Usds(fill) \in [DOMAIN b -> Nat]
  BY <1>1 DEF Usds, Usd
<1>3. Spent(fill) = Total(Usds(fill), DOMAIN b)
  BY <1>1 DEF Spent, Usds
<1>4. \A i \in DOMAIN b : Usds(fill)[i] \in Nat
  BY <1>2
<1> HIDE DEF Usds
<1> QED BY <1>1, <1>2, <1>3, <1>4, TotalType

LEMMA FairPair ==
  ASSUME NEW price, NEW bid \in Rates, NEW p \in Fairly(price, bid, Usd(bid))
  PROVE  p \in Nat \X Nat /\ Coin(p) \in Nat /\ Usd(p) \in Nat
<1>1. p \in Nat \X Nat
  BY DEF Fairly, Rates, NoPair
<1> QED BY <1>1 DEF Coin, Usd

\* A fill may grow by what is left.
LEMMA FillChange ==
  ASSUME NEW b \in Books, NEW price, NEW budget \in Nat, NEW fill \in Fills(b, price, budget),
         NEW i \in DOMAIN b, ~Below(b[i], price),
         NEW pair \in Fairly(price, b[i], Usd(b[i])),
         Usd(pair) <= Usd(fill[i]) + budget - Spent(fill)
  PROVE  [fill EXCEPT ![i] = pair] \in Fills(b, price, budget)
<1> DEFINE D == DOMAIN b
           g == [fill EXCEPT ![i] = pair]
<1>1. b[i] \in Rates /\ IsFiniteSet(D)
  BY BookOf
<1>2. pair \in Nat \X Nat /\ Usd(pair) \in Nat
  BY <1>1, FairPair
<1>3. fill \in [D -> Nat \X Nat] /\ Spent(fill) <= budget
  BY DEF Fills
<1>4. g \in [D -> Nat \X Nat] /\ g[i] = pair /\ \A j \in D : j # i => g[j] = fill[j]
  BY <1>2, <1>3
<1> HIDE DEF g
<1>5. /\ Usds(fill) \in [D -> Nat] /\ Spent(fill) = Total(Usds(fill), D) /\ Spent(fill) \in Nat
      /\ Usds(g) \in [D -> Nat] /\ Spent(g) = Total(Usds(g), D) /\ Spent(g) \in Nat
  BY <1>3, <1>4, SpentType
<1>6. /\ \A j \in D : j # i => Usds(g)[j] = Usds(fill)[j]
      /\ Usds(g)[i] = Usd(pair) /\ Usds(fill)[i] = Usd(fill[i])
  BY <1>3, <1>4 DEF Usds
<1>7. Total(Usds(g), D) = Total(Usds(fill), D) - Usds(fill)[i] + Usds(g)[i]
  BY <1>1, <1>5, <1>6, TotalChange
<1>8. Usd(fill[i]) \in Nat
  BY <1>5, <1>6
<1>9. Spent(g) <= budget
  BY <1>2, <1>5, <1>6, <1>7, <1>8
<1>10. \A j \in D : /\ g[j] \in Fairly(price, b[j], Usd(b[j]))
                    /\ g[j] # NoPair => ~Below(b[j], price)
  BY <1>4 DEF Fills
<1> QED BY <1>4, <1>9, <1>10 DEF Fills, g

----------------------------------------------------------------------------
(* What the walk comes to at its marginal rate.                              *)

\* What trades, trades at the rate of one of the bids.
Trading(b, slots, budget) ==
  { t \in [marginal : Nat, fill : [DOMAIN b -> Nat \X Nat], failed : SUBSET DOMAIN b] :
      IF t.marginal = NoSlot THEN \A i \in DOMAIN b : t.fill[i] = NoPair
      ELSE t.marginal \in slots /\ t.fill \in Fills(b, b[t.marginal], budget) }

LEMMA MarginalFair ==
  ASSUME NEW b \in Books, NEW slots \in SUBSET DOMAIN b, NEW budget \in Nat,
         NEW w \in Walks(b, budget, slots)
  PROVE  AtMarginal(b, w) \in Trading(b, slots, budget)
<1> DEFINE D == DOMAIN b
           pair(i) == IF w.marginal = NoSlot THEN NoPair
                      ELSE ExecutablePair(w.taken[i], b[w.marginal], b[i])
           fill == [i \in D |-> pair(i)]
           failed == {i \in D : w.taken[i] # 0 /\ pair(i) = NoPair}
           t == AtMarginal(b, w)
<1>1. /\ w.left \in Nat /\ w.marginal \in Nat /\ w.taken \in [D -> Nat]
      /\ w.left + Total(w.taken, D) = budget
      /\ \A i \in D : w.taken[i] <= Usd(b[i]) /\ (w.taken[i] # 0 => i \in slots)
      /\ IF w.marginal = NoSlot THEN \A i \in D : w.taken[i] = 0
         ELSE /\ w.marginal \in slots
              /\ \A i \in D : w.taken[i] # 0 => i = w.marginal \/ Ahead(b, i, w.marginal)
  BY DEF Walks
<1>2. t = [marginal |-> w.marginal, fill |-> fill, failed |-> failed]
  BY DEF AtMarginal
<1>5. failed \in SUBSET D
  OBVIOUS
<1> HIDE DEF failed
<1>6. t.marginal = w.marginal /\ t.fill = fill /\ t.failed = failed
  BY <1>2
<1>3. CASE w.marginal = NoSlot
  <2>1. \A i \in D : pair(i) = NoPair
    BY <1>3
  <2>2. NoPair \in Nat \X Nat
    BY DEF NoPair
  <2>3. fill \in [D -> Nat \X Nat] /\ \A i \in D : fill[i] = NoPair
    BY <2>1, <2>2
  <2> HIDE DEF pair, fill, t
  <2>4. t \in [marginal : Nat, fill : [D -> Nat \X Nat], failed : SUBSET D]
    BY <1>1, <1>2, <1>5, <2>3
  <2>5. t \in Trading(b, slots, budget)
    BY <1>3, <1>6, <2>3, <2>4 DEF Trading
  <2> QED BY <2>5 DEF t
<1>4. CASE w.marginal # NoSlot
  <2> DEFINE price == b[w.marginal]
  <2>1. w.marginal \in D /\ price \in Rates
    BY <1>1, <1>4, BookOf
  <2>2. ASSUME NEW i \in D
        PROVE  /\ pair(i) \in Fairly(price, b[i], Usd(b[i])) /\ pair(i) \in Nat \X Nat
               /\ Usd(pair(i)) <= w.taken[i] /\ Usd(pair(i)) \in Nat
               /\ pair(i) # NoPair => w.taken[i] # 0
    <3>1. w.taken[i] \in Nat /\ w.taken[i] <= Usd(b[i]) /\ b[i] \in Rates /\ Usd(b[i]) \in Nat
      BY <1>1, BookOf, RateLegs
    <3>2. pair(i) = ExecutablePair(w.taken[i], price, b[i])
      BY <1>4
    <3>3. pair(i) \in Fairly(price, b[i], w.taken[i])
      BY <3>1, <3>2, ExecutableFair
    <3> HIDE DEF pair, price
    <3>4. pair(i) \in Fairly(price, b[i], Usd(b[i])) /\ Usd(pair(i)) <= w.taken[i]
      BY <3>1, <3>3, FairWithin
    <3>5. pair(i) # NoPair => Usd(pair(i)) > 0
      BY <3>3, RateLegs DEF Fairly
    <3>6. pair(i) \in Nat \X Nat /\ Usd(pair(i)) \in Nat
      BY <3>1, <3>4, FairPair
    <3> QED BY <3>1, <3>4, <3>5, <3>6
  <2>3. ASSUME NEW i \in D, pair(i) # NoPair PROVE ~Below(b[i], price)
    <3>1. i = w.marginal \/ Ahead(b, i, w.marginal)
      BY <1>1, <1>4, <2>2, <2>3
    <3>2. b[i] \in Rates
      BY BookOf
    <3>3. ~Below(b[i], b[i])
      BY <3>2, RateCases
    <3> QED BY <2>1, <3>1, <3>3, AheadOrder
  <2> HIDE DEF pair
  <2>4. fill \in [D -> Nat \X Nat] /\ \A i \in D : fill[i] = pair(i)
    BY <2>2
  <2> HIDE DEF fill, t
  <2>5. Spent(fill) <= budget
    <3>1. /\ Usds(fill) \in [D -> Nat] /\ Spent(fill) = Total(Usds(fill), D)
          /\ Spent(fill) \in Nat
      BY <2>4, SpentType
    <3>2. \A i \in D : Usds(fill)[i] = Usd(pair(i))
      BY <2>4 DEF Usds
    <3>3. IsFiniteSet(D) /\ \A i \in D : w.taken[i] \in Nat
      BY <1>1, BookOf
    <3>4. \A i \in D : Usds(fill)[i] \in Nat /\ w.taken[i] \in Nat /\ Usds(fill)[i] <= w.taken[i]
      BY <2>2, <3>2, <3>3
    <3>5. Total(Usds(fill), D) <= Total(w.taken, D) /\ Total(w.taken, D) \in Nat
      <4>1. Total(Usds(fill), D) <= Total(w.taken, D)
        BY <3>3, <3>4, TotalMonotone
      <4>2. Total(w.taken, D) \in Nat
        BY <3>3, TotalType
      <4> QED BY <4>1, <4>2
    <3> QED BY <1>1, <3>1, <3>5
  <2>6. fill \in Fills(b, price, budget)
    BY <2>2, <2>3, <2>4, <2>5 DEF Fills
  <2>7. t \in [marginal : Nat, fill : [D -> Nat \X Nat], failed : SUBSET D]
    BY <1>1, <1>2, <1>5, <2>4
  <2>8. t \in Trading(b, slots, budget)
    BY <1>1, <1>4, <1>6, <2>6, <2>7 DEF Trading
  <2> QED BY <2>8 DEF t
<1> QED BY <1>3, <1>4

LEMMA RetriedFair ==
  ASSUME NEW b \in Books, NEW slots \in SUBSET DOMAIN b, NEW budget \in Nat
  PROVE  Retried(b, slots, budget) \in Trading(b, slots, budget)
<1>1. \A excluded : AtMarginal(b, Walk(b, slots, excluded, budget)) \in Trading(b, slots, budget)
  BY WalkFair, MarginalFair
<1>2. \E excluded : Retried(b, slots, budget) = AtMarginal(b, Walk(b, slots, excluded, budget))
  BY DEF Retried
<1> QED BY <1>1, <1>2

\* The search within what is left gives a fair fill.
LEMMA SearchFits ==
  ASSUME NEW bid \in Rates, NEW price \in Rates, NEW budget \in Nat
  PROVE  /\ MaxExecutablePair(budget, price, bid) \in Fairly(price, bid, Usd(bid))
         /\ Usd(MaxExecutablePair(budget, price, bid)) <= budget
<1> DEFINE p == MaxExecutablePair(budget, price, bid)
           max == Least(budget, Usd(bid))
<1>1. max \in Nat /\ max <= budget /\ max <= Usd(bid) /\ Usd(bid) \in Nat
  BY RateLegs DEF Least
<1>2. p \in Fairly(price, bid, max)
  BY MaxExecutableFair
<1> HIDE DEF p, max
<1>3. p \in Fairly(price, bid, Usd(bid)) /\ Usd(p) <= max /\ Usd(p) \in Nat
  BY <1>1, <1>2, FairWithin
<1>4. Usd(p) <= budget
  BY <1>1, <1>3
<1> QED BY <1>3, <1>4 DEF p

\* What rounding left over is offered to one bid after the other: fills[S] are the
\* fills once the bids of S have been offered it.
IsReconciling(fills, b, slots, price, fill, budget) ==
  /\ fills[{}] = fill
  /\ \A S \in SUBSET slots : fills[S] \in Fills(b, price, budget)
  /\ \A S \in SUBSET slots :
       S # {} =>
         LET i == LastOf(b, S)
             f == fills[S \ {i}]
             larger == MaxExecutablePair(Usd(f[i]) + budget - Spent(f), price, b[i])
         IN  fills[S] =
               IF \/ Below(b[i], price)
                  \/ Coin(f[i]) = Coin(b[i])
                  \/ Coin(larger) <= Coin(f[i]) \/ Usd(larger) < Usd(f[i])
               THEN f ELSE [f EXCEPT ![i] = larger]

LEMMA ReconciledSteps ==
  ASSUME NEW b \in Books, NEW slots \in SUBSET DOMAIN b, NEW price \in Rates,
         NEW budget \in Nat, NEW fill \in Fills(b, price, budget)
  PROVE  \E fills : /\ Reconciled(b, slots, price, fill, budget) = fills[slots]
                    /\ IsReconciling(fills, b, slots, price, fill, budget)
<1> DEFINE Y == Fills(b, price, budget)
           X == [S \in SUBSET slots |-> Y]
           last == [S \in SUBSET slots |-> LastOf(b, S)]
           larger(f, i) == MaxExecutablePair(Usd(f[i]) + budget - Spent(f), price, b[i])
           next(f, i) == IF \/ Below(b[i], price)
                            \/ Coin(f[i]) = Coin(b[i])
                            \/ Coin(larger(f, i)) <= Coin(f[i]) \/ Usd(larger(f, i)) < Usd(f[i])
                         THEN f ELSE [f EXCEPT ![i] = larger(f, i)]
           F == [S \in SUBSET slots |-> [f \in Y |-> next(f, last[S])]]
           is(f) == f = [S \in SUBSET slots |->
                           IF S = {} THEN fill
                           ELSE next(f[S \ {LastOf(b, S)}], LastOf(b, S))]
<1>1. IsFiniteSet(slots)
  BY BookOf, FS_Subset
<1>2. \A S \in SUBSET slots : S # {} => last[S] \in S
  BY LastRanks
<1>3. fill \in X[{}]
  OBVIOUS
<1>4. ASSUME NEW i \in DOMAIN b, NEW f \in Y PROVE next(f, i) \in Y
  <2>1. b[i] \in Rates
    BY BookOf
  <2>2. f \in [DOMAIN b -> Nat \X Nat] /\ Spent(f) <= budget
    BY DEF Fills
  <2>3. Spent(f) \in Nat /\ Usd(f[i]) \in Nat
    BY <2>2, SpentType DEF Usd
  <2>4. Usd(f[i]) + budget - Spent(f) \in Nat
    BY <2>2, <2>3
  <2>5. /\ larger(f, i) \in Fairly(price, b[i], Usd(b[i]))
        /\ Usd(larger(f, i)) <= Usd(f[i]) + budget - Spent(f)
    BY <2>1, <2>4, SearchFits
  <2> HIDE DEF larger, Y
  <2>6. CASE Below(b[i], price)
    BY <2>6
  <2>7. CASE ~Below(b[i], price)
    <3>1. [f EXCEPT ![i] = larger(f, i)] \in Y
      BY <2>5, <2>7, FillChange DEF Y
    <3> QED BY <3>1
  <2> QED BY <2>6, <2>7
<1> HIDE DEF next, Y
<1>5. \A S \in SUBSET slots : S # {} => \A f \in X[S \ {last[S]}] : F[S][f] \in X[S]
  <2>1. \A S \in SUBSET slots : S # {} => last[S] \in DOMAIN b
    BY <1>2
  <2> HIDE DEF last
  <2> QED BY <1>4, <2>1
<1>6. PICK f : IsFold(f, slots, last, fill, F) /\ \A S \in SUBSET slots : f[S] \in X[S]
  <2> HIDE DEF F, X, last
  <2> QED BY <1>1, <1>2, <1>3, <1>5, FoldFits
<1>7. is(f)
  <2>1. ASSUME NEW S \in SUBSET slots, S # {}
        PROVE  F[S][f[S \ {last[S]}]] = next(f[S \ {LastOf(b, S)}], LastOf(b, S))
    <3>1. f[S \ {last[S]}] \in X[S \ {last[S]}]
      BY <1>6
    <3>2. f[S \ {last[S]}] \in Y
      BY <3>1
    <3>3. last[S] = LastOf(b, S)
      OBVIOUS
    <3> HIDE DEF X, last
    <3> QED BY <3>2, <3>3
  <2>2. f = [S \in SUBSET slots |-> IF S = {} THEN fill ELSE F[S][f[S \ {last[S]}]]]
    BY <1>6 DEF IsFold
  <2> HIDE DEF F, last
  <2> QED BY <2>1, <2>2
<1> DEFINE g == CHOOSE f1 : is(f1)
<1>8. is(g)
  BY <1>7
<1>9. Reconciled(b, slots, price, fill, budget) = g[slots]
  BY DEF Reconciled, BestFirst, next
<1> HIDE DEF g
<1>10. /\ g[{}] = fill
       /\ \A S \in SUBSET slots : S # {} => g[S] = next(g[S \ {last[S]}], last[S])
  BY <1>8
<1>11. g[{}] \in X[{}]
  BY <1>3, <1>10
<1>12. ASSUME NEW S \in SUBSET slots, S # {}, g[S \ {last[S]}] \in X[S \ {last[S]}]
       PROVE  g[S] \in X[S]
  <2>1. g[S \ {last[S]}] \in Y /\ g[S] = next(g[S \ {last[S]}], last[S])
    BY <1>10, <1>12
  <2>2. last[S] \in DOMAIN b
    BY <1>2, <1>12
  <2> HIDE DEF last
  <2>3. g[S] \in Y
    BY <1>4, <2>1, <2>2
  <2> QED BY <2>3
<1>13. \A S \in SUBSET slots : g[S] \in X[S]
  <2> HIDE DEF X, last
  <2> QED BY <1>1, <1>2, <1>11, <1>12, FoldKeeps
<1>14. ASSUME NEW S \in SUBSET slots, S # {}
       PROVE  LET i == LastOf(b, S)
                  f0 == g[S \ {i}]
                  more == MaxExecutablePair(Usd(f0[i]) + budget - Spent(f0), price, b[i])
              IN  g[S] = IF \/ Below(b[i], price)
                            \/ Coin(f0[i]) = Coin(b[i])
                            \/ Coin(more) <= Coin(f0[i]) \/ Usd(more) < Usd(f0[i])
                         THEN f0 ELSE [f0 EXCEPT ![i] = more]
  <2>1. g[S] = next(g[S \ {LastOf(b, S)}], LastOf(b, S))
    BY <1>10, <1>14
  <2> QED BY <2>1 DEF next
<1>15. \A S \in SUBSET slots : g[S] \in Fills(b, price, budget)
  BY <1>13 DEF Y
<1> HIDE DEF X, last, F
<1>16. IsReconciling(g, b, slots, price, fill, budget)
  BY <1>10, <1>14, <1>15 DEF IsReconciling
<1> QED BY <1>9, <1>16

LEMMA ReconciledFair ==
  ASSUME NEW b \in Books, NEW slots \in SUBSET DOMAIN b, NEW price \in Rates,
         NEW budget \in Nat, NEW fill \in Fills(b, price, budget)
  PROVE  Reconciled(b, slots, price, fill, budget) \in Fills(b, price, budget)
<1>1. PICK fills : /\ Reconciled(b, slots, price, fill, budget) = fills[slots]
                   /\ IsReconciling(fills, b, slots, price, fill, budget)
  BY ReconciledSteps
<1>2. \A S \in SUBSET slots : fills[S] \in Fills(b, price, budget)
  BY <1>1 DEF IsReconciling
<1> QED BY <1>1, <1>2

\* The bids allocated afresh, the fills they start from, and what one of them may spend.
Suffix(b, slots, first) == { i \in slots : i = first \/ Ahead(b, first, i) }

Emptied(b, suffix, fill) == [i \in DOMAIN b |-> IF i \in suffix THEN NoPair ELSE fill[i]]

Available(b, marginal, i, left) ==
  left - (IF Ahead(b, i, marginal) THEN Least(left, Usd(Lot(b[marginal]))) ELSE 0)

\* replay[S] are the fills once the bids of S have been allocated afresh.
IsReplay(replay, b, suffix, marginal, fill, budget) ==
  /\ replay[{}] = Emptied(b, suffix, fill)
  /\ \A S \in SUBSET suffix : replay[S] \in Fills(b, b[marginal], budget)
  /\ \A S \in SUBSET suffix :
       S # {} =>
         LET i == LastOf(b, S)
             f == replay[S \ {i}]
             pair == MaxExecutablePair(Available(b, marginal, i, budget - Spent(f)),
                                       b[marginal], b[i])
         IN  replay[S] = IF Below(b[i], b[marginal]) \/ pair = NoPair THEN f
                         ELSE [f EXCEPT ![i] = pair]

LEMMA ReplayedSteps ==
  ASSUME NEW b \in Books, NEW slots \in SUBSET DOMAIN b, NEW marginal \in DOMAIN b,
         NEW first, NEW budget \in Nat, NEW fill \in Fills(b, b[marginal], budget)
  PROVE  \E replay : /\ Replayed(b, slots, marginal, first, fill, budget)
                          = Better(b, b[marginal], Suffix(b, slots, first), fill,
                                   replay[Suffix(b, slots, first)])
                     /\ IsReplay(replay, b, Suffix(b, slots, first), marginal, fill, budget)
<1> DEFINE price == b[marginal]
           Y == Fills(b, price, budget)
           suffix == { i \in slots : i = first \/ Ahead(b, first, i) }
           empty == [i \in DOMAIN b |-> IF i \in suffix THEN NoPair ELSE fill[i]]
           X == [S \in SUBSET suffix |-> Y]
           last == [S \in SUBSET suffix |-> LastOf(b, S)]
           available(f, i) ==
             budget - Spent(f) - (IF Ahead(b, i, marginal)
                                  THEN Least(budget - Spent(f), Usd(Lot(price))) ELSE 0)
           pair(f, i) == MaxExecutablePair(available(f, i), price, b[i])
           next(f, i) == IF Below(b[i], price) \/ pair(f, i) = NoPair THEN f
                         ELSE [f EXCEPT ![i] = pair(f, i)]
           F == [S \in SUBSET suffix |-> [f \in Y |-> next(f, last[S])]]
           is(f) == f = [S \in SUBSET suffix |->
                           IF S = {} THEN empty
                           ELSE next(f[S \ {LastOf(b, S)}], LastOf(b, S))]
<1>1. IsFiniteSet(suffix) /\ suffix \subseteq DOMAIN b
  BY BookOf, FS_Subset
<1>2. \A S \in SUBSET suffix : S # {} => last[S] \in S /\ last[S] \in DOMAIN b
  BY LastRanks
<1>0. price \in Rates
  BY BookOf
<1>3. empty \in Y
  <2>1. fill \in [DOMAIN b -> Nat \X Nat] /\ Spent(fill) <= budget
    BY DEF Fills
  <2>2. NoPair \in Nat \X Nat /\ Usd(NoPair) = 0
    BY DEF NoPair, Usd
  <2>3. /\ empty \in [DOMAIN b -> Nat \X Nat]
        /\ \A i \in DOMAIN b : empty[i] = NoPair \/ empty[i] = fill[i]
    BY <2>1, <2>2
  <2> HIDE DEF empty, suffix, price
  <2>4. /\ Usds(fill) \in [DOMAIN b -> Nat] /\ Spent(fill) = Total(Usds(fill), DOMAIN b)
        /\ Usds(empty) \in [DOMAIN b -> Nat] /\ Spent(empty) = Total(Usds(empty), DOMAIN b)
        /\ Spent(empty) \in Nat /\ Spent(fill) \in Nat
    BY <2>1, <2>3, SpentType
  <2>5. \A i \in DOMAIN b : Usds(empty)[i] = 0 \/ Usds(empty)[i] = Usds(fill)[i]
    BY <2>1, <2>2, <2>3 DEF Usds
  <2>6. \A i \in DOMAIN b : /\ Usds(empty)[i] \in Nat /\ Usds(fill)[i] \in Nat
                            /\ Usds(empty)[i] <= Usds(fill)[i]
    BY <2>4, <2>5
  <2>7. IsFiniteSet(DOMAIN b)
    BY BookOf
  <2>8. Total(Usds(empty), DOMAIN b) <= Total(Usds(fill), DOMAIN b)
    BY <2>6, <2>7, TotalMonotone
  <2>9. Spent(empty) <= budget
    BY <2>1, <2>4, <2>8
  <2>10. \A i \in DOMAIN b : /\ empty[i] \in Fairly(price, b[i], Usd(b[i]))
                             /\ empty[i] # NoPair => ~Below(b[i], price)
    BY <2>3 DEF Fills, Fairly, price
  <2> QED BY <2>3, <2>9, <2>10 DEF Fills
<1>4. ASSUME NEW i \in DOMAIN b, NEW f \in Y PROVE next(f, i) \in Y
  <2>1. b[i] \in Rates
    BY BookOf
  <2>2. f \in [DOMAIN b -> Nat \X Nat] /\ Spent(f) <= budget
    BY DEF Fills
  <2>3. Spent(f) \in Nat /\ Usd(f[i]) \in Nat
    BY <2>2, SpentType DEF Usd
  <2>4. Usd(Lot(price)) \in Nat
    BY <1>0, LotType, RateLegs
  <2> HIDE DEF price
  <2>5. available(f, i) \in Nat /\ available(f, i) <= budget - Spent(f)
    BY <2>2, <2>3, <2>4 DEF Least
  <2> HIDE DEF available
  <2>6. pair(f, i) \in Fairly(price, b[i], Usd(b[i])) /\ Usd(pair(f, i)) <= available(f, i)
    BY <1>0, <2>1, <2>5, SearchFits
  <2>7. Usd(pair(f, i)) \in Nat
    BY <2>1, <2>6, FairPair
  <2> HIDE DEF pair, Y
  <2>8. Usd(pair(f, i)) <= Usd(f[i]) + budget - Spent(f)
    BY <2>2, <2>3, <2>5, <2>6, <2>7
  <2>9. CASE Below(b[i], price)
    BY <2>9
  <2>10. CASE ~Below(b[i], price)
    <3>1. [f EXCEPT ![i] = pair(f, i)] \in Y
      BY <2>6, <2>8, <2>10, FillChange DEF Y
    <3> QED BY <3>1
  <2> QED BY <2>9, <2>10
<1> HIDE DEF next, Y, suffix
<1>5. \A S \in SUBSET suffix : S # {} => \A f \in X[S \ {last[S]}] : F[S][f] \in X[S]
  <2> HIDE DEF last
  <2> QED BY <1>2, <1>4
<1>6. PICK f : IsFold(f, suffix, last, empty, F) /\ \A S \in SUBSET suffix : f[S] \in X[S]
  <2>1. empty \in X[{}]
    BY <1>3
  <2> HIDE DEF F, X, last, empty
  <2> QED BY <1>1, <1>2, <1>5, <2>1, FoldFits
<1>7. is(f)
  <2>1. ASSUME NEW S \in SUBSET suffix, S # {}
        PROVE  F[S][f[S \ {last[S]}]] = next(f[S \ {LastOf(b, S)}], LastOf(b, S))
    <3>1. f[S \ {last[S]}] \in X[S \ {last[S]}]
      BY <1>6
    <3>2. f[S \ {last[S]}] \in Y
      BY <3>1
    <3>3. last[S] = LastOf(b, S)
      OBVIOUS
    <3> HIDE DEF X, last
    <3> QED BY <3>2, <3>3
  <2>2. f = [S \in SUBSET suffix |-> IF S = {} THEN empty ELSE F[S][f[S \ {last[S]}]]]
    BY <1>6 DEF IsFold
  <2> HIDE DEF F, last, empty
  <2> QED BY <2>1, <2>2
<1> DEFINE g == CHOOSE f1 : is(f1)
<1>8. is(g)
  BY <1>7
<1>9. Replayed(b, slots, marginal, first, fill, budget)
         = Better(b, price, suffix, fill, g[suffix])
  BY DEF Replayed, BestFirst, next, suffix
<1> HIDE DEF g
<1>10. /\ g[{}] = empty
       /\ \A S \in SUBSET suffix : S # {} => g[S] = next(g[S \ {last[S]}], last[S])
  <2> HIDE DEF empty
  <2> QED BY <1>8
<1>11. g[{}] \in X[{}]
  <2> HIDE DEF empty
  <2> QED BY <1>3, <1>10
<1>12. ASSUME NEW S \in SUBSET suffix, S # {}, g[S \ {last[S]}] \in X[S \ {last[S]}]
       PROVE  g[S] \in X[S]
  <2>1. g[S \ {last[S]}] \in Y /\ g[S] = next(g[S \ {last[S]}], last[S])
    BY <1>10, <1>12
  <2>2. last[S] \in DOMAIN b
    BY <1>2, <1>12
  <2> HIDE DEF last
  <2>3. g[S] \in Y
    BY <1>4, <2>1, <2>2
  <2> QED BY <2>3
<1>13. \A S \in SUBSET suffix : g[S] \in X[S]
  <2> HIDE DEF X, last
  <2> QED BY <1>1, <1>2, <1>11, <1>12, FoldKeeps
<1>14. ASSUME NEW S \in SUBSET suffix, S # {}
       PROVE  LET i == LastOf(b, S)
                  f0 == g[S \ {i}]
                  p0 == MaxExecutablePair(Available(b, marginal, i, budget - Spent(f0)),
                                          price, b[i])
              IN  g[S] = IF Below(b[i], price) \/ p0 = NoPair THEN f0
                         ELSE [f0 EXCEPT ![i] = p0]
  <2>1. g[S] = next(g[S \ {LastOf(b, S)}], LastOf(b, S))
    BY <1>10, <1>14
  <2> QED BY <2>1 DEF next, Available
<1>15. \A S \in SUBSET suffix : g[S] \in Fills(b, price, budget)
  BY <1>13 DEF Y
<1>16. suffix = Suffix(b, slots, first)
  BY DEF suffix, Suffix
<1>17. g[{}] = Emptied(b, suffix, fill)
  BY <1>10 DEF Emptied
<1> HIDE DEF X, last, F, empty
<1>18. IsReplay(g, b, suffix, marginal, fill, budget)
  <2>1. \A S \in SUBSET suffix : g[S] \in Fills(b, b[marginal], budget)
    BY <1>15
  <2> QED BY <1>14, <1>17, <2>1 DEF IsReplay
<1>19. Replayed(b, slots, marginal, first, fill, budget)
         = Better(b, b[marginal], suffix, fill, g[suffix])
  BY <1>9
<1> HIDE DEF suffix
<1> QED BY <1>16, <1>18, <1>19

LEMMA ReplayedFair ==
  ASSUME NEW b \in Books, NEW slots \in SUBSET DOMAIN b, NEW marginal \in DOMAIN b,
         NEW first, NEW budget \in Nat, NEW fill \in Fills(b, b[marginal], budget)
  PROVE  Replayed(b, slots, marginal, first, fill, budget) \in Fills(b, b[marginal], budget)
<1> DEFINE suffix == Suffix(b, slots, first)
<1>1. PICK replay : /\ Replayed(b, slots, marginal, first, fill, budget)
                         = Better(b, b[marginal], suffix, fill, replay[suffix])
                    /\ IsReplay(replay, b, suffix, marginal, fill, budget)
  BY ReplayedSteps
<1> HIDE DEF suffix
<1>2. \A S \in SUBSET suffix : replay[S] \in Fills(b, b[marginal], budget)
  BY <1>1 DEF IsReplay
<1>3. suffix \in SUBSET suffix
  OBVIOUS
<1>4. replay[suffix] \in Fills(b, b[marginal], budget)
  BY <1>2, <1>3
<1> QED BY <1>1, <1>4 DEF Better

----------------------------------------------------------------------------
(* The clearing.                                                             *)

\* Clearings of a book: nothing trades, or all at the rate of an eligible bid.
Clearings(b, least, budget) ==
  { c \in [marginal : Nat, fill : [DOMAIN b -> Nat \X Nat]] :
      IF c.marginal = NoSlot THEN \A i \in DOMAIN b : c.fill[i] = NoPair
      ELSE c.marginal \in Eligible(b, least) /\ c.fill \in Fills(b, b[c.marginal], budget) }

LEMMA ClearedFair ==
  ASSUME NEW b \in Books, NEW least, NEW budget \in Nat
  PROVE  Cleared(b, least, budget) \in Clearings(b, least, budget)
<1> DEFINE slots == Eligible(b, least)
           t == Retried(b, slots, budget)
           fill == IF t.marginal = NoSlot THEN t.fill
                   ELSE Improved(b, slots, t.marginal, t.fill, budget)
           c == Cleared(b, least, budget)
<1>1. slots \in SUBSET DOMAIN b
  BY DEF Eligible
<1>2. t \in Trading(b, slots, budget)
  BY <1>1, RetriedFair
<1>3. c = [marginal |-> t.marginal, fill |-> fill]
  BY DEF Cleared
<1> HIDE DEF slots, t
<1>4. /\ t.marginal \in Nat /\ t.fill \in [DOMAIN b -> Nat \X Nat]
      /\ IF t.marginal = NoSlot THEN \A i \in DOMAIN b : t.fill[i] = NoPair
         ELSE t.marginal \in slots /\ t.fill \in Fills(b, b[t.marginal], budget)
  BY <1>2 DEF Trading
<1>5. ASSUME t.marginal # NoSlot PROVE fill \in Fills(b, b[t.marginal], budget)
  <2> DEFINE r == Reconciled(b, slots, b[t.marginal], t.fill, budget)
             s == Skipped(b, slots, t.marginal, r)
  <2>1. t.marginal \in DOMAIN b /\ b[t.marginal] \in Rates
    BY <1>1, <1>4, <1>5, BookOf
  <2>2. r \in Fills(b, b[t.marginal], budget)
    BY <1>1, <1>4, <1>5, <2>1, ReconciledFair
  <2>3. fill \in {r, Replayed(b, slots, t.marginal, FirstOf(b, s), r, budget)}
    BY <1>5 DEF Improved
  <2> HIDE DEF r, s, fill
  <2>4. Replayed(b, slots, t.marginal, FirstOf(b, s), r, budget)
          \in Fills(b, b[t.marginal], budget)
    BY <1>1, <2>1, <2>2, ReplayedFair
  <2> QED BY <2>2, <2>3, <2>4
<1>6. fill \in [DOMAIN b -> Nat \X Nat]
  BY <1>4, <1>5 DEF Fills
<1>7. t.marginal = NoSlot => \A i \in DOMAIN b : fill[i] = NoPair
  BY <1>4
<1> HIDE DEF fill, c
<1>8. c.marginal = t.marginal /\ c.fill = fill
      /\ c \in [marginal : Nat, fill : [DOMAIN b -> Nat \X Nat]]
  BY <1>3, <1>4, <1>6
<1>9. c \in Clearings(b, least, budget)
  BY <1>4, <1>5, <1>7, <1>8 DEF Clearings, slots
<1> QED BY <1>9 DEF c

BookOK == /\ bids \in Books /\ funds \in Nat
          /\ cleared = NotCleared \/ cleared \in Clearings(bids, least_rate, funds)

LEMMA ClearingStarts == ClearingInit => BookOK
<1> SUFFICES ASSUME ClearingInit PROVE BookOK
  OBVIOUS
<1>1. PICK S \in SUBSET BookSlots : bids \in [S -> BookBids]
  BY DEF ClearingInit
<1>2. IsFiniteSet(S) /\ S \subseteq Nat \ {NoSlot} /\ BookBids \subseteq Rates
  BY BookAssumption, FS_Subset DEF Rates
<1>3. bids \in [S -> Rates]
  BY <1>1, <1>2
<1>4. bids \in Books
  BY <1>2, <1>3 DEF Books
<1> QED BY <1>4, BookAssumption DEF ClearingInit, BookOK

LEMMA ClearKeeps == BookOK /\ [Clear]_clearing_vars => BookOK'
<1> SUFFICES ASSUME BookOK, [Clear]_clearing_vars PROVE BookOK'
  OBVIOUS
<1>1. CASE Clear
  <2>1. /\ cleared' \in Clearings(bids, least_rate, funds)
        /\ UNCHANGED <<bids, least_rate, funds>>
    BY <1>1, ClearedFair DEF Clear, BookOK
  <2> QED BY <2>1 DEF BookOK
<1>2. CASE UNCHANGED clearing_vars
  BY <1>2 DEF clearing_vars, BookOK
<1> QED BY <1>1, <1>2

LEMMA FairClearing ==
  ASSUME BookOK
  PROVE  TradesAreFair
<1> SUFFICES ASSUME Filled # {} PROVE TradesAreFair
  BY DEF TradesAreFair
<1> DEFINE D == DOMAIN bids
<1>1. cleared # NotCleared
  BY DEF Filled, NotCleared
<1>2. cleared \in Clearings(bids, least_rate, funds)
  BY <1>1 DEF BookOK
<1>3. /\ cleared.fill \in [D -> Nat \X Nat] /\ cleared.marginal # NoSlot
      /\ cleared.marginal \in Eligible(bids, least_rate)
      /\ cleared.fill \in Fills(bids, Price, funds)
  BY <1>2 DEF Clearings, Filled, Price
<1>4. ~Below(Price, least_rate) /\ Spent(cleared.fill) <= funds
  BY <1>3 DEF Eligible, Price, Fills
<1>5. ASSUME NEW i \in Filled
      PROVE  LET pair == cleared.fill[i]
             IN  /\ Usd(pair) = AtRate(Coin(pair), Price) /\ Usd(pair) > 0
                 /\ ~Below(bids[i], pair)
                 /\ ~Below(bids[i], Price)
                 /\ Coin(pair) <= Coin(bids[i])
  <2> DEFINE pair == cleared.fill[i]
  <2>1. i \in D /\ pair # NoPair /\ bids[i] \in Rates
    BY <1>3, BookOf DEF Filled, BookOK
  <2>2. pair \in Fairly(Price, bids[i], Usd(bids[i])) /\ ~Below(bids[i], Price)
    BY <1>3, <2>1 DEF Fills
  <2> HIDE DEF pair
  <2>3. Coin(pair) <= Coin(bids[i])
    BY <2>1, <2>2, FairFits
  <2>4. Usd(pair) = AtRate(Coin(pair), Price) /\ Usd(pair) > 0 /\ ~Below(bids[i], pair)
    BY <2>1, <2>2, RateLegs DEF Fairly
  <2> QED BY <2>2, <2>3, <2>4 DEF pair
<1> QED BY <1>4, <1>5 DEF TradesAreFair

\* Whatever the book and the budget, all trades are at one price, the rate of an
\* eligible bid rounded to whole atoms, within every bidder's limit and escrow
\* and within the budget (execute, max_executable_integer_pair).
THEOREM TradesAlwaysFair == ClearingSpec => []TradesAreFair
  BY ClearingStarts, ClearKeeps, FairClearing, PTL DEF ClearingSpec

----------------------------------------------------------------------------
(* What a bid takes of a budget can be traded at its own rate, so the        *)
(* marginal bid always trades.                                               *)

\* A rate is so many of its lots.
LEMMA LotScale ==
  ASSUME NEW rate \in Rates
  PROVE  \E d \in Nat : /\ d > 0
                        /\ Coin(rate) = d * Coin(Lot(rate))
                        /\ Usd(rate) = d * Usd(Lot(rate))
<1> DEFINE d == Gcd(Coin(rate), Usd(rate))
           c == Coin(rate)
           u == Usd(rate)
<1>1. c \in Nat /\ c > 0 /\ u \in Nat /\ u > 0
  BY RateLegs
<1>2. d \in 1 .. c /\ c % d = 0 /\ u % d = 0
  BY <1>1, GcdDivides
<1>3. d \in Nat /\ d > 0
  BY <1>1, <1>2
<1>4. Lot(rate) = <<c \div d, u \div d>>
  BY DEF Lot
<1>5. Coin(Lot(rate)) = c \div d /\ Usd(Lot(rate)) = u \div d
  BY <1>4 DEF Coin, Usd
<1> HIDE DEF d, c, u
<1>6. ASSUME NEW x \in Nat, x % d = 0 PROVE x = d * (x \div d)
  BY <1>3, <1>6
<1> QED BY <1>1, <1>2, <1>3, <1>5, <1>6 DEF c, u

\* Whole lots of a bid, as many as it wants, trade at its own rate.
LEMMA LotsTrade ==
  ASSUME NEW bid \in Rates, NEW n \in Nat, NEW k \in Nat, k > 0,
         n <= Usd(bid), k * Usd(Lot(bid)) <= n,
         (n * Coin(bid)) \div Usd(bid) = k * Coin(Lot(bid))
  PROVE  ExecutablePair(n, bid, bid) # NoPair
<1> DEFINE lc == Coin(Lot(bid))
           lu == Usd(Lot(bid))
           C == Coin(bid)
           U == Usd(bid)
<1>1. /\ C \in Nat /\ C > 0 /\ U \in Nat /\ U > 0
      /\ lc \in Nat /\ lc > 0 /\ lu \in Nat /\ lu > 0
  BY LotType, RateLegs
<1>2. PICK d \in Nat : d > 0 /\ C = d * lc /\ U = d * lu
  BY LotScale
<1>3. k * lu <= n /\ n <= U /\ (n * C) \div U = k * lc
  OBVIOUS
<1> DEFINE pair == <<k * lc, AtRate(k * lc, bid)>>
           coin == (n * C) \div U
<1>4. ExecutablePair(n, bid, bid) = IF coin > C THEN NoPair ELSE TryCoin(coin, n, bid, bid)
  BY DEF ExecutablePair
<1>5. AtRate(k * lc, bid) = ((k * lc) * U) \div C
  BY DEF AtRate
<1> HIDE DEF lc, lu, C, U
<1>6. k * lu \in Nat /\ k * lc \in Nat /\ k * lu > 0 /\ k * lc > 0
  <2>1. ASSUME NEW x \in Nat, x > 0 PROVE k * x \in Nat /\ k * x > 0
    BY <2>1
  <2> QED BY <1>1, <2>1
<1>7. k <= d
  <2>1. k * lu <= d * lu
    BY <1>1, <1>2, <1>3, <1>6
  <2>2. ASSUME NEW x \in Nat, x > 0, NEW p \in Nat, NEW q \in Nat, p * x <= q * x
        PROVE  p <= q
    BY <2>2
  <2> QED BY <1>1, <1>2, <2>1, <2>2
<1>8. k * lc <= C
  <2>1. ASSUME NEW x \in Nat, NEW p \in Nat, NEW q \in Nat, p <= q
        PROVE  p * x <= q * x
    BY <2>1
  <2> QED BY <1>1, <1>2, <1>7, <2>1
<1>9. (k * lc) * U = C * (k * lu)
  <2>1. (k * lc) * (d * lu) = (d * lc) * (k * lu)
    BY <1>1, <1>2
  <2> QED BY <1>2, <2>1
<1>10. ((k * lc) * U) \div C = k * lu
  BY <1>1, <1>6, <1>9, QuotientExact
<1>11. pair = <<k * lc, k * lu>>
  BY <1>5, <1>10
<1>12. ~Below(bid, pair)
  <2>1. Below(bid, <<k * lc, k * lu>>) <=> C * (k * lu) < (k * lc) * U
    BY DEF Below, Coin, Usd, C, U
  <2> DEFINE p == C * (k * lu)
  <2>2. p \in Nat
    BY <1>1, <1>6
  <2> HIDE DEF p
  <2>3. ~(p < p)
    BY <2>2
  <2> QED BY <1>9, <1>11, <2>1, <2>3 DEF p
<1>13. coin = k * lc
  BY <1>3
<1>14. Usd(pair) \in 1 .. n
  BY <1>3, <1>6, <1>11 DEF Usd
<1> HIDE DEF coin
<1>15. TryCoin(coin, n, bid, bid) = pair
  BY <1>6, <1>12, <1>13, <1>14 DEF TryCoin
<1>16. pair # NoPair
  <2>1. k * lc # 0
    BY <1>6
  <2> QED BY <1>11, <2>1 DEF NoPair
<1>17. ~(coin > C)
  BY <1>1, <1>6, <1>8, <1>13
<1> QED BY <1>4, <1>15, <1>16, <1>17

\* A bid takes something of what is left just when that buys one of its lots, and
\* what it takes trades at its own rate.
LEMMA NominalTrades ==
  ASSUME NEW bid \in Rates, NEW left \in Nat
  PROVE  /\ Nominal(bid, left) # 0 <=> Usd(Lot(bid)) <= left
         /\ Nominal(bid, left) # 0 => ExecutablePair(Nominal(bid, left), bid, bid) # NoPair
<1> DEFINE lc == Coin(Lot(bid))
           lu == Usd(Lot(bid))
           C == Coin(bid)
           U == Usd(bid)
           n == Least(left, U)
           coin == (n * C) \div U
           q == n \div lu
<1>1. /\ C \in Nat /\ C > 0 /\ U \in Nat /\ U > 0
      /\ lc \in Nat /\ lc > 0 /\ lu \in Nat /\ lu > 0
  BY LotType, RateLegs
<1>2. PICK d \in Nat : d > 0 /\ C = d * lc /\ U = d * lu
  BY LotScale
<1>3. n \in Nat /\ n <= left /\ n <= U /\ (n = left \/ n = U)
  BY <1>1 DEF Least
<1>4. Nominal(bid, left) = IF coin # 0 /\ coin % lc = 0 THEN n ELSE q * lu
  BY DEF Nominal
<1>5. lu <= U
  <2>1. ASSUME NEW x \in Nat, NEW y \in Nat, y > 0 PROVE x <= y * x
    BY <2>1
  <2> QED BY <1>1, <1>2, <2>1
<1> DEFINE nc == n * C
<1>6. nc \in Nat /\ n * lc \in Nat
  BY <1>1, <1>3
<1>7. coin \in Nat /\ U * coin <= nc /\ nc < U * coin + U
  <2> HIDE DEF C, U, n, nc
  <2>1. /\ nc \div U \in Nat
        /\ U * (nc \div U) <= nc
        /\ nc < U * (nc \div U) + U
    BY <1>1, <1>6, Quotient
  <2> QED BY <2>1 DEF nc
<1>8. q \in Nat /\ lu * q <= n /\ n < lu * q + lu
  <2> HIDE DEF lu, n
  <2> QED BY <1>1, <1>3, Quotient
<1> HIDE DEF coin, q
<1>9. nc = d * (n * lc)
  <2> HIDE DEF C, U, n
  <2>1. n * (d * lc) = d * (n * lc)
    BY <1>1, <1>2, <1>3
  <2> QED BY <1>2, <2>1 DEF nc
<1> HIDE DEF lc, lu, C, U, n, nc
<1>10. lu * coin <= n * lc /\ n * lc < lu * coin + lu
  <2> DEFINE x == n * lc
             y == lu * coin
  <2>1. x \in Nat /\ y \in Nat
    BY <1>1, <1>6, <1>7
  <2>2. U * coin = d * y
    <3>1. (d * lu) * coin = d * (lu * coin)
      BY <1>1, <1>7
    <3> QED BY <1>2, <3>1
  <2>3. d * y <= d * x /\ d * x < d * y + d * lu
    BY <1>2, <1>7, <1>9, <2>2
  <2> HIDE DEF x, y
  <2>4. ASSUME NEW a \in Nat, NEW e \in Nat, d * a <= d * e PROVE a <= e
    BY <1>2, <2>4
  <2>5. ASSUME NEW a \in Nat, NEW e \in Nat, d * a < d * e PROVE a < e
    BY <1>2, <2>5
  <2>6. d * (y + lu) = d * y + d * lu /\ y + lu \in Nat
    BY <1>1, <2>1
  <2>7. y <= x /\ x < y + lu
    BY <1>1, <2>1, <2>3, <2>4, <2>5, <2>6
  <2> QED BY <2>7 DEF x, y
<1>11. CASE lu <= left
  <2>1. lu <= n
    BY <1>1, <1>3, <1>5, <1>11
  <2>2. 1 <= q
    <3>1. lu * 1 <= n
      BY <1>1, <2>1
    <3> QED BY <1>1, <1>3, <3>1, QuotientAtLeast DEF q
  <2>3. q * lu \in Nat /\ q * lu > 0 /\ q * lu <= n
    <3>1. ASSUME NEW x \in Nat, NEW y \in Nat, x > 0, y > 0
          PROVE  y * x = x * y /\ x * y > 0 /\ x * y \in Nat
      BY <3>1
    <3> DEFINE p == lu * q
    <3>2. q * lu = p /\ p \in Nat /\ p > 0
      BY <1>1, <1>8, <2>2, <3>1
    <3>3. p <= n
      BY <1>8
    <3> HIDE DEF p
    <3> QED BY <3>2, <3>3
  <2>4. CASE coin # 0 /\ coin % lc = 0
    <3> DEFINE k == coin \div lc
    <3>1. k \in Nat /\ coin = k * lc /\ k > 0
      <4>1. ASSUME NEW x \in Nat, NEW y \in Nat, y > 0, x % y = 0, x # 0
            PROVE  x \div y \in Nat /\ x = (x \div y) * y /\ x \div y > 0
        BY <4>1
      <4> QED BY <1>1, <1>7, <2>4, <4>1
    <3> HIDE DEF k
    <3>2. k * lu <= n
      <4>1. lu * (k * lc) = (k * lu) * lc /\ k * lu \in Nat
        BY <1>1, <3>1
      <4>2. (k * lu) * lc <= n * lc
        BY <1>10, <3>1, <4>1
      <4>3. ASSUME NEW x \in Nat, NEW y \in Nat, x * lc <= y * lc PROVE x <= y
        BY <1>1, <4>3
      <4> QED BY <1>3, <4>1, <4>2, <4>3
    <3>3. Nominal(bid, left) = n /\ n # 0
      BY <1>1, <1>3, <1>4, <2>1, <2>4
    <3>4. ExecutablePair(n, bid, bid) # NoPair
      <4>1. (n * Coin(bid)) \div Usd(bid) = k * Coin(Lot(bid))
        BY <3>1 DEF coin, C, U, lc
      <4>2. n <= Usd(bid) /\ k * Usd(Lot(bid)) <= n
        BY <1>3, <3>2 DEF U, lu
      <4> QED BY <1>3, <3>1, <4>1, <4>2, LotsTrade
    <3> QED BY <1>11, <3>3, <3>4 DEF lu
  <2>5. CASE ~(coin # 0 /\ coin % lc = 0)
    <3> DEFINE m == q * lu
    <3>1. Nominal(bid, left) = m /\ m \in Nat /\ m # 0 /\ m <= n
      BY <1>4, <2>3, <2>5
    <3>2. (m * C) \div U = q * lc
      <4>1. m * C = U * (q * lc)
        <5>1. (q * lu) * (d * lc) = (d * lu) * (q * lc)
          BY <1>1, <1>2, <1>8
        <5> QED BY <1>2, <5>1
      <4>2. q * lc \in Nat
        BY <1>1, <1>8
      <4> QED BY <1>1, <4>1, <4>2, QuotientExact
    <3>3. q * Usd(Lot(bid)) <= m /\ m <= Usd(bid)
      <4>1. m <= m /\ m <= U
        BY <1>1, <1>3, <3>1
      <4> QED BY <4>1 DEF U, lu
    <3> HIDE DEF m
    <3>4. (m * Coin(bid)) \div Usd(bid) = q * Coin(Lot(bid))
      BY <3>2 DEF C, U, lc
    <3>5. ExecutablePair(m, bid, bid) # NoPair
      BY <1>8, <2>2, <3>1, <3>3, <3>4, LotsTrade
    <3> QED BY <1>11, <3>1, <3>5 DEF lu
  <2> QED BY <2>4, <2>5
<1>12. CASE ~(lu <= left)
  <2>1. n < lu
    BY <1>1, <1>3, <1>12
  <2>2. q = 0
    <3>1. n < lu * 0 + lu
      BY <1>1, <2>1
    <3>2. q <= 0
      BY <1>1, <1>3, <3>1, QuotientAtMost DEF q
    <3> QED BY <1>8, <3>2
  <2>3. coin < lc
    <3>1. n * lc < lu * lc
      <4>1. ASSUME NEW x \in Nat, NEW y \in Nat, x < y PROVE x * lc < y * lc
        BY <1>1, <4>1
      <4> QED BY <1>1, <1>3, <2>1, <4>1
    <3>2. lu * coin < lu * lc
      <4> DEFINE x == lu * coin
                 y == n * lc
                 z == lu * lc
      <4>1. x \in Nat /\ y \in Nat /\ z \in Nat
        BY <1>1, <1>6, <1>7
      <4>2. x <= y /\ y < z
        BY <1>10, <3>1
      <4> HIDE DEF x, y, z
      <4>3. x < z
        BY <4>1, <4>2
      <4> QED BY <4>3 DEF x, z
    <3>3. ASSUME NEW x \in Nat, NEW y \in Nat, lu * x < lu * y PROVE x < y
      BY <1>1, <3>3
    <3> QED BY <1>1, <1>7, <3>2, <3>3
  <2>4. ~(coin # 0 /\ coin % lc = 0)
    <3>1. ASSUME NEW x \in Nat, NEW y \in Nat, x < y PROVE x % y = x
      BY <3>1
    <3> QED BY <1>1, <1>7, <2>3, <3>1
  <2>5. Nominal(bid, left) = 0
    <3>1. 0 * lu = 0
      BY <1>1
    <3> QED BY <1>4, <2>2, <2>4, <3>1
  <2> QED BY <1>12, <2>5 DEF lu
<1> QED BY <1>11, <1>12

\* How a walk over the bids of S stands: either nothing was taken, and no bid it may
\* take from has a lot within the budget; or its marginal bid, one of them, took what
\* it wanted of something within the budget.
Stands(b, excluded, budget, S, w) ==
  IF w.marginal = NoSlot
  THEN w.left = budget /\ \A i \in S \ excluded : ~(Usd(Lot(b[i])) <= budget)
  ELSE /\ w.marginal \in S \ excluded
       /\ w.taken[w.marginal] # 0
       /\ \E left \in 0 .. budget : w.taken[w.marginal] = Nominal(b[w.marginal], left)

LEMMA WalkStands ==
  ASSUME NEW b \in Books, NEW slots \in SUBSET DOMAIN b, NEW excluded, NEW budget \in Nat
  PROVE  Stands(b, excluded, budget, slots, Walk(b, slots, excluded, budget))
<1> DEFINE D == DOMAIN b
           last == [S \in SUBSET slots |-> LastOf(b, S)]
           X == [S \in SUBSET slots |-> {w \in Walks(b, budget, S) :
                                           Stands(b, excluded, budget, S, w)}]
<1>1. PICK walk : /\ Walk(b, slots, excluded, budget) = walk[slots]
                  /\ IsWalk(walk, b, slots, excluded, budget)
  BY WalkSteps
<1>2. IsFiniteSet(slots) /\ IsFiniteSet(D)
  BY BookOf, FS_Subset
<1>3. \A S \in SUBSET slots : S # {} => last[S] \in S
  BY LastRanks
<1>4. \A S \in SUBSET slots : walk[S] \in Walks(b, budget, S)
  BY <1>1 DEF IsWalk
<1>5. walk[{}] \in X[{}]
  <2>1. walk[{}] = [left |-> budget, marginal |-> NoSlot, taken |-> [i \in D |-> 0]]
    BY <1>1 DEF IsWalk
  <2>2. Stands(b, excluded, budget, {}, walk[{}])
    BY <2>1 DEF Stands
  <2> QED BY <1>4, <2>2
<1>6. ASSUME NEW S \in SUBSET slots, S # {}, walk[S \ {last[S]}] \in X[S \ {last[S]}]
      PROVE  walk[S] \in X[S]
  <2> DEFINE i == LastOf(b, S)
             w == walk[S \ {i}]
             usd == IF i \in excluded THEN 0 ELSE Nominal(b[i], w.left)
  <2>1. i = last[S] /\ i \in S /\ i \in D
    BY <1>3, <1>6
  <2>2. walk[S] = Take(w, i, usd)
    <3>1. \A T \in SUBSET slots :
            T # {} =>
              LET j == LastOf(b, T)
                  v == walk[T \ {j}]
              IN  walk[T] = Take(v, j, IF j \in excluded THEN 0 ELSE Nominal(b[j], v.left))
      BY <1>1 DEF IsWalk
    <3> QED BY <1>6, <3>1
  <2>3. w \in Walks(b, budget, S \ {i}) /\ Stands(b, excluded, budget, S \ {i}, w)
    <3>1. w \in X[S \ {i}]
      BY <1>6, <2>1
    <3> HIDE DEF w, i
    <3> QED BY <3>1
  <2>4. w.left \in Nat /\ w.left <= budget /\ w.taken \in [D -> Nat]
    <3>1. /\ w.left \in Nat /\ w.taken \in [D -> Nat]
          /\ w.left + Total(w.taken, D) = budget
      BY <2>3 DEF Walks
    <3>2. Total(w.taken, D) \in Nat
      BY <1>2, <3>1, TotalType
    <3>3. ASSUME NEW x \in Nat, NEW y \in Nat, x + y = budget PROVE x <= budget
      BY <3>3
    <3> QED BY <3>1, <3>2, <3>3
  <2>5. b[i] \in Rates
    BY <2>1, BookOf
  <2>6. i # NoSlot
    BY <2>1, BookOf DEF NoSlot
  <2> HIDE DEF w, i, last
  <2>7. CASE usd # 0
    <3> DEFINE v == [left |-> w.left - usd, marginal |-> i, taken |-> [w.taken EXCEPT ![i] = usd]]
    <3>1. Take(w, i, usd) = v
      BY <2>7 DEF Take
    <3>2. v.marginal = i /\ v.taken[i] = usd
      BY <2>1, <2>4
    <3>3. i \notin excluded /\ usd = Nominal(b[i], w.left)
      BY <2>7
    <3>4. w.left \in 0 .. budget
      BY <2>4
    <3> HIDE DEF v, usd
    <3>5. Stands(b, excluded, budget, S, v)
      BY <2>1, <2>6, <2>7, <3>2, <3>3, <3>4 DEF Stands
    <3> QED BY <1>4, <2>2, <3>1, <3>5
  <2>8. CASE usd = 0
    <3>1. walk[S] = w
      BY <2>2, <2>8 DEF Take
    <3>2. CASE w.marginal # NoSlot
      <4>1. Stands(b, excluded, budget, S, w)
        BY <2>3, <3>2 DEF Stands
      <4> QED BY <1>4, <3>1, <4>1
    <3>3. CASE w.marginal = NoSlot
      <4>1. w.left = budget /\ \A k \in (S \ {i}) \ excluded : ~(Usd(Lot(b[k])) <= budget)
        BY <2>3, <3>3 DEF Stands
      <4>2. i \notin excluded => ~(Usd(Lot(b[i])) <= budget)
        <5>1. i \notin excluded => Nominal(b[i], budget) = 0
          BY <2>8, <4>1
        <5> QED BY <2>5, <5>1, NominalTrades
      <4>3. Stands(b, excluded, budget, S, w)
        BY <3>3, <4>1, <4>2 DEF Stands
      <4> QED BY <1>4, <3>1, <4>3
    <3> QED BY <3>2, <3>3
  <2> QED BY <2>7, <2>8
<1>7. \A S \in SUBSET slots : walk[S] \in X[S]
  <2> HIDE DEF X, last
  <2> QED BY <1>2, <1>3, <1>5, <1>6, FoldKeeps
<1>8. slots \in SUBSET slots
  OBVIOUS
<1> QED BY <1>1, <1>7, <1>8

\* The marginal bid of a walk trades, and a walk finds one if it may take from a bid
\* with a lot within the budget.
LEMMA MarginalTrades ==
  ASSUME NEW b \in Books, NEW slots \in SUBSET DOMAIN b, NEW excluded, NEW budget \in Nat
  PROVE  LET t == AtMarginal(b, Walk(b, slots, excluded, budget))
         IN  IF t.marginal = NoSlot
             THEN \A i \in slots \ excluded : ~(Usd(Lot(b[i])) <= budget)
             ELSE /\ t.marginal \in slots \ (excluded \cup t.failed)
                  /\ t.fill[t.marginal] # NoPair
                  /\ Usd(Lot(b[t.marginal])) <= budget
<1> DEFINE w == Walk(b, slots, excluded, budget)
           t == AtMarginal(b, w)
           m == w.marginal
           pair(i) == IF w.marginal = NoSlot THEN NoPair
                      ELSE ExecutablePair(w.taken[i], b[w.marginal], b[i])
<1>1. Stands(b, excluded, budget, slots, w)
  BY WalkStands
<1>2. /\ t.marginal = m
      /\ t.fill = [i \in DOMAIN b |-> pair(i)]
      /\ t.failed = {i \in DOMAIN b : w.taken[i] # 0 /\ pair(i) = NoPair}
  BY DEF AtMarginal
<1> HIDE DEF t
<1>3. CASE m = NoSlot
  <2>1. \A i \in slots \ excluded : ~(Usd(Lot(b[i])) <= budget)
    BY <1>1, <1>3 DEF Stands
  <2> QED BY <1>2, <1>3, <2>1 DEF t
<1>4. CASE m # NoSlot
  <2>1. /\ m \in slots \ excluded
        /\ w.taken[m] # 0
        /\ \E left \in 0 .. budget : w.taken[m] = Nominal(b[m], left)
    BY <1>1, <1>4 DEF Stands
  <2>2. PICK left \in 0 .. budget : w.taken[m] = Nominal(b[m], left)
    BY <2>1
  <2>3. left \in Nat /\ left <= budget /\ m \in DOMAIN b /\ b[m] \in Rates
    BY <2>1, BookOf
  <2>4. Usd(Lot(b[m])) <= left /\ ExecutablePair(w.taken[m], b[m], b[m]) # NoPair
    BY <2>1, <2>2, <2>3, NominalTrades
  <2>5. pair(m) # NoPair
    BY <1>4, <2>4
  <2>6. Usd(Lot(b[m])) <= budget
    <3>1. Usd(Lot(b[m])) \in Nat
      BY <2>3, LotType, RateLegs
    <3> QED BY <2>3, <2>4, <3>1
  <2> HIDE DEF w
  <2>7. t.fill[m] # NoPair /\ m \notin t.failed
    BY <1>2, <2>3, <2>5
  <2> QED BY <1>2, <1>4, <2>1, <2>6, <2>7 DEF t, w
<1> QED BY <1>3, <1>4

\* Leaving out the bids that cannot trade never leaves out the last one that can: the
\* round trades just when some bid has a lot within the budget.
LEMMA RetriedTrades ==
  ASSUME NEW b \in Books, NEW slots \in SUBSET DOMAIN b, NEW budget \in Nat
  PROVE  LET t == Retried(b, slots, budget)
         IN  /\ t.marginal # NoSlot <=> \E i \in slots : Usd(Lot(b[i])) <= budget
             /\ t.marginal # NoSlot => t.marginal \in slots /\ t.fill[t.marginal] # NoPair
<1> DEFINE D == DOMAIN b
           n == Cardinality(slots)
           Trades(excluded) == AtMarginal(b, Walk(b, slots, excluded, budget))
           further(excluded) == excluded \cup Trades(excluded).failed
           is(f) == f = [tries \in 0 .. n |-> IF tries = 0 THEN {} ELSE further(f[tries - 1])]
           F == [k \in 1 .. n |-> [excluded \in SUBSET D |-> further(excluded)]]
           fits(i) == Usd(Lot(b[i])) <= budget
           P == {excluded \in SUBSET D : \E i \in slots \ excluded : fits(i)}
           t == Retried(b, slots, budget)
<1>1. n \in Nat
  BY BookOf, FS_Subset, FS_CardinalityType
<1>2. ASSUME NEW excluded \in SUBSET D PROVE further(excluded) \in SUBSET D
  BY DEF AtMarginal
<1>3. ASSUME NEW excluded
      PROVE  IF Trades(excluded).marginal = NoSlot
             THEN \A i \in slots \ excluded : ~fits(i)
             ELSE /\ Trades(excluded).marginal \in slots \ (excluded \cup Trades(excluded).failed)
                  /\ Trades(excluded).fill[Trades(excluded).marginal] # NoPair
                  /\ fits(Trades(excluded).marginal)
  BY MarginalTrades
<1> HIDE DEF Trades, fits
<1>4. \E f : is(f)
  <2>1. {} \in SUBSET D /\ \A k \in 1 .. n : \A x \in SUBSET D : F[k][x] \in SUBSET D
    BY <1>2
  <2>2. PICK f : IsCount(f, n, {}, F) /\ \A k \in 0 .. n : f[k] \in SUBSET D
    <3> HIDE DEF F, D, n
    <3> QED BY <1>1, <2>1, CountFits
  <2>3. f = [k \in 0 .. n |-> IF k = 0 THEN {} ELSE F[k][f[k - 1]]]
    BY <2>2 DEF IsCount
  <2>4. ASSUME NEW k \in 0 .. n, k # 0 PROVE F[k][f[k - 1]] = further(f[k - 1])
    <3>1. k \in 1 .. n /\ k - 1 \in 0 .. n
      BY <1>1, <2>4
    <3>2. f[k - 1] \in SUBSET D
      BY <2>2, <3>1
    <3> HIDE DEF further, D
    <3> QED BY <3>1, <3>2
  <2> HIDE DEF F, further
  <2>5. is(f)
    BY <2>3, <2>4
  <2> QED BY <2>5
<1> DEFINE g == CHOOSE f : is(f)
<1>5. is(g)
  BY <1>4
<1>6. t = Trades(g[n])
  BY DEF Retried, Trades
<1> HIDE DEF g, t
<1>7. n \in 0 .. n
  BY <1>1
<1>8. ASSUME \E i \in slots : fits(i) PROVE g[n] \in P
  <2>1. g[0] \in P
    <3>1. g[0] = {}
      BY <1>1, <1>5
    <3> QED BY <1>8, <3>1
  <2>2. ASSUME NEW k \in 1 .. n, g[k - 1] \in P PROVE g[k] \in P
    <3>1. k \in 0 .. n /\ k # 0
      OBVIOUS
    <3>2. g[k] = further(g[k - 1])
      <4> HIDE DEF further
      <4> QED BY <1>5, <3>1
    <3>3. g[k] \in SUBSET D
      BY <1>2, <2>2, <3>2
    <3> DEFINE x == g[k - 1]
    <3>4. Trades(x).marginal # NoSlot
      BY <1>3, <2>2
    <3>5. Trades(x).marginal \in slots \ further(x) /\ fits(Trades(x).marginal)
      BY <1>3, <3>4
    <3> HIDE DEF further
    <3> QED BY <3>2, <3>3, <3>5
  <2> HIDE DEF P, n, further
  <2>3. \A k \in 0 .. n : g[k] \in P
    BY <1>1, <2>1, <2>2, CountKeeps
  <2> QED BY <1>7, <2>3
<1>9. (\E i \in slots : fits(i)) => t.marginal # NoSlot
  BY <1>3, <1>6, <1>8
<1>10. t.marginal # NoSlot => /\ t.marginal \in slots /\ t.fill[t.marginal] # NoPair
                              /\ fits(t.marginal)
  BY <1>3, <1>6
<1>11. /\ t.marginal # NoSlot <=> \E i \in slots : fits(i)
       /\ t.marginal # NoSlot => t.marginal \in slots /\ t.fill[t.marginal] # NoPair
  BY <1>9, <1>10
<1> QED BY <1>11 DEF t, fits

\* Enlarging fills unfills none.
LEMMA ReconciledTrades ==
  ASSUME NEW b \in Books, NEW slots \in SUBSET DOMAIN b, NEW price \in Rates,
         NEW budget \in Nat, NEW fill \in Fills(b, price, budget),
         NEW m \in DOMAIN b, fill[m] # NoPair
  PROVE  Reconciled(b, slots, price, fill, budget)[m] # NoPair
<1> DEFINE last == [S \in SUBSET slots |-> LastOf(b, S)]
           Y == {f \in Fills(b, price, budget) : f[m] # NoPair}
           X == [S \in SUBSET slots |-> Y]
<1>1. PICK fills : /\ Reconciled(b, slots, price, fill, budget) = fills[slots]
                   /\ IsReconciling(fills, b, slots, price, fill, budget)
  BY ReconciledSteps
<1>2. IsFiniteSet(slots)
  BY BookOf, FS_Subset
<1>3. \A S \in SUBSET slots : S # {} => last[S] \in S
  BY LastRanks
<1>4. \A S \in SUBSET slots : fills[S] \in Fills(b, price, budget)
  BY <1>1 DEF IsReconciling
<1>5. fills[{}] \in X[{}]
  <2>1. fills[{}] = fill
    BY <1>1 DEF IsReconciling
  <2> QED BY <2>1
<1>6. ASSUME NEW S \in SUBSET slots, S # {}, fills[S \ {last[S]}] \in X[S \ {last[S]}]
      PROVE  fills[S] \in X[S]
  <2> DEFINE i == LastOf(b, S)
             f == fills[S \ {i}]
             larger == MaxExecutablePair(Usd(f[i]) + budget - Spent(f), price, b[i])
             kept == \/ Below(b[i], price)
                     \/ Coin(f[i]) = Coin(b[i])
                     \/ Coin(larger) <= Coin(f[i]) \/ Usd(larger) < Usd(f[i])
  <2>1. i = last[S] /\ i \in DOMAIN b
    BY <1>3, <1>6
  <2>2. fills[S] = IF kept THEN f ELSE [f EXCEPT ![i] = larger]
    <3>1. \A T \in SUBSET slots :
            T # {} =>
              LET j == LastOf(b, T)
                  h == fills[T \ {j}]
                  more == MaxExecutablePair(Usd(h[j]) + budget - Spent(h), price, b[j])
              IN  fills[T] =
                    IF \/ Below(b[j], price)
                       \/ Coin(h[j]) = Coin(b[j])
                       \/ Coin(more) <= Coin(h[j]) \/ Usd(more) < Usd(h[j])
                    THEN h ELSE [h EXCEPT ![j] = more]
      BY <1>1 DEF IsReconciling
    <3> QED BY <1>6, <3>1
  <2>3. f \in Y
    <3> HIDE DEF Y
    <3>1. X[S \ {i}] = Y
      OBVIOUS
    <3> HIDE DEF X
    <3> QED BY <1>6, <2>1, <3>1
  <2>4. f \in [DOMAIN b -> Nat \X Nat] /\ f[m] # NoPair
    BY <2>3 DEF Fills
  <2>5. ~kept => larger # NoPair
    <3>1. Coin(f[i]) \in Nat
      BY <2>1, <2>4 DEF Coin
    <3> HIDE DEF f, larger
    <3>2. ~kept => Coin(larger) > Coin(f[i])
      <4>1. larger \in Fairly(price, b[i], Usd(b[i]))
        <5>1. b[i] \in Rates
          BY <2>1, BookOf
        <5>2. Usd(f[i]) + budget - Spent(f) \in Nat
          <6>1. Spent(f) \in Nat /\ Usd(f[i]) \in Nat
            BY <2>1, <2>4, SpentType DEF Usd
          <6>2. Spent(f) <= budget
            BY <2>3 DEF Fills
          <6> QED BY <6>1, <6>2
        <5> QED BY <5>1, <5>2, SearchFits DEF larger
      <4>2. Coin(larger) \in Nat
        <5>1. b[i] \in Rates
          BY <2>1, BookOf
        <5> QED BY <4>1, <5>1, FairPair
      <4> QED BY <3>1, <4>2
    <3>3. Coin(NoPair) = 0
      BY DEF Coin, NoPair
    <3> QED BY <3>1, <3>2, <3>3
  <2> HIDE DEF kept, larger, f, i
  <2>6. fills[S][m] # NoPair
    BY <2>1, <2>2, <2>4, <2>5
  <2> QED BY <1>4, <2>6
<1>7. \A S \in SUBSET slots : fills[S] \in X[S]
  <2> HIDE DEF X, last
  <2> QED BY <1>2, <1>3, <1>5, <1>6, FoldKeeps
<1>8. slots \in SUBSET slots
  OBVIOUS
<1> QED BY <1>1, <1>7, <1>8

\* Nor does allocating afresh leave all bids unfilled: it counts only if it buys from
\* a bid at the price.
LEMMA ImprovedTrades ==
  ASSUME NEW b \in Books, NEW slots \in SUBSET DOMAIN b, NEW marginal \in slots,
         NEW budget \in Nat, NEW fill \in Fills(b, b[marginal], budget),
         fill[marginal] # NoPair
  PROVE  \E i \in DOMAIN b : Improved(b, slots, marginal, fill, budget)[i] # NoPair
<1> DEFINE r == Reconciled(b, slots, b[marginal], fill, budget)
           s == Skipped(b, slots, marginal, r)
           first == FirstOf(b, s)
           suffix == Suffix(b, slots, first)
<1>1. r[marginal] # NoPair
  BY BookOf, ReconciledTrades
<1>2. r \in Fills(b, b[marginal], budget)
  BY BookOf, ReconciledFair
<1>3. Improved(b, slots, marginal, fill, budget)
        \in {r, Replayed(b, slots, marginal, first, r, budget)}
  BY DEF Improved
<1> HIDE DEF r, s, first
<1>4. PICK replay : Replayed(b, slots, marginal, first, r, budget)
                      = Better(b, b[marginal], suffix, r, replay[suffix])
  BY <1>2, ReplayedSteps
<1>5. suffix \in SUBSET DOMAIN b
  BY DEF Suffix
<1> HIDE DEF suffix
<1>6. \/ Better(b, b[marginal], suffix, r, replay[suffix]) = r
      \/ /\ Better(b, b[marginal], suffix, r, replay[suffix]) = replay[suffix]
         /\ \E i \in suffix : replay[suffix][i] # NoPair
  BY DEF Better
<1> QED BY <1>1, <1>3, <1>4, <1>5, <1>6

\* A round trades just when an eligible bid has a lot within the budget.
LEMMA ClearedTrades ==
  ASSUME NEW b \in Books, NEW least, NEW budget \in Nat
  PROVE  (\E i \in DOMAIN b : Cleared(b, least, budget).fill[i] # NoPair)
           <=> \E i \in Eligible(b, least) : Usd(Lot(b[i])) <= budget
<1> DEFINE slots == Eligible(b, least)
           t == Retried(b, slots, budget)
           fill == IF t.marginal = NoSlot THEN t.fill
                   ELSE Improved(b, slots, t.marginal, t.fill, budget)
<1>1. slots \in SUBSET DOMAIN b
  BY DEF Eligible
<1>2. /\ t.marginal # NoSlot <=> \E i \in slots : Usd(Lot(b[i])) <= budget
      /\ t.marginal # NoSlot => t.marginal \in slots /\ t.fill[t.marginal] # NoPair
  BY <1>1, RetriedTrades
<1>3. t \in Trading(b, slots, budget)
  BY <1>1, RetriedFair
<1>4. IF t.marginal = NoSlot THEN \A i \in DOMAIN b : t.fill[i] = NoPair
      ELSE t.marginal \in slots /\ t.fill \in Fills(b, b[t.marginal], budget)
  BY <1>3 DEF Trading
<1>5. Cleared(b, least, budget).fill = fill
  BY DEF Cleared
<1> HIDE DEF slots, t
<1>6. t.marginal # NoSlot => \E i \in DOMAIN b : fill[i] # NoPair
  BY <1>1, <1>2, <1>4, ImprovedTrades
<1>7. t.marginal = NoSlot => \A i \in DOMAIN b : fill[i] = NoPair
  BY <1>4
<1> HIDE DEF fill
<1> QED BY <1>2, <1>5, <1>6, <1>7 DEF slots

\* The book is as it was when it was cleared, and so is the clearing.
ClearedOnce ==
  BookOK /\ (cleared = NotCleared \/ cleared = Cleared(bids, least_rate, funds))

LEMMA ExecutableTrade ==
  ASSUME ClearedOnce
  PROVE  ExecutableBidsTrade
<1> SUFFICES ASSUME cleared # NotCleared PROVE ExecutableBidsTrade
  BY DEF ExecutableBidsTrade
<1>1. bids \in Books /\ funds \in Nat /\ cleared = Cleared(bids, least_rate, funds)
  BY DEF ClearedOnce, BookOK
<1>2. DOMAIN cleared.fill = DOMAIN bids
  <2>1. cleared.fill \in [DOMAIN bids -> Nat \X Nat]
    BY <1>1, ClearedFair DEF Clearings
  <2> QED BY <2>1
<1>3. Filled # {} <=> \E i \in Eligible(bids, least_rate) : Usd(Lot(bids[i])) <= funds
  BY <1>1, <1>2, ClearedTrades DEF Filled
<1>4. ASSUME NEW i \in Eligible(bids, least_rate)
      PROVE  Usd(Lot(bids[i])) <= funds <=> Usd(Lot(bids[i])) <= Least(funds, Usd(bids[i]))
  <2>1. bids[i] \in Rates
    BY <1>1, BookOf DEF Eligible
  <2>2. /\ Usd(Lot(bids[i])) \in Nat /\ Usd(bids[i]) \in Nat
        /\ Usd(Lot(bids[i])) <= Usd(bids[i])
    <3>1. Usd(Lot(bids[i])) \in Nat /\ Usd(bids[i]) \in Nat
      BY <2>1, LotType, RateLegs
    <3>2. \E d \in Nat : d > 0 /\ Usd(bids[i]) = d * Usd(Lot(bids[i]))
      BY <2>1, LotScale
    <3>3. ASSUME NEW x \in Nat, NEW y \in Nat, NEW d \in Nat, d > 0, y = d * x
          PROVE  x <= y
      BY <3>3
    <3> QED BY <3>1, <3>2, <3>3
  <2> QED BY <1>1, <2>2 DEF Least
<1> QED BY <1>3, <1>4 DEF ExecutableBidsTrade

\* Whatever the book, the reserve rate and the budget, the round trades exactly when
\* one eligible bid has a whole lot within the budget: neither the bids left out
\* because they cannot trade at the marginal rate, nor the fills enlarged or
\* allocated afresh, ever leave a round that could trade without a trade (execute).
THEOREM ExecutableBidsAlwaysTrade == ClearingSpec => []ExecutableBidsTrade
<1>1. ClearingInit => ClearedOnce
  BY ClearingStarts DEF ClearingInit, ClearedOnce
<1>2. ClearedOnce /\ [Clear]_clearing_vars => ClearedOnce'
  <2> SUFFICES ASSUME ClearedOnce, [Clear]_clearing_vars PROVE ClearedOnce'
    OBVIOUS
  <2>1. BookOK'
    BY ClearKeeps DEF ClearedOnce
  <2>2. CASE Clear
    BY <2>1, <2>2 DEF Clear, ClearedOnce
  <2>3. CASE UNCHANGED clearing_vars
    BY <2>1, <2>3 DEF clearing_vars, ClearedOnce, NotCleared
  <2> QED BY <2>2, <2>3
<1> QED BY <1>1, <1>2, ExecutableTrade, PTL DEF ClearingSpec

----------------------------------------------------------------------------
(* Fractions in lowest terms, and their parents in the Stern-Brocot tree.    *)

\* What is left of an interval that holds no whole number.
Beyond(i) ==
  LET term == Coin(i[1]) \div Usd(i[1])
  IN  << <<Usd(i[2]), Coin(i[2]) - term * Usd(i[2])>>, <<Usd(i[1]), Coin(i[1]) % Usd(i[1])>> >>

HasWhole(i) ==
  \/ Coin(i[1]) % Usd(i[1]) = 0
  \/ Coin(i[2]) >= (Coin(i[1]) \div Usd(i[1]) + 1) * Usd(i[2])

Width(i) == Usd(i[1]) + Usd(i[2])

LEMMA IntervalsNarrow ==
  ASSUME NEW i \in Intervals, ~HasWhole(i)
  PROVE  Beyond(i) \in Intervals /\ Width(Beyond(i)) < Width(i)
<1> DEFINE ln == Coin(i[1])
           ld == Usd(i[1])
           un == Coin(i[2])
           ud == Usd(i[2])
           t == ln \div ld
           r == ln % ld
           q == un - t * ud
<1>1. i[1] \in Rates /\ i[2] \in Rates /\ ~Below(i[2], i[1])
  BY DEF Intervals
<1>2. /\ ln \in Nat /\ ln > 0 /\ ld \in Nat /\ ld > 0
      /\ un \in Nat /\ un > 0 /\ ud \in Nat /\ ud > 0
  BY <1>1, RateLegs
<1>3. ~(un * ld < ln * ud)
  BY <1>1 DEF Below
<1>4. r # 0 /\ ~(un >= (t + 1) * ud)
  BY DEF HasWhole
<1>5. Beyond(i) = << <<ud, q>>, <<ld, r>> >>
  BY DEF Beyond
<1>6. Width(i) = ld + ud
  BY DEF Width
<1> HIDE DEF ln, ld, un, ud
<1>7. t \in Nat /\ r \in Nat /\ r < ld /\ ln = t * ld + r
  BY <1>2
<1> HIDE DEF t, r
<1>8. (t + 1) * ud = t * ud + ud /\ t * ud \in Nat
  BY <1>2, <1>7
<1>9. q \in Int /\ un = t * ud + q /\ q < ud
  BY <1>2, <1>4, <1>8
<1>10. r * ud <= q * ld
  <2>1. (t * ld + r) * ud = t * ld * ud + r * ud
    BY <1>2, <1>7
  <2>2. (t * ud + q) * ld = t * ld * ud + q * ld
    BY <1>2, <1>7, <1>9
  <2> DEFINE x == t * ld * ud
             y == r * ud
             z == q * ld
  <2>3. x \in Int /\ y \in Int /\ z \in Int
    BY <1>2, <1>7, <1>9
  <2>4. ~(x + z < x + y)
    BY <1>3, <1>7, <1>9, <2>1, <2>2
  <2> HIDE DEF x, y, z
  <2>5. y <= z
    BY <2>3, <2>4
  <2> QED BY <2>5 DEF y, z
<1>11. q > 0
  <2>1. r * ud > 0
    <3>1. ASSUME NEW a \in Nat, NEW c \in Nat, a > 0, c > 0 PROVE a * c > 0
      BY <3>1
    <3> QED BY <1>2, <1>4, <1>7, <3>1
  <2>2. ASSUME q <= 0 PROVE q * ld <= 0
    BY <1>2, <1>9, <2>2
  <2> DEFINE y == r * ud
             z == q * ld
  <2>3. y \in Int /\ z \in Int
    BY <1>2, <1>7, <1>9
  <2>4. y > 0 /\ y <= z /\ (q <= 0 => z <= 0)
    BY <1>10, <2>1, <2>2
  <2> HIDE DEF y, z
  <2> QED BY <1>9, <2>3, <2>4
<1> HIDE DEF q
<1>12. <<ud, q>> \in Rates /\ <<ld, r>> \in Rates
  BY <1>2, <1>4, <1>7, <1>9, <1>11 DEF Rates
<1>13. ~Below(<<ld, r>>, <<ud, q>>)
  <2>1. Below(<<ld, r>>, <<ud, q>>) <=> ld * q < ud * r
    BY DEF Below, Coin, Usd
  <2>2. ld * q = q * ld /\ ud * r = r * ud
    BY <1>2, <1>7, <1>9
  <2> DEFINE y == r * ud
             z == q * ld
  <2>3. y \in Int /\ z \in Int /\ y <= z
    BY <1>2, <1>7, <1>9, <1>10
  <2> HIDE DEF y, z
  <2>4. ~(z < y)
    BY <2>3
  <2> QED BY <2>1, <2>2, <2>4 DEF y, z
<1>14. Beyond(i) \in Intervals
  BY <1>5, <1>12, <1>13 DEF Intervals
<1>15. Width(Beyond(i)) = q + r
  BY <1>5 DEF Width, Usd
<1>16. q + r < ld + ud
  BY <1>2, <1>7, <1>9
<1> QED BY <1>6, <1>14, <1>15, <1>16

\* A fraction and the convergent before it.
Convergent == [last : Nat \X Nat, before : Nat \X Nat]

Extended(term, c) ==
  [last   |-> <<term * Coin(c.last) + Usd(c.last), Coin(c.last)>>,
   before |-> <<term * Coin(c.before) + Usd(c.before), Coin(c.before)>>]

LEMMA ConvergentsRecur ==
  \A i \in Intervals :
    LET term == Coin(i[1]) \div Usd(i[1])
    IN  Convergents[i] =
          IF Coin(i[1]) % Usd(i[1]) = 0 THEN [last |-> <<term, 1>>, before |-> <<1, 0>>]
          ELSE IF Coin(i[2]) >= (term + 1) * Usd(i[2])
               THEN [last |-> <<term + 1, 1>>, before |-> <<1, 0>>]
          ELSE Extended(term, Convergents[Beyond(i)])
<1> DEFINE term(i) == Coin(i[1]) \div Usd(i[1])
           start == [i \in Intervals |->
                       IF Coin(i[1]) % Usd(i[1]) = 0
                       THEN [last |-> <<term(i), 1>>, before |-> <<1, 0>>]
                       ELSE [last |-> <<term(i) + 1, 1>>, before |-> <<1, 0>>]]
           Base == {i \in Intervals : HasWhole(i)}
           measure == [i \in Intervals |-> Width(i)]
           next == [i \in Intervals |-> Beyond(i)]
           F == [i \in Intervals |-> [c \in Convergent |-> Extended(term(i), c)]]
           is(f) == f = [i \in Intervals |->
                           IF Coin(i[1]) % Usd(i[1]) = 0
                           THEN [last |-> <<term(i), 1>>, before |-> <<1, 0>>]
                           ELSE IF Coin(i[2]) >= (term(i) + 1) * Usd(i[2])
                                THEN [last |-> <<term(i) + 1, 1>>, before |-> <<1, 0>>]
                           ELSE Extended(term(i), f[Beyond(i)])]
<1>1. ASSUME NEW i \in Intervals
      PROVE  /\ i[1] \in Rates /\ i[2] \in Rates
             /\ term(i) \in Nat /\ Width(i) \in Nat
  <2>1. i[1] \in Rates /\ i[2] \in Rates
    BY DEF Intervals
  <2>2. /\ Coin(i[1]) \in Nat /\ Usd(i[1]) \in Nat /\ Usd(i[1]) > 0
        /\ Usd(i[2]) \in Nat
    BY <2>1, RateLegs
  <2>3. term(i) \in Nat
    BY <2>2, Quotient
  <2>4. Width(i) \in Nat
    BY <2>2 DEF Width
  <2> QED BY <2>1, <2>3, <2>4
<1>2. \A i \in Intervals : i \notin Base => next[i] \in Intervals /\ measure[next[i]] < measure[i]
  BY IntervalsNarrow
<1>3. measure \in [Intervals -> Nat]
  BY <1>1
<1>4. ASSUME NEW n \in Nat PROVE [last |-> <<n, 1>>, before |-> <<1, 0>>] \in Convergent
  BY DEF Convergent
<1>5. ASSUME NEW n \in Nat, NEW c \in Convergent PROVE Extended(n, c) \in Convergent
  <2>1. /\ Coin(c.last) \in Nat /\ Usd(c.last) \in Nat
        /\ Coin(c.before) \in Nat /\ Usd(c.before) \in Nat
    BY DEF Convergent, Coin, Usd
  <2>2. /\ n * Coin(c.last) + Usd(c.last) \in Nat
        /\ n * Coin(c.before) + Usd(c.before) \in Nat
    BY <2>1
  <2> QED BY <2>1, <2>2 DEF Extended, Convergent
<1>6. PICK f : IsRecursion(f, Intervals, Base, start, next, F)
  <2> HIDE DEF measure, next, F, start, Base
  <2> QED BY <1>2, <1>3, RecursionExists
<1>7. f = [i \in Intervals |-> IF i \in Base THEN start[i] ELSE F[i][f[next[i]]]]
  BY <1>6 DEF IsRecursion
<1> HIDE DEF F, start, term
<1> DEFINE T == {i \in Intervals : f[i] \in Convergent}
<1>8. Intervals \subseteq T
  <2>1. ASSUME NEW i \in Intervals, i \in Base PROVE i \in T
    <3>1. start[i] \in Convergent
      BY <1>1, <1>4 DEF start
    <3> QED BY <1>7, <2>1, <3>1
  <2>2. ASSUME NEW i \in Intervals, i \notin Base, next[i] \in T PROVE i \in T
    <3>1. f[next[i]] \in Convergent
      BY <2>2
    <3>2. F[i][f[next[i]]] \in Convergent
      BY <1>1, <1>5, <3>1 DEF F
    <3> QED BY <1>7, <2>2, <3>2
  <2> HIDE DEF T, Base, next, measure
  <2>3. \A i \in Intervals :
          (\A j \in Intervals : measure[j] < measure[i] => j \in T) => i \in T
    BY <1>2, <2>1, <2>2
  <2> QED BY <1>3, <2>3, MeasureInduction
<1>9. is(f)
  <2>1. ASSUME NEW i \in Intervals, HasWhole(i)
        PROVE  f[i] = IF Coin(i[1]) % Usd(i[1]) = 0
                      THEN [last |-> <<term(i), 1>>, before |-> <<1, 0>>]
                      ELSE [last |-> <<term(i) + 1, 1>>, before |-> <<1, 0>>]
    BY <1>7, <2>1 DEF start
  <2>2. ASSUME NEW i \in Intervals, ~HasWhole(i)
        PROVE  f[i] = Extended(term(i), f[Beyond(i)])
    <3>1. next[i] = Beyond(i) /\ i \notin Base /\ Beyond(i) \in Intervals
      BY <1>2, <2>2
    <3>2. f[Beyond(i)] \in Convergent
      BY <1>8, <3>1
    <3>3. F[i][f[Beyond(i)]] = Extended(term(i), f[Beyond(i)])
      BY <3>2 DEF F
    <3> HIDE DEF Base, next
    <3> QED BY <1>7, <3>1, <3>3
  <2>3. ASSUME NEW i \in Intervals
        PROVE  f[i] = IF Coin(i[1]) % Usd(i[1]) = 0
                      THEN [last |-> <<term(i), 1>>, before |-> <<1, 0>>]
                      ELSE IF Coin(i[2]) >= (term(i) + 1) * Usd(i[2])
                           THEN [last |-> <<term(i) + 1, 1>>, before |-> <<1, 0>>]
                      ELSE Extended(term(i), f[Beyond(i)])
    <3>1. HasWhole(i) <=> \/ Coin(i[1]) % Usd(i[1]) = 0
                          \/ Coin(i[2]) >= (term(i) + 1) * Usd(i[2])
      BY DEF HasWhole, term
    <3> QED BY <2>1, <2>2, <3>1
  <2>4. f = [i \in Intervals |-> f[i]]
    BY <1>7
  <2> QED BY <2>3, <2>4
<1> DEFINE g == CHOOSE h : is(h)
<1>10. is(g)
  BY <1>9
<1>11. Convergents = g
  BY DEF Convergents, term, Extended, Beyond
<1> HIDE DEF g
<1>12. is(Convergents)
  BY <1>10, <1>11
<1> QED BY <1>12 DEF term

\* A fraction reduced by its convergents: they are next to each other, and the last
\* is the fraction itself in lower terms.
Reduces(r, c) ==
  /\ c \in Convergent
  /\ Coin(c.before) <= Coin(c.last) /\ Usd(c.before) <= Usd(c.last)
  /\ \E g \in Nat : g > 0 /\ Coin(r) = g * Coin(c.last) /\ Usd(r) = g * Usd(c.last)
  /\ Coin(c.before) * Usd(c.last) - Coin(c.last) * Usd(c.before) \in {1, 0 - 1}

LEMMA OwnConvergents ==
  ASSUME NEW rate \in Rates
  PROVE  Reduces(rate, Convergents[<<rate, rate>>])
<1> DEFINE T == {r \in Rates : Reduces(r, Convergents[<<r, r>>])}
           measure == [r \in Rates |-> Usd(r)]
<1>1. measure \in [Rates -> Nat]
  BY RateLegs
<1>2. ASSUME NEW r \in Rates, \A y \in Rates : measure[y] < measure[r] => y \in T
      PROVE  r \in T
  <2> DEFINE ln == Coin(r)
             ld == Usd(r)
             t == ln \div ld
             rest == ln % ld
             i == <<r, r>>
             c == Convergents[i]
  <2>1. ln \in Nat /\ ln > 0 /\ ld \in Nat /\ ld > 0
    BY RateLegs
  <2>2. i \in Intervals
    <3>1. ~Below(r, r)
      BY RateCases
    <3> QED BY <3>1 DEF Intervals
  <2>3. t \in Nat /\ rest \in Nat /\ rest < ld /\ ln = t * ld + rest
    <3> HIDE DEF ln, ld
    <3> QED BY <2>1
  <2>4. c = IF rest = 0 THEN [last |-> <<t, 1>>, before |-> <<1, 0>>]
            ELSE IF ln >= (t + 1) * ld THEN [last |-> <<t + 1, 1>>, before |-> <<1, 0>>]
            ELSE Extended(t, Convergents[Beyond(i)])
    <3>1. i[1] = r /\ i[2] = r
      OBVIOUS
    <3> HIDE DEF i
    <3> QED BY <2>2, <3>1, ConvergentsRecur
  <2>5. CASE rest = 0
    <3> HIDE DEF t, ln, ld, rest
    <3>1. t > 0
      BY <2>1, <2>3, <2>5
    <3>2. ln = ld * t /\ ld = ld * 1
      BY <2>1, <2>3, <2>5
    <3>3. c = [last |-> <<t, 1>>, before |-> <<1, 0>>]
      BY <2>4, <2>5
    <3> HIDE DEF c
    <3>4. Coin(c.last) = t /\ Usd(c.last) = 1 /\ Coin(c.before) = 1 /\ Usd(c.before) = 0
      BY <3>3 DEF Coin, Usd
    <3>5. c \in Convergent
      BY <2>3, <3>3 DEF Convergent
    <3>6. 1 * 1 - t * 0 = 1
      BY <2>3
    <3>7. 1 <= t /\ 0 <= 1
      BY <2>3, <3>1
    <3>8. Reduces(r, c)
      BY <2>1, <3>2, <3>4, <3>5, <3>6, <3>7 DEF Reduces, ln, ld
    <3> QED BY <3>8 DEF c
  <2>6. CASE rest # 0
    <3> DEFINE y == <<ld, rest>>
               p == Convergents[<<y, y>>]
    <3>1. y \in Rates /\ Coin(y) = ld /\ Usd(y) = rest
      <4> HIDE DEF ld, rest
      <4> QED BY <2>1, <2>3, <2>6 DEF Rates, Coin, Usd
    <3>2. Reduces(y, p)
      <4>1. measure[y] < measure[r]
        BY <2>3, <3>1
      <4> HIDE DEF y, measure
      <4> QED BY <1>2, <3>1, <4>1
    <3>3. Beyond(i) = <<y, y>>
      <4>1. ln - t * ld = rest
        <5> HIDE DEF ln, ld, t, rest
        <5> QED BY <2>1, <2>3
      <4>2. Beyond(i) = << <<ld, ln - t * ld>>, <<ld, rest>> >>
        BY DEF Beyond
      <4> QED BY <4>1, <4>2
    <3> HIDE DEF i
    <3>4. ~(ln >= (t + 1) * ld)
      <4> HIDE DEF ln, ld, t, rest
      <4>1. (t + 1) * ld = t * ld + ld /\ t * ld \in Nat
        BY <2>1, <2>3
      <4> QED BY <2>1, <2>3, <4>1
    <3>5. c = Extended(t, p)
      BY <2>4, <2>6, <3>3, <3>4
    <3> DEFINE cl == Coin(p.last)
               ul == Usd(p.last)
               cb == Coin(p.before)
               ub == Usd(p.before)
    <3>6. /\ cl \in Nat /\ ul \in Nat /\ cb \in Nat /\ ub \in Nat
          /\ cb <= cl /\ ub <= ul /\ cb * ul - cl * ub \in {1, 0 - 1}
      <4>1. p \in Convergent /\ cb <= cl /\ ub <= ul /\ cb * ul - cl * ub \in {1, 0 - 1}
        BY <3>2 DEF Reduces
      <4> HIDE DEF p
      <4>2. cl \in Nat /\ ul \in Nat /\ cb \in Nat /\ ub \in Nat
        BY <4>1 DEF Convergent, Coin, Usd
      <4> QED BY <4>1, <4>2
    <3>7. PICK g \in Nat : g > 0 /\ ld = g * cl /\ rest = g * ul
      <4>1. \E g \in Nat : g > 0 /\ Coin(y) = g * cl /\ Usd(y) = g * ul
        BY <3>2 DEF Reduces
      <4> HIDE DEF cl, ul, y, p
      <4> QED BY <3>1, <4>1
    <3>8. c = [last |-> <<t * cl + ul, cl>>, before |-> <<t * cb + ub, cb>>]
      BY <3>5 DEF Extended
    <3> HIDE DEF cl, ul, cb, ub, p, y, c, t, rest, ln, ld
    <3>9. t * cl + ul \in Nat /\ t * cb + ub \in Nat
      BY <2>3, <3>6
    <3>10. c \in Convergent
      BY <3>6, <3>8, <3>9 DEF Convergent
    <3>11. /\ Coin(c.last) = t * cl + ul /\ Usd(c.last) = cl
           /\ Coin(c.before) = t * cb + ub /\ Usd(c.before) = cb
      BY <3>8 DEF Coin, Usd
    <3>12. t * cb + ub <= t * cl + ul
      <4>1. t * cb <= t * cl /\ t * cb \in Nat /\ t * cl \in Nat
        BY <2>3, <3>6
      <4> DEFINE a == t * cb
                 e == t * cl
      <4>2. a \in Nat /\ e \in Nat /\ a <= e
        BY <4>1
      <4> HIDE DEF a, e
      <4>3. a + ub <= e + ul
        BY <3>6, <4>2
      <4> QED BY <4>3 DEF a, e
    <3>13. ln = g * (t * cl + ul)
      <4>1. t * (g * cl) + g * ul = g * (t * cl + ul)
        BY <2>3, <3>6
      <4> QED BY <2>3, <3>7, <4>1
    <3>14. (t * cb + ub) * cl - (t * cl + ul) * cb = 0 - (cb * ul - cl * ub)
      <4>1. (t * cb + ub) * cl = t * cb * cl + ub * cl /\ (t * cl + ul) * cb = t * cl * cb + ul * cb
        BY <2>3, <3>6
      <4>2. t * cb * cl = t * cl * cb /\ ub * cl = cl * ub /\ ul * cb = cb * ul
        BY <2>3, <3>6
      <4> DEFINE a == t * cb * cl
                 e == cl * ub
                 h == cb * ul
      <4>3. a \in Int /\ e \in Int /\ h \in Int
        BY <2>3, <3>6
      <4>4. (t * cb + ub) * cl = a + e /\ (t * cl + ul) * cb = a + h
        BY <4>1, <4>2
      <4> HIDE DEF a, e, h
      <4>5. (a + e) - (a + h) = 0 - (h - e)
        BY <4>3
      <4> QED BY <4>4, <4>5 DEF e, h
    <3>15. (t * cb + ub) * cl - (t * cl + ul) * cb \in {1, 0 - 1}
      BY <3>6, <3>14
    <3>16. Reduces(r, c)
      BY <3>6, <3>7, <3>10, <3>11, <3>12, <3>13, <3>15 DEF Reduces, ln, ld
    <3> QED BY <3>16 DEF c, i
  <2> QED BY <2>5, <2>6
<1>3. Rates \subseteq T
  <2> HIDE DEF T, measure
  <2> QED BY <1>1, <1>2, MeasureInduction
<1> QED BY <1>3

\* A lot has no common factor.
LEMMA LotIsReduced ==
  ASSUME NEW rate \in Rates, NEW g \in Nat, g > 0, NEW x \in Nat, NEW y \in Nat,
         Coin(Lot(rate)) = g * x, Usd(Lot(rate)) = g * y
  PROVE  g = 1
<1> DEFINE c == Coin(rate)
           u == Usd(rate)
           d == Gcd(c, u)
           lc == Coin(Lot(rate))
           lu == Usd(Lot(rate))
<1>1. c \in Nat /\ c > 0 /\ u \in Nat /\ u > 0
  BY RateLegs
<1>2. /\ d \in 1 .. c /\ c % d = 0 /\ u % d = 0
      /\ \A e \in 1 .. c : c % e = 0 /\ u % e = 0 => e <= d
  BY <1>1, GcdDivides
<1>3. lc = c \div d /\ lu = u \div d
  BY DEF Lot, Coin, Usd
<1> HIDE DEF c, u, d, lc, lu
<1>4. d \in Nat /\ d > 0
  BY <1>1, <1>2
<1>5. c = d * lc /\ u = d * lu
  <2>1. ASSUME NEW a \in Nat, a % d = 0 PROVE a = d * (a \div d)
    BY <1>4, <2>1
  <2> QED BY <1>1, <1>2, <1>3, <2>1
<1>6. lc = g * x /\ lu = g * y
  BY DEF lc, lu
<1> DEFINE e == d * g
<1>7. e \in Nat /\ e > 0 /\ c = e * x /\ u = e * y
  <2>1. d * (g * x) = (d * g) * x /\ d * (g * y) = (d * g) * y
    BY <1>4
  <2>2. ASSUME NEW a \in Nat, NEW h \in Nat, a > 0, h > 0 PROVE a * h \in Nat /\ a * h > 0
    BY <2>2
  <2> QED BY <1>4, <1>5, <1>6, <2>1, <2>2
<1> HIDE DEF e
<1>8. c % e = 0 /\ u % e = 0 /\ e <= c
  <2>1. ASSUME NEW a \in Nat PROVE (e * a) % e = 0
    BY <1>7
  <2>2. x > 0
    <3>1. x = 0 => e * x = 0
      BY <1>7
    <3> QED BY <1>1, <1>7, <3>1
  <2>3. ASSUME NEW a \in Nat, a > 0 PROVE e <= e * a
    BY <1>7, <2>3
  <2> QED BY <1>7, <2>1, <2>2, <2>3
<1>9. d * g <= d
  <2>1. e \in 1 .. c
    BY <1>1, <1>7, <1>8
  <2> QED BY <1>2, <1>8, <2>1 DEF e
<1>10. ASSUME g > 1 PROVE d * g > d
  <2>1. d * g >= d * 2
    BY <1>4, <1>10
  <2> DEFINE a == d * g
  <2>2. a \in Nat /\ a >= d * 2
    BY <1>4, <2>1
  <2> HIDE DEF a
  <2>3. a > d
    BY <1>4, <2>2
  <2> QED BY <2>3 DEF a
<1> QED
  <2> DEFINE a == d * g
  <2>1. a \in Nat /\ a <= d /\ (g > 1 => a > d)
    BY <1>4, <1>9, <1>10
  <2> HIDE DEF a
  <2> QED BY <1>4, <2>1

\* The parent of a lot with the greater rate is next to it.
UpperParent(m) == IF Usd(m) = 1 THEN <<1, 0>> ELSE SimplestFraction(m, m).parents[2]

LEMMA ParentIsNext ==
  ASSUME NEW rate \in Rates
  PROVE  LET m == Lot(rate)
             p == UpperParent(m)
         IN  Coin(p) \in Nat /\ Usd(p) \in Nat /\ Coin(p) * Usd(m) = Coin(m) * Usd(p) + 1
<1> DEFINE m == Lot(rate)
           p == UpperParent(m)
           c == Convergents[<<m, m>>]
           mc == Coin(m)
           mu == Usd(m)
<1>1. m \in Rates /\ mc \in Nat /\ mc > 0 /\ mu \in Nat /\ mu > 0
  BY LotType, RateLegs
<1>2. CASE mu = 1
  <2>1. p = <<1, 0>>
    BY <1>2 DEF UpperParent
  <2>2. Coin(p) = 1 /\ Usd(p) = 0
    BY <2>1 DEF Coin, Usd
  <2> HIDE DEF p, mc, mu
  <2>3. 1 * mu = mc * 0 + 1
    BY <1>1, <1>2
  <2>4. Coin(p) \in Nat /\ Usd(p) \in Nat /\ Coin(p) * mu = mc * Usd(p) + 1
    BY <2>2, <2>3
  <2> QED BY <2>4 DEF p, mc, mu
<1>3. CASE mu # 1
  <2> DEFINE cl == Coin(c.last)
             ul == Usd(c.last)
             cb == Coin(c.before)
             ub == Usd(c.before)
             other == <<cl - cb, ul - ub>>
  <2>1. Reduces(m, c)
    BY <1>1, OwnConvergents
  <2>2. /\ c \in Convergent /\ cb <= cl /\ ub <= ul
        /\ cb * ul - cl * ub \in {1, 0 - 1}
    BY <2>1 DEF Reduces
  <2>3. \E g \in Nat : g > 0 /\ mc = g * cl /\ mu = g * ul
    BY <2>1 DEF Reduces
  <2>4. p = IF ub # 0 /\ Below(c.before, c.last) THEN other ELSE c.before
    <3>1. p = Neighbours(c).parents[2]
      BY <1>3 DEF UpperParent, SimplestFraction
    <3>2. Neighbours(c).parents = IF ub # 0 /\ Below(c.before, c.last)
                                  THEN <<c.before, other>> ELSE <<other, c.before>>
      BY DEF Neighbours
    <3> HIDE DEF p, other, ub, c
    <3> QED BY <3>1, <3>2
  <2>5. Below(c.before, c.last) <=> cb * ul < cl * ub
    BY DEF Below
  <2> HIDE DEF c
  <2>6. cl \in Nat /\ ul \in Nat /\ cb \in Nat /\ ub \in Nat
    BY <2>2 DEF Convergent, Coin, Usd
  <2>7. cl = mc /\ ul = mu
    <3>1. PICK g \in Nat : g > 0 /\ mc = g * cl /\ mu = g * ul
      BY <2>3
    <3> HIDE DEF cl, ul
    <3>2. g = 1
      BY <2>6, <3>1, LotIsReduced DEF m, mc, mu
    <3>3. 1 * cl = cl /\ 1 * ul = ul
      BY <2>6
    <3> QED BY <3>1, <3>2, <3>3
  <2>8. Coin(other) = cl - cb /\ Usd(other) = ul - ub
    BY DEF Coin, Usd
  <2> HIDE DEF cl, ul, cb, ub, other, p, mc, mu
  <2> DEFINE a == cb * ul
             e == cl * ub
  <2>9. a \in Nat /\ e \in Nat /\ a - e \in {1, 0 - 1} /\ (Below(c.before, c.last) <=> a < e)
    BY <2>2, <2>5, <2>6
  <2>10. CASE ub # 0 /\ Below(c.before, c.last)
    <3>1. p = other
      BY <2>4, <2>10
    <3>2. (cl - cb) * ul = cl * ul - a /\ cl * (ul - ub) = cl * ul - e
      BY <2>6
    <3> DEFINE h == cl * ul
    <3>3. h \in Nat
      BY <2>6
    <3> HIDE DEF a, e, h
    <3>4. e = a + 1
      BY <2>9, <2>10
    <3>5. h - a = (h - e) + 1
      BY <2>9, <3>3, <3>4
    <3>6. (cl - cb) * ul = cl * (ul - ub) + 1
      BY <3>2, <3>5 DEF h
    <3>7. cl - cb \in Nat /\ ul - ub \in Nat
      BY <2>2, <2>6
    <3>8. Coin(p) \in Nat /\ Usd(p) \in Nat /\ Coin(p) * mu = mc * Usd(p) + 1
      BY <2>7, <2>8, <3>1, <3>6, <3>7
    <3> QED BY <3>8 DEF p, mc, mu
  <2>11. CASE ~(ub # 0 /\ Below(c.before, c.last))
    <3>1. p = c.before
      BY <2>4, <2>11
    <3>2. ~(a < e)
      <4>1. ub = 0 => e = 0
        BY <2>6
      <4> HIDE DEF a, e
      <4> QED BY <2>9, <2>11, <4>1
    <3> HIDE DEF a, e
    <3>3. a = e + 1
      BY <2>9, <3>2
    <3>4. Coin(p) = cb /\ Usd(p) = ub
      BY <3>1 DEF cb, ub
    <3>5. Coin(p) \in Nat /\ Usd(p) \in Nat /\ Coin(p) * mu = mc * Usd(p) + 1
      BY <2>6, <2>7, <3>3, <3>4 DEF a, e
    <3> QED BY <3>5 DEF p, mc, mu
  <2> QED BY <2>10, <2>11
<1> QED BY <1>2, <1>3

----------------------------------------------------------------------------
(* Sales: what can be bought of a bid at a price, in terms of the lots.      *)

\* Comparisons with a rate are comparisons with its lot.
LEMMA LotCompares ==
  ASSUME NEW rate \in Rates, NEW x \in Nat, NEW y \in Nat
  PROVE  /\ x * Usd(rate) <= Coin(rate) * y <=> x * Usd(Lot(rate)) <= Coin(Lot(rate)) * y
         /\ Coin(rate) * y <= x * Usd(rate) <=> Coin(Lot(rate)) * y <= x * Usd(Lot(rate))
<1> DEFINE lc == Coin(Lot(rate))
           lu == Usd(Lot(rate))
<1>1. lc \in Nat /\ lu \in Nat
  BY LotType, RateLegs
<1>2. PICK d \in Nat : d > 0 /\ Coin(rate) = d * lc /\ Usd(rate) = d * lu
  BY LotScale
<1> HIDE DEF lc, lu
<1>3. x * (d * lu) = d * (x * lu) /\ (d * lc) * y = d * (lc * y)
  BY <1>1
<1>4. ASSUME NEW a \in Nat, NEW c \in Nat PROVE d * a <= d * c <=> a <= c
  BY <1>2
<1>5. x * lu \in Nat /\ lc * y \in Nat
  BY <1>1
<1>6. /\ d * (x * lu) <= d * (lc * y) <=> x * lu <= lc * y
      /\ d * (lc * y) <= d * (x * lu) <=> lc * y <= x * lu
  BY <1>4, <1>5
<1> QED BY <1>2, <1>3, <1>6 DEF lc, lu

\* Two rates compare as their lots do.
LEMMA LotsCompare ==
  ASSUME NEW price \in Rates, NEW bid \in Rates
  PROVE  /\ ~Below(bid, price) <=> Coin(Lot(price)) * Usd(Lot(bid)) <= Coin(Lot(bid)) * Usd(Lot(price))
         /\ ~Below(price, bid) <=> Coin(Lot(bid)) * Usd(Lot(price)) <= Coin(Lot(price)) * Usd(Lot(bid))
<1> DEFINE mc == Coin(Lot(price))
           mu == Usd(Lot(price))
<1>1. /\ Coin(price) \in Nat /\ Usd(price) \in Nat /\ Coin(bid) \in Nat /\ Usd(bid) \in Nat
      /\ mc \in Nat /\ mu \in Nat /\ Coin(Lot(bid)) \in Nat /\ Usd(Lot(bid)) \in Nat
  BY LotType, RateLegs
<1>2. /\ ~Below(bid, price) <=> Coin(price) * Usd(bid) <= Coin(bid) * Usd(price)
      /\ ~Below(price, bid) <=> Coin(bid) * Usd(price) <= Coin(price) * Usd(bid)
  <2> DEFINE x == Coin(price) * Usd(bid)
             y == Coin(bid) * Usd(price)
  <2>1. x \in Nat /\ y \in Nat
    BY <1>1
  <2>2. (Below(bid, price) <=> y < x) /\ (Below(price, bid) <=> x < y)
    BY DEF Below
  <2> HIDE DEF x, y
  <2>3. (~(y < x) <=> x <= y) /\ (~(x < y) <=> y <= x)
    BY <2>1
  <2> QED BY <2>2, <2>3 DEF x, y
<1>3. /\ Coin(price) * Usd(bid) <= Coin(bid) * Usd(price)
           <=> Coin(price) * Usd(Lot(bid)) <= Coin(Lot(bid)) * Usd(price)
      /\ Coin(bid) * Usd(price) <= Coin(price) * Usd(bid)
           <=> Coin(Lot(bid)) * Usd(price) <= Coin(price) * Usd(Lot(bid))
  BY <1>1, LotCompares
<1>4. /\ Coin(price) * Usd(Lot(bid)) <= Coin(Lot(bid)) * Usd(price)
           <=> mc * Usd(Lot(bid)) <= Coin(Lot(bid)) * mu
      /\ Coin(Lot(bid)) * Usd(price) <= Coin(price) * Usd(Lot(bid))
           <=> Coin(Lot(bid)) * mu <= mc * Usd(Lot(bid))
  BY <1>1, LotCompares
<1> QED BY <1>2, <1>3, <1>4

\* What COIN is paid at a rate is what its lot pays for it, rounded down.
LEMMA AtRateMeans ==
  ASSUME NEW price \in Rates, NEW coin \in Nat, NEW usd \in Nat
  PROVE  /\ AtRate(coin, price) \in Nat
         /\ usd <= AtRate(coin, price) <=> Coin(Lot(price)) * usd <= coin * Usd(Lot(price))
<1> DEFINE v == AtRate(coin, price)
           C == Coin(price)
           U == Usd(price)
           x == coin * U
<1>1. C \in Nat /\ C > 0 /\ U \in Nat
  BY RateLegs
<1>2. x \in Nat
  BY <1>1
<1>3. v = x \div C
  BY DEF AtRate
<1>4. C * usd <= x <=> Coin(Lot(price)) * usd <= coin * Usd(Lot(price))
  BY LotCompares
<1> HIDE DEF v, C, x
<1>5. v \in Nat /\ C * v <= x /\ x < C * v + C
  BY <1>1, <1>2, <1>3, Quotient
<1>6. C * usd <= x => usd <= v
  BY <1>1, <1>2, <1>3, QuotientAtLeast
<1>7. usd <= v => C * usd <= x
  <2>1. usd <= v => C * usd <= C * v
    BY <1>1, <1>5
  <2> DEFINE a == C * usd
             c == C * v
  <2>2. a \in Nat /\ c \in Nat
    BY <1>1, <1>5
  <2>3. (usd <= v => a <= c) /\ c <= x
    BY <1>5, <2>1
  <2> HIDE DEF a, c
  <2>4. usd <= v => a <= x
    BY <1>2, <2>2, <2>3
  <2> QED BY <2>4 DEF a
<1> QED BY <1>4, <1>5, <1>6, <1>7 DEF v

LEMMA AtRateMonotone ==
  ASSUME NEW price \in Rates, NEW c \in Nat, NEW d \in Nat, c <= d
  PROVE  AtRate(c, price) <= AtRate(d, price)
<1> DEFINE v == AtRate(c, price)
           lc == Coin(Lot(price))
           lu == Usd(Lot(price))
<1>1. lc \in Nat /\ lu \in Nat
  BY LotType, RateLegs
<1>2. v \in Nat
  BY AtRateType
<1>3. lc * v <= c * lu
  <2>1. v <= v
    BY <1>2
  <2> QED BY <1>2, <2>1, AtRateMeans
<1> HIDE DEF v, lc, lu
<1>4. lc * v <= d * lu
  <2>1. c * lu <= d * lu /\ c * lu \in Nat /\ d * lu \in Nat /\ lc * v \in Nat
    BY <1>1, <1>2
  <2> DEFINE a == lc * v
             e == c * lu
             h == d * lu
  <2>2. a \in Nat /\ e \in Nat /\ h \in Nat /\ a <= e /\ e <= h
    BY <1>3, <2>1
  <2> HIDE DEF a, e, h
  <2>3. a <= h
    BY <2>2
  <2> QED BY <2>3 DEF a, h
<1>5. v <= AtRate(d, price)
  BY <1>2, <1>4, AtRateMeans DEF lc, lu
<1> QED BY <1>5 DEF v

\* COIN v is sold for usd, in lots m of the price and b of the bid.
IsSale(coin, v, max, m, b) ==
  /\ coin > 0 /\ v > 0 /\ v <= max
  /\ Coin(m) * v <= coin * Usd(m) /\ coin * Usd(m) < Coin(m) * v + Coin(m)
  /\ coin * Usd(b) <= Coin(b) * v

LEMMA SaleMeans ==
  ASSUME NEW price \in Rates, NEW bid \in Rates, NEW max \in Nat, NEW coin \in Nat
  PROVE  /\ TryCoin(coin, max, price, bid) # NoPair =>
              IsSale(coin, AtRate(coin, price), max, Lot(price), Lot(bid))
         /\ \A v \in Nat : IsSale(coin, v, max, Lot(price), Lot(bid)) =>
              TryCoin(coin, max, price, bid) = <<coin, v>>
<1> DEFINE r == AtRate(coin, price)
           mc == Coin(Lot(price))
           mu == Usd(Lot(price))
           bc == Coin(Lot(bid))
           bu == Usd(Lot(bid))
           pair == <<coin, r>>
<1>1. mc \in Nat /\ mc > 0 /\ mu \in Nat /\ bc \in Nat /\ bu \in Nat
  BY LotType, RateLegs
<1>2. r \in Nat /\ \A u \in Nat : u <= r <=> mc * u <= coin * mu
  BY AtRateMeans
<1>3. ~Below(bid, pair) <=> coin * bu <= bc * r
  <2>1. Below(bid, pair) <=> Coin(bid) * r < coin * Usd(bid)
    BY DEF Below, Coin, Usd
  <2>2. Coin(bid) \in Nat /\ Usd(bid) \in Nat
    BY RateLegs
  <2> HIDE DEF r
  <2>3. ~(Coin(bid) * r < coin * Usd(bid)) <=> coin * Usd(bid) <= Coin(bid) * r
    <3>1. ASSUME NEW x \in Nat, NEW y \in Nat PROVE ~(x < y) <=> y <= x
      OBVIOUS
    <3>2. Coin(bid) * r \in Nat /\ coin * Usd(bid) \in Nat
      BY <1>2, <2>2
    <3> QED BY <3>1, <3>2
  <2>4. coin * Usd(bid) <= Coin(bid) * r <=> coin * bu <= bc * r
    BY <1>2, LotCompares
  <2> QED BY <2>1, <2>3, <2>4
<1>4. TryCoin(coin, max, price, bid) =
        IF coin \in Nat \ {0} /\ r \in 1 .. max /\ ~Below(bid, pair) THEN pair ELSE NoPair
  BY DEF TryCoin, Usd
<1> HIDE DEF r, mc, mu, bc, bu
<1>5. mc * r <= coin * mu /\ coin * mu < mc * r + mc
  <2>1. mc * r <= coin * mu
    <3>1. r <= r
      BY <1>2
    <3> QED BY <1>2, <3>1
  <2>2. ~(mc * (r + 1) <= coin * mu)
    <3>1. r + 1 \in Nat /\ ~(r + 1 <= r)
      BY <1>2
    <3> QED BY <1>2, <3>1
  <2>3. mc * (r + 1) = mc * r + mc /\ mc * r \in Nat /\ coin * mu \in Nat
    BY <1>1, <1>2
  <2> DEFINE x == mc * r
             y == coin * mu
  <2>4. x \in Nat /\ y \in Nat /\ ~(x + mc <= y)
    BY <2>2, <2>3
  <2> HIDE DEF x, y
  <2>5. y < x + mc
    BY <1>1, <2>4
  <2> QED BY <2>1, <2>5 DEF x, y
<1>6. ASSUME TryCoin(coin, max, price, bid) # NoPair
      PROVE  IsSale(coin, r, max, Lot(price), Lot(bid))
  <2>1. coin > 0 /\ r > 0 /\ r <= max /\ coin * bu <= bc * r
    BY <1>2, <1>3, <1>4, <1>6
  <2> QED BY <1>5, <2>1 DEF IsSale, mc, mu, bc, bu
<1>7. ASSUME NEW v \in Nat, IsSale(coin, v, max, Lot(price), Lot(bid))
      PROVE  TryCoin(coin, max, price, bid) = <<coin, v>>
  <2>1. /\ coin > 0 /\ v > 0 /\ v <= max
        /\ mc * v <= coin * mu /\ coin * mu < mc * v + mc
        /\ coin * bu <= bc * v
    BY <1>7 DEF IsSale, mc, mu, bc, bu
  <2>2. v <= r
    BY <1>2, <2>1
  <2>3. ~(v + 1 <= r)
    <3>1. mc * (v + 1) = mc * v + mc /\ mc * v \in Nat /\ coin * mu \in Nat
      BY <1>1
    <3> DEFINE x == mc * v
               y == coin * mu
    <3>2. x \in Nat /\ y \in Nat /\ y < x + mc
      BY <2>1, <3>1
    <3> HIDE DEF x, y
    <3>3. ~(x + mc <= y)
      BY <1>1, <3>2
    <3>4. ~(mc * (v + 1) <= coin * mu)
      BY <3>1, <3>3 DEF x, y
    <3>5. v + 1 \in Nat
      OBVIOUS
    <3> QED BY <1>2, <3>4, <3>5
  <2>4. v = r
    BY <1>2, <2>2, <2>3
  <2>5. coin \in Nat \ {0} /\ r \in 1 .. max /\ ~Below(bid, pair)
    BY <1>2, <1>3, <2>1, <2>4
  <2> QED BY <1>4, <2>4, <2>5
<1> QED BY <1>6, <1>7 DEF r

\* The search looks at no more COIN than can be sold, and at all of it.
LEMMA SearchBounds ==
  ASSUME NEW price \in Rates, NEW bid \in Rates, NEW max \in Nat, max <= Usd(bid),
         NEW coin \in Nat
  PROVE  /\ Search(max, price, bid).coin \in Nat
         /\ coin <= Search(max, price, bid).coin => AtRate(coin, price) <= max
         /\ coin <= Search(max, price, bid).coin => coin <= Coin(bid)
         /\ TryCoin(coin, max, price, bid) # NoPair => coin <= Search(max, price, bid).coin
<1> DEFINE C == Coin(price)
           U == Usd(price)
           top == CoinAtMost(max, price)
           r == AtRate(coin, price)
           n == (max + 1) * C
           x == coin * U
           sc == Search(max, price, bid).coin
<1>1. /\ C \in Nat /\ C > 0 /\ U \in Nat /\ U > 0 /\ Coin(bid) \in Nat
      /\ Usd(bid) \in Nat /\ Usd(bid) > 0
  BY RateLegs
<1>2. sc = Least(Coin(bid), top)
  BY DEF Search
<1>3. n \in Nat /\ n - 1 \in Nat /\ x \in Nat
  <2>1. ASSUME NEW a \in Nat, a > 0 PROVE (max + 1) * a \in Nat /\ (max + 1) * a > 0
    <3>1. (max + 1) * a = max * a + a /\ max * a \in Nat
      OBVIOUS
    <3> DEFINE h == max * a
    <3>2. h \in Nat
      BY <3>1
    <3> HIDE DEF h
    <3>3. h + a \in Nat /\ h + a > 0
      BY <2>1, <3>2
    <3> QED BY <3>1, <3>3 DEF h
  <2>2. n \in Nat /\ n > 0
    BY <1>1, <2>1
  <2> HIDE DEF n
  <2> QED BY <1>1, <2>2
<1>4. top = (n - 1) \div U
  BY DEF CoinAtMost
<1>5. r = x \div C
  BY DEF AtRate
<1> HIDE DEF C, U
<1>6. r \in Nat /\ C * r <= x /\ x < C * r + C
  <2> HIDE DEF x
  <2> QED BY <1>1, <1>3, <1>5, Quotient
<1> HIDE DEF top, r, sc
<1>7. top \in Nat /\ U * top <= n - 1 /\ n - 1 < U * top + U
  <2> HIDE DEF n
  <2> QED BY <1>1, <1>3, <1>4, Quotient
<1>8. coin <= top <=> x < n
  <2>1. ASSUME coin <= top PROVE x < n
    <3>1. coin * U <= U * top
      BY <1>1, <1>7, <2>1
    <3> DEFINE a == U * top
    <3>2. a \in Nat /\ a <= n - 1 /\ x <= a
      BY <1>1, <1>7, <3>1
    <3> HIDE DEF a, x, n
    <3> QED BY <1>3, <3>2
  <2>2. ASSUME x < n PROVE coin <= top
    <3>1. U * coin = x
      BY <1>1
    <3> HIDE DEF x, n
    <3>2. U * coin <= n - 1
      BY <1>3, <2>2, <3>1
    <3> QED BY <1>1, <1>3, <1>4, <3>2, QuotientAtLeast
  <2> QED BY <2>1, <2>2
<1>9. x < n <=> r <= max
  <2>1. ASSUME r <= max PROVE x < n
    <3>1. C * r + C <= (max + 1) * C
      <4>1. C * r + C = (r + 1) * C /\ r + 1 \in Nat /\ r + 1 <= max + 1
        BY <1>1, <1>6, <2>1
      <4>2. ASSUME NEW a \in Nat, NEW e \in Nat, a <= e PROVE a * C <= e * C
        BY <1>1, <4>2
      <4> QED BY <4>1, <4>2
    <3> DEFINE a == C * r + C
    <3>2. a \in Nat /\ a <= n /\ x < a
      BY <1>1, <1>6, <3>1
    <3> HIDE DEF a, x, n
    <3> QED BY <1>3, <3>2
  <2>2. ASSUME ~(r <= max) PROVE ~(x < n)
    <3>1. (max + 1) * C <= C * r
      <4>1. C * r = r * C /\ max + 1 <= r
        BY <1>1, <1>6, <2>2
      <4>2. ASSUME NEW a \in Nat, NEW e \in Nat, a <= e PROVE a * C <= e * C
        BY <1>1, <4>2
      <4> QED BY <1>6, <4>1, <4>2
    <3> DEFINE a == C * r
    <3>2. a \in Nat /\ n <= a /\ a <= x
      BY <1>1, <1>6, <3>1
    <3> HIDE DEF a, x, n
    <3> QED BY <1>3, <3>2
  <2> QED BY <2>1, <2>2
<1>10. sc \in Nat /\ (coin <= sc <=> coin <= Coin(bid) /\ coin <= top)
  BY <1>1, <1>2, <1>7 DEF Least
<1>11. ASSUME TryCoin(coin, max, price, bid) # NoPair
       PROVE  r <= max /\ coin <= Coin(bid)
  <2> DEFINE pair == <<coin, r>>
  <2>1. r \in 1 .. max /\ ~Below(bid, pair)
    BY <1>11 DEF TryCoin, Usd, r
  <2>2. ~(Coin(bid) * r < coin * Usd(bid))
    BY <2>1 DEF Below, Coin, Usd
  <2>3. ASSUME NEW c \in Nat, NEW u \in Nat, u > 0, NEW v \in Nat, v <= u,
               ~(c * v < coin * u)
        PROVE  coin <= c
    <3>1. c * v <= c * u /\ coin * u <= c * v
      BY <2>3
    <3>2. coin * u <= c * u
      BY <2>3, <3>1
    <3> QED BY <2>3, <3>2
  <2>4. r <= Usd(bid) /\ r <= max
    BY <1>1, <1>6, <2>1
  <2>5. coin <= Coin(bid)
    BY <1>1, <1>6, <2>2, <2>3, <2>4
  <2> QED BY <2>4, <2>5
<1> QED BY <1>8, <1>9, <1>10, <1>11 DEF sc, r

\* What is tried and may be sold is sold, at the price.
LEMMA TrySells ==
  ASSUME NEW price \in Rates, NEW bid \in Rates, NEW max \in Nat, NEW coin \in Nat, coin > 0,
         NEW v, v = AtRate(coin, price), v > 0, v <= max,
         coin * Usd(Lot(bid)) <= Coin(Lot(bid)) * v
  PROVE  TryCoin(coin, max, price, bid) = <<coin, v>>
<1> DEFINE pair == <<coin, v>>
<1>1. v \in Nat /\ Coin(bid) \in Nat /\ Usd(bid) \in Nat
  BY AtRateType, RateLegs
<1>2. coin * Usd(bid) <= Coin(bid) * v
  BY <1>1, LotCompares
<1>3. ~(Coin(bid) * v < coin * Usd(bid))
  <2>1. Coin(bid) * v \in Nat /\ coin * Usd(bid) \in Nat
    BY <1>1
  <2> QED BY <1>2, <2>1
<1>4. ~Below(bid, pair)
  BY <1>3 DEF Below, Coin, Usd
<1>5. coin \in Nat \ {0} /\ Usd(pair) \in 1 .. max
  BY <1>1 DEF Usd
<1> QED BY <1>4, <1>5 DEF TryCoin

LEMMA FairUsd ==
  ASSUME NEW price \in Rates, NEW bid, NEW max \in Nat, NEW p \in Fairly(price, bid, max)
  PROVE  Usd(p) = AtRate(Coin(p), price)
<1>1. CASE p = NoPair
  <2>1. Coin(price) \in Nat /\ Coin(price) > 0 /\ Usd(price) \in Nat
    BY RateLegs
  <2>2. 0 * Usd(price) = 0 /\ 0 \div Coin(price) = 0
    BY <2>1
  <2> QED BY <1>1, <2>2 DEF NoPair, AtRate, Coin, Usd
<1>2. CASE p # NoPair
  BY <1>2 DEF Fairly
<1> QED BY <1>1, <1>2

\* The larger of two pairs has the more COIN: at one price it has the more USD.
LEMMA LargerCovers ==
  ASSUME NEW price \in Rates, NEW bid, NEW max \in Nat,
         NEW p \in Fairly(price, bid, max), NEW q \in Fairly(price, bid, max)
  PROVE  Coin(p) <= Coin(LargerPair(p, q)) /\ Coin(q) <= Coin(LargerPair(p, q))
<1>1. Coin(p) \in Nat /\ Usd(p) \in Nat /\ Coin(q) \in Nat /\ Usd(q) \in Nat
  BY FairWithin
<1>2. Usd(p) = AtRate(Coin(p), price) /\ Usd(q) = AtRate(Coin(q), price)
  BY FairUsd
<1>3. Coin(p) <= Coin(q) => Usd(p) <= Usd(q)
  BY <1>1, <1>2, AtRateMonotone
<1>4. Coin(q) <= Coin(p) => Usd(q) <= Usd(p)
  BY <1>1, <1>2, AtRateMonotone
<1> QED BY <1>1, <1>3, <1>4 DEF LargerPair

\* Amounts at a rate are a multiple of its lot.
LEMMA SameMultiple ==
  ASSUME NEW rate \in Rates, NEW c \in Nat, NEW v \in Nat,
         c * Usd(Lot(rate)) = Coin(Lot(rate)) * v
  PROVE  \E k \in Nat : c = k * Coin(Lot(rate)) /\ v = k * Usd(Lot(rate))
<1> DEFINE lc == Coin(Lot(rate))
           lu == Usd(Lot(rate))
           pc == Coin(UpperParent(Lot(rate)))
           pu == Usd(UpperParent(Lot(rate)))
           k == pc * v - pu * c
<1>1. lc \in Nat /\ lc > 0 /\ lu \in Nat /\ lu > 0
  BY LotType, RateLegs
<1>2. pc \in Nat /\ pu \in Nat /\ pc * lu = lc * pu + 1
  BY ParentIsNext
<1>3. c * lu = lc * v
  OBVIOUS
<1> HIDE DEF lc, lu, pc, pu
<1>4. k \in Int
  BY <1>2
<1>5. k * lu = v
  <2>1. k * lu = (pc * lu) * v - pu * (c * lu)
    BY <1>1, <1>2
  <2>2. (pc * lu) * v = (lc * pu) * v + v
    <3>1. (lc * pu + 1) * v = (lc * pu) * v + v
      BY <1>1, <1>2
    <3> QED BY <1>2, <3>1
  <2>3. pu * (c * lu) = (lc * pu) * v
    <3>1. pu * (lc * v) = (lc * pu) * v
      BY <1>1, <1>2
    <3> QED BY <1>3, <3>1
  <2>4. (lc * pu) * v \in Nat
    BY <1>1, <1>2
  <2> QED BY <2>1, <2>2, <2>3, <2>4
<1>6. k * lc = c
  <2>1. k * lc = pc * (lc * v) - (lc * pu) * c
    BY <1>1, <1>2
  <2>2. pc * (lc * v) = (pc * lu) * c
    <3>1. pc * (c * lu) = (pc * lu) * c
      BY <1>1, <1>2
    <3> QED BY <1>3, <3>1
  <2>3. (pc * lu) * c = (lc * pu) * c + c
    <3>1. (lc * pu + 1) * c = (lc * pu) * c + c
      BY <1>1, <1>2
    <3> QED BY <1>2, <3>1
  <2>4. (lc * pu) * c \in Nat
    BY <1>1, <1>2
  <2> QED BY <2>1, <2>2, <2>3, <2>4
<1>7. k \in Nat
  <2> HIDE DEF k
  <2>1. k < 0 => k * lu < 0
    BY <1>1, <1>4
  <2> QED BY <1>4, <1>5, <2>1
<1> QED BY <1>5, <1>6, <1>7 DEF lc, lu

\* Sales at just the price or at just the bid's limit are no larger than the lots.
LEMMA PriceLotsCover ==
  ASSUME NEW price \in Rates, NEW bid \in Rates, ~Below(bid, price), NEW max \in Nat,
         max <= Usd(bid), NEW s, s = Search(max, price, bid), NEW coin \in Nat, NEW v \in Nat,
         IsSale(coin, v, max, Lot(price), Lot(bid)), coin * Usd(Lot(price)) = Coin(Lot(price)) * v
  PROVE  coin <= Coin(Try(Least(max \div Usd(Lot(price)), Coin(bid) \div Coin(Lot(price)))
                            * Coin(Lot(price)), s))
<1> DEFINE mc == Coin(Lot(price))
           mu == Usd(Lot(price))
           bc == Coin(Lot(bid))
           bu == Usd(Lot(bid))
           n == Least(max \div mu, Coin(bid) \div mc)
<1>1. /\ mc \in Nat /\ mc > 0 /\ mu \in Nat /\ mu > 0 /\ bc \in Nat /\ bu \in Nat
      /\ Coin(bid) \in Nat
  BY LotType, RateLegs
<1>2. PICK k \in Nat : coin = k * mc /\ v = k * mu
  BY SameMultiple
<1>3. coin > 0 /\ v <= max
  BY DEF IsSale
<1>4. coin <= Coin(bid)
  <2>1. TryCoin(coin, max, price, bid) = <<coin, v>>
    BY SaleMeans
  <2>2. TryCoin(coin, max, price, bid) # NoPair
    BY <1>3, <2>1 DEF NoPair
  <2> QED BY <2>2, SearchBounds
<1>5. mc * bu <= bc * mu
  BY LotsCompare
<1>6. Try(n * mc, s) = TryCoin(n * mc, max, price, bid)
  BY SearchFields DEF Try
<1> HIDE DEF mc, mu, bc, bu
<1>7. k <= max \div mu /\ max \div mu \in Nat /\ mu * (max \div mu) <= max
  <2>1. mu * k <= max
    BY <1>1, <1>2, <1>3
  <2> QED BY <1>1, <2>1, Quotient, QuotientAtLeast
<1>8. k <= Coin(bid) \div mc /\ Coin(bid) \div mc \in Nat
  <2>1. mc * k <= Coin(bid)
    BY <1>1, <1>2, <1>4
  <2> QED BY <1>1, <2>1, Quotient, QuotientAtLeast
<1> DEFINE q == max \div mu
           r == Coin(bid) \div mc
<1>9. q \in Nat /\ r \in Nat /\ k <= q /\ k <= r /\ mu * q <= max /\ n = Least(q, r)
  BY <1>7, <1>8
<1> HIDE DEF q, r, n
<1>10. n \in Nat /\ k <= n /\ n <= q
  BY <1>9 DEF Least
<1>11. k > 0
  BY <1>1, <1>2, <1>3
<1>12. n * mu <= max
  <2>1. n * mu <= q * mu /\ q * mu = mu * q
    BY <1>1, <1>9, <1>10
  <2>2. n * mu \in Nat /\ q * mu \in Nat
    BY <1>1, <1>9, <1>10
  <2> QED BY <1>9, <2>1, <2>2
<1>13. n * mc \in Nat /\ n * mu \in Nat /\ n * mc > 0 /\ n * mu > 0
  <2>1. n > 0
    BY <1>10, <1>11
  <2> QED BY <1>1, <1>10, <2>1
<1>14. mc * (n * mu) = (n * mc) * mu /\ (n * mc) * mu \in Nat
  BY <1>1, <1>10
<1>15. (n * mc) * bu <= bc * (n * mu)
  <2>1. (n * mc) * bu = n * (mc * bu) /\ bc * (n * mu) = n * (bc * mu)
    BY <1>1, <1>10
  <2>2. ASSUME NEW x \in Nat, NEW y \in Nat, x <= y PROVE n * x <= n * y
    BY <1>10, <2>2
  <2>3. mc * bu \in Nat /\ bc * mu \in Nat
    BY <1>1
  <2> QED BY <1>5, <2>1, <2>2, <2>3
<1>16. IsSale(n * mc, n * mu, max, Lot(price), Lot(bid))
  <2>1. mc * (n * mu) <= (n * mc) * mu /\ (n * mc) * mu < mc * (n * mu) + mc
    BY <1>1, <1>14
  <2> QED BY <1>12, <1>13, <1>15, <2>1 DEF IsSale, mc, mu, bc, bu
<1>17. Try(n * mc, s) = <<n * mc, n * mu>>
  BY <1>6, <1>13, <1>16, SaleMeans
<1>18. k * mc <= n * mc
  BY <1>1, <1>10
<1>19. coin <= Coin(Try(n * mc, s))
  BY <1>2, <1>17, <1>18 DEF Coin
<1> QED BY <1>19 DEF n, mc, mu

LEMMA BidLotsCover ==
  ASSUME NEW price \in Rates, NEW bid \in Rates, ~Below(bid, price), NEW max \in Nat,
         max <= Usd(bid), NEW s, s = Search(max, price, bid), NEW coin \in Nat, NEW v \in Nat,
         IsSale(coin, v, max, Lot(price), Lot(bid)), coin * Usd(Lot(bid)) = Coin(Lot(bid)) * v
  PROVE  coin <= Coin(Try((s.coin \div Coin(Lot(bid))) * Coin(Lot(bid)), s))
<1> DEFINE mc == Coin(Lot(price))
           mu == Usd(Lot(price))
           bc == Coin(Lot(bid))
           bu == Usd(Lot(bid))
           n == s.coin \div bc
           w == AtRate(n * bc, price)
<1>1. mc \in Nat /\ mu \in Nat /\ bc \in Nat /\ bc > 0 /\ bu \in Nat /\ bu > 0
  BY LotType, RateLegs
<1>2. PICK k \in Nat : coin = k * bc /\ v = k * bu
  BY SameMultiple
<1>3. coin > 0 /\ v <= max
  BY DEF IsSale
<1>4. coin <= s.coin /\ s.coin \in Nat
  <2>1. TryCoin(coin, max, price, bid) = <<coin, v>>
    BY SaleMeans
  <2>2. TryCoin(coin, max, price, bid) # NoPair
    BY <1>3, <2>1 DEF NoPair
  <2> QED BY <2>2, SearchBounds
<1>5. mc * bu <= bc * mu
  BY LotsCompare
<1>6. Try(n * bc, s) = TryCoin(n * bc, max, price, bid)
  BY SearchFields DEF Try
<1>7. \A x \in Nat : /\ AtRate(x, price) \in Nat
                     /\ \A u \in Nat : mc * u <= x * mu => u <= AtRate(x, price)
                     /\ x <= s.coin => AtRate(x, price) <= max
  BY AtRateMeans, SearchBounds
<1> DEFINE top == s.coin
<1> HIDE DEF mc, mu
<1>8. n \in Nat /\ k <= n /\ bc * n <= top
  <2> HIDE DEF bc, top
  <2>1. top \in Nat /\ bc * k <= top /\ n = top \div bc
    BY <1>1, <1>2, <1>4 DEF top
  <2> HIDE DEF n
  <2> QED BY <1>1, <2>1, Quotient, QuotientAtLeast
<1> HIDE DEF n, bc, bu, top
<1>9. n * bc \in Nat /\ n * bc > 0 /\ n * bc <= top /\ n * bu \in Nat /\ n * bu > 0
  <2>1. k > 0
    BY <1>1, <1>2, <1>3
  <2>2. n > 0
    BY <1>8, <2>1
  <2> QED BY <1>1, <1>8, <2>2
<1>10. mc * (n * bu) <= (n * bc) * mu
  <2>1. mc * (n * bu) = n * (mc * bu) /\ (n * bc) * mu = n * (bc * mu)
    BY <1>1, <1>8
  <2>2. ASSUME NEW x \in Nat, NEW y \in Nat, x <= y PROVE n * x <= n * y
    BY <1>8, <2>2
  <2>3. mc * bu \in Nat /\ bc * mu \in Nat
    BY <1>1
  <2> QED BY <1>5, <2>1, <2>2, <2>3
<1>11. w \in Nat /\ n * bu <= w /\ w <= max
  BY <1>7, <1>9, <1>10 DEF top
<1> HIDE DEF w
<1>12. (n * bc) * bu <= bc * w
  <2>1. (n * bc) * bu = bc * (n * bu)
    BY <1>1, <1>8
  <2>2. bc * (n * bu) <= bc * w
    BY <1>1, <1>9, <1>11
  <2> QED BY <2>1, <2>2
<1>13. w > 0
  BY <1>9, <1>11
<1>14. Try(n * bc, s) = <<n * bc, w>>
  BY <1>6, <1>9, <1>11, <1>12, <1>13, TrySells DEF w, bc, bu
<1>15. k * bc <= n * bc
  BY <1>1, <1>8
<1>16. coin <= Coin(Try(n * bc, s))
  BY <1>2, <1>14, <1>15 DEF Coin
<1> QED BY <1>16 DEF n, bc

LEMMA LotsCover ==
  ASSUME NEW price \in Rates, NEW bid \in Rates, ~Below(bid, price), NEW max \in Nat,
         max <= Usd(bid), NEW s, s = Search(max, price, bid), NEW coin \in Nat, NEW v \in Nat,
         IsSale(coin, v, max, Lot(price), Lot(bid)),
         \/ coin * Usd(Lot(price)) = Coin(Lot(price)) * v
         \/ coin * Usd(Lot(bid)) = Coin(Lot(bid)) * v
  PROVE  coin <= Coin(LotPair(s))
<1> DEFINE p == Try(Least(max \div Usd(Lot(price)), Coin(bid) \div Coin(Lot(price)))
                      * Coin(Lot(price)), s)
           q == Try((s.coin \div Coin(Lot(bid))) * Coin(Lot(bid)), s)
<1>1. s.max_usd = max /\ s.bid = bid /\ s.m = Lot(price) /\ s.b = Lot(bid)
  BY DEF Search
<1>2. LotPair(s) = LargerPair(p, q)
  BY <1>1 DEF LotPair
<1>3. p \in Fairly(price, bid, max) /\ q \in Fairly(price, bid, max)
  BY SearchFields, TryFair DEF Try
<1>4. coin <= Coin(p) \/ coin <= Coin(q)
  BY PriceLotsCover, BidLotsCover
<1> HIDE DEF p, q
<1>5. Coin(p) <= Coin(LotPair(s)) /\ Coin(q) <= Coin(LotPair(s))
  BY <1>2, <1>3, LargerCovers
<1>6. Coin(p) \in Nat /\ Coin(q) \in Nat /\ Coin(LotPair(s)) \in Nat
  BY <1>2, <1>3, LargerFair, FairWithin
<1> QED BY <1>4, <1>5, <1>6

\* The denominator of an excess is the largest within the limit that any sale of
\* that excess leads to in whole lots.
LEMMA ResidueUsdMeans ==
  ASSUME NEW price \in Rates, NEW excess \in Nat, NEW limit \in Nat,
         NEW coin \in Nat, NEW v \in Nat, v <= limit,
         coin * Usd(Lot(price)) = Coin(Lot(price)) * v + excess
  PROVE  /\ ResidueUsd(excess, limit, Lot(price)) \in Nat
         /\ ResidueUsd(excess, limit, Lot(price)) <= limit
         /\ \E k \in Nat : ResidueUsd(excess, limit, Lot(price)) = v + k * Usd(Lot(price))
<1> DEFINE m == Lot(price)
           mc == Coin(m)
           mu == Usd(m)
           pc == Coin(UpperParent(m))
           pu == Usd(UpperParent(m))
           n == excess * pu
           class == n % mu
           usd == ResidueUsd(excess, limit, m)
<1>1. mc \in Nat /\ mu \in Nat /\ mu > 0
  BY LotType, RateLegs
<1>2. pc \in Nat /\ pu \in Nat /\ pc * mu = mc * pu + 1
  BY ParentIsNext
<1>3. coin * mu = mc * v + excess
  OBVIOUS
<1>4. usd = IF class = 0 THEN (limit \div mu) * mu
            ELSE IF class > limit THEN 0
            ELSE class + ((limit - class) \div mu) * mu
  BY DEF ResidueUsd, UpperParent
<1> HIDE DEF mc, mu, pc, pu, usd
<1>5. n \in Nat /\ class \in Nat /\ class < mu /\ n \div mu \in Nat /\ n = mu * (n \div mu) + class
  <2>1. n \in Nat
    BY <1>2
  <2> HIDE DEF n
  <2> QED BY <1>1, <2>1, Quotient
<1> DEFINE q == n \div mu
           j == v * pc - pu * coin
<1>6. j \in Int /\ v = mu * j + n
  <2>1. v = v * (pc * mu) - v * (mc * pu)
    <3>1. v * (mc * pu + 1) = v * (mc * pu) + v /\ v * (mc * pu) \in Nat
      BY <1>1, <1>2
    <3> QED BY <1>2, <3>1
  <2>2. pu * (coin * mu) = v * (mc * pu) + n
    <3>1. pu * (mc * v + excess) = v * (mc * pu) + excess * pu
      BY <1>1, <1>2
    <3> QED BY <1>3, <3>1
  <2>3. mu * j = v * (pc * mu) - pu * (coin * mu)
    BY <1>1, <1>2
  <2>4. v * (pc * mu) \in Nat /\ v * (mc * pu) \in Nat /\ pu * (coin * mu) \in Nat /\ j \in Int
    BY <1>1, <1>2
  <2> HIDE DEF n, j
  <2> QED BY <1>5, <2>1, <2>2, <2>3, <2>4
<1> DEFINE r == class
<1>7. q \in Nat /\ r \in Nat /\ r < mu /\ n = mu * q + r
  BY <1>5
<1>8. usd = IF r = 0 THEN (limit \div mu) * mu
            ELSE IF r > limit THEN 0
            ELSE r + ((limit - r) \div mu) * mu
  BY <1>4
<1> HIDE DEF q, j, class, r
<1>9. PICK t \in Nat : v = mu * t + r
  <2> DEFINE t == j + q
  <2>1. v = mu * t + r
    BY <1>1, <1>6, <1>7
  <2>2. t \in Nat
    <3>1. t \in Int
      BY <1>6, <1>7
    <3>2. t < 0 => mu * t <= -mu
      BY <1>1, <3>1
    <3>3. mu * t \in Int
      BY <1>1, <3>1
    <3> HIDE DEF t
    <3> QED BY <1>1, <1>7, <2>1, <3>1, <3>2, <3>3
  <2> HIDE DEF t
  <2> QED BY <2>1, <2>2
<1>10. r <= v /\ mu * t \in Nat
  BY <1>1, <1>7, <1>9
<1> DEFINE rest == limit - r
           T == rest \div mu
<1>11. rest \in Nat /\ mu * t <= rest
  BY <1>1, <1>7, <1>9, <1>10
<1>12. usd = r + T * mu
  <2>1. CASE r = 0
    <3>1. rest = limit
      BY <2>1
    <3>2. (limit \div mu) * mu \in Nat
      <4>1. limit \div mu \in Nat
        BY <1>1, Quotient
      <4> QED BY <1>1, <4>1
    <3> QED BY <1>8, <2>1, <3>1, <3>2
  <2>2. CASE r # 0
    <3>1. ~(r > limit)
      BY <1>7, <1>10
    <3> QED BY <1>8, <2>2, <3>1
  <2> QED BY <2>1, <2>2
<1>13. T \in Nat /\ t <= T /\ mu * T <= rest
  <2> HIDE DEF rest
  <2> QED BY <1>1, <1>11, Quotient, QuotientAtLeast
<1> HIDE DEF T
<1>14. usd \in Nat /\ usd <= limit
  <2>1. T * mu = mu * T /\ T * mu \in Nat
    BY <1>1, <1>13
  <2> QED BY <1>7, <1>12, <1>13, <2>1
<1>15. usd = v + (T - t) * mu /\ T - t \in Nat
  <2>1. (T - t) * mu = T * mu - mu * t
    BY <1>1, <1>13
  <2>2. T * mu \in Nat
    BY <1>1, <1>13
  <2> QED BY <1>7, <1>9, <1>10, <1>12, <1>13, <2>1, <2>2
<1>16. \E k \in Nat : usd = v + k * mu
  BY <1>15
<1> QED BY <1>14, <1>16 DEF usd, mu

\* Trying an excess loses nothing.
LEMMA ResidueKeeps ==
  ASSUME NEW price \in Rates, NEW bid, NEW max \in Nat, NEW s, s = Search(max, price, bid),
         NEW best \in Fairly(price, bid, max), NEW excess
  PROVE  Coin(best) <= Coin(ResiduePair(best, excess, s))
<1>1. \A coin : Try(coin, s) \in Fairly(price, bid, max)
  BY SearchFields, TryFair DEF Try
<1>2. \A p \in Fairly(price, bid, max) : Coin(best) <= Coin(LargerPair(best, p))
  BY LargerCovers
<1>3. Coin(best) <= Coin(best)
  BY FairWithin
<1> HIDE DEF Try
<1> QED BY <1>1, <1>2, <1>3 DEF ResiduePair

\* Moving a sale by whole lots of the price keeps its excess, and makes it a sale
\* for more USD: the bid's limit only gets further away.
LEMMA SaleInClass ==
  ASSUME NEW price \in Rates, NEW bid \in Rates, ~Below(bid, price), NEW max \in Nat,
         NEW coin \in Nat, NEW v \in Nat, IsSale(coin, v, max, Lot(price), Lot(bid)),
         NEW excess \in Nat, coin * Usd(Lot(price)) = Coin(Lot(price)) * v + excess,
         NEW k \in Nat, NEW usd, usd = v + k * Usd(Lot(price)), usd <= max
  PROVE  LET m == Lot(price)
             b == Lot(bid)
             more == (Coin(m) * usd + excess) \div Usd(m)
         IN  /\ more \in Nat /\ coin <= more
             /\ IsSale(more, usd, max, m, b)
             /\ ~(Usd(b) * excess > (Coin(b) * Usd(m) - Coin(m) * Usd(b)) * usd)
<1> DEFINE mc == Coin(Lot(price))
           mu == Usd(Lot(price))
           bc == Coin(Lot(bid))
           bu == Usd(Lot(bid))
           more == (mc * usd + excess) \div mu
           apart == bc * mu - mc * bu
           d == coin + mc * k
<1>1. mc \in Nat /\ mu \in Nat /\ mu > 0 /\ bc \in Nat /\ bu \in Nat
  BY LotType, RateLegs
<1>2. coin * mu = mc * v + excess
  OBVIOUS
<1>3. /\ coin > 0 /\ v > 0 /\ coin * mu < mc * v + mc /\ coin * bu <= bc * v
  BY DEF IsSale
<1>4. mc * bu <= bc * mu
  BY LotsCompare
<1>5. usd = v + k * mu
  OBVIOUS
<1> HIDE DEF mc, mu, bc, bu
<1>6. usd \in Nat /\ v <= usd /\ usd > 0
  <2>1. k * mu \in Nat
    BY <1>1
  <2> QED BY <1>3, <1>5, <2>1
<1>7. d \in Nat /\ coin <= d /\ d > 0
  <2>1. mc * k \in Nat
    BY <1>1
  <2> QED BY <1>3, <2>1
<1>8. mc * usd + excess = d * mu /\ mc * usd \in Nat
  <2>1. mc * (v + k * mu) = mc * v + (mc * k) * mu
    BY <1>1
  <2>2. d * mu = coin * mu + (mc * k) * mu
    BY <1>1
  <2>3. mc * v \in Nat /\ (mc * k) * mu \in Nat /\ mc * usd \in Nat
    BY <1>1, <1>6
  <2> QED BY <1>2, <1>5, <2>1, <2>2, <2>3
<1>9. more = d
  <2> DEFINE n == mc * usd + excess
  <2>1. n \in Nat /\ n = mu * d /\ more = n \div mu
    <3>1. d * mu = mu * d
      BY <1>1, <1>7
    <3> QED BY <1>8, <3>1
  <2> HIDE DEF n, more, d
  <2>2. d <= n \div mu /\ n \div mu <= d /\ n \div mu \in Nat
    <3>1. mu * d <= n /\ n < mu * d + mu
      BY <1>1, <1>7, <2>1
    <3> QED BY <1>1, <1>7, <2>1, <3>1, Quotient, QuotientAtLeast, QuotientAtMost
  <2> QED BY <1>7, <2>1, <2>2
<1>10. excess < mc
  <2>1. mc * v \in Nat
    BY <1>1
  <2> QED BY <1>1, <1>2, <1>3, <2>1
<1>11. bu * excess <= apart * usd /\ apart \in Nat
  <2>1. (coin * bu) * mu <= (bc * v) * mu
    <3>1. ASSUME NEW x \in Nat, NEW y \in Nat, x <= y PROVE x * mu <= y * mu
      BY <1>1, <3>1
    <3>2. coin * bu \in Nat /\ bc * v \in Nat
      BY <1>1
    <3> QED BY <1>3, <3>1, <3>2
  <2>2. (coin * bu) * mu = bu * (coin * mu) /\ bu * (mc * v + excess) = (mc * bu) * v + bu * excess
    BY <1>1
  <2>3. apart * v = (bc * v) * mu - (mc * bu) * v
    BY <1>1
  <2>4. (bc * v) * mu \in Nat /\ (mc * bu) * v \in Nat /\ bu * excess \in Nat
    BY <1>1
  <2>5. bu * excess <= apart * v
    BY <1>2, <2>1, <2>2, <2>3, <2>4
  <2>6. apart \in Nat
    <3>1. mc * bu \in Nat /\ bc * mu \in Nat
      BY <1>1
    <3> QED BY <1>4, <3>1
  <2> HIDE DEF apart
  <2>7. apart * v <= apart * usd /\ apart * v \in Nat /\ apart * usd \in Nat
    BY <1>6, <2>6
  <2> QED BY <2>4, <2>5, <2>6, <2>7
<1>12. d * bu <= bc * usd
  <2>1. (d * bu) * mu = (mc * bu) * usd + bu * excess
    <3>1. (d * bu) * mu = bu * (d * mu) /\ bu * (mc * usd + excess) = (mc * bu) * usd + bu * excess
      BY <1>1, <1>6, <1>7
    <3> QED BY <1>8, <3>1
  <2>2. (bc * usd) * mu = apart * usd + (mc * bu) * usd
    BY <1>1, <1>6
  <2>3. (mc * bu) * usd \in Nat /\ bu * excess \in Nat /\ apart * usd \in Nat
    BY <1>1, <1>6, <1>11
  <2> DEFINE x == d * bu
             y == bc * usd
  <2>4. x \in Nat /\ y \in Nat
    BY <1>1, <1>6, <1>7
  <2>5. x * mu <= y * mu
    BY <1>11, <2>1, <2>2, <2>3
  <2> HIDE DEF x, y
  <2>6. x <= y
    BY <1>1, <2>4, <2>5
  <2> QED BY <2>6 DEF x, y
<1>13. mc * usd <= d * mu /\ d * mu < mc * usd + mc
  BY <1>1, <1>8, <1>10
<1>14. IsSale(d, usd, max, Lot(price), Lot(bid))
  BY <1>6, <1>7, <1>12, <1>13 DEF IsSale, mc, mu, bc, bu
<1>15. ~(bu * excess > apart * usd)
  <2> DEFINE x == bu * excess
             y == apart * usd
  <2>1. x \in Nat /\ y \in Nat /\ x <= y
    BY <1>1, <1>6, <1>11
  <2> HIDE DEF x, y
  <2>2. ~(x > y)
    BY <2>1
  <2> QED BY <2>2 DEF x, y
<1> HIDE DEF d
<1>16. /\ more \in Nat /\ coin <= more /\ IsSale(more, usd, max, Lot(price), Lot(bid))
       /\ ~(bu * excess > apart * usd)
  BY <1>7, <1>9, <1>14, <1>15
<1> QED BY <1>16 DEF more, apart, mc, mu, bc, bu

\* Trying its excess covers a sale.
LEMMA ResidueCovers ==
  ASSUME NEW price \in Rates, NEW bid \in Rates, ~Below(bid, price), NEW max \in Nat,
         max <= Usd(bid), NEW s, s = Search(max, price, bid),
         NEW best \in Fairly(price, bid, max), NEW coin \in Nat, NEW v \in Nat,
         IsSale(coin, v, max, Lot(price), Lot(bid)),
         NEW excess \in Nat, coin * Usd(Lot(price)) = Coin(Lot(price)) * v + excess
  PROVE  coin <= Coin(ResiduePair(best, excess, s))
<1> DEFINE m == Lot(price)
           b == Lot(bid)
           mc == Coin(m)
           mu == Usd(m)
           top == s.coin
           capacity == mu * top
           limit == Least(max, (capacity - excess) \div mc)
           usd == ResidueUsd(excess, limit, m)
           more == (mc * usd + excess) \div mu
           pair == ResiduePair(best, excess, s)
<1>1. mc \in Nat /\ mc > 0 /\ mu \in Nat /\ mu > 0
  BY LotType, RateLegs
<1>2. coin > 0 /\ v > 0 /\ v <= max /\ coin * mu = mc * v + excess
  BY DEF IsSale
<1>3. TryCoin(coin, max, price, bid) = <<coin, v>>
  BY SaleMeans
<1>4. coin <= top /\ top \in Nat
  <2>1. TryCoin(coin, max, price, bid) # NoPair
    BY <1>2, <1>3 DEF NoPair
  <2> QED BY <2>1, SearchBounds
<1>5. AtRate(coin, price) = v
  <2>1. \/ TryCoin(coin, max, price, bid) = NoPair
        \/ TryCoin(coin, max, price, bid) = <<coin, AtRate(coin, price)>>
    BY DEF TryCoin
  <2>2. <<coin, v>> = <<coin, AtRate(coin, price)>>
    BY <1>2, <1>3, <2>1 DEF NoPair
  <2> QED BY <2>2
<1>6. pair = IF capacity < excess THEN best
             ELSE IF \/ usd = 0 \/ usd < Usd(best)
                     \/ Usd(b) * excess > (Coin(b) * mu - mc * Usd(b)) * usd
                  THEN best
                  ELSE LargerPair(best, Try(more, s))
  BY DEF ResiduePair, Determinant, Search
<1> HIDE DEF mc, mu, top
<1>7. coin * mu <= capacity /\ capacity \in Nat /\ coin * mu \in Nat /\ mc * v \in Nat
  <2>1. coin * mu <= top * mu /\ top * mu = mu * top
    BY <1>1, <1>4
  <2> QED BY <1>1, <1>4, <2>1
<1> HIDE DEF capacity
<1>8. ~(capacity < excess) /\ capacity - excess \in Nat /\ mc * v <= capacity - excess
  BY <1>2, <1>7
<1>9. limit \in Nat /\ v <= limit /\ limit <= max
  <2> DEFINE n == capacity - excess
  <2>1. n \in Nat /\ mc * v <= n
    BY <1>8
  <2> HIDE DEF n
  <2>2. n \div mc \in Nat /\ v <= n \div mc
    BY <1>1, <2>1, Quotient, QuotientAtLeast
  <2>3. limit = Least(max, n \div mc)
    BY DEF n
  <2> HIDE DEF limit
  <2> DEFINE q == n \div mc
  <2>4. q \in Nat /\ v <= q /\ limit = Least(max, q)
    BY <2>2, <2>3
  <2> HIDE DEF q
  <2> QED BY <1>2, <2>4 DEF Least
<1> HIDE DEF limit
<1>10. usd \in Nat /\ usd <= limit /\ \E k \in Nat : usd = v + k * mu
  BY <1>2, <1>9, ResidueUsdMeans DEF mc, mu
<1>11. PICK k \in Nat : usd = v + k * mu
  BY <1>10
<1> HIDE DEF usd
<1>12. usd <= max /\ v <= usd
  <2>1. k * mu \in Nat
    BY <1>1
  <2> QED BY <1>9, <1>10, <1>11, <2>1
<1>13. /\ more \in Nat /\ coin <= more /\ IsSale(more, usd, max, m, b)
       /\ ~(Usd(b) * excess > (Coin(b) * mu - mc * Usd(b)) * usd)
  BY <1>2, <1>11, <1>12, SaleInClass DEF mc, mu
<1> HIDE DEF more, m, b
<1>14. CASE usd < Usd(best)
  <2>1. Coin(best) \in Nat /\ Usd(best) \in Nat /\ Usd(best) = AtRate(Coin(best), price)
    BY FairWithin, FairUsd
  <2>2. Coin(best) <= coin => Usd(best) <= v
    BY <1>5, <2>1, AtRateMonotone
  <2>3. coin <= Coin(best)
    BY <1>10, <1>12, <1>14, <2>1, <2>2
  <2>4. Coin(best) <= Coin(pair)
    BY ResidueKeeps
  <2>5. Coin(pair) \in Nat
    BY ResidueFair, FairWithin
  <2> HIDE DEF pair
  <2>6. coin <= Coin(pair)
    BY <2>1, <2>3, <2>4, <2>5
  <2> QED BY <2>6 DEF pair
<1>15. CASE ~(usd < Usd(best))
  <2>1. usd # 0
    BY <1>2, <1>10, <1>12
  <2>2. pair = LargerPair(best, Try(more, s))
    BY <1>6, <1>8, <1>13, <1>15, <2>1
  <2>3. Try(more, s) = TryCoin(more, max, price, bid)
    BY SearchFields DEF Try
  <2>4. Try(more, s) = <<more, usd>>
    BY <1>10, <1>13, <2>3, SaleMeans DEF m, b
  <2>5. Try(more, s) \in Fairly(price, bid, max)
    BY <2>3, TryFair
  <2>6. Coin(Try(more, s)) <= Coin(pair)
    BY <2>2, <2>5, LargerCovers
  <2>7. Coin(Try(more, s)) = more
    BY <2>4 DEF Coin
  <2>8. Coin(pair) \in Nat
    BY ResidueFair, FairWithin
  <2> HIDE DEF pair
  <2>9. coin <= Coin(pair)
    BY <1>13, <2>6, <2>7, <2>8
  <2> QED BY <2>9 DEF pair
<1> QED BY <1>14, <1>15

\* The pairs of every excess up to `residues` cover every sale of such an excess.
LEMMA ResiduesCover ==
  ASSUME NEW price \in Rates, NEW bid \in Rates, ~Below(bid, price), NEW max \in Nat,
         max <= Usd(bid), NEW s, s = Search(max, price, bid),
         NEW seed \in Fairly(price, bid, max), NEW residues \in 0 .. MaxExcess,
         NEW coin \in Nat, NEW v \in Nat, IsSale(coin, v, max, Lot(price), Lot(bid)),
         NEW excess \in 0 .. residues, coin * Usd(Lot(price)) = Coin(Lot(price)) * v + excess,
         excess = 0 => coin <= Coin(seed)
  PROVE  coin <= Coin(ResiduePairs(seed, residues, s))
<1>1. PICK best : /\ ResiduePairs(seed, residues, s) = best[residues]
                  /\ \A r \in 0 .. MaxExcess : best[r] \in Fairly(price, bid, max)
                  /\ IsResidues(best, seed, s)
  BY ResiduesSteps
<1>2. MaxExcess \in Nat
  BY PairsAssumption
<1> DEFINE T == {r \in Nat : r <= MaxExcess /\ excess <= r => coin <= Coin(best[r])}
<1>3. 0 \in T
  <2>1. best[0] = seed
    <3>1. 0 \in 0 .. MaxExcess
      BY <1>2
    <3> QED BY <1>1, <3>1 DEF IsResidues
  <2>2. excess <= 0 => coin <= Coin(best[0])
    BY <2>1
  <2> QED BY <2>2
<1>4. ASSUME NEW n \in Nat, n \in T PROVE n + 1 \in T
  <2>1. SUFFICES ASSUME n + 1 <= MaxExcess, excess <= n + 1 PROVE coin <= Coin(best[n + 1])
    OBVIOUS
  <2>2. n + 1 \in 0 .. MaxExcess /\ n \in 0 .. MaxExcess
    BY <1>2, <2>1
  <2>3. best[n + 1] = ResiduePair(best[n], n + 1, s)
    <3>1. best[n + 1] = IF n + 1 = 0 THEN seed ELSE ResiduePair(best[n + 1 - 1], n + 1, s)
      BY <1>1, <2>2 DEF IsResidues
    <3>2. n + 1 # 0 /\ n + 1 - 1 = n
      OBVIOUS
    <3> QED BY <3>1, <3>2
  <2>4. best[n] \in Fairly(price, bid, max) /\ best[n + 1] \in Fairly(price, bid, max)
    BY <1>1, <2>2
  <2>5. CASE excess = n + 1
    BY <2>3, <2>4, <2>5, ResidueCovers
  <2>6. CASE excess <= n
    <3>1. coin <= Coin(best[n])
      BY <1>4, <2>1, <2>6, <1>2
    <3>2. Coin(best[n]) <= Coin(best[n + 1])
      BY <2>3, <2>4, ResidueKeeps
    <3>3. Coin(best[n]) \in Nat /\ Coin(best[n + 1]) \in Nat
      BY <2>4, FairWithin
    <3> QED BY <3>1, <3>2, <3>3
  <2> QED BY <2>1, <2>5, <2>6
<1>5. Nat \subseteq T
  <2> HIDE DEF T
  <2> QED BY <1>3, <1>4, NatSetInduction
<1>6. residues \in Nat /\ residues \in T /\ residues <= MaxExcess /\ excess <= residues
  BY <1>2, <1>5
<1>7. coin <= Coin(best[residues])
  BY <1>6
<1> QED BY <1>1, <1>7

\* A sale for no more than usd is for no more COIN than is projected for usd.
LEMMA ProjectedCoinCovers ==
  ASSUME NEW price \in Rates, NEW bid \in Rates, NEW usd \in Nat, usd <= Usd(bid),
         NEW coin \in Nat, NEW v \in Nat, IsSale(coin, v, usd, Lot(price), Lot(bid))
  PROVE  coin <= ProjectedCoin(usd, price, bid)
<1> DEFINE top == CoinAtMost(usd, price)
           n == Coin(bid) * usd
           q == n \div Usd(bid)
<1>1. Coin(bid) \in Nat /\ Usd(bid) \in Nat /\ Usd(bid) > 0
  BY RateLegs
<1>2. coin > 0 /\ v <= usd /\ coin * Usd(Lot(bid)) <= Coin(Lot(bid)) * v
  BY DEF IsSale
<1>3. coin * Usd(bid) <= Coin(bid) * v
  BY <1>2, LotCompares
<1>4. coin <= q
  <2>1. Coin(bid) * v <= n /\ Coin(bid) * v \in Nat /\ n \in Nat
    BY <1>1, <1>2
  <2>2. Usd(bid) * coin = coin * Usd(bid) /\ coin * Usd(bid) \in Nat
    BY <1>1
  <2> HIDE DEF n
  <2>3. Usd(bid) * coin <= n
    BY <1>3, <2>1, <2>2
  <2> QED BY <1>1, <2>1, <2>3, QuotientAtLeast
<1>5. coin <= Least(Coin(bid), top)
  <2>1. TryCoin(coin, usd, price, bid) = <<coin, v>>
    BY SaleMeans
  <2>2. TryCoin(coin, usd, price, bid) # NoPair
    BY <1>2, <2>1 DEF NoPair
  <2>3. Search(usd, price, bid).coin = Least(Coin(bid), top)
    BY DEF Search
  <2> HIDE DEF top
  <2> QED BY <2>2, <2>3, SearchBounds
<1>6. top \in Int
  BY ProjectedCoinBounds, RateLegs DEF CoinAtMost
<1>7. q \in Nat
  <2>1. n \in Nat
    BY <1>1
  <2> HIDE DEF n
  <2> QED BY <1>1, <2>1, Quotient
<1>8. ProjectedCoin(usd, price, bid) = Least(q, top)
  BY DEF ProjectedCoin
<1> HIDE DEF q, top
<1> QED BY <1>1, <1>4, <1>5, <1>6, <1>7, <1>8 DEF Least

\* A projection covers every sale, or takes a step for each USD above it.
LEMMA ProjectedCovers ==
  ASSUME NEW price \in Rates, NEW bid \in Rates, NEW max \in Nat,
         max <= Usd(bid), NEW s, s = Search(max, price, bid),
         NEW seed \in Fairly(price, bid, max),
         NEW coin \in Nat, NEW v \in Nat, IsSale(coin, v, max, Lot(price), Lot(bid))
  PROVE  coin <= Coin(ProjectedPair(seed, s)) \/ v + MaxSteps <= max
<1>1. PICK within : /\ ProjectedPair(seed, s) = within[MaxSteps][max]
                    /\ within[MaxSteps][max] \in Fairly(price, bid, max)
                    /\ IsProjection(within, seed, s)
  BY ProjectionSteps
<1>2. MaxSteps \in Nat
  BY PairsAssumption
<1>3. s.max_usd = max /\ s.marginal = price /\ s.bid = bid
  BY SearchFields
<1>4. coin > 0 /\ v > 0 /\ v <= max
  BY DEF IsSale
<1>5. AtRate(coin, price) = v
  <2>1. TryCoin(coin, max, price, bid) = <<coin, v>>
    BY SaleMeans
  <2>2. \/ TryCoin(coin, max, price, bid) = NoPair
        \/ TryCoin(coin, max, price, bid) = <<coin, AtRate(coin, price)>>
    BY DEF TryCoin
  <2>3. <<coin, v>> = <<coin, AtRate(coin, price)>>
    BY <1>4, <2>1, <2>2 DEF NoPair
  <2> QED BY <2>3
<1> DEFINE covers(k, usd) == coin <= Coin(within[k][usd]) \/ v + k <= usd
           T == {k \in Nat : k <= MaxSteps =>
                               \A usd \in Nat : v <= usd /\ usd <= max => covers(k, usd)}
<1>6. 0 \in T
  <2>1. \A usd \in Nat : v <= usd => v + 0 <= usd
    OBVIOUS
  <2> QED BY <2>1
<1>7. ASSUME NEW n \in Nat, n \in T PROVE n + 1 \in T
  <2>1. SUFFICES ASSUME n + 1 <= MaxSteps, NEW usd \in Nat, v <= usd, usd <= max
                 PROVE  covers(n + 1, usd)
    OBVIOUS
  <2> DEFINE c == ProjectedCoin(usd, price, bid)
             next == AtRate(c, price)
  <2>2. n + 1 \in 0 .. MaxSteps /\ n + 1 # 0 /\ n + 1 - 1 = n
    BY <1>2, <2>1
  <2>3. within[n + 1][usd] = ProjectedFrom(usd, within[n], seed, s)
    <3>1. within[n + 1] = [u \in Nat |-> IF n + 1 = 0 THEN seed
                                         ELSE ProjectedFrom(u, within[n + 1 - 1], seed, s)]
      BY <1>1, <2>2 DEF IsProjection
    <3> QED BY <2>2, <3>1
  <2>4. within[n + 1][usd] =
          IF usd = 0 \/ usd < Usd(seed) \/ c = 0 THEN seed
          ELSE IF c * Usd(price) >= Coin(price) * usd THEN <<c, usd>>
          ELSE IF next >= usd THEN seed
          ELSE within[n][next]
    BY <1>3, <2>3 DEF ProjectedFrom
  <2>5. c \in Nat /\ next \in Nat
    BY ProjectedCoinBounds, AtRateType
  <2>6. coin <= c
    <3>1. IsSale(coin, v, usd, Lot(price), Lot(bid))
      BY <2>1 DEF IsSale
    <3>2. Usd(bid) \in Nat /\ usd <= Usd(bid)
      BY <2>1, RateLegs
    <3> QED BY <3>1, <3>2, ProjectedCoinCovers
  <2>7. v <= next
    BY <1>5, <2>5, <2>6, AtRateMonotone
  <2>8. next >= usd => c * Usd(price) >= Coin(price) * usd
    <3>1. ASSUME usd <= next PROVE Coin(price) * usd <= c * Usd(price)
      <4>1. Coin(Lot(price)) * usd <= c * Usd(Lot(price))
        BY <2>5, <3>1, AtRateMeans
      <4> QED BY <2>5, <4>1, LotCompares
    <3>2. Coin(price) * usd \in Nat /\ c * Usd(price) \in Nat
      BY <2>5, RateLegs
    <3> DEFINE x == Coin(price) * usd
               y == c * Usd(price)
    <3>3. x \in Nat /\ y \in Nat /\ (usd <= next => x <= y)
      BY <3>1, <3>2
    <3> HIDE DEF x, y, c, next
    <3>4. next >= usd => y >= x
      BY <2>5, <3>3
    <3> QED BY <3>4 DEF x, y
  <2> HIDE DEF c, next
  <2>9. CASE usd < Usd(seed)
    <3>1. Coin(seed) \in Nat /\ Usd(seed) \in Nat /\ Usd(seed) = AtRate(Coin(seed), price)
      BY FairWithin, FairUsd
    <3>2. Coin(seed) <= coin => Usd(seed) <= v
      BY <1>5, <3>1, AtRateMonotone
    <3>3. coin <= Coin(seed)
      BY <2>1, <2>9, <3>1, <3>2
    <3> QED BY <2>4, <2>9, <3>3
  <2>10. CASE ~(usd < Usd(seed)) /\ c * Usd(price) >= Coin(price) * usd
    <3>1. usd # 0 /\ c # 0
      BY <1>4, <2>1, <2>5, <2>6
    <3>2. within[n + 1][usd] = <<c, usd>>
      BY <2>4, <2>10, <3>1
    <3> QED BY <2>6, <3>2 DEF Coin
  <2>11. CASE ~(usd < Usd(seed)) /\ ~(c * Usd(price) >= Coin(price) * usd)
    <3>1. usd # 0 /\ c # 0
      BY <1>4, <2>1, <2>5, <2>6
    <3>2. ~(next >= usd)
      BY <2>8, <2>11
    <3>3. within[n + 1][usd] = within[n][next]
      BY <2>4, <2>11, <3>1, <3>2
    <3>4. n <= MaxSteps /\ next <= max
      BY <1>2, <2>1, <2>5, <3>2
    <3>5. covers(n, next)
      BY <1>7, <2>5, <2>7, <3>4
    <3> QED BY <2>5, <3>2, <3>3, <3>5
  <2> QED BY <2>9, <2>10, <2>11
<1>8. Nat \subseteq T
  <2> HIDE DEF T
  <2> QED BY <1>6, <1>7, NatSetInduction
<1>9. MaxSteps \in T /\ MaxSteps <= MaxSteps
  BY <1>2, <1>8
<1>10. covers(MaxSteps, max)
  BY <1>2, <1>4, <1>9
<1> QED BY <1>1, <1>10

\* How far a sale is from the price and from the bid's limit.
LEMMA SaleExcess ==
  ASSUME NEW price \in Rates, NEW bid \in Rates, ~Below(bid, price), NEW max \in Nat,
         NEW coin \in Nat, NEW v \in Nat, IsSale(coin, v, max, Lot(price), Lot(bid))
  PROVE  LET m == Lot(price)
             b == Lot(bid)
             apart == Coin(b) * Usd(m) - Coin(m) * Usd(b)
         IN  \E e, f \in Nat : /\ coin * Usd(m) = Coin(m) * v + e
                               /\ Coin(b) * v = coin * Usd(b) + f
                               /\ apart \in Nat /\ apart * v <= apart * max
                               /\ apart * v = Usd(b) * e + Usd(m) * f
<1> DEFINE mc == Coin(Lot(price))
           mu == Usd(Lot(price))
           bc == Coin(Lot(bid))
           bu == Usd(Lot(bid))
           apart == bc * mu - mc * bu
           e == coin * mu - mc * v
           f == bc * v - coin * bu
<1>1. mc \in Nat /\ mu \in Nat /\ bc \in Nat /\ bu \in Nat
  BY LotType, RateLegs
<1>2. mc * v <= coin * mu /\ coin * bu <= bc * v /\ v <= max
  BY DEF IsSale
<1>3. mc * bu <= bc * mu
  BY LotsCompare
<1> HIDE DEF mc, mu, bc, bu
<1>4. /\ mc * v \in Nat /\ coin * mu \in Nat /\ coin * bu \in Nat /\ bc * v \in Nat
      /\ mc * bu \in Nat /\ bc * mu \in Nat
  BY <1>1
<1>5. e \in Nat /\ f \in Nat /\ apart \in Nat
  BY <1>2, <1>3, <1>4
<1>6. coin * mu = mc * v + e /\ bc * v = coin * bu + f
  BY <1>4
<1>7. apart * v = bu * e + mu * f
  <2>1. apart * v = (bc * mu) * v - (mc * bu) * v
    BY <1>4
  <2>2. bu * e = (coin * mu) * bu - (mc * bu) * v
    BY <1>1, <1>4
  <2>3. mu * f = (bc * mu) * v - (coin * mu) * bu
    BY <1>1, <1>4
  <2>4. (bc * mu) * v \in Nat /\ (mc * bu) * v \in Nat /\ (coin * mu) * bu \in Nat
    BY <1>4, <1>1
  <2> QED BY <2>1, <2>2, <2>3, <2>4
<1> HIDE DEF e, f, apart
<1>8. apart * v <= apart * max
  BY <1>2, <1>5
<1>9. \E e1, f1 \in Nat : /\ coin * mu = mc * v + e1
                          /\ bc * v = coin * bu + f1
                          /\ apart \in Nat /\ apart * v <= apart * max
                          /\ apart * v = bu * e1 + mu * f1
  BY <1>5, <1>6, <1>7, <1>8
<1> QED BY <1>9 DEF apart, mc, mu, bc, bu

\* The candidates cover every sale, unless it is not even near what may be paid.
LEMMA CandidatesCover ==
  ASSUME NEW price \in Rates, NEW bid \in Rates, ~Below(bid, price), NEW max \in Nat,
         max <= Usd(bid), NEW s, s = Search(max, price, bid),
         NEW coin \in Nat, NEW v \in Nat, IsSale(coin, v, max, Lot(price), Lot(bid))
  PROVE  \/ coin <= Coin(Candidates(LotPair(s), s))
         \/ v + MaxSteps <= max /\ ~SameRate(price, bid)
<1> DEFINE m == Lot(price)
           b == Lot(bid)
           mc == Coin(m)
           mu == Usd(m)
           bc == Coin(b)
           bu == Usd(b)
           apart == bc * mu - mc * bu
           seed == LotPair(s)
           residues == (apart * max) \div bu
           pair == Candidates(seed, s)
<1>1. mc \in Nat /\ mu \in Nat /\ mu > 0 /\ bc \in Nat /\ bu \in Nat /\ bu > 0
  BY LotType, RateLegs
<1>2. PICK e \in Nat, f \in Nat :
         /\ coin * mu = mc * v + e /\ bc * v = coin * bu + f
         /\ apart \in Nat /\ apart * v <= apart * max
         /\ apart * v = bu * e + mu * f
  BY SaleExcess
<1>3. coin > 0 /\ v > 0 /\ v <= max
  BY DEF IsSale
<1>4. pair = IF seed = <<s.coin, max>> \/ apart = 0 THEN seed
             ELSE IF residues \in 0 .. MaxExcess THEN ResiduePairs(seed, residues, s)
             ELSE IF mu + bu > apart * max THEN seed
             ELSE ProjectedPair(InteriorPair(seed, s), s)
  BY DEF Candidates, Determinant, Search
<1>5. seed \in Fairly(price, bid, max)
  <2>1. \A c : Try(c, s) \in Fairly(price, bid, max)
    BY SearchFields, TryFair DEF Try
  <2> HIDE DEF Try
  <2>2. \A p, q : p \in Fairly(price, bid, max) /\ q \in Fairly(price, bid, max)
                    => LargerPair(p, q) \in Fairly(price, bid, max)
    BY LargerFair
  <2> QED BY <2>1, <2>2 DEF LotPair
<1>6. e = 0 \/ f = 0 => coin <= Coin(seed)
  <2>1. e = 0 => coin * mu = mc * v
    <3>1. mc * v \in Nat
      BY <1>1
    <3> QED BY <1>2, <3>1
  <2>2. f = 0 => coin * bu = bc * v
    <3>1. coin * bu \in Nat
      BY <1>1
    <3> QED BY <1>2, <3>1
  <2> QED BY <2>1, <2>2, LotsCover
<1>7. coin <= s.coin
  <2>1. TryCoin(coin, max, price, bid) = <<coin, v>>
    BY SaleMeans
  <2>2. TryCoin(coin, max, price, bid) # NoPair
    BY <1>3, <2>1 DEF NoPair
  <2> QED BY <2>2, SearchBounds
<1>8. apart = 0 <=> SameRate(price, bid)
  <2>1. ~Below(price, bid) <=> bc * mu <= mc * bu
    BY LotsCompare
  <2>2. mc * bu <= bc * mu
    BY LotsCompare
  <2>3. mc * bu \in Nat /\ bc * mu \in Nat
    BY <1>1
  <2>4. ~Below(price, bid) <=> apart = 0
    BY <2>1, <2>2, <2>3
  <2>5. ~Below(price, bid) <=> SameRate(price, bid)
    <3>1. Coin(price) \in Nat /\ Usd(price) \in Nat /\ Coin(bid) \in Nat /\ Usd(bid) \in Nat
      BY RateLegs
    <3> DEFINE x == Coin(price) * Usd(bid)
               y == Coin(bid) * Usd(price)
    <3>2. x \in Nat /\ y \in Nat
      BY <3>1
    <3>3. /\ Below(bid, price) <=> y < x
          /\ Below(price, bid) <=> x < y
          /\ SameRate(price, bid) <=> x = y
      BY DEF Below, SameRate
    <3> HIDE DEF x, y
    <3> QED BY <3>2, <3>3
  <2> QED BY <2>4, <2>5
<1> HIDE DEF mc, mu, bc, bu, pair, residues
<1>9. CASE seed = <<s.coin, max>>
  <2>1. pair = seed /\ Coin(seed) = s.coin
    BY <1>4, <1>9 DEF Coin
  <2>2. coin <= Coin(pair)
    BY <1>7, <2>1
  <2> QED BY <2>2 DEF pair
<1> HIDE DEF apart
<1>10. CASE apart = 0
  <2>1. e = 0
    <3>1. bu * e + mu * f = 0
      <4>1. 0 * v = 0
        OBVIOUS
      <4> QED BY <1>2, <1>10, <4>1
    <3>2. e > 0 => bu * e > 0
      BY <1>1
    <3>3. bu * e \in Nat /\ mu * f \in Nat
      BY <1>1
    <3> QED BY <3>1, <3>2, <3>3
  <2>2. coin <= Coin(pair)
    BY <1>4, <1>6, <1>10, <2>1
  <2> QED BY <2>2 DEF pair
<1>11. CASE ~(seed = <<s.coin, max>> \/ apart = 0) /\ residues \in 0 .. MaxExcess
  <2>1. e <= residues
    <3> DEFINE n == apart * max
    <3>1. n \in Nat
      BY <1>2
    <3>2. bu * e \in Nat /\ mu * f \in Nat /\ apart * v \in Nat
      BY <1>1, <1>2
    <3>3. bu * e <= n /\ residues = n \div bu
      BY <1>2, <3>1, <3>2 DEF residues, apart
    <3> HIDE DEF n
    <3> QED BY <1>1, <3>1, <3>3, QuotientAtLeast
  <2>2. e \in 0 .. residues
    <3>1. residues \in Int
      BY <1>11
    <3> QED BY <2>1, <3>1
  <2>3. pair = ResiduePairs(seed, residues, s)
    BY <1>4, <1>11
  <2>4. coin * Usd(Lot(price)) = Coin(Lot(price)) * v + e
    BY <1>2 DEF mc, mu
  <2> HIDE DEF seed
  <2>5. coin <= Coin(ResiduePairs(seed, residues, s))
    BY <1>5, <1>6, <1>11, <2>2, <2>4, ResiduesCover
  <2> QED BY <2>3, <2>5 DEF pair, seed
<1>12. CASE ~(seed = <<s.coin, max>> \/ apart = 0) /\ residues \notin 0 .. MaxExcess
            /\ mu + bu > apart * max
  <2>1. e = 0 \/ f = 0
    <3> SUFFICES ASSUME e >= 1, f >= 1 PROVE FALSE
      OBVIOUS
    <3>1. bu <= bu * e /\ mu <= mu * f
      BY <1>1
    <3> DEFINE x == apart * max
               y == apart * v
               h == bu * e
               g == mu * f
    <3>2. x \in Nat /\ y \in Nat /\ h \in Nat /\ g \in Nat
      BY <1>1, <1>2
    <3>3. mu + bu > x /\ y <= x /\ y = h + g /\ bu <= h /\ mu <= g
      BY <1>2, <1>12, <3>1
    <3> HIDE DEF x, y, h, g
    <3> QED BY <1>1, <3>2, <3>3
  <2>2. coin <= Coin(pair)
    BY <1>4, <1>6, <1>12, <2>1
  <2> QED BY <2>2 DEF pair
<1>13. CASE ~(seed = <<s.coin, max>> \/ apart = 0) /\ residues \notin 0 .. MaxExcess
            /\ ~(mu + bu > apart * max)
  <2> DEFINE inner == InteriorPair(seed, s)
  <2>1. pair = ProjectedPair(inner, s)
    BY <1>4, <1>13
  <2> HIDE DEF seed
  <2>2. inner \in Fairly(price, bid, max)
    BY <1>5, InteriorFair
  <2> HIDE DEF inner
  <2>3. coin <= Coin(pair) \/ v + MaxSteps <= max
    BY <2>1, <2>2, ProjectedCovers
  <2>4. ~SameRate(price, bid)
    BY <1>8, <1>13
  <2>5. \/ coin <= Coin(Candidates(seed, s))
        \/ v + MaxSteps <= max /\ ~SameRate(price, bid)
    BY <2>3, <2>4 DEF pair
  <2> QED BY <2>5 DEF seed
<1> QED BY <1>9, <1>10, <1>11, <1>12, <1>13

----------------------------------------------------------------------------
(* What a clearing leaves: nothing that could trade at its price, but for    *)
(* what a projection cut short may miss.                                     *)

\* Of what can be sold for usd, a pair is the most, but for what is a step of the
\* projection for each USD below the most that may be paid.
Covers(pair, usd, most, price, bid) ==
  \A coin \in Nat :
    TryCoin(coin, Least(usd, Usd(bid)), price, bid) # NoPair =>
      \/ coin <= Coin(pair)
      \/ AtRate(coin, price) + MaxSteps <= most /\ ~SameRate(price, bid)

\* What can be sold for less can be sold for more.
LEMMA CoversLess ==
  ASSUME NEW pair, NEW usd \in Int, NEW most, NEW price, NEW bid \in Rates,
         Covers(pair, usd, most, price, bid), NEW less \in Int, less <= usd
  PROVE  Covers(pair, less, most, price, bid)
<1>1. Usd(bid) \in Nat
  BY RateLegs
<1> DEFINE x == Least(less, Usd(bid))
           y == Least(usd, Usd(bid))
<1>2. x \in Int /\ y \in Int /\ x <= y
  BY <1>1 DEF Least
<1> HIDE DEF x, y
<1>3. ASSUME NEW coin \in Nat, TryCoin(coin, x, price, bid) # NoPair
      PROVE  TryCoin(coin, y, price, bid) # NoPair
  <2> DEFINE p == <<coin, AtRate(coin, price)>>
  <2>1. coin \in Nat \ {0} /\ Usd(p) \in 1 .. x /\ ~Below(bid, p) /\ p # NoPair
    BY <1>3 DEF TryCoin
  <2>2. Usd(p) \in 1 .. y
    BY <1>2, <2>1
  <2> HIDE DEF p
  <2>3. TryCoin(coin, y, price, bid) = p
    BY <2>1, <2>2 DEF TryCoin, p
  <2> QED BY <2>1, <2>3
<1> QED BY <1>3 DEF Covers, x, y

LEMMA MaxExecutableCovers ==
  ASSUME NEW budget \in Nat, NEW price \in Rates, NEW bid \in Rates, ~Below(bid, price),
         NEW most \in Nat, Least(budget, Usd(bid)) <= most
  PROVE  Covers(MaxExecutablePair(budget, price, bid), budget, most, price, bid)
<1> DEFINE max == Least(budget, Usd(bid))
           s == Search(max, price, bid)
           pair == MaxExecutablePair(budget, price, bid)
           first == Try(s.coin, s)
<1>1. max \in Nat /\ max <= Usd(bid) /\ max <= most
  BY RateLegs DEF Least
<1> SUFFICES ASSUME NEW coin \in Nat, TryCoin(coin, max, price, bid) # NoPair
             PROVE  \/ coin <= Coin(pair)
                    \/ AtRate(coin, price) + MaxSteps <= most /\ ~SameRate(price, bid)
  BY DEF Covers
<1> DEFINE v == AtRate(coin, price)
<1>2. v \in Nat /\ IsSale(coin, v, max, Lot(price), Lot(bid))
  BY <1>1, AtRateType, SaleMeans
<1> HIDE DEF v
<1>3. v > 0 /\ v <= max
  BY <1>2 DEF IsSale
<1>4. pair = IF first # NoPair THEN first ELSE Candidates(LotPair(s), s)
  <2>1. max # 0
    BY <1>2, <1>3
  <2> QED BY <2>1 DEF MaxExecutablePair
<1> HIDE DEF max, pair, first
<1>5. CASE first # NoPair
  <2>1. coin <= s.coin
    BY <1>1, SearchBounds
  <2>2. first = TryCoin(s.coin, max, price, bid)
    BY SearchFields DEF first, Try
  <2>3. Coin(first) = s.coin
    BY <1>5, <2>2 DEF TryCoin, Coin
  <2> QED BY <1>4, <1>5, <2>1, <2>3
<1>6. CASE first = NoPair
  <2> DEFINE t == s
  <2>1. t = Search(max, price, bid)
    OBVIOUS
  <2>2. pair = Candidates(LotPair(t), t)
    BY <1>4, <1>6
  <2> HIDE DEF t
  <2>3. \/ coin <= Coin(pair)
        \/ v + MaxSteps <= max /\ ~SameRate(price, bid)
    BY <1>1, <1>2, <2>1, <2>2, CandidatesCover
  <2>4. v + MaxSteps \in Nat
    BY <1>2, PairsAssumption
  <2> QED BY <1>1, <2>3, <2>4 DEF v
<1> QED BY <1>5, <1>6

\* A bid at the price itself trades by whole lots.
LEMMA SameRatePair ==
  ASSUME NEW price \in Rates, NEW bid \in Rates, SameRate(price, bid), NEW max \in Nat,
         NEW p \in Fairly(price, bid, max), p # NoPair
  PROVE  Usd(Lot(price)) <= Usd(p)
<1> DEFINE coin == Coin(p)
           v == Usd(p)
           C == Coin(price)
           U == Usd(price)
           c == Coin(bid)
           u == Usd(bid)
<1>1. /\ C \in Nat /\ C > 0 /\ U \in Nat /\ U > 0 /\ c \in Nat /\ c > 0 /\ u \in Nat /\ u > 0
  BY RateLegs
<1>2. /\ coin \in Nat /\ v \in Nat /\ v > 0 /\ coin > 0
  BY RateLegs DEF Fairly
<1>3. v = AtRate(coin, price) /\ ~Below(bid, p)
  BY DEF Fairly
<1>4. C * v <= coin * U
  <2>1. v <= AtRate(coin, price)
    BY <1>2, <1>3
  <2>2. Coin(Lot(price)) * v <= coin * Usd(Lot(price))
    BY <1>2, <2>1, AtRateMeans
  <2> QED BY <1>2, <2>2, LotCompares
<1>5. coin * u <= c * v
  <2>1. ~(c * v < coin * u)
    BY <1>3 DEF Below
  <2> DEFINE x == c * v
             y == coin * u
  <2>2. x \in Nat /\ y \in Nat
    BY <1>1, <1>2
  <2> HIDE DEF x, y
  <2>3. ~(x < y) => y <= x
    BY <2>2
  <2> QED BY <2>1, <2>3 DEF x, y
<1>6. C * u = c * U
  BY DEF SameRate
<1> HIDE DEF coin, v, C, U, c, u
<1>7. coin * U <= C * v
  <2>1. (coin * u) * U <= (c * v) * U
    <3>1. ASSUME NEW x \in Nat, NEW y \in Nat, x <= y PROVE x * U <= y * U
      BY <1>1, <3>1
    <3>2. coin * u \in Nat /\ c * v \in Nat
      BY <1>1, <1>2
    <3> QED BY <1>5, <3>1, <3>2
  <2>2. (coin * u) * U = u * (coin * U) /\ (c * v) * U = v * (c * U)
    BY <1>1, <1>2
  <2>3. v * (C * u) = u * (C * v)
    BY <1>1, <1>2
  <2>4. u * (coin * U) <= u * (C * v)
    BY <1>6, <2>1, <2>2, <2>3
  <2>5. ASSUME NEW x \in Nat, NEW y \in Nat, u * x <= u * y PROVE x <= y
    BY <1>1, <2>5
  <2>6. coin * U \in Nat /\ C * v \in Nat
    BY <1>1, <1>2
  <2> QED BY <2>4, <2>5, <2>6
<1>8. Coin(Lot(price)) \in Nat /\ Usd(Lot(price)) \in Nat /\ Usd(Lot(price)) > 0
  BY LotType, RateLegs
<1>9. coin * Usd(Lot(price)) = Coin(Lot(price)) * v
  <2>1. coin * Usd(Lot(price)) <= Coin(Lot(price)) * v
    BY <1>2, <1>7, LotCompares DEF C, U
  <2>2. Coin(Lot(price)) * v <= coin * Usd(Lot(price))
    BY <1>2, <1>4, LotCompares DEF C, U
  <2>3. coin * Usd(Lot(price)) \in Nat /\ Coin(Lot(price)) * v \in Nat
    BY <1>2, <1>8
  <2> QED BY <2>1, <2>2, <2>3
<1>10. PICK k \in Nat : v = k * Usd(Lot(price))
  BY <1>2, <1>9, SameMultiple
<1>11. k >= 1
  <2>1. k = 0 => k * Usd(Lot(price)) = 0
    BY <1>8
  <2> QED BY <1>2, <1>10, <2>1
<1> DEFINE L == Usd(Lot(price))
<1>12. L <= k * L
  <2>1. L \in Nat
    BY <1>8
  <2> HIDE DEF L
  <2> QED BY <1>11, <2>1
<1> QED BY <1>10, <1>12 DEF v

\* Fills of which none could be enlarged by what is left of the budget.
Exhausts(f, b, S, price, budget) ==
  \A i \in S :
    ~Below(b[i], price) =>
      Covers(f[i], Usd(f[i]) + budget - Spent(f), Least(budget, Usd(b[i])), price, b[i])

LEMMA SpentChange ==
  ASSUME NEW b \in Books, NEW f \in [DOMAIN b -> Nat \X Nat],
         NEW g \in [DOMAIN b -> Nat \X Nat], NEW i \in DOMAIN b,
         \A j \in DOMAIN b : j # i => g[j] = f[j]
  PROVE  /\ Spent(f) \in Nat /\ Usd(f[i]) \in Nat /\ Usd(g[i]) \in Nat
         /\ Spent(g) = Spent(f) - Usd(f[i]) + Usd(g[i])
<1> DEFINE D == DOMAIN b
<1>1. IsFiniteSet(D)
  BY BookOf
<1>2. /\ Usds(f) \in [D -> Nat] /\ Spent(f) = Total(Usds(f), D) /\ Spent(f) \in Nat
      /\ Usds(g) \in [D -> Nat] /\ Spent(g) = Total(Usds(g), D)
  BY SpentType
<1>3. /\ \A j \in D : j # i => Usds(g)[j] = Usds(f)[j]
      /\ Usds(g)[i] = Usd(g[i]) /\ Usds(f)[i] = Usd(f[i])
  BY DEF Usds
<1>4. Total(Usds(g), D) = Total(Usds(f), D) - Usds(f)[i] + Usds(g)[i]
  BY <1>1, <1>2, <1>3, TotalChange
<1>5. Usd(f[i]) \in Nat /\ Usd(g[i]) \in Nat
  BY <1>2, <1>3
<1> QED BY <1>2, <1>3, <1>4, <1>5

\* A bid that is offered all that is left of the budget is exhausted.
LEMMA OfferedIsCovered ==
  ASSUME NEW b \in Books, NEW price \in Rates, NEW budget \in Nat,
         NEW f \in Fills(b, price, budget), NEW i \in DOMAIN b, ~Below(b[i], price)
  PROVE  LET usd == Usd(f[i]) + budget - Spent(f)
             larger == MaxExecutablePair(usd, price, b[i])
         IN  /\ usd \in Nat /\ usd <= budget
             /\ larger \in Fairly(price, b[i], Usd(b[i])) /\ larger \in Nat \X Nat
             /\ Usd(larger) <= usd
             /\ Covers(larger, usd, Least(budget, Usd(b[i])), price, b[i])
<1> DEFINE usd == Usd(f[i]) + budget - Spent(f)
           most == Least(budget, Usd(b[i]))
<1>1. b[i] \in Rates /\ Usd(b[i]) \in Nat
  BY BookOf, RateLegs
<1>2. f \in [DOMAIN b -> Nat \X Nat] /\ Spent(f) <= budget
  BY DEF Fills
<1>3. Spent(f) \in Nat /\ Usd(f[i]) \in Nat /\ Usd(f[i]) <= Spent(f)
  <2>1. /\ Usds(f) \in [DOMAIN b -> Nat] /\ Spent(f) = Total(Usds(f), DOMAIN b)
        /\ Spent(f) \in Nat
    BY <1>2, SpentType
  <2>2. Usds(f)[i] = Usd(f[i])
    BY <1>2 DEF Usds
  <2>3. IsFiniteSet(DOMAIN b)
    BY BookOf
  <2>4. Usds(f)[i] <= Total(Usds(f), DOMAIN b)
    BY <2>1, <2>3, TotalCovers
  <2> QED BY <2>1, <2>2, <2>4
<1>4. usd \in Nat /\ usd <= budget
  BY <1>2, <1>3
<1> HIDE DEF usd
<1>5. most \in Nat /\ Least(usd, Usd(b[i])) <= most
  BY <1>1, <1>4 DEF Least
<1> DEFINE larger == MaxExecutablePair(usd, price, b[i])
<1>6. Covers(larger, usd, most, price, b[i])
  BY <1>1, <1>4, <1>5, MaxExecutableCovers
<1>7. larger \in Fairly(price, b[i], Usd(b[i])) /\ Usd(larger) <= usd
  BY <1>1, <1>4, SearchFits
<1> HIDE DEF larger
<1>8. larger \in Nat \X Nat
  BY <1>1, <1>7, FairPair
<1> QED BY <1>4, <1>6, <1>7, <1>8 DEF usd, larger

\* What is offered in vain cannot be used.
LEMMA KeptIsCovered ==
  ASSUME NEW price \in Rates, NEW bid \in Rates, NEW p \in Fairly(price, bid, Usd(bid)),
         NEW usd \in Int, NEW most,
         NEW larger \in Fairly(price, bid, Usd(bid)), Covers(larger, usd, most, price, bid),
         \/ Coin(p) = Coin(bid)
         \/ Coin(larger) <= Coin(p) \/ Usd(larger) < Usd(p)
  PROVE  Covers(p, usd, most, price, bid)
<1>1. /\ Coin(p) \in Nat /\ Usd(p) \in Nat /\ Coin(larger) \in Nat /\ Usd(larger) \in Nat
      /\ Usd(bid) \in Nat
  BY FairWithin, RateLegs
<1>2. Usd(p) = AtRate(Coin(p), price) /\ Usd(larger) = AtRate(Coin(larger), price)
  BY <1>1, FairUsd
<1>3. Coin(p) <= Coin(larger) => Usd(p) <= Usd(larger)
  BY <1>1, <1>2, AtRateMonotone
<1>4. Coin(p) = Coin(bid) \/ Coin(larger) <= Coin(p)
  BY <1>1, <1>3
<1>5. ASSUME NEW coin \in Nat, TryCoin(coin, Least(usd, Usd(bid)), price, bid) # NoPair
      PROVE  coin <= Coin(p) \/ (AtRate(coin, price) + MaxSteps <= most /\ ~SameRate(price, bid))
  <2> DEFINE x == Least(usd, Usd(bid))
  <2>1. TryCoin(coin, x, price, bid) \in Fairly(price, bid, x) /\ x \in Nat
    <3>1. x \in Int
      BY <1>1 DEF Least
    <3>2. x \in Nat
      <4>1. AtRate(coin, price) \in 1 .. x
        BY <1>5 DEF TryCoin, Usd
      <4> HIDE DEF x
      <4> QED BY <3>1, <4>1
    <3> HIDE DEF x
    <3> QED BY <3>2, TryFair
  <2>2. coin <= Coin(bid)
    <3>1. x <= Usd(bid)
      BY <1>1 DEF Least
    <3> HIDE DEF x
    <3>2. coin <= Search(x, price, bid).coin
      BY <1>5, <2>1, <3>1, SearchBounds DEF x
    <3> QED BY <2>1, <3>1, <3>2, SearchBounds
  <2>3. \/ coin <= Coin(larger)
        \/ AtRate(coin, price) + MaxSteps <= most /\ ~SameRate(price, bid)
    BY <1>5 DEF Covers
  <2> QED BY <1>1, <1>4, <2>2, <2>3
<1> QED BY <1>5 DEF Covers

\* Once the bids of S are exhausted they stay so: less is left for every other.
LEMMA ExhaustsStep ==
  ASSUME NEW b \in Books, NEW price \in Rates, NEW budget \in Nat,
         NEW f \in Fills(b, price, budget), NEW S \in SUBSET DOMAIN b,
         NEW i \in DOMAIN b, ~Below(b[i], price),
         Exhausts(f, b, S \ {i}, price, budget),
         NEW pair \in Fairly(price, b[i], Usd(b[i])), Usd(f[i]) <= Usd(pair),
         Covers(pair, Usd(f[i]) + budget - Spent(f), Least(budget, Usd(b[i])), price, b[i])
  PROVE  Exhausts([f EXCEPT ![i] = pair], b, S, price, budget)
<1> DEFINE g == [f EXCEPT ![i] = pair]
<1>1. f \in [DOMAIN b -> Nat \X Nat]
  BY DEF Fills
<1>2. pair \in Nat \X Nat
  BY BookOf, FairPair
<1>4. /\ g \in [DOMAIN b -> Nat \X Nat]
      /\ g[i] = pair /\ \A j \in DOMAIN b : j # i => g[j] = f[j]
  BY <1>1, <1>2
<1> HIDE DEF g
<1>3. /\ Spent(f) \in Nat /\ Usd(f[i]) \in Nat /\ Usd(pair) \in Nat
      /\ Spent(g) = Spent(f) - Usd(f[i]) + Usd(pair)
  BY <1>1, <1>2, <1>4, SpentChange
<1>5. ASSUME NEW j \in S, ~Below(b[j], price)
      PROVE  Covers(g[j], Usd(g[j]) + budget - Spent(g), Least(budget, Usd(b[j])), price, b[j])
  <2>1. CASE j = i
    <3>1. Usd(g[j]) + budget - Spent(g) = Usd(f[i]) + budget - Spent(f)
      BY <1>3, <1>4, <2>1
    <3> QED BY <1>4, <2>1, <3>1
  <2>2. CASE j # i
    <3>1. g[j] = f[j]
      BY <1>4, <2>2
    <3>2. Usd(f[j]) \in Nat /\ b[j] \in Rates
      BY <1>1, BookOf DEF Usd
    <3> DEFINE most == Least(budget, Usd(b[j]))
    <3>3. Covers(f[j], Usd(f[j]) + budget - Spent(f), most, price, b[j])
      BY <1>5, <2>2 DEF Exhausts
    <3> HIDE DEF most
    <3>4. /\ Usd(f[j]) + budget - Spent(f) \in Int /\ Usd(f[j]) + budget - Spent(g) \in Int
          /\ Usd(f[j]) + budget - Spent(g) <= Usd(f[j]) + budget - Spent(f)
      BY <1>3, <3>2
    <3>5. Covers(f[j], Usd(f[j]) + budget - Spent(g), most, price, b[j])
      BY <3>2, <3>3, <3>4, CoversLess
    <3> QED BY <3>1, <3>5 DEF most
  <2> QED BY <2>1, <2>2
<1> QED BY <1>5 DEF Exhausts, g

\* What rounding left over is offered to every bid in turn.
LEMMA ReconciledCovers ==
  ASSUME NEW b \in Books, NEW slots \in SUBSET DOMAIN b, NEW price \in Rates,
         NEW budget \in Nat, NEW fill \in Fills(b, price, budget)
  PROVE  Exhausts(Reconciled(b, slots, price, fill, budget), b, slots, price, budget)
<1>1. PICK fills : /\ Reconciled(b, slots, price, fill, budget) = fills[slots]
                   /\ IsReconciling(fills, b, slots, price, fill, budget)
  BY ReconciledSteps
<1> DEFINE X == [S \in SUBSET slots |->
                   {f \in Fills(b, price, budget) : Exhausts(f, b, S, price, budget)}]
           last == [S \in SUBSET slots |-> LastOf(b, S)]
<1>2. IsFiniteSet(slots)
  BY BookOf, FS_Subset
<1>3. \A S \in SUBSET slots : S # {} => last[S] \in S
  BY LastRanks
<1>4. fills[{}] \in X[{}]
  <2>1. fills[{}] \in Fills(b, price, budget)
    BY <1>1 DEF IsReconciling
  <2> QED BY <2>1 DEF Exhausts
<1>5. ASSUME NEW S \in SUBSET slots, S # {}, fills[S \ {last[S]}] \in X[S \ {last[S]}]
      PROVE  fills[S] \in X[S]
  <2> DEFINE i == LastOf(b, S)
             f == fills[S \ {i}]
             usd == Usd(f[i]) + budget - Spent(f)
             larger == MaxExecutablePair(usd, price, b[i])
             most == Least(budget, Usd(b[i]))
  <2>1. i \in S /\ i \in DOMAIN b /\ last[S] = i
    BY <1>3, <1>5
  <2>2. f \in Fills(b, price, budget) /\ Exhausts(f, b, S \ {i}, price, budget)
    BY <1>5, <2>1
  <2>3. /\ fills[S] \in Fills(b, price, budget)
        /\ fills[S] = IF \/ Below(b[i], price)
                         \/ Coin(f[i]) = Coin(b[i])
                         \/ Coin(larger) <= Coin(f[i]) \/ Usd(larger) < Usd(f[i])
                      THEN f ELSE [f EXCEPT ![i] = larger]
    BY <1>1, <1>5 DEF IsReconciling
  <2> HIDE DEF i, f
  <2>4. ~Below(b[i], price) =>
          /\ usd \in Nat
          /\ larger \in Fairly(price, b[i], Usd(b[i])) /\ larger \in Nat \X Nat
          /\ Covers(larger, usd, most, price, b[i])
    BY <2>1, <2>2, OfferedIsCovered
  <2> HIDE DEF usd, larger, most
  <2>5. f[i] \in Fairly(price, b[i], Usd(b[i])) /\ f \in [DOMAIN b -> Nat \X Nat]
        /\ b[i] \in Rates
    BY <2>1, <2>2, BookOf DEF Fills
  <2>6. Usd(f[i]) \in Nat
    BY <2>5, FairPair
  <2>7. CASE Below(b[i], price)
    <3>1. fills[S] = f
      BY <2>3, <2>7
    <3>2. Exhausts(f, b, S, price, budget)
      BY <2>2, <2>7 DEF Exhausts
    <3> QED BY <2>3, <3>1, <3>2
  <2>8. CASE /\ ~Below(b[i], price)
             /\ \/ Coin(f[i]) = Coin(b[i])
                \/ Coin(larger) <= Coin(f[i]) \/ Usd(larger) < Usd(f[i])
    <3>1. Covers(f[i], usd, most, price, b[i])
      BY <2>4, <2>5, <2>8, KeptIsCovered
    <3>2. fills[S] = [f EXCEPT ![i] = f[i]]
      BY <2>3, <2>5, <2>8
    <3>3. Usd(f[i]) <= Usd(f[i])
      BY <2>6
    <3> DEFINE pair == f[i]
    <3>4. pair \in Fairly(price, b[i], Usd(b[i])) /\ Usd(f[i]) <= Usd(pair)
          /\ Covers(pair, Usd(f[i]) + budget - Spent(f), Least(budget, Usd(b[i])), price, b[i])
      BY <2>5, <3>1, <3>3 DEF usd, most
    <3>5. fills[S] = [f EXCEPT ![i] = pair]
      BY <3>2
    <3> HIDE DEF pair
    <3>6. Exhausts([f EXCEPT ![i] = pair], b, S, price, budget)
      BY <2>1, <2>2, <2>8, <3>4, ExhaustsStep
    <3> QED BY <2>3, <3>5, <3>6
  <2>9. CASE ~(\/ Below(b[i], price)
               \/ Coin(f[i]) = Coin(b[i])
               \/ Coin(larger) <= Coin(f[i]) \/ Usd(larger) < Usd(f[i]))
    <3>1. fills[S] = [f EXCEPT ![i] = larger]
      BY <2>3, <2>9
    <3>2. Usd(f[i]) <= Usd(larger)
      <4>1. Usd(larger) \in Nat
        BY <2>4, <2>5, <2>9, FairPair
      <4> QED BY <2>6, <2>9, <4>1
    <3>3. Exhausts([f EXCEPT ![i] = larger], b, S, price, budget)
      BY <2>1, <2>2, <2>4, <2>9, <3>2, ExhaustsStep DEF usd, most
    <3> QED BY <2>3, <3>1, <3>3
  <2> QED BY <2>7, <2>8, <2>9
<1>6. \A S \in SUBSET slots : fills[S] \in X[S]
  <2> HIDE DEF X, last
  <2> QED BY <1>2, <1>3, <1>4, <1>5, FoldKeeps
<1>7. fills[slots] \in X[slots]
  BY <1>6
<1>8. Exhausts(fills[slots], b, slots, price, budget)
  BY <1>7
<1> QED BY <1>1, <1>8

\* A bid at the price that may spend a lot of it trades one at least.
LEMMA LotIsTraded ==
  ASSUME NEW price \in Rates, NEW budget \in Nat, Usd(Lot(price)) <= budget
  PROVE  Usd(Lot(price)) <= Usd(MaxExecutablePair(budget, price, price))
<1> DEFINE m == Lot(price)
           mc == Coin(m)
           mu == Usd(m)
           max == Least(budget, Usd(price))
           pair == MaxExecutablePair(budget, price, price)
<1>1. mc \in Nat /\ mc > 0 /\ mu \in Nat /\ mu > 0 /\ Usd(price) \in Nat
  BY LotType, RateLegs
<1>2. mu <= Usd(price)
  <2>1. PICK d \in Nat : d > 0 /\ Usd(price) = d * mu
    BY LotScale
  <2> HIDE DEF mu
  <2>2. mu <= d * mu
    BY <1>1, <2>1
  <2> QED BY <2>1, <2>2
<1>3. SameRate(price, price) /\ ~Below(price, price)
  BY RateCases
<1>4. max \in Nat /\ mu <= max
  BY <1>1, <1>2 DEF Least
<1> HIDE DEF max, pair, mc, mu
<1>5. IsSale(mc, mu, max, m, m)
  <2>1. mc * mu \in Nat
    BY <1>1
  <2>2. mc * mu <= mc * mu /\ mc * mu < mc * mu + mc
    <3> DEFINE x == mc * mu
    <3>1. x \in Nat
      BY <2>1
    <3> HIDE DEF x
    <3>2. x <= x /\ x < x + mc
      BY <1>1, <3>1
    <3> QED BY <3>2 DEF x
  <2> QED BY <1>1, <1>4, <2>2 DEF IsSale, mc, mu
<1>6. TryCoin(mc, max, price, price) = <<mc, mu>>
  BY <1>1, <1>4, <1>5, SaleMeans
<1>7. TryCoin(mc, max, price, price) # NoPair
  BY <1>1, <1>6 DEF NoPair
<1>8. Covers(pair, budget, max, price, price)
  <2>1. max <= max
    BY <1>4
  <2> QED BY <1>3, <1>4, <2>1, MaxExecutableCovers DEF max, pair
<1>9. mc <= Coin(pair)
  BY <1>1, <1>3, <1>7, <1>8 DEF Covers, max
<1>10. pair \in Fairly(price, price, max)
  BY MaxExecutableFair DEF pair, max
<1>11. pair # NoPair
  BY <1>1, <1>9 DEF NoPair, Coin
<1> QED BY <1>3, <1>4, <1>10, <1>11, SameRatePair DEF pair

\* What is kept back for the marginal bid while it has not been served.
KeptBack(b, S, marginal, i) ==
  IF Ahead(b, i, marginal) /\ marginal \notin S THEN Usd(Lot(b[marginal])) ELSE 0

\* The bids of S were served from `empty`: as long as all of them are ahead of the
\* marginal one a lot is left, and none could be enlarged but by what is kept back.
Serves(f, b, S, marginal, empty, budget) ==
  /\ \A i \in DOMAIN b \ S : f[i] = empty[i]
  /\ (\A i \in S : Ahead(b, i, marginal)) => Usd(Lot(b[marginal])) <= budget - Spent(f)
  /\ \A i \in S :
       ~Below(b[i], b[marginal]) =>
         Covers(f[i], Usd(f[i]) + budget - Spent(f) - KeptBack(b, S, marginal, i),
                Least(budget, Usd(b[i])), b[marginal], b[i])

LEMMA ServesStep ==
  ASSUME NEW b \in Books, NEW marginal \in DOMAIN b, NEW budget \in Nat,
         NEW S \in SUBSET DOMAIN b, S # {}, NEW i, i = LastOf(b, S),
         NEW g \in Fills(b, b[marginal], budget), NEW empty,
         Serves(g, b, S \ {i}, marginal, empty, budget), empty[i] = NoPair,
         NEW h \in Fills(b, b[marginal], budget), NEW pair,
         pair = MaxExecutablePair(Available(b, marginal, i, budget - Spent(g)),
                                  b[marginal], b[i]),
         h = IF Below(b[i], b[marginal]) \/ pair = NoPair THEN g ELSE [g EXCEPT ![i] = pair]
  PROVE  Serves(h, b, S, marginal, empty, budget)
<1> DEFINE price == b[marginal]
           L == Usd(Lot(price))
           left == budget - Spent(g)
           avail == Available(b, marginal, i, left)
           D == DOMAIN b
<1>1. /\ i \in S /\ i \in D /\ \A j \in S \ {i} : Ahead(b, j, i)
  BY LastRanks
<1>2. /\ price \in Rates /\ b[i] \in Rates /\ Usd(b[i]) \in Nat
      /\ Usd(Lot(price)) \in Nat /\ Usd(Lot(price)) > 0
  BY <1>1, BookOf, LotType, RateLegs
<1>3. /\ g \in [D -> Nat \X Nat] /\ Spent(g) <= budget
      /\ h \in [D -> Nat \X Nat] /\ Spent(h) <= budget
  BY DEF Fills
<1>4. g[i] = NoPair
  BY <1>1 DEF Serves
<1>5. /\ \A j \in D : j # i => h[j] = g[j]
      /\ Below(b[i], price) => h[i] = NoPair
      /\ ~Below(b[i], price) => h[i] = pair
  BY <1>1, <1>3, <1>4
<1>6. Usd(NoPair) = 0
  BY DEF NoPair, Usd
<1>7. /\ Spent(g) \in Nat /\ Usd(h[i]) \in Nat
      /\ Spent(h) = Spent(g) + Usd(h[i])
  <2>1. /\ Spent(g) \in Nat /\ Usd(g[i]) \in Nat /\ Usd(h[i]) \in Nat
        /\ Spent(h) = Spent(g) - Usd(g[i]) + Usd(h[i])
    <3> DEFINE H == h
               G == g
    <3>1. /\ G \in [DOMAIN b -> Nat \X Nat] /\ H \in [DOMAIN b -> Nat \X Nat]
          /\ i \in DOMAIN b /\ \A j \in DOMAIN b : j # i => H[j] = G[j]
      BY <1>1, <1>3, <1>5
    <3> HIDE DEF H, G
    <3>2. /\ Spent(G) \in Nat /\ Usd(G[i]) \in Nat /\ Usd(H[i]) \in Nat
          /\ Spent(H) = Spent(G) - Usd(G[i]) + Usd(H[i])
      BY <3>1, SpentChange
    <3> QED BY <3>2 DEF H, G
  <2> QED BY <1>4, <1>6, <2>1
<1>8. left \in Nat
  BY <1>3, <1>7
<1>9. avail = IF Ahead(b, i, marginal) THEN left - Least(left, L) ELSE left - 0
  BY DEF Available
<1>10. pair = MaxExecutablePair(avail, price, b[i])
  OBVIOUS
<1>11. ~Ahead(b, marginal, marginal)
  BY <1>2, RateCases, BookOf DEF Ahead
<1>12. \A j \in DOMAIN b \ S : h[j] = empty[j]
  BY <1>1, <1>5 DEF Serves
<1>13. (\A j \in S \ {i} : Ahead(b, j, marginal)) => L <= left
  BY DEF Serves
<1> HIDE DEF price, L, avail
<1>14. avail \in Nat /\ avail <= left
  BY <1>2, <1>8, <1>9 DEF Least, L
<1>15. ~Below(b[i], price) =>
         Covers(pair, avail, Least(budget, Usd(b[i])), price, b[i])
  <2>1. Least(budget, Usd(b[i])) \in Nat /\ Least(avail, Usd(b[i])) <= Least(budget, Usd(b[i]))
    BY <1>2, <1>3, <1>7, <1>8, <1>14 DEF Least
  <2> QED BY <1>2, <1>10, <1>14, <2>1, MaxExecutableCovers
<1>16. Usd(h[i]) <= avail
  <2>1. Usd(pair) <= avail
    BY <1>2, <1>10, <1>14, SearchFits
  <2> QED BY <1>5, <1>6, <1>14, <2>1
<1>17. ASSUME \A j \in S : Ahead(b, j, marginal)
       PROVE  L <= budget - Spent(h)
  <2>1. L <= left /\ Ahead(b, i, marginal)
    BY <1>1, <1>13, <1>17
  <2>2. avail = left - L
    BY <1>2, <1>8, <1>9, <2>1 DEF Least, L
  <2> QED BY <1>2, <1>3, <1>7, <1>16, <2>2 DEF L
<1>18. Ahead(b, i, marginal) => marginal \notin S /\ \A j \in S : Ahead(b, j, marginal)
  <2>1. Ahead(b, i, marginal) => \A j \in S : Ahead(b, j, marginal)
    BY <1>1, AheadOrder
  <2> QED BY <1>11, <2>1
<1>19. ASSUME NEW j \in S, ~Below(b[j], price)
       PROVE  Covers(h[j], Usd(h[j]) + budget - Spent(h) - KeptBack(b, S, marginal, j),
                     Least(budget, Usd(b[j])), price, b[j])
  <2>1. CASE j = i
    <3> DEFINE usd == Usd(h[i]) + budget - Spent(h) - KeptBack(b, S, marginal, i)
               most == Least(budget, Usd(b[i]))
    <3>1. usd = left - KeptBack(b, S, marginal, i)
      <4>1. KeptBack(b, S, marginal, i) \in Int
        BY <1>2 DEF KeptBack, price
      <4> QED BY <1>7, <1>8, <4>1
    <3>2. usd \in Int /\ usd <= avail
      <4>1. CASE Ahead(b, i, marginal)
        <5>1. KeptBack(b, S, marginal, i) = L
          BY <1>18, <4>1 DEF KeptBack, L, price
        <5>2. L <= left
          BY <1>13, <1>18, <4>1
        <5> QED BY <1>2, <1>8, <1>9, <3>1, <4>1, <5>1, <5>2 DEF Least, L
      <4>2. CASE ~Ahead(b, i, marginal)
        <5>1. KeptBack(b, S, marginal, i) = 0
          BY <4>2 DEF KeptBack
        <5> QED BY <1>8, <1>9, <3>1, <4>2, <5>1
      <4> QED BY <4>1, <4>2
    <3> HIDE DEF usd, most
    <3>3. Covers(pair, avail, most, price, b[i])
      BY <1>15, <1>19, <2>1 DEF most
    <3>4. Covers(pair, usd, most, price, b[i])
      BY <1>2, <1>14, <3>2, <3>3, CoversLess
    <3> QED BY <1>5, <1>19, <2>1, <3>4 DEF usd, most
  <2>2. CASE j # i
    <3> DEFINE before == Usd(g[j]) + budget - Spent(g) - KeptBack(b, S \ {i}, marginal, j)
               after == Usd(g[j]) + budget - Spent(h) - KeptBack(b, S, marginal, j)
               most == Least(budget, Usd(b[j]))
    <3>1. h[j] = g[j] /\ b[j] \in Rates /\ Usd(g[j]) \in Nat
      BY <1>3, <1>5, <2>2, BookOf DEF Usd
    <3>2. Covers(g[j], before, most, price, b[j])
      <4>1. j \in S \ {i} /\ ~Below(b[j], b[marginal])
        BY <1>19, <2>2 DEF price
      <4> QED BY <4>1 DEF Serves, price
    <3>3. /\ KeptBack(b, S \ {i}, marginal, j) \in Nat /\ KeptBack(b, S, marginal, j) \in Nat
          /\ KeptBack(b, S \ {i}, marginal, j) <= Usd(h[i]) + KeptBack(b, S, marginal, j)
      <4>1. CASE i # marginal
        <5>1. KeptBack(b, S \ {i}, marginal, j) = KeptBack(b, S, marginal, j)
          BY <4>1 DEF KeptBack
        <5>2. KeptBack(b, S, marginal, j) \in Nat
          BY <1>2 DEF KeptBack, price
        <5> QED BY <1>7, <5>1, <5>2
      <4>2. CASE i = marginal
        <5>1. L <= left
          BY <1>1, <1>13, <4>2
        <5>2. avail = left
          BY <1>8, <1>9, <1>11, <4>2
        <5>3. b[i] = price /\ ~Below(b[i], price)
          BY <1>2, <4>2, RateCases DEF price
        <5>4. L <= Usd(pair)
          BY <1>2, <1>8, <1>10, <5>1, <5>2, <5>3, LotIsTraded DEF L
        <5>5. Usd(h[i]) = Usd(pair)
          BY <1>5, <5>3
        <5>6. /\ KeptBack(b, S \ {i}, marginal, j) \in {0, L}
              /\ KeptBack(b, S, marginal, j) \in {0, L}
          BY DEF KeptBack, L, price
        <5> QED BY <1>2, <1>7, <5>4, <5>5, <5>6 DEF L
      <4> QED BY <4>1, <4>2
    <3>4. before \in Int /\ after \in Int /\ after <= before
      <4> DEFINE x == KeptBack(b, S \ {i}, marginal, j)
                 y == KeptBack(b, S, marginal, j)
      <4>1. x \in Nat /\ y \in Nat /\ x <= Usd(h[i]) + y
        BY <3>3
      <4> HIDE DEF x, y
      <4>2. Usd(g[j]) + budget - Spent(h) - y <= Usd(g[j]) + budget - Spent(g) - x
        BY <1>7, <3>1, <4>1
      <4> QED BY <1>7, <3>1, <4>1, <4>2 DEF x, y
    <3> HIDE DEF before, after, most
    <3>5. Covers(g[j], after, most, price, b[j])
      BY <3>1, <3>2, <3>4, CoversLess
    <3> QED BY <3>1, <3>5 DEF after, most
  <2> QED BY <2>1, <2>2
<1> QED BY <1>12, <1>17, <1>19 DEF Serves, price, L

\* Allocated afresh, nobody gets anything unless a lot is left for the marginal bid.
LEMMA ReplayTooSmall ==
  ASSUME NEW b \in Books, NEW suffix \in SUBSET DOMAIN b, NEW marginal \in DOMAIN b,
         NEW budget \in Nat, NEW fill, NEW replay,
         IsReplay(replay, b, suffix, marginal, fill, budget),
         budget - Spent(Emptied(b, suffix, fill)) < Usd(Lot(b[marginal]))
  PROVE  replay[suffix] = Emptied(b, suffix, fill)
<1> DEFINE price == b[marginal]
           L == Usd(Lot(price))
           empty == Emptied(b, suffix, fill)
           left == budget - Spent(empty)
           X == [S \in SUBSET suffix |-> {empty}]
           last == [S \in SUBSET suffix |-> LastOf(b, S)]
<1>1. price \in Rates /\ L \in Nat /\ L > 0
  BY BookOf, LotType, RateLegs
<1>2. IsFiniteSet(suffix)
  BY BookOf, FS_Subset
<1>3. \A S \in SUBSET suffix : S # {} => last[S] \in S
  BY LastRanks
<1>4. replay[{}] = empty /\ empty \in Fills(b, price, budget)
  <2>1. {} \in SUBSET suffix
    OBVIOUS
  <2> QED BY <2>1 DEF IsReplay
<1>5. left \in Nat /\ left < L
  <2>1. empty \in [DOMAIN b -> Nat \X Nat] /\ Spent(empty) <= budget
    BY <1>4 DEF Fills
  <2>2. Spent(empty) \in Nat
    BY <2>1, SpentType
  <2> QED BY <2>1, <2>2
<1>6. replay[{}] \in X[{}]
  BY <1>4
<1> HIDE DEF left
<1>7. ASSUME NEW i \in DOMAIN b, ~Below(b[i], price)
      PROVE  MaxExecutablePair(Available(b, marginal, i, left), price, b[i]) = NoPair
  <2>1. b[i] \in Rates /\ Usd(b[i]) \in Nat
    BY BookOf, RateLegs
  <2>2. CASE Ahead(b, i, marginal)
    <3>1. Available(b, marginal, i, left) = 0
      BY <1>1, <1>5, <2>2 DEF Available, Least
    <3>2. Least(0, Usd(b[i])) = 0
      BY <2>1 DEF Least
    <3> QED BY <3>1, <3>2 DEF MaxExecutablePair
  <2>3. CASE ~Ahead(b, i, marginal)
    <3>1. Available(b, marginal, i, left) = left
      BY <1>5, <2>3 DEF Available
    <3>2. SameRate(price, b[i])
      <4>1. CASE i = marginal
        BY <1>1, <4>1, RateCases
      <4>2. CASE i # marginal
        <5>1. Ahead(b, marginal, i)
          BY <2>3, <4>2, AheadOrder
        <5> QED BY <1>7, <5>1 DEF Ahead
      <4> QED BY <4>1, <4>2
    <3> DEFINE pair == MaxExecutablePair(left, price, b[i])
    <3>3. pair \in Fairly(price, b[i], Usd(b[i])) /\ Usd(pair) <= left
      BY <1>1, <1>5, <2>1, SearchFits
    <3> HIDE DEF pair
    <3>4. Usd(pair) \in Nat
      BY <2>1, <3>3, FairPair
    <3>5. pair # NoPair => L <= Usd(pair)
      BY <1>1, <2>1, <3>2, <3>3, SameRatePair
    <3>6. pair = NoPair
      BY <1>1, <1>5, <3>3, <3>4, <3>5
    <3> QED BY <3>1, <3>6 DEF pair
  <2> QED BY <2>2, <2>3
<1>8. ASSUME NEW S \in SUBSET suffix, S # {}, replay[S \ {last[S]}] \in X[S \ {last[S]}]
      PROVE  replay[S] \in X[S]
  <2> DEFINE i == LastOf(b, S)
             pair == MaxExecutablePair(Available(b, marginal, i, left), price, b[i])
  <2>1. i \in DOMAIN b /\ last[S] = i /\ replay[S \ {i}] = empty
    BY <1>3, <1>8
  <2>2. replay[S] = IF Below(b[i], price) \/ pair = NoPair THEN replay[S \ {i}]
                    ELSE [replay[S \ {i}] EXCEPT ![i] = pair]
    BY <1>8, <2>1 DEF IsReplay, left
  <2> HIDE DEF pair, i
  <2>3. ~Below(b[i], price) => pair = NoPair
    BY <1>7, <2>1 DEF pair
  <2> QED BY <2>1, <2>2, <2>3
<1>9. \A S \in SUBSET suffix : replay[S] \in X[S]
  <2> HIDE DEF X, last
  <2> QED BY <1>2, <1>3, <1>6, <1>8, FoldKeeps
<1>10. replay[suffix] \in X[suffix]
  BY <1>9
<1> QED BY <1>10

LEMMA ReplayServes ==
  ASSUME NEW b \in Books, NEW suffix \in SUBSET DOMAIN b, NEW marginal \in DOMAIN b,
         NEW budget \in Nat, NEW fill, NEW replay,
         IsReplay(replay, b, suffix, marginal, fill, budget),
         Usd(Lot(b[marginal])) <= budget - Spent(Emptied(b, suffix, fill))
  PROVE  Serves(replay[suffix], b, suffix, marginal, Emptied(b, suffix, fill), budget)
<1> DEFINE price == b[marginal]
           empty == Emptied(b, suffix, fill)
           X == [S \in SUBSET suffix |->
                   {f \in Fills(b, price, budget) : Serves(f, b, S, marginal, empty, budget)}]
           last == [S \in SUBSET suffix |-> LastOf(b, S)]
<1>1. IsFiniteSet(suffix)
  BY BookOf, FS_Subset
<1>2. \A S \in SUBSET suffix : S # {} => last[S] \in S
  BY LastRanks
<1>3. replay[{}] = empty /\ \A S \in SUBSET suffix : replay[S] \in Fills(b, price, budget)
  BY DEF IsReplay
<1>4. replay[{}] \in X[{}]
  <2>1. Serves(empty, b, {}, marginal, empty, budget)
    <3> HIDE DEF empty
    <3>1. Usd(Lot(b[marginal])) <= budget - Spent(empty)
      BY DEF empty
    <3> QED BY <3>1 DEF Serves
  <2>2. {} \in SUBSET suffix
    OBVIOUS
  <2>3. replay[{}] \in Fills(b, price, budget)
    BY <1>3, <2>2
  <2> HIDE DEF empty
  <2> QED BY <1>3, <2>1, <2>3
<1>5. ASSUME NEW S \in SUBSET suffix, S # {}, replay[S \ {last[S]}] \in X[S \ {last[S]}]
      PROVE  replay[S] \in X[S]
  <2> DEFINE i == LastOf(b, S)
             g == replay[S \ {i}]
             h == replay[S]
             pair == MaxExecutablePair(Available(b, marginal, i, budget - Spent(g)), price, b[i])
  <2>1. i \in S /\ i \in suffix /\ last[S] = i
    BY <1>2, <1>5
  <2>2. g \in Fills(b, price, budget) /\ Serves(g, b, S \ {i}, marginal, empty, budget)
    <3> HIDE DEF empty
    <3> QED BY <1>5, <2>1
  <2>3. h \in Fills(b, price, budget)
    BY <1>3
  <2>4. h = IF Below(b[i], price) \/ pair = NoPair THEN g ELSE [g EXCEPT ![i] = pair]
    BY <1>5 DEF IsReplay
  <2>5. empty[i] = NoPair
    BY <2>1 DEF Emptied
  <2>6. i = LastOf(b, S)
    OBVIOUS
  <2>7. pair = MaxExecutablePair(Available(b, marginal, i, budget - Spent(g)), b[marginal], b[i])
    OBVIOUS
  <2>8. S \in SUBSET DOMAIN b
    OBVIOUS
  <2> HIDE DEF i, g, h, pair, empty
  <2>9. Serves(h, b, S, marginal, empty, budget)
    BY <1>5, <2>2, <2>3, <2>4, <2>5, <2>6, <2>7, <2>8, ServesStep
  <2> QED BY <2>3, <2>9 DEF h
<1>6. \A S \in SUBSET suffix : replay[S] \in X[S]
  <2> HIDE DEF X, last
  <2> QED BY <1>1, <1>2, <1>4, <1>5, FoldKeeps
<1>7. replay[suffix] \in X[suffix]
  BY <1>6
<1> HIDE DEF empty
<1>8. Serves(replay[suffix], b, suffix, marginal, empty, budget)
  BY <1>7
<1> QED BY <1>8 DEF empty

\* Some bid ranks first.
LEMMA FirstRanks ==
  ASSUME NEW b \in Books, NEW S \in SUBSET DOMAIN b, S # {}
  PROVE  FirstOf(b, S) \in S
<1> DEFINE D == DOMAIN b
           begins(i, R) == \A j \in R \ {i} : Ahead(b, i, j)
           T == {R \in SUBSET D : R = {} \/ \E i \in R : begins(i, R)}
<1>1. {} \in T
  OBVIOUS
<1>2. ASSUME NEW R \in SUBSET D, R # {}, \A x \in R : R \ {x} \in T
      PROVE  R \in T
  <2>1. PICK x \in R : TRUE
    BY <1>2
  <2>2. CASE R \ {x} = {}
    <3>1. begins(x, R)
      BY <2>2
    <3> QED BY <2>1, <3>1
  <2>3. CASE R \ {x} # {}
    <3>1. PICK i \in R \ {x} : begins(i, R \ {x})
      BY <1>2, <2>1, <2>3
    <3>2. CASE Ahead(b, i, x)
      <4>1. begins(i, R)
        BY <3>1, <3>2
      <4> QED BY <3>1, <4>1
    <3>3. CASE ~Ahead(b, i, x)
      <4>1. Ahead(b, x, i)
        BY <2>1, <3>1, <3>3, AheadOrder
      <4>2. \A j \in R \ {x, i} : Ahead(b, i, j)
        BY <3>1
      <4>3. \A j \in R \ {x, i} : Ahead(b, x, j)
        BY <2>1, <3>1, <4>1, <4>2, AheadOrder
      <4>4. begins(x, R)
        BY <4>1, <4>3
      <4> QED BY <2>1, <4>4
    <3> QED BY <3>2, <3>3
  <2> QED BY <2>2, <2>3
<1>3. SUBSET D \subseteq T
  <2>1. IsFiniteSet(D)
    BY BookOf
  <2> HIDE DEF T, D
  <2> QED BY <1>1, <1>2, <2>1, SetInduction
<1>4. \E i \in S : begins(i, S)
  BY <1>3
<1> QED BY <1>4 DEF FirstOf

\* An allocation afresh that counts buys no less, so those before it stay exhausted.
LEMMA ReplayedExhausts ==
  ASSUME NEW b \in Books, NEW slots \in SUBSET DOMAIN b, NEW marginal \in slots,
         NEW budget \in Nat, NEW fill \in Fills(b, b[marginal], budget),
         Exhausts(fill, b, slots, b[marginal], budget),
         NEW first, Ahead(b, first, marginal)
  PROVE  Exhausts(Replayed(b, slots, marginal, first, fill, budget), b, slots, b[marginal], budget)
<1> DEFINE price == b[marginal]
           L == Usd(Lot(price))
           suffix == Suffix(b, slots, first)
           empty == Emptied(b, suffix, fill)
           result == Replayed(b, slots, marginal, first, fill, budget)
<1>1. price \in Rates /\ L \in Nat
  BY BookOf, LotType, RateLegs
<1>2. PICK replay : /\ result = Better(b, price, suffix, fill, replay[suffix])
                    /\ IsReplay(replay, b, suffix, marginal, fill, budget)
  BY ReplayedSteps
<1>3. suffix \in SUBSET DOMAIN b /\ suffix \subseteq slots /\ marginal \in suffix
  BY DEF Suffix
<1>4. suffix \in SUBSET suffix
  OBVIOUS
<1> DEFINE f == replay[suffix]
<1>5. f \in Fills(b, price, budget) /\ empty \in Fills(b, price, budget)
  <2>1. replay[{}] = empty /\ {} \in SUBSET suffix
    BY <1>2 DEF IsReplay
  <2> HIDE DEF empty, suffix
  <2>2. \A S \in SUBSET suffix : replay[S] \in Fills(b, price, budget)
    BY <1>2 DEF IsReplay
  <2> QED BY <1>4, <2>1, <2>2
<1>6. /\ f \in [DOMAIN b -> Nat \X Nat] /\ Spent(f) \in Nat
      /\ fill \in [DOMAIN b -> Nat \X Nat] /\ Spent(fill) \in Nat
      /\ Spent(empty) \in Nat
  <2> HIDE DEF f, empty, price
  <2>1. /\ f \in [DOMAIN b -> Nat \X Nat] /\ fill \in [DOMAIN b -> Nat \X Nat]
        /\ empty \in [DOMAIN b -> Nat \X Nat]
    BY <1>5 DEF Fills
  <2> QED BY <2>1, SpentType
<1>7. \/ result = fill
      \/ /\ result = f
         /\ \E i \in suffix : f[i] # NoPair
         /\ Spent(fill) <= Spent(f)
  <2> HIDE DEF f, suffix, result
  <2>1. \/ result = fill
        \/ /\ result = f
           /\ \E i \in suffix : f[i] # NoPair
           /\ Spent(f) > Spent(fill) \/ Spent(f) = Spent(fill)
    BY <1>2 DEF Better, f
  <2> QED BY <1>6, <2>1
<1>8. \A i \in suffix : empty[i] = NoPair
  BY <1>3 DEF Emptied
<1>9. \A i \in DOMAIN b \ suffix : empty[i] = fill[i]
  BY DEF Emptied
<1>10. CASE result = fill
  BY <1>10
<1>11. CASE result = f /\ (\E i \in suffix : f[i] # NoPair) /\ Spent(fill) <= Spent(f)
  <2>1. ~(budget - Spent(empty) < L)
    <3>1. budget - Spent(empty) < L => f = empty
      <4> HIDE DEF suffix
      <4> QED BY <1>2, <1>3, ReplayTooSmall
    <3> HIDE DEF f, empty, suffix, L
    <3> QED BY <1>8, <1>11, <3>1
  <2>2. L <= budget - Spent(empty)
    <3> HIDE DEF empty, L
    <3> QED BY <1>1, <1>6, <2>1
  <2>3. Serves(f, b, suffix, marginal, empty, budget)
    <3> HIDE DEF suffix
    <3> QED BY <1>2, <1>3, <2>2, ReplayServes
  <2> HIDE DEF f, empty, suffix, result, L
  <2>4. ASSUME NEW j \in slots, ~Below(b[j], price)
        PROVE  Covers(f[j], Usd(f[j]) + budget - Spent(f), Least(budget, Usd(b[j])), price, b[j])
    <3> DEFINE usd == Usd(f[j]) + budget - Spent(f)
               most == Least(budget, Usd(b[j]))
    <3>1. b[j] \in Rates /\ Usd(f[j]) \in Nat /\ usd \in Int
      <4>1. b[j] \in Rates /\ Usd(f[j]) \in Nat
        BY <1>6, BookOf DEF Usd
      <4> QED BY <1>6, <4>1
    <3>2. CASE j \in suffix
      <4>1. Covers(f[j], Usd(f[j]) + (budget - Spent(f) - KeptBack(b, suffix, marginal, j)),
                   most, price, b[j])
        BY <2>3, <2>4, <3>2 DEF Serves
      <4>2. KeptBack(b, suffix, marginal, j) = 0
        BY <1>3 DEF KeptBack
      <4>3. Usd(f[j]) + (budget - Spent(f) - KeptBack(b, suffix, marginal, j)) = usd
        BY <1>6, <3>1, <4>2
      <4> HIDE DEF usd, most
      <4>4. Covers(f[j], usd, most, price, b[j])
        BY <4>1, <4>3
      <4> QED BY <4>4 DEF usd, most
    <3>3. CASE j \notin suffix
      <4>1. f[j] = fill[j]
        BY <1>9, <2>3, <3>3 DEF Serves
      <4> DEFINE before == Usd(f[j]) + budget - Spent(fill)
      <4>2. Covers(f[j], before, most, price, b[j])
        BY <2>4, <4>1 DEF Exhausts
      <4>3. before \in Int /\ usd <= before
        BY <1>6, <1>11, <3>1
      <4> HIDE DEF usd, before, most
      <4>4. Covers(f[j], usd, most, price, b[j])
        BY <3>1, <4>2, <4>3, CoversLess
      <4> QED BY <4>4 DEF usd, most
    <3> QED BY <3>2, <3>3
  <2>5. Exhausts(result, b, slots, price, budget)
    BY <1>11, <2>4 DEF Exhausts
  <2> QED BY <2>5 DEF result
<1> QED BY <1>7, <1>10, <1>11

LEMMA ImprovedExhausts ==
  ASSUME NEW b \in Books, NEW slots \in SUBSET DOMAIN b, NEW marginal \in slots,
         NEW budget \in Nat, NEW fill \in Fills(b, b[marginal], budget)
  PROVE  Exhausts(Improved(b, slots, marginal, fill, budget), b, slots, b[marginal], budget)
<1> DEFINE r == Reconciled(b, slots, b[marginal], fill, budget)
           s == Skipped(b, slots, marginal, r)
           first == FirstOf(b, s)
<1>1. r \in Fills(b, b[marginal], budget) /\ Exhausts(r, b, slots, b[marginal], budget)
  BY BookOf, ReconciledFair, ReconciledCovers
<1>2. Improved(b, slots, marginal, fill, budget)
        = IF s = {} THEN r ELSE Replayed(b, slots, marginal, first, r, budget)
  BY DEF Improved
<1>3. s # {} => Ahead(b, first, marginal)
  <2>1. s \in SUBSET DOMAIN b /\ \A i \in s : Ahead(b, i, marginal)
    BY DEF Skipped
  <2> HIDE DEF s
  <2> QED BY <2>1, FirstRanks
<1> HIDE DEF r, s, first
<1>4. s # {} =>
        Exhausts(Replayed(b, slots, marginal, first, r, budget), b, slots, b[marginal], budget)
  BY <1>1, <1>3, ReplayedExhausts
<1> QED BY <1>1, <1>2, <1>4

\* No bid that could sell at the price is left out of the clearing.
LEMMA ClearedExhausts ==
  ASSUME NEW b \in Books, NEW least \in Nat \X (Nat \ {0}), NEW budget \in Nat,
         NEW c, c = Cleared(b, least, budget), c.marginal # NoSlot
  PROVE  Exhausts(c.fill, b, DOMAIN b, b[c.marginal], budget)
<1> DEFINE slots == Eligible(b, least)
           t == Retried(b, slots, budget)
<1>1. slots \in SUBSET DOMAIN b
  BY DEF Eligible
<1>2. t \in Trading(b, slots, budget)
  BY <1>1, RetriedFair
<1>3. c.marginal = t.marginal
  BY DEF Cleared
<1>4. c.fill = Improved(b, slots, t.marginal, t.fill, budget)
  BY DEF Cleared
<1> DEFINE price == b[t.marginal]
<1>5. t.marginal \in slots /\ t.fill \in Fills(b, price, budget) /\ price \in Rates
  BY <1>1, <1>2, <1>3, BookOf DEF Trading
<1> HIDE DEF t
<1>6. Exhausts(c.fill, b, slots, price, budget)
  <2> HIDE DEF slots
  <2> QED BY <1>1, <1>4, <1>5, ImprovedExhausts
<1>7. ASSUME NEW i \in DOMAIN b, ~Below(b[i], price) PROVE i \in slots
  <2>1. b[i] \in Rates /\ ~Below(price, least)
    BY <1>5, BookOf DEF Eligible
  <2>2. CASE least \in Rates
    <3>1. ~Below(b[i], least)
      BY <1>5, <1>7, <2>1, <2>2, RateOrder
    <3> QED BY <3>1 DEF Eligible
  <2>3. CASE least \notin Rates
    <3>1. Coin(least) = 0 /\ Usd(least) \in Nat
      BY <2>3 DEF Rates, Coin, Usd
    <3>2. Coin(b[i]) \in Nat /\ Usd(b[i]) \in Nat
      BY <2>1, RateLegs
    <3>3. ASSUME NEW x \in Nat, NEW y \in Nat, NEW z \in Nat PROVE ~(x * y < 0 * z)
      OBVIOUS
    <3>4. ~Below(b[i], least)
      BY <3>1, <3>2, <3>3 DEF Below
    <3> QED BY <3>4 DEF Eligible
  <2> QED BY <2>2, <2>3
<1> HIDE DEF slots, price
<1>8. Exhausts(c.fill, b, DOMAIN b, price, budget)
  BY <1>6, <1>7 DEF Exhausts
<1> QED BY <1>3, <1>8 DEF price

\* What the leftover of a clearing buys at its price, if anything: more of a bid of
\* another rate, by a trade that pays at least the steps of the projection less than
\* the budget and the bid's own amount.
OnlyFarTradesAreMissed ==
  Filled # {} =>
    \A i \in DOMAIN bids :
      ~Below(bids[i], Price) =>
        \A coin \in CouldSell(i, Least(Usd(bids[i]),
                                       Usd(cleared.fill[i]) + funds - Spent(cleared.fill))) :
          \/ coin <= Coin(cleared.fill[i])
          \/ /\ ~SameRate(Price, bids[i])
             /\ AtRate(coin, Price) + MaxSteps <= Least(funds, Usd(bids[i]))

\* The clearing is of the book, the reserve rate and the budget the round began with.
KnownBook ==
  /\ ClearedOnce
  /\ bids \in UNION { [S -> BookBids] : S \in SUBSET BookSlots }
  /\ least_rate \in LeastRates
  /\ funds \in Funds

LEMMA KnownBookStarts == ClearingInit => KnownBook
  BY ClearingStarts DEF ClearingInit, ClearedOnce, KnownBook

LEMMA KnownBookKeeps == KnownBook /\ [Clear]_clearing_vars => KnownBook'
<1> SUFFICES ASSUME KnownBook, [Clear]_clearing_vars PROVE KnownBook'
  OBVIOUS
<1>1. BookOK'
  BY ClearKeeps DEF KnownBook, ClearedOnce
<1>2. UNCHANGED <<bids, least_rate, funds>>
  BY DEF Clear, clearing_vars
<1>3. ClearedOnce'
  <2>1. CASE Clear
    BY <1>1, <2>1 DEF Clear, ClearedOnce
  <2>2. CASE UNCHANGED clearing_vars
    BY <1>1, <2>2 DEF clearing_vars, KnownBook, ClearedOnce, NotCleared
  <2> QED BY <2>1, <2>2
<1> QED BY <1>2, <1>3 DEF KnownBook

LEMMA FarTradesMissed ==
  ASSUME KnownBook
  PROVE  OnlyFarTradesAreMissed
<1> SUFFICES ASSUME Filled # {} PROVE OnlyFarTradesAreMissed
  BY DEF OnlyFarTradesAreMissed
<1>1. /\ bids \in Books /\ funds \in Nat
      /\ least_rate \in Nat \X (Nat \ {0})
  BY BookAssumption DEF KnownBook, ClearedOnce, BookOK
<1>2. cleared # NotCleared
  BY DEF Filled, NotCleared
<1>3. cleared = Cleared(bids, least_rate, funds) /\ cleared \in Clearings(bids, least_rate, funds)
  BY <1>2 DEF KnownBook, ClearedOnce, BookOK
<1>4. /\ cleared.marginal # NoSlot /\ cleared.marginal \in DOMAIN bids
      /\ cleared.fill \in [DOMAIN bids -> Nat \X Nat]
  BY <1>3 DEF Clearings, Filled, Eligible
<1>5. Exhausts(cleared.fill, bids, DOMAIN bids, Price, funds)
  BY <1>1, <1>3, <1>4, ClearedExhausts DEF Price
<1>6. ASSUME NEW i \in DOMAIN bids, ~Below(bids[i], Price),
             NEW coin \in CouldSell(i, Least(Usd(bids[i]),
                                    Usd(cleared.fill[i]) + funds - Spent(cleared.fill)))
      PROVE  \/ coin <= Coin(cleared.fill[i])
             \/ /\ ~SameRate(Price, bids[i])
                /\ AtRate(coin, Price) + MaxSteps <= Least(funds, Usd(bids[i]))
  <2> DEFINE usd == Usd(cleared.fill[i]) + funds - Spent(cleared.fill)
  <2>1. Covers(cleared.fill[i], usd, Least(funds, Usd(bids[i])), Price, bids[i])
    BY <1>5, <1>6 DEF Exhausts
  <2>2. usd \in Int /\ Usd(bids[i]) \in Nat /\ Coin(bids[i]) \in Nat
    <3>1. Spent(cleared.fill) \in Nat
      BY <1>1, <1>4, SpentType
    <3>2. Usd(cleared.fill[i]) \in Nat
      BY <1>4 DEF Usd
    <3>3. bids[i] \in Rates
      BY <1>1, BookOf
    <3> QED BY <1>1, <3>1, <3>2, <3>3, RateLegs
  <2>3. Least(Usd(bids[i]), usd) = Least(usd, Usd(bids[i]))
    <3> HIDE DEF usd
    <3> QED BY <2>2 DEF Least
  <2>4. coin \in Nat /\ TryCoin(coin, Least(Usd(bids[i]), usd), Price, bids[i]) # NoPair
    BY <1>6, <2>2 DEF CouldSell
  <2> HIDE DEF usd
  <2> QED BY <2>1, <2>3, <2>4 DEF Covers
<1> QED BY <1>6 DEF OnlyFarTradesAreMissed

\* Whatever the book and the budget, a clearing misses no sale at its price but one
\* the capped projection may fail to reach: neither the search for a bid's best pair
\* (max_executable_integer_pair), the enlarging of fills (reconcile), nor the fresh
\* allocation with the marginal bid's lot kept back loses any other (execute). Of
\* the bids at the very rate of the price none is missed.
THEOREM FarTradesAloneAreMissed == ClearingSpec => []OnlyFarTradesAreMissed
  BY KnownBookStarts, KnownBookKeeps, FarTradesMissed, PTL DEF ClearingSpec

----------------------------------------------------------------------------
(* The clocks of the rounds and of the bids.                                 *)

\* The rounds' clock: a round ends at most a round length from now, and at least
\* one after it began to take bids, unless the clock itself ends before.
RoundClock ==
  /\ slot \in Nat /\ round_end \in Nat /\ opened \in Nat
  /\ opened <= slot
  /\ round_end <= slot + RoundLength
  /\ round_end >= opened + RoundLength \/ round_end + RoundLength > MaxSlot

\* A bid's clocks: it joined a round that ended at most a round length later.
BidClocks ==
  \A i \in DOMAIN book :
    /\ {"place_slot", "place_round_end"} \subseteq DOMAIN book[i]
    /\ book[i].place_slot \in Nat /\ book[i].place_round_end \in Nat
    /\ book[i].place_round_end <= book[i].place_slot + RoundLength

AuctionClocks == RoundClock /\ BidClocks

LEMMA Constants == MaxSlot \in Nat /\ RoundLength \in Nat /\ RoundLength > 0
  BY MaxSlotAssumption, AuctionAssumption

LEMMA ClocksStart == AuctionInit => AuctionClocks
  BY Constants DEF AuctionInit, AuctionClocks, RoundClock, BidClocks

LEMMA PlaceBidKeepsClocks ==
  ASSUME AuctionClocks, NEW b, NEW bid, PlaceBid(b, bid), UNCHANGED slot
  PROVE  AuctionClocks'
<1> DEFINE entry == [bidder |-> b, bid |-> bid, place_slot |-> slot,
                     place_round_end |-> round_end,
                     settled |-> FALSE, usd_owed |-> 0, coin_refund |-> 0]
<1>1. RoundClock'
  BY DEF AuctionClocks, RoundClock, PlaceBid
<1>2. \A i \in DOMAIN book' : book'[i] = entry \/ (i \in DOMAIN book /\ book'[i] = book[i])
  BY DEF PlaceBid, With
<1>3. BidClocks'
  BY <1>2, Constants DEF AuctionClocks, RoundClock, BidClocks
<1> QED
  BY <1>1, <1>3 DEF AuctionClocks

LEMMA ExecuteKeepsClocks ==
  ASSUME AuctionClocks, NEW n, Execute(n), UNCHANGED slot
  PROVE  AuctionClocks'
<1>1. RoundClock'
  BY Constants DEF AuctionClocks, RoundClock, Execute, ClearBook
<1>2. CASE UNCHANGED book
  BY <1>1, <1>2 DEF AuctionClocks, BidClocks
<1>3. CASE book' = SettledWith(Cleared(Bids, reserve, holding + n).fill)
  <2>1. /\ DOMAIN book' = DOMAIN book
        /\ \A i \in DOMAIN book :
             /\ DOMAIN book'[i] = DOMAIN book[i]
             /\ {"place_slot", "place_round_end"} \subseteq DOMAIN book[i]
                  => /\ book'[i].place_slot = book[i].place_slot
                     /\ book'[i].place_round_end = book[i].place_round_end
    BY <1>3 DEF SettledWith
  <2> QED
    BY <1>1, <2>1 DEF AuctionClocks, BidClocks
<1> QED
  BY <1>2, <1>3 DEF Execute, ClearBook

LEMMA LeavingKeepsClocks ==
  ASSUME AuctionClocks, NEW i \in DOMAIN book, book' = Without(i)
  PROVE  BidClocks'
  BY DEF AuctionClocks, BidClocks, Without

LEMMA StepKeepsClocks ==
  AuctionClocks /\ [AuctionNext]_<<slot, auction_vars>> => AuctionClocks'
<1> SUFFICES ASSUME AuctionClocks, [AuctionNext]_<<slot, auction_vars>>
             PROVE  AuctionClocks'
  OBVIOUS
<1> USE Constants
<1>1. ASSUME NEW r, SetReserve(r), UNCHANGED slot PROVE AuctionClocks'
  BY <1>1 DEF SetReserve, book_vars, AuctionClocks, RoundClock, BidClocks
<1>2. ASSUME NEW fee, SetBidFee(fee), UNCHANGED slot PROVE AuctionClocks'
  BY <1>2 DEF SetBidFee, book_vars, AuctionClocks, RoundClock, BidClocks
<1>3. ASSUME Shutdown, UNCHANGED slot PROVE AuctionClocks'
  BY <1>3 DEF Shutdown, book_vars, AuctionClocks, RoundClock, BidClocks
<1>4. ASSUME NEW i, Claim(i), UNCHANGED slot PROVE AuctionClocks'
  <2>1. BidClocks'
    BY <1>4, LeavingKeepsClocks DEF Claim
  <2>2. RoundClock'
    BY <1>4 DEF Claim, AuctionClocks, RoundClock, ReopenedEnd, SaturatingAdd
  <2> QED
    BY <2>1, <2>2 DEF AuctionClocks
<1>5. ASSUME NEW i, CancelBid(i), UNCHANGED slot PROVE AuctionClocks'
  <2>1. BidClocks'
    BY <1>5, LeavingKeepsClocks DEF CancelBid
  <2>2. RoundClock'
    BY <1>5 DEF CancelBid, AuctionClocks, RoundClock
  <2> QED
    BY <2>1, <2>2 DEF AuctionClocks
<1>6. ASSUME AuctionTick PROVE AuctionClocks'
  BY <1>6 DEF AuctionTick, Tick, AuctionClocks, RoundClock, BidClocks
<1>7. CASE UNCHANGED <<slot, auction_vars>>
  BY <1>7 DEF auction_vars, book_vars, AuctionClocks, RoundClock, BidClocks
<1> QED
  BY <1>1, <1>2, <1>3, <1>4, <1>5, <1>6, <1>7, PlaceBidKeepsClocks, ExecuteKeepsClocks
     DEF AuctionNext

THEOREM ClocksAlways == AuctionSpec => []AuctionClocks
  BY ClocksStart, StepKeepsClocks, PTL DEF AuctionSpec

\* No book is executed before it took bids for a whole round (execute, claim).
THEOREM EveryRoundRunsInFull == AuctionSpec => RoundsRunInFull
<1>1. ASSUME AuctionClocks, NEW n \in 0 .. MaxBudget, Execute(n)
      PROVE  slot >= opened + RoundLength
  BY <1>1, Constants DEF AuctionClocks, RoundClock, Execute, ClearBook
<1>2. AuctionClocks =>
        [\A n \in 0 .. MaxBudget : Execute(n) => slot >= opened + RoundLength]_<<slot, auction_vars>>
  BY <1>1
<1> QED
  BY <1>2, ClocksAlways, PTL DEF RoundsRunInFull

\* A bid that is withdrawn was open to execution for a whole round length
\* (place_bid, cancel_bid).
THEOREM BidsStayCommitted == AuctionSpec => BidsAreCommitted
<1>1. ASSUME AuctionClocks, NEW i \in DOMAIN book, CancelBid(i)
      PROVE  slot >= book[i].place_round_end + RoundLength
  BY <1>1, Constants
     DEF AuctionClocks, RoundClock, BidClocks, CancelBid, Cancellable, CooldownEnd
<1>2. AuctionClocks =>
        [\A i \in DOMAIN book :
           CancelBid(i) => slot >= book[i].place_round_end + RoundLength]_<<slot, auction_vars>>
  BY <1>1
<1> QED
  BY <1>2, ClocksAlways, PTL DEF BidsAreCommitted

----------------------------------------------------------------------------
(* Commitments are unique: what left the book in this slot was outbid in its *)
(* place, by a bid that cannot leave before the clock moves on.              *)

BidsKnown ==
  \A i \in DOMAIN book :
    /\ DOMAIN book[i] = {"bidder", "bid", "place_slot", "place_round_end",
                         "settled", "usd_owed", "coin_refund"}
    /\ book[i].bid \in Offers
    /\ book[i].settled \in BOOLEAN
    /\ book_state = "open" => ~book[i].settled

\* A bid placed in this slot is in a round that is not over, so unsettled.
FreshBids ==
  \A i \in DOMAIN book :
    /\ book[i].place_slot <= slot
    /\ book[i].place_slot = slot => slot < round_end /\ ~book[i].settled

GoneWereOutbid ==
  \A c \in gone :
    /\ book_state = "open" /\ slot < round_end
    /\ c.bid \in Offers
    /\ c.slot_index \in DOMAIN book
    /\ book[c.slot_index].place_slot = slot
    /\ Below(c.bid, book[c.slot_index].bid)

BookInv == AuctionClocks /\ BidsKnown /\ FreshBids /\ GoneWereOutbid

LEMMA BelowIsTransitive ==
  ASSUME NEW a \in Rates, NEW b \in Rates, NEW c \in Rates, Below(a, b), Below(b, c)
  PROVE  Below(a, c)
<1> DEFINE ac == Coin(a)  au == Usd(a)  bc == Coin(b)  bu == Usd(b)  cc == Coin(c)  cu == Usd(c)
<1>1. /\ ac \in Nat \ {0} /\ au \in Nat \ {0} /\ bc \in Nat \ {0}
      /\ bu \in Nat \ {0} /\ cc \in Nat \ {0} /\ cu \in Nat \ {0}
  BY DEF Rates, Coin, Usd
<1>2. ac * bu < bc * au /\ bc * cu < cc * bu
  BY DEF Below
<1> SUFFICES ac * cu < cc * au
  BY DEF Below
<1> HIDE DEF ac, au, bc, bu, cc, cu
<1>3. (ac * bu) * cu < (bc * au) * cu
  BY <1>1, <1>2
<1>4. (bc * cu) * au < (cc * bu) * au
  BY <1>1, <1>2
<1>5. (bc * au) * cu = (bc * cu) * au
  BY <1>1
<1>6. (ac * cu) * bu < (cc * au) * bu
  BY <1>1, <1>3, <1>4, <1>5
<1> QED
  BY <1>1, <1>6

LEMMA BelowIsIrreflexive ==
  ASSUME NEW a \in Rates, NEW b \in Rates, Below(a, b)
  PROVE  ~Below(b, a) /\ a # b
  BY DEF Below, Rates, Coin, Usd

LEMMA OffersAreRates == Offers \subseteq Rates
  BY AuctionAssumption DEF Rates

Unrepeated == \A i \in DOMAIN book' : Commitment(i)' \notin gone

LEMMA BookStarts == AuctionInit => BookInv
  BY ClocksStart DEF AuctionInit, BookInv, BidsKnown, FreshBids, GoneWereOutbid

LEMMA NoneIsRepeated == BookInv => \A i \in DOMAIN book : Commitment(i) \notin gone
<1> SUFFICES ASSUME BookInv, NEW i \in DOMAIN book, Commitment(i) \in gone PROVE FALSE
  OBVIOUS
<1>1. /\ Commitment(i).slot_index = i
      /\ Commitment(i).bid = book[i].bid
  BY DEF Commitment
<1>2. Below(book[i].bid, book[i].bid)
  BY <1>1 DEF BookInv, GoneWereOutbid
<1> QED
  BY <1>2, BelowIsIrreflexive, OffersAreRates DEF BookInv, BidsKnown

\* A bid that leaves alone leaves nothing that a placement could repeat.
LEMMA LeavingKeepsBook ==
  ASSUME BookInv, AuctionClocks', UNCHANGED slot,
         NEW i \in DOMAIN book, book' = Without(i), Leaves(i),
         book[i].place_slot # slot,
         \/ UNCHANGED <<book_state, round_end>>
         \/ gone = {} /\ DOMAIN book = {i}
  PROVE  BookInv' /\ Unrepeated
<1>1. gone' = gone
  BY DEF Leaves
<1>2. /\ DOMAIN book' = DOMAIN book \ {i}
      /\ \A j \in DOMAIN book' : book'[j] = book[j]
  BY DEF Without
<1>3. \A c \in gone : c.slot_index # i
  BY DEF BookInv, GoneWereOutbid
<1>4. BidsKnown' /\ FreshBids'
  BY <1>2 DEF BookInv, BidsKnown, FreshBids
<1>5. GoneWereOutbid'
  BY <1>1, <1>2, <1>3 DEF BookInv, GoneWereOutbid
<1>6. Unrepeated
  <2> SUFFICES ASSUME NEW j \in DOMAIN book' PROVE Commitment(j)' \notin gone
    BY DEF Unrepeated
  <2>1. Commitment(j)' = Commitment(j) /\ j \in DOMAIN book
    BY <1>2 DEF Commitment
  <2> QED
    BY <2>1, NoneIsRepeated
<1> QED
  BY <1>4, <1>5, <1>6 DEF BookInv

LEMMA PlaceBidKeepsBook ==
  ASSUME BookInv, NEW b, NEW bid \in Offers, PlaceBid(b, bid), UNCHANGED slot
  PROVE  BookInv' /\ Unrepeated
<1> DEFINE entry == [bidder |-> b, bid |-> bid, place_slot |-> slot,
                     place_round_end |-> round_end,
                     settled |-> FALSE, usd_owed |-> 0, coin_refund |-> 0]
<1>1. AuctionClocks'
  BY PlaceBidKeepsClocks DEF BookInv
<1>2. PICK i \in BidSlots :
        /\ book' = With(i, entry)
        /\ \/ FirstFree(i) /\ gone' = gone
           \/ Weakest(i) /\ Evicts(bid, i) /\ Leaves(i)
  BY DEF PlaceBid
<1>3. /\ DOMAIN book' = DOMAIN book \cup {i}
      /\ book'[i] = entry
      /\ \A j \in DOMAIN book \ {i} : book'[j] = book[j]
  BY <1>2 DEF With
<1>4. /\ book_state = "open" /\ slot < round_end
      /\ UNCHANGED <<book_state, round_end>>
  BY DEF PlaceBid
<1>5. BidsKnown'
  <2>1. /\ DOMAIN entry = {"bidder", "bid", "place_slot", "place_round_end",
                           "settled", "usd_owed", "coin_refund"}
        /\ entry.bid \in Offers /\ entry.settled = FALSE
    OBVIOUS
  <2> HIDE DEF entry
  <2> QED
    BY <2>1, <1>3, <1>4 DEF BookInv, BidsKnown
<1>6. FreshBids'
  BY <1>3, <1>4 DEF BookInv, FreshBids, AuctionClocks, RoundClock
<1>7. \A c \in gone' :
        \/ c \in gone
        \/ c = Commitment(i) /\ i \in DOMAIN book
  BY <1>2 DEF Leaves, Weakest
<1>8. i \in DOMAIN book => Below(book[i].bid, bid)
  BY <1>2 DEF FirstFree, Free, Evicts
<1>9. \A c \in gone' : c.bid \in Offers /\ c.slot_index \in DOMAIN book
  BY <1>7 DEF BookInv, BidsKnown, GoneWereOutbid, Commitment
<1>10. ASSUME NEW c \in gone', c.slot_index = i PROVE Below(c.bid, bid)
  <2>1. c.bid = book[i].bid \/ Below(c.bid, book[i].bid)
    BY <1>7, <1>10 DEF BookInv, GoneWereOutbid, Commitment
  <2>2. Below(book[i].bid, bid) /\ book[i].bid \in Offers /\ c.bid \in Offers
    BY <1>8, <1>9, <1>10 DEF BookInv, BidsKnown
  <2> QED
    BY <2>1, <2>2, BelowIsTransitive, OffersAreRates
<1>11. ASSUME NEW c \in gone', c.slot_index # i PROVE c \in gone
  BY <1>7, <1>11 DEF Commitment
<1>12. GoneWereOutbid'
  <2> SUFFICES ASSUME NEW c \in gone'
               PROVE  /\ book'[c.slot_index].place_slot = slot
                      /\ Below(c.bid, book'[c.slot_index].bid)
    BY <1>3, <1>4, <1>9 DEF GoneWereOutbid
  <2>1. CASE c.slot_index = i
    BY <2>1, <1>3, <1>10
  <2>2. CASE c.slot_index # i
    BY <2>2, <1>3, <1>9, <1>11 DEF BookInv, GoneWereOutbid
  <2> QED
    BY <2>1, <2>2
<1>13. Unrepeated
  <2> SUFFICES ASSUME NEW j \in DOMAIN book', Commitment(j)' \in gone PROVE FALSE
    BY DEF Unrepeated
  <2>1. CASE j = i
    <3>1. Commitment(j)'.slot_index = i /\ Commitment(j)'.bid = bid
      BY <2>1, <1>3 DEF Commitment
    <3>2. Below(bid, book[i].bid) /\ i \in DOMAIN book
      BY <3>1 DEF BookInv, GoneWereOutbid
    <3> QED
      BY <3>2, <1>8, BelowIsIrreflexive, OffersAreRates DEF BookInv, BidsKnown
  <2>2. CASE j # i
    BY <2>2, <1>3, NoneIsRepeated DEF Commitment
  <2> QED
    BY <2>1, <2>2
<1> QED
  BY <1>1, <1>5, <1>6, <1>12, <1>13 DEF BookInv

\* A round is executed only when it is over: nothing was placed in this slot.
LEMMA ExecuteKeepsBook ==
  ASSUME BookInv, NEW n, Execute(n), UNCHANGED slot
  PROVE  BookInv' /\ Unrepeated
<1>1. AuctionClocks'
  BY ExecuteKeepsClocks DEF BookInv
<1>2. slot >= round_end /\ UNCHANGED gone /\ book_state = "open"
  BY DEF Execute, ClearBook
<1>3. gone = {}
  BY <1>2 DEF BookInv, GoneWereOutbid, AuctionClocks, RoundClock
<1>4. \A i \in DOMAIN book : book[i].place_slot # slot
  BY <1>2 DEF BookInv, FreshBids, AuctionClocks, RoundClock
<1>5. CASE UNCHANGED <<book, book_state>>
  BY <1>1, <1>2, <1>3, <1>4, <1>5
     DEF BookInv, BidsKnown, FreshBids, GoneWereOutbid, Unrepeated
<1>6. CASE /\ book' = SettledWith(Cleared(Bids, reserve, holding + n).fill)
           /\ book_state' = "settled"
  <2>1. /\ DOMAIN book' = DOMAIN book
        /\ \A i \in DOMAIN book :
             /\ DOMAIN book'[i] = DOMAIN book[i]
             /\ book'[i].bid = book[i].bid
             /\ book'[i].settled = TRUE
             /\ book'[i].place_slot = book[i].place_slot
    BY <1>6 DEF SettledWith, BookInv, BidsKnown
  <2>2. BidsKnown'
    BY <1>6, <2>1 DEF BookInv, BidsKnown
  <2>3. FreshBids'
    BY <1>4, <2>1 DEF BookInv, FreshBids
  <2>4. GoneWereOutbid' /\ Unrepeated
    BY <1>2, <1>3 DEF GoneWereOutbid, Unrepeated
  <2> QED
    BY <1>1, <2>2, <2>3, <2>4 DEF BookInv
<1> QED
  BY <1>5, <1>6 DEF Execute, ClearBook

LEMMA StepKeepsBook ==
  BookInv /\ [AuctionNext]_<<slot, auction_vars>>
    => BookInv' /\ [Unrepeated]_<<slot, auction_vars>>
<1> SUFFICES ASSUME BookInv, [AuctionNext]_<<slot, auction_vars>>
             PROVE  BookInv' /\ [Unrepeated]_<<slot, auction_vars>>
  OBVIOUS
<1> USE Constants
<1>1. AuctionClocks'
  BY StepKeepsClocks DEF BookInv
<1>2. ASSUME UNCHANGED <<slot, book_vars>> PROVE BookInv' /\ Unrepeated
  <2>1. BookInv'
    BY <1>1, <1>2 DEF book_vars, BookInv, BidsKnown, FreshBids, GoneWereOutbid
  <2>2. Unrepeated
    BY <1>2, NoneIsRepeated DEF book_vars, Unrepeated, Commitment
  <2> QED
    BY <2>1, <2>2
<1>3. ASSUME NEW i, Claim(i), UNCHANGED slot PROVE BookInv' /\ Unrepeated
  <2>1. i \in DOMAIN book /\ book' = Without(i) /\ Leaves(i) /\ book[i].settled
    BY <1>3 DEF Claim
  <2>2. book[i].place_slot # slot
    BY <2>1 DEF BookInv, FreshBids
  <2>3. gone = {}
    BY <2>1 DEF BookInv, BidsKnown, GoneWereOutbid
  <2>4. UNCHANGED <<book_state, round_end>> \/ DOMAIN book = {i}
    BY <1>3 DEF Claim
  <2> QED
    BY <1>1, <1>3, <2>1, <2>2, <2>3, <2>4, LeavingKeepsBook
<1>4. ASSUME NEW i, CancelBid(i), UNCHANGED slot PROVE BookInv' /\ Unrepeated
  <2>1. /\ i \in DOMAIN book /\ book' = Without(i) /\ Leaves(i)
        /\ UNCHANGED <<book_state, round_end>>
    BY <1>4 DEF CancelBid
  <2>2. book[i].place_slot # slot
    BY <1>4, <2>1 DEF CancelBid, Cancellable, CooldownEnd, BookInv, AuctionClocks, BidClocks
  <2> QED
    BY <1>1, <1>4, <2>1, <2>2, LeavingKeepsBook
<1>5. ASSUME AuctionTick PROVE BookInv' /\ Unrepeated
  <2>1. BookInv'
    BY <1>1, <1>5 DEF AuctionTick, Tick, BookInv, BidsKnown, FreshBids, GoneWereOutbid,
                      AuctionClocks, RoundClock, BidClocks
  <2>2. Unrepeated
    BY <1>5, NoneIsRepeated DEF AuctionTick, Unrepeated, Commitment
  <2> QED
    BY <2>1, <2>2
<1>6. CASE UNCHANGED <<slot, auction_vars>>
  BY <1>2, <1>6 DEF auction_vars
<1> QED
  BY <1>2, <1>3, <1>4, <1>5, <1>6, PlaceBidKeepsBook, ExecuteKeepsBook
     DEF AuctionNext, SetReserve, SetBidFee, Shutdown

\* No bid is ever placed under the commitment of one that left: a cancellation
\* that its bidder signed for one bid acts on no other (place_bid, cancel_bid).
THEOREM CommitmentsNeverRepeat == AuctionSpec => CommitmentsAreUnique
<1>1. BookInv /\ [AuctionNext]_<<slot, auction_vars>>
        => BookInv' /\ [\A i \in DOMAIN book' : Commitment(i)' \notin gone]_<<slot, auction_vars>>
  BY StepKeepsBook DEF Unrepeated
<1> QED
  BY <1>1, BookStarts, PTL DEF AuctionSpec, CommitmentsAreUnique

----------------------------------------------------------------------------
(* The accounts.                                                             *)

\* Entries of the book: a bidder has at most one, to which nothing is owed before
\* the settlement and something from then on.
EntriesOK ==
  \A i \in DOMAIN book :
    /\ i \in BidSlots /\ book[i].bidder \in Bidders
    /\ book[i].usd_owed \in Nat /\ book[i].coin_refund \in Nat
    /\ IF book[i].settled THEN book[i].usd_owed # 0 \/ book[i].coin_refund # 0
       ELSE book[i].usd_owed = 0 /\ book[i].coin_refund = 0
    /\ \A j \in DOMAIN book : book[j].bidder = book[i].bidder => j = i

PursesOK ==
  /\ wallet \in [Bidders -> Nat \X Nat]
  /\ holding \in Nat /\ bid_fee \in 0 .. Fee
  /\ settlement_usd \in Nat

EscrowedBy == [i \in DOMAIN book |-> Escrowed(book[i])]
OwedBy     == [i \in DOMAIN book |-> book[i].usd_owed]

AuctionInv == BookInv /\ EntriesOK /\ PursesOK /\ AccountsBackTheBook

LEMMA AuctionConstants ==
  /\ IsFiniteSet(Bidders) /\ MaxBids \in Nat /\ Fee \in Nat /\ MaxBudget \in Nat /\ Coins \in Nat
  /\ Offers \subseteq Rates
  BY AuctionAssumption, OffersAreRates

LEMMA BookTypes ==
  ASSUME BookInv, EntriesOK
  PROVE  /\ IsFiniteSet(DOMAIN book) /\ DOMAIN book \subseteq Nat \ {NoSlot}
         /\ Bids \in Books
         /\ EscrowedBy \in [DOMAIN book -> Nat] /\ OwedBy \in [DOMAIN book -> Nat]
<1>1. DOMAIN book \subseteq BidSlots
  BY DEF EntriesOK
<1>2. IsFiniteSet(BidSlots) /\ BidSlots \subseteq Nat \ {NoSlot}
  BY AuctionConstants, FS_Interval DEF BidSlots, NoSlot
<1>3. IsFiniteSet(DOMAIN book) /\ DOMAIN book \subseteq Nat \ {NoSlot}
  BY <1>1, <1>2, FS_Subset
<1>4. \A i \in DOMAIN book : book[i].bid \in Rates
  BY AuctionConstants DEF BookInv, BidsKnown
<1>5. Bids \in [DOMAIN book -> Rates]
  BY <1>4 DEF Bids
<1>6. Bids \in Books
  BY <1>3, <1>5 DEF Books
<1>7. EscrowedBy \in [DOMAIN book -> Nat] /\ OwedBy \in [DOMAIN book -> Nat]
  BY <1>4, RateLegs DEF EscrowedBy, OwedBy, Escrowed, EntriesOK
<1> QED BY <1>3, <1>6, <1>7

\* An entry that leaves takes its part of the totals with it.
LEMMA LeavingTotals ==
  ASSUME BookInv, EntriesOK, NEW i \in DOMAIN book, book' = Without(i)
  PROVE  /\ EntriesOK'
         /\ Total(EscrowedBy, DOMAIN book) = Escrowed(book[i]) + Total(EscrowedBy', DOMAIN book')
         /\ Total(OwedBy, DOMAIN book) = book[i].usd_owed + Total(OwedBy', DOMAIN book')
         /\ Total(EscrowedBy', DOMAIN book') \in Nat /\ Total(OwedBy', DOMAIN book') \in Nat
         /\ Escrowed(book[i]) \in Nat /\ book[i].usd_owed \in Nat
<1>1. /\ DOMAIN book' = DOMAIN book \ {i}
      /\ \A j \in DOMAIN book' : book'[j] = book[j]
  BY DEF Without
<1>2. /\ \A j \in DOMAIN book' : EscrowedBy'[j] = EscrowedBy[j] /\ OwedBy'[j] = OwedBy[j]
      /\ EscrowedBy[i] = Escrowed(book[i]) /\ OwedBy[i] = book[i].usd_owed
  BY <1>1 DEF EscrowedBy, OwedBy, Escrowed
<1>3. IsFiniteSet(DOMAIN book)
      /\ EscrowedBy \in [DOMAIN book -> Nat] /\ OwedBy \in [DOMAIN book -> Nat]
  BY BookTypes
<1>4. /\ Total(EscrowedBy', DOMAIN book') = Total(EscrowedBy, DOMAIN book')
      /\ Total(OwedBy', DOMAIN book') = Total(OwedBy, DOMAIN book')
  BY <1>2, TotalSame
<1>5. /\ Total(EscrowedBy, DOMAIN book) = EscrowedBy[i] + Total(EscrowedBy, DOMAIN book \ {i})
      /\ Total(EscrowedBy, DOMAIN book \ {i}) \in Nat
      /\ Total(OwedBy, DOMAIN book) = OwedBy[i] + Total(OwedBy, DOMAIN book \ {i})
      /\ Total(OwedBy, DOMAIN book \ {i}) \in Nat
  BY <1>3, TotalRemove
<1>6. EscrowedBy[i] \in Nat /\ OwedBy[i] \in Nat
  BY <1>3
<1>7. EntriesOK'
  BY <1>1 DEF EntriesOK
<1> QED BY <1>1, <1>2, <1>4, <1>5, <1>6, <1>7

\* An entry that enters, in place of another or not, brings its part along.
LEMMA EnteringTotals ==
  ASSUME BookInv, BookInv', EntriesOK, EntriesOK', NEW i, NEW entry, book' = With(i, entry)
  PROVE  /\ i \notin DOMAIN book =>
              /\ Total(EscrowedBy', DOMAIN book') = Total(EscrowedBy, DOMAIN book) + Escrowed(entry)
              /\ Total(OwedBy', DOMAIN book') = Total(OwedBy, DOMAIN book) + entry.usd_owed
         /\ i \in DOMAIN book =>
              /\ Total(EscrowedBy', DOMAIN book')
                   = Total(EscrowedBy, DOMAIN book) + Escrowed(entry) - Escrowed(book[i])
              /\ Total(OwedBy', DOMAIN book')
                   = Total(OwedBy, DOMAIN book) + entry.usd_owed - book[i].usd_owed
<1>1. /\ DOMAIN book' = DOMAIN book \cup {i} /\ book'[i] = entry
      /\ \A j \in DOMAIN book \ {i} : book'[j] = book[j]
  BY DEF With
<1> DEFINE D == DOMAIN book
           E == DOMAIN book'
           rest == E \ {i}
<1>2. i \in E /\ rest = D \ {i}
  BY <1>1
<1>3. /\ \A j \in rest : EscrowedBy'[j] = EscrowedBy[j] /\ OwedBy'[j] = OwedBy[j]
      /\ EscrowedBy'[i] = Escrowed(entry) /\ OwedBy'[i] = entry.usd_owed
      /\ i \in D => EscrowedBy[i] = Escrowed(book[i]) /\ OwedBy[i] = book[i].usd_owed
  BY <1>1 DEF EscrowedBy, OwedBy, Escrowed
<1>4. /\ IsFiniteSet(D) /\ EscrowedBy \in [D -> Nat] /\ OwedBy \in [D -> Nat]
  BY BookTypes
<1>5. /\ IsFiniteSet(E) /\ EscrowedBy' \in [E -> Nat] /\ OwedBy' \in [E -> Nat]
  <2>1. BookInv /\ EntriesOK =>
          /\ IsFiniteSet(DOMAIN book)
          /\ EscrowedBy \in [DOMAIN book -> Nat] /\ OwedBy \in [DOMAIN book -> Nat]
    BY BookTypes
  <2>2. (BookInv /\ EntriesOK =>
          /\ IsFiniteSet(DOMAIN book)
          /\ EscrowedBy \in [DOMAIN book -> Nat] /\ OwedBy \in [DOMAIN book -> Nat])'
    BY BookTypes, PTL
  <2> QED BY <2>2
<1>6. /\ Total(EscrowedBy', rest) = Total(EscrowedBy, rest)
      /\ Total(OwedBy', rest) = Total(OwedBy, rest)
  BY <1>3, TotalSame
<1> DEFINE e2 == EscrowedBy'
           o2 == OwedBy'
<1>7. /\ Total(e2, E) = e2[i] + Total(e2, rest) /\ Total(e2, rest) \in Nat
      /\ Total(o2, E) = o2[i] + Total(o2, rest) /\ Total(o2, rest) \in Nat
      /\ e2[i] \in Nat /\ o2[i] \in Nat
  <2>1. ASSUME NEW f \in [E -> Nat]
        PROVE  Total(f, E) = f[i] + Total(f, rest) /\ Total(f, rest) \in Nat /\ f[i] \in Nat
    <3> HIDE DEF E
    <3>1. \A y \in E : f[y] \in Nat
      OBVIOUS
    <3> QED BY <1>2, <1>5, <3>1, TotalRemove
  <2>2. e2 \in [E -> Nat] /\ o2 \in [E -> Nat]
    BY <1>5
  <2> HIDE DEF e2, o2, E, rest
  <2> QED BY <2>1, <2>2
<1>8. CASE i \notin D
  <2>1. rest = D
    BY <1>2, <1>8
  <2> QED BY <1>3, <1>6, <1>7, <1>8, <2>1
<1>9. CASE i \in D
  <2>1. /\ Total(EscrowedBy, D) = EscrowedBy[i] + Total(EscrowedBy, D \ {i})
        /\ Total(OwedBy, D) = OwedBy[i] + Total(OwedBy, D \ {i})
        /\ EscrowedBy[i] \in Nat /\ OwedBy[i] \in Nat
    BY <1>4, <1>9, TotalRemove
  <2>2. /\ Total(e2, E) = e2[i] + Total(EscrowedBy, D \ {i})
        /\ Total(o2, E) = o2[i] + Total(OwedBy, D \ {i})
        /\ Total(EscrowedBy, D \ {i}) \in Nat /\ Total(OwedBy, D \ {i}) \in Nat
    <3>1. rest = D \ {i} /\ Total(e2, rest) = Total(EscrowedBy, rest)
          /\ Total(o2, rest) = Total(OwedBy, rest)
      BY <1>2, <1>6
    <3> HIDE DEF rest, D, E, e2, o2
    <3> QED BY <1>7, <3>1
  <2>3. /\ e2[i] = Escrowed(entry) /\ o2[i] = entry.usd_owed
        /\ EscrowedBy[i] = Escrowed(book[i]) /\ OwedBy[i] = book[i].usd_owed
    BY <1>3, <1>9
  <2>4. /\ Total(e2, E) = Total(EscrowedBy, D) + Escrowed(entry) - Escrowed(book[i])
        /\ Total(o2, E) = Total(OwedBy, D) + entry.usd_owed - book[i].usd_owed
    <3> HIDE DEF e2, o2, E, D
    <3> QED BY <1>7, <2>1, <2>2, <2>3
  <2> QED BY <1>9, <2>4
<1> QED BY <1>8, <1>9

LEMMA PaidTo ==
  ASSUME NEW w \in [Bidders -> Nat \X Nat], NEW b \in Bidders, NEW coin \in Int, NEW usd \in Nat,
         Coin(w[b]) + coin \in Nat
  PROVE  /\ Paid(w, b, coin, usd) \in [Bidders -> Nat \X Nat]
         /\ Paid(w, b, coin, usd)[b] = <<Coin(w[b]) + coin, Usd(w[b]) + usd>>
         /\ \A c \in Bidders : c # b => Paid(w, b, coin, usd)[c] = w[c]
  BY DEF Paid, Coin, Usd

LEMMA Legs ==
  ASSUME NEW p \in Nat \X Nat
  PROVE  Coin(p) \in Nat /\ Usd(p) \in Nat /\ p = <<Coin(p), Usd(p)>>
  BY DEF Coin, Usd

\* The escrow and what a placement does to it and to the purses.
LEMMA PlaceBidKeepsAccounts ==
  ASSUME AuctionInv, BookInv', NEW b \in Bidders, NEW bid \in Offers, PlaceBid(b, bid),
         UNCHANGED slot
  PROVE  AuctionInv'
<1> DEFINE entry == [bidder |-> b, bid |-> bid, place_slot |-> slot,
                     place_round_end |-> round_end,
                     settled |-> FALSE, usd_owed |-> 0, coin_refund |-> 0]
           paid == Paid(wallet, b, -(Coin(bid) + bid_fee), 0)
<1>1. PICK i \in BidSlots :
        /\ book' = With(i, entry)
        /\ \/ /\ i \notin DOMAIN book
              /\ wallet' = paid
              /\ coin_escrow' = coin_escrow + Coin(bid)
           \/ /\ i \in DOMAIN book
              /\ wallet' = Paid(paid, book[i].bidder, Coin(book[i].bid), 0)
              /\ coin_escrow' = coin_escrow + Coin(bid) - Coin(book[i].bid)
  BY DEF PlaceBid, FirstFree, Free, Weakest
<1>2. /\ book_state = "open" /\ ~HasBid(b) /\ Coin(bid) + bid_fee <= Coin(wallet[b])
      /\ UNCHANGED <<settlement_usd, bid_fee, holding>>
  BY DEF PlaceBid
<1>3. /\ DOMAIN book' = DOMAIN book \cup {i} /\ book'[i] = entry
      /\ \A j \in DOMAIN book \ {i} : book'[j] = book[j]
  BY <1>1 DEF With
<1>4. /\ entry.bidder = b /\ entry.usd_owed = 0 /\ entry.coin_refund = 0 /\ entry.bid = bid
      /\ ~entry.settled /\ Escrowed(entry) = Coin(bid)
  BY DEF Escrowed
<1> HIDE DEF entry
<1>5. EntriesOK'
  BY <1>1, <1>2, <1>3, <1>4 DEF AuctionInv, EntriesOK, HasBid
<1>6. Coin(bid) \in Nat /\ bid_fee \in Nat /\ wallet \in [Bidders -> Nat \X Nat]
  BY AuctionConstants, RateLegs DEF AuctionInv, PursesOK
<1>7. /\ paid \in [Bidders -> Nat \X Nat]
  <2>1. Coin(wallet[b]) \in Nat
    BY <1>6, Legs
  <2>2. -(Coin(bid) + bid_fee) \in Int /\ Coin(wallet[b]) + -(Coin(bid) + bid_fee) \in Nat
    BY <1>2, <1>6, <2>1
  <2> QED BY <1>6, <2>2, PaidTo
<1> HIDE DEF paid
<1>8. ASSUME i \in DOMAIN book
      PROVE  /\ ~book[i].settled /\ Coin(book[i].bid) \in Nat /\ book[i].bidder \in Bidders
             /\ book[i].usd_owed = 0 /\ Escrowed(book[i]) = Coin(book[i].bid)
  <2>1. ~book[i].settled /\ book[i].bid \in Offers
    BY <1>2, <1>8 DEF AuctionInv, BookInv, BidsKnown
  <2>2. book[i].usd_owed = 0 /\ book[i].bidder \in Bidders
    BY <1>8, <2>1 DEF AuctionInv, EntriesOK
  <2> QED BY <2>1, <2>2, AuctionConstants, RateLegs DEF Escrowed
<1>9. wallet' \in [Bidders -> Nat \X Nat]
  <2>1. CASE i \notin DOMAIN book
    BY <1>1, <1>7, <2>1
  <2>2. CASE i \in DOMAIN book
    <3>1. /\ book[i].bidder \in Bidders /\ Coin(book[i].bid) \in Nat
          /\ wallet' = Paid(paid, book[i].bidder, Coin(book[i].bid), 0)
      BY <1>1, <1>8, <2>2
    <3>2. Coin(paid[book[i].bidder]) \in Nat
      BY <1>7, <3>1, Legs
    <3> DEFINE e == book[i].bidder
               coin == Coin(book[i].bid)
    <3>3. coin \in Int /\ Coin(paid[e]) + coin \in Nat /\ e \in Bidders /\ 0 \in Nat
      BY <3>1, <3>2
    <3>4. wallet' = Paid(paid, e, coin, 0)
      BY <3>1
    <3> HIDE DEF e, coin
    <3> QED BY <1>7, <3>3, <3>4, PaidTo
  <2> QED BY <2>1, <2>2
<1>10. PursesOK'
  BY <1>2, <1>9 DEF AuctionInv, PursesOK
<1>11. /\ coin_escrow = Total(EscrowedBy, DOMAIN book)
       /\ settlement_usd = Total(OwedBy, DOMAIN book)
  BY DEF AuctionInv, AccountsBackTheBook, EscrowedBy, OwedBy
<1>12. /\ coin_escrow' = Total(EscrowedBy', DOMAIN book')
       /\ settlement_usd' = Total(OwedBy', DOMAIN book')
  <2>1. settlement_usd \in Nat
    BY DEF AuctionInv, PursesOK
  <2>2. /\ i \notin DOMAIN book =>
              /\ Total(EscrowedBy', DOMAIN book') = Total(EscrowedBy, DOMAIN book) + Escrowed(entry)
              /\ Total(OwedBy', DOMAIN book') = Total(OwedBy, DOMAIN book) + entry.usd_owed
        /\ i \in DOMAIN book =>
              /\ Total(EscrowedBy', DOMAIN book')
                   = Total(EscrowedBy, DOMAIN book) + Escrowed(entry) - Escrowed(book[i])
              /\ Total(OwedBy', DOMAIN book')
                   = Total(OwedBy, DOMAIN book) + entry.usd_owed - book[i].usd_owed
    BY <1>1, <1>5, EnteringTotals DEF AuctionInv
  <2>3. CASE i \notin DOMAIN book
    BY <1>1, <1>2, <1>4, <1>11, <2>1, <2>2, <2>3
  <2>4. CASE i \in DOMAIN book
    BY <1>1, <1>2, <1>4, <1>8, <1>11, <2>1, <2>2, <2>4
  <2> QED BY <2>3, <2>4
<1>13. AccountsBackTheBook'
  BY <1>12 DEF AccountsBackTheBook, EscrowedBy, OwedBy
<1> QED BY <1>5, <1>10, <1>13 DEF AuctionInv

\* Whoever leaves is paid exactly what its entry accounts for.
LEMMA LeavingKeepsAccounts ==
  ASSUME AuctionInv, BookInv', NEW i \in DOMAIN book, book' = Without(i),
         wallet' = Paid(wallet, book[i].bidder, Escrowed(book[i]), book[i].usd_owed),
         coin_escrow' = coin_escrow - Escrowed(book[i]),
         settlement_usd' = settlement_usd - book[i].usd_owed,
         UNCHANGED <<bid_fee, holding>>
  PROVE  AuctionInv'
<1>1. /\ EntriesOK'
      /\ Total(EscrowedBy, DOMAIN book) = Escrowed(book[i]) + Total(EscrowedBy', DOMAIN book')
      /\ Total(OwedBy, DOMAIN book) = book[i].usd_owed + Total(OwedBy', DOMAIN book')
      /\ Total(EscrowedBy', DOMAIN book') \in Nat /\ Total(OwedBy', DOMAIN book') \in Nat
      /\ Escrowed(book[i]) \in Nat /\ book[i].usd_owed \in Nat
  BY LeavingTotals DEF AuctionInv
<1>2. /\ coin_escrow = Total(EscrowedBy, DOMAIN book)
      /\ settlement_usd = Total(OwedBy, DOMAIN book)
  BY DEF AuctionInv, AccountsBackTheBook, EscrowedBy, OwedBy
<1>3. /\ coin_escrow' = Total(EscrowedBy', DOMAIN book')
      /\ settlement_usd' = Total(OwedBy', DOMAIN book')
      /\ settlement_usd' \in Nat
  BY <1>1, <1>2
<1>4. AccountsBackTheBook'
  BY <1>3 DEF AccountsBackTheBook, EscrowedBy, OwedBy
<1>5. wallet' \in [Bidders -> Nat \X Nat]
  <2>1. wallet \in [Bidders -> Nat \X Nat] /\ book[i].bidder \in Bidders
    BY DEF AuctionInv, PursesOK, EntriesOK
  <2>2. Coin(wallet[book[i].bidder]) + Escrowed(book[i]) \in Nat
    <3>1. Coin(wallet[book[i].bidder]) \in Nat
      BY <2>1, Legs
    <3> QED BY <1>1, <3>1
  <2> QED BY <1>1, <2>1, <2>2, PaidTo
<1>6. PursesOK'
  BY <1>3, <1>5 DEF AuctionInv, PursesOK
<1> QED BY <1>1, <1>4, <1>6 DEF AuctionInv

LEMMA ClaimKeepsAccounts ==
  ASSUME AuctionInv, BookInv', NEW i, Claim(i), UNCHANGED slot
  PROVE  AuctionInv'
<1>1. i \in DOMAIN book /\ Escrowed(book[i]) = book[i].coin_refund
  BY DEF Claim, Escrowed
<1> QED BY <1>1, LeavingKeepsAccounts DEF Claim

LEMMA CancelBidKeepsAccounts ==
  ASSUME AuctionInv, BookInv', NEW i, CancelBid(i), UNCHANGED slot
  PROVE  AuctionInv'
<1>1. i \in DOMAIN book /\ ~book[i].settled
  BY DEF CancelBid, Cancellable
<1>2. Escrowed(book[i]) = Coin(book[i].bid) /\ book[i].usd_owed = 0
  BY <1>1 DEF Escrowed, AuctionInv, EntriesOK
<1>3. settlement_usd' = settlement_usd - book[i].usd_owed
  <2>1. settlement_usd \in Nat /\ settlement_usd' = settlement_usd
    BY DEF CancelBid, AuctionInv, PursesOK
  <2> QED BY <1>2, <2>1
<1> QED BY <1>1, <1>2, <1>3, LeavingKeepsAccounts DEF CancelBid

\* What a clearing of the book decides, bid by bid.
LEMMA ClearingOfBook ==
  ASSUME BookInv, EntriesOK, NEW budget \in Nat,
         NEW c, c = Cleared(Bids, reserve, budget)
  PROVE  /\ c \in Clearings(Bids, reserve, budget)
         /\ c.fill \in [DOMAIN book -> Nat \X Nat] /\ DOMAIN Bids = DOMAIN book
         /\ Spent(c.fill) \in Nat /\ Spent(c.fill) <= budget
         /\ \A i \in DOMAIN book :
              /\ Coin(c.fill[i]) \in Nat /\ Usd(c.fill[i]) \in Nat
              /\ Coin(c.fill[i]) <= Coin(book[i].bid)
              /\ Coin(book[i].bid) \in Nat /\ Coin(book[i].bid) > 0
              /\ Coin(c.fill[i]) = 0 \/ Usd(c.fill[i]) > 0
<1>1. Bids \in Books /\ DOMAIN Bids = DOMAIN book /\ IsFiniteSet(DOMAIN book)
  BY BookTypes DEF Bids
<1>2. c \in Clearings(Bids, reserve, budget)
  BY <1>1, ClearedFair
<1>3. c.fill \in [DOMAIN book -> Nat \X Nat]
  BY <1>1, <1>2 DEF Clearings
<1>4. /\ Usds(c.fill) \in [DOMAIN book -> Nat]
      /\ Spent(c.fill) = Total(Usds(c.fill), DOMAIN book)
      /\ Spent(c.fill) \in Nat
  BY <1>1, <1>3, SpentType
<1>5. CASE c.marginal = NoSlot
  <2>1. \A i \in DOMAIN book : c.fill[i] = NoPair
    BY <1>1, <1>2, <1>5 DEF Clearings
  <2>2. \A i \in DOMAIN book : Usds(c.fill)[i] = 0 /\ Coin(c.fill[i]) = 0 /\ Usd(c.fill[i]) = 0
    BY <1>3, <2>1 DEF Usds, Usd, Coin, NoPair
  <2>3. Spent(c.fill) = 0
    BY <1>4, <2>2, TotalZero
  <2>4. \A i \in DOMAIN book : Coin(book[i].bid) \in Nat /\ Coin(book[i].bid) > 0
    BY AuctionConstants, RateLegs DEF BookInv, BidsKnown
  <2> QED BY <1>1, <1>2, <1>3, <1>4, <2>2, <2>3, <2>4
<1>6. CASE c.marginal # NoSlot
  <2>1. c.fill \in Fills(Bids, Bids[c.marginal], budget)
    BY <1>2, <1>6 DEF Clearings
  <2>2. Spent(c.fill) <= budget
    BY <2>1 DEF Fills
  <2>3. ASSUME NEW i \in DOMAIN book
        PROVE  /\ Coin(c.fill[i]) \in Nat /\ Usd(c.fill[i]) \in Nat
               /\ Coin(c.fill[i]) <= Coin(book[i].bid)
               /\ Coin(book[i].bid) \in Nat /\ Coin(book[i].bid) > 0
               /\ Coin(c.fill[i]) = 0 \/ Usd(c.fill[i]) > 0
    <3>1. Bids[i] = book[i].bid /\ book[i].bid \in Rates
      BY AuctionConstants DEF Bids, BookInv, BidsKnown
    <3>2. c.fill[i] \in Fairly(Bids[c.marginal], Bids[i], Usd(Bids[i]))
      BY <1>1, <2>1 DEF Fills
    <3>3. Coin(c.fill[i]) <= Coin(Bids[i])
      BY <3>1, <3>2, FairFits
    <3>4. Coin(c.fill[i]) = 0 \/ Usd(c.fill[i]) > 0
      <4>1. c.fill[i] = NoPair \/ c.fill[i] \in Rates
        BY <3>2 DEF Fairly
      <4>2. Coin(NoPair) = 0
        BY DEF Coin, NoPair
      <4> QED BY <4>1, <4>2, RateLegs
    <3> QED BY <1>3, <3>1, <3>3, <3>4, Legs, RateLegs
  <2> QED BY <1>1, <1>2, <1>3, <1>4, <2>2, <2>3
<1> QED BY <1>5, <1>6

LEMMA SettledBook ==
  ASSUME BookInv, EntriesOK, NEW fill, book' = SettledWith(fill)
  PROVE  /\ DOMAIN book' = DOMAIN book
         /\ \A i \in DOMAIN book :
              /\ book'[i].bidder = book[i].bidder /\ book'[i].bid = book[i].bid
              /\ book'[i].settled = TRUE /\ book'[i].usd_owed = Usd(fill[i])
              /\ book'[i].coin_refund = Coin(book[i].bid) - Coin(fill[i])
  BY DEF SettledWith, Refund, BookInv, BidsKnown

\* A settlement turns the escrow of every bid into its refund and what was bought.
LEMMA SettlingKeepsAccounts ==
  ASSUME AuctionInv, BookInv', NEW n \in 0 .. MaxBudget, Execute(n), UNCHANGED slot,
         NEW budget, budget = holding + n, NEW c, c = Cleared(Bids, reserve, budget),
         book' = SettledWith(c.fill),
         coin_escrow' = coin_escrow - Bought(c.fill),
         holding' = budget - Spent(c.fill),
         settlement_usd' = settlement_usd + Spent(c.fill)
  PROVE  AuctionInv'
<1> DEFINE D == DOMAIN book
           coins == [i \in D |-> Coin(c.fill[i])]
           usds == [i \in D |-> Usd(c.fill[i])]
<1>1. budget \in Nat /\ holding \in Nat /\ n \in Nat
  BY AuctionConstants DEF AuctionInv, PursesOK
<1>2. /\ c.fill \in [D -> Nat \X Nat]
      /\ Spent(c.fill) \in Nat /\ Spent(c.fill) <= budget
      /\ \A i \in D : /\ Coin(c.fill[i]) \in Nat /\ Usd(c.fill[i]) \in Nat
                      /\ Coin(c.fill[i]) <= Coin(book[i].bid)
                      /\ Coin(book[i].bid) \in Nat /\ Coin(book[i].bid) > 0
                      /\ Coin(c.fill[i]) = 0 \/ Usd(c.fill[i]) > 0
  BY <1>1, ClearingOfBook DEF AuctionInv
<1>3. /\ DOMAIN book' = D
      /\ \A i \in D :
           /\ book'[i].bidder = book[i].bidder /\ book'[i].bid = book[i].bid
           /\ book'[i].settled = TRUE /\ book'[i].usd_owed = Usd(c.fill[i])
           /\ book'[i].coin_refund = Coin(book[i].bid) - Coin(c.fill[i])
  BY SettledBook DEF AuctionInv
<1>4. EntriesOK'
  <2>1. ASSUME NEW i \in D
        PROVE  /\ book'[i].coin_refund \in Nat
               /\ book'[i].usd_owed # 0 \/ book'[i].coin_refund # 0
    <3>1. /\ Coin(c.fill[i]) \in Nat /\ Usd(c.fill[i]) \in Nat
          /\ Coin(c.fill[i]) <= Coin(book[i].bid)
          /\ Coin(book[i].bid) \in Nat /\ Coin(book[i].bid) > 0
          /\ Coin(c.fill[i]) = 0 \/ Usd(c.fill[i]) > 0
      BY <1>2
    <3>2. /\ book'[i].usd_owed = Usd(c.fill[i])
          /\ book'[i].coin_refund = Coin(book[i].bid) - Coin(c.fill[i])
      BY <1>3
    <3> QED BY <3>1, <3>2
  <2> QED BY <1>2, <1>3, <2>1 DEF AuctionInv, EntriesOK
<1>5. \A i \in D : ~book[i].settled /\ book[i].usd_owed = 0
  BY DEF Execute, AuctionInv, BookInv, BidsKnown, EntriesOK
<1>6. IsFiniteSet(D)
  BY BookTypes DEF AuctionInv
<1>7. /\ coin_escrow = Total(EscrowedBy, D)
      /\ settlement_usd = Total(OwedBy, D)
  BY DEF AuctionInv, AccountsBackTheBook, EscrowedBy, OwedBy
<1>8. \A i \in D : /\ EscrowedBy[i] = Coin(book[i].bid) /\ OwedBy[i] = 0
                   /\ EscrowedBy'[i] = Coin(book[i].bid) - Coin(c.fill[i])
                   /\ OwedBy'[i] = Usd(c.fill[i])
                   /\ coins[i] = Coin(c.fill[i]) /\ usds[i] = Usd(c.fill[i])
  BY <1>3, <1>5 DEF EscrowedBy, OwedBy, Escrowed
<1>9. Bought(c.fill) = Total(coins, D) /\ Spent(c.fill) = Total(usds, D)
  BY <1>2 DEF Bought, Spent
<1> DEFINE e1 == EscrowedBy
           e2 == EscrowedBy'
           o2 == OwedBy'
<1>10. /\ Total(e1, D) = Total(e2, D) + Total(coins, D)
       /\ Total(e2, D) \in Nat /\ Total(coins, D) \in Nat
  <2>1. ASSUME NEW i \in D PROVE e2[i] \in Nat /\ coins[i] \in Nat /\ e1[i] = e2[i] + coins[i]
    <3>1. /\ e1[i] = Coin(book[i].bid)
          /\ e2[i] = Coin(book[i].bid) - Coin(c.fill[i]) /\ coins[i] = Coin(c.fill[i])
      BY <1>8
    <3>2. /\ Coin(c.fill[i]) \in Nat /\ Coin(book[i].bid) \in Nat
          /\ Coin(c.fill[i]) <= Coin(book[i].bid)
      BY <1>2
    <3> HIDE DEF e1, e2, coins
    <3> QED BY <3>1, <3>2
  <2> HIDE DEF e1, e2, coins, D
  <2>2. \A i \in D : e2[i] \in Nat /\ coins[i] \in Nat /\ e1[i] = e2[i] + coins[i]
    BY <2>1
  <2>3. ASSUME NEW f, NEW g, NEW h,
               \A i \in D : g[i] \in Nat /\ h[i] \in Nat /\ f[i] = g[i] + h[i]
        PROVE  Total(f, D) = Total(g, D) + Total(h, D)
    BY <1>6, <2>3, TotalSum
  <2>4. Total(e1, D) = Total(e2, D) + Total(coins, D)
    BY <2>2, <2>3
  <2>5. Total(e2, D) \in Nat /\ Total(coins, D) \in Nat
    BY <1>6, <2>2, TotalType
  <2> QED BY <2>4, <2>5
<1>11. Total(OwedBy, D) = 0
  BY <1>8, TotalZero
<1>12. Total(o2, D) = Total(usds, D)
  BY <1>8, TotalSame
<1>13. /\ coin_escrow' = Total(e2, D) /\ settlement_usd' = Total(o2, D)
       /\ settlement_usd' \in Nat /\ holding' \in Nat
  <2> HIDE DEF e2, o2, coins, usds, D
  <2>1. coin_escrow' = Total(e2, D)
    BY <1>7, <1>9, <1>10
  <2>2. settlement_usd' = Total(o2, D) /\ settlement_usd' \in Nat
    BY <1>2, <1>7, <1>9, <1>11, <1>12
  <2>3. holding' \in Nat
    BY <1>1, <1>2
  <2> QED BY <2>1, <2>2, <2>3
<1>14. AccountsBackTheBook'
  BY <1>3, <1>13 DEF AccountsBackTheBook, EscrowedBy, OwedBy
<1>15. PursesOK'
  BY <1>13 DEF Execute, AuctionInv, PursesOK
<1> QED BY <1>4, <1>14, <1>15 DEF AuctionInv

LEMMA ClearCases ==
  ASSUME NEW c, NEW budget, ClearBook(c, budget)
  PROVE  \/ /\ book' = SettledWith(c.fill)
            /\ coin_escrow' = coin_escrow - Bought(c.fill)
            /\ holding' = budget - Spent(c.fill)
            /\ settlement_usd' = settlement_usd + Spent(c.fill)
         \/ holding' = budget /\ UNCHANGED <<book, coin_escrow, settlement_usd>>
  BY DEF ClearBook

LEMMA ExecuteKeepsAccounts ==
  ASSUME AuctionInv, BookInv', NEW n \in 0 .. MaxBudget, Execute(n), UNCHANGED slot
  PROVE  AuctionInv'
<1> DEFINE budget == holding + n
           c == Cleared(Bids, reserve, budget)
<1>1. budget = holding + n /\ c = Cleared(Bids, reserve, budget)
  OBVIOUS
<1>2. ClearBook(c, budget)
  BY DEF Execute
<1>3. budget \in Nat
  BY AuctionConstants DEF AuctionInv, PursesOK
<1> HIDE DEF c, budget
<1>4. CASE holding' = budget /\ UNCHANGED <<book, coin_escrow, settlement_usd>>
  <2>1. UNCHANGED <<wallet, bid_fee>>
    BY DEF Execute
  <2> QED BY <1>3, <1>4, <2>1
        DEF AuctionInv, EntriesOK, PursesOK, AccountsBackTheBook, Escrowed
<1> QED BY <1>1, <1>2, <1>4, ClearCases, SettlingKeepsAccounts

LEMMA AuctionStarts == AuctionInit => AuctionInv
<1> SUFFICES ASSUME AuctionInit PROVE AuctionInv
  OBVIOUS
<1>1. BookInv
  BY BookStarts
<1>2. DOMAIN book = {}
  BY DEF AuctionInit
<1>3. EntriesOK
  BY <1>2 DEF EntriesOK
<1>4. PursesOK
  BY AuctionConstants DEF AuctionInit, PursesOK
<1>5. AccountsBackTheBook
  BY <1>2, TotalZero DEF AuctionInit, AccountsBackTheBook
<1> QED BY <1>1, <1>3, <1>4, <1>5 DEF AuctionInv

LEMMA StepKeepsAuction ==
  AuctionInv /\ [AuctionNext]_<<slot, auction_vars>> => AuctionInv'
<1> SUFFICES ASSUME AuctionInv, [AuctionNext]_<<slot, auction_vars>> PROVE AuctionInv'
  OBVIOUS
<1>1. BookInv'
  BY StepKeepsBook DEF AuctionInv
<1>2. ASSUME UNCHANGED <<book, coin_escrow, settlement_usd, wallet>>,
             holding' \in Nat, bid_fee' \in 0 .. Fee
      PROVE  AuctionInv'
  BY <1>1, <1>2 DEF AuctionInv, EntriesOK, PursesOK, AccountsBackTheBook, Escrowed
<1>3. holding \in Nat /\ bid_fee \in 0 .. Fee
  BY DEF AuctionInv, PursesOK
<1>4. ASSUME NEW r, SetReserve(r) PROVE AuctionInv'
  BY <1>2, <1>3, <1>4 DEF SetReserve, book_vars
<1>5. ASSUME NEW fee \in 0 .. Fee, SetBidFee(fee) PROVE AuctionInv'
  BY <1>2, <1>3, <1>5 DEF SetBidFee, book_vars
<1>6. ASSUME Shutdown PROVE AuctionInv'
  BY <1>2, <1>3, <1>6 DEF Shutdown, book_vars
<1>7. ASSUME AuctionTick PROVE AuctionInv'
  BY <1>2, <1>3, <1>7 DEF AuctionTick
<1>8. CASE UNCHANGED <<slot, auction_vars>>
  BY <1>2, <1>3, <1>8 DEF auction_vars, book_vars
<1> QED
  BY <1>1, <1>4, <1>5, <1>6, <1>7, <1>8, PlaceBidKeepsAccounts, ExecuteKeepsAccounts,
     ClaimKeepsAccounts, CancelBidKeepsAccounts DEF AuctionNext

THEOREM AuctionInvariant == AuctionSpec => []AuctionInv
  BY AuctionStarts, StepKeepsAuction, PTL DEF AuctionSpec

\* The escrow and the settlement account hold what the book says they do, to the
\* atom, whatever is placed, outbid, cleared, rolled over, cancelled and claimed
\* (place_bid, execute, claim, cancel_bid).
THEOREM AccountsAlwaysBack == AuctionSpec => []AccountsBackTheBook
<1>1. AuctionInv => AccountsBackTheBook
  BY DEF AuctionInv
<1> QED BY <1>1, AuctionInvariant, PTL

----------------------------------------------------------------------------
(* The auction implements OfferBook.                                         *)

\* What that comes to, entry by entry.
BookMeans ==
  /\ \A i \in DOMAIN book :
       /\ book[i].bidder \in Bidders
       /\ OfferNow[book[i].bidder] = IF book[i].settled THEN NoPair ELSE book[i].bid
       /\ DueNow[book[i].bidder] = <<book[i].coin_refund, book[i].usd_owed>>
  /\ \A b \in Bidders : ~HasBid(b) => OfferNow[b] = NoPair /\ DueNow[b] = NoPair
  /\ OfferNow = [b \in Bidders |-> OfferNow[b]]
  /\ DueNow = [b \in Bidders |-> DueNow[b]]

LEMMA Meaning == EntriesOK => BookMeans
<1> SUFFICES ASSUME EntriesOK PROVE BookMeans
  OBVIOUS
<1>1. ASSUME NEW i \in DOMAIN book
      PROVE  /\ book[i].bidder \in Bidders
             /\ OfferNow[book[i].bidder] = IF book[i].settled THEN NoPair ELSE book[i].bid
             /\ DueNow[book[i].bidder] = <<book[i].coin_refund, book[i].usd_owed>>
  <2> DEFINE b == book[i].bidder
             mine == { j \in DOMAIN book : book[j].bidder = b /\ book[j].settled }
  <2>1. /\ b \in Bidders /\ \A j \in DOMAIN book : book[j].bidder = b => j = i
        /\ book[i].usd_owed \in Nat /\ book[i].coin_refund \in Nat
        /\ ~book[i].settled => book[i].usd_owed = 0 /\ book[i].coin_refund = 0
    BY DEF EntriesOK
  <2>2. (CHOOSE e \in { book[j] : j \in DOMAIN book } : e.bidder = b) = book[i]
    BY <2>1
  <2>3. OfferNow[b] = IF book[i].settled THEN NoPair ELSE book[i].bid
    BY <2>1, <2>2 DEF OfferNow
  <2>4. DueNow[b] = <<Total([j \in mine |-> book[j].coin_refund], mine),
                      Total([j \in mine |-> book[j].usd_owed], mine)>>
    BY <2>1 DEF DueNow
  <2>5. mine = IF book[i].settled THEN {i} ELSE {}
    BY <2>1
  <2> HIDE DEF mine, b
  <2>6. CASE book[i].settled
    <3> DEFINE refund == [j \in {i} |-> book[j].coin_refund]
               owed == [j \in {i} |-> book[j].usd_owed]
    <3>1. refund[i] = book[i].coin_refund /\ owed[i] = book[i].usd_owed
      OBVIOUS
    <3>2. DueNow[b] = <<Total(refund, {i}), Total(owed, {i})>>
      BY <2>4, <2>5, <2>6
    <3> HIDE DEF refund, owed
    <3>3. Total(refund, {i}) = book[i].coin_refund /\ Total(owed, {i}) = book[i].usd_owed
      BY <2>1, <3>1, TotalSingle
    <3> QED BY <2>1, <2>3, <3>2, <3>3 DEF b
  <2>7. CASE ~book[i].settled
    <3>1. DueNow[b] = <<0, 0>>
      <4>1. \A f : Total(f, {}) = 0
        BY TotalZero
      <4> QED BY <2>4, <2>5, <2>7, <4>1
    <3> QED BY <2>1, <2>3, <2>7, <3>1 DEF b
  <2> QED BY <2>6, <2>7
<1>2. ASSUME NEW b \in Bidders, ~HasBid(b) PROVE OfferNow[b] = NoPair /\ DueNow[b] = NoPair
  <2> DEFINE mine == { j \in DOMAIN book : book[j].bidder = b /\ book[j].settled }
  <2>1. mine = {} /\ OfferNow[b] = NoPair
    BY <1>2 DEF HasBid, OfferNow
  <2>2. DueNow[b] = <<Total([j \in mine |-> book[j].coin_refund], mine),
                      Total([j \in mine |-> book[j].usd_owed], mine)>>
    BY DEF DueNow
  <2> HIDE DEF mine
  <2>3. \A f : Total(f, {}) = 0
    BY TotalZero
  <2> QED BY <2>1, <2>2, <2>3 DEF NoPair
<1>3. OfferNow = [b \in Bidders |-> OfferNow[b]]
  <2> DEFINE offered(b) == IF \E i \in DOMAIN book : book[i].bidder = b /\ ~book[i].settled
                           THEN (CHOOSE e \in { book[i] : i \in DOMAIN book } : e.bidder = b).bid
                           ELSE NoPair
  <2>1. OfferNow = [b \in Bidders |-> offered(b)]
    BY DEF OfferNow
  <2> HIDE DEF offered
  <2> QED BY <2>1
<1>4. DueNow = [b \in Bidders |-> DueNow[b]]
  <2> DEFINE dues(b) == LET mine == { i \in DOMAIN book : book[i].bidder = b /\ book[i].settled }
                        IN  <<Total([i \in mine |-> book[i].coin_refund], mine),
                              Total([i \in mine |-> book[i].usd_owed], mine)>>
  <2>1. DueNow = [b \in Bidders |-> dues(b)]
    BY DEF DueNow
  <2> HIDE DEF dues
  <2> QED BY <2>1
<1> QED BY <1>1, <1>2, <1>3, <1>4 DEF BookMeans

LEMMA MeaningNext ==
  ASSUME EntriesOK'
  PROVE  BookMeans'
  BY Meaning, PTL

LEMMA OfferStep ==
  ASSUME NEW b \in Bidders, NEW o, NEW fee \in 0 .. Fee,
         OfferNow[b] = NoPair, DueNow[b] = NoPair,
         Coin(o) + fee <= Coin(wallet[b]),
         wallet'[b] = <<Coin(wallet[b]) - Coin(o) - fee, Usd(wallet[b])>>,
         wallet' = [wallet EXCEPT ![b] = wallet'[b]],
         OfferNow'[b] = o, OfferNow' = [OfferNow EXCEPT ![b] = o],
         UNCHANGED <<DueNow, holding, reserve>>
  PROVE  PublicOffers!OfferNext
<1>1. PublicOffers!Offer(b, OfferNow'[b])
  BY DEF PublicOffers!Offer, PublicOffers!Offered, PublicOffers!Idle, PublicOffers!NoPair,
     PublicOffers!Coin, PublicOffers!Usd, NoPair, Coin, Usd
<1> QED BY <1>1 DEF PublicOffers!OfferNext

LEMMA OutbidStep ==
  ASSUME NEW b \in Bidders, NEW o, NEW fee \in 0 .. Fee, NEW e \in Bidders,
         OfferNow[b] = NoPair, DueNow[b] = NoPair,
         Coin(o) + fee <= Coin(wallet[b]),
         wallet'[b] = <<Coin(wallet[b]) - Coin(o) - fee, Usd(wallet[b])>>,
         b # e, OfferNow[e] # NoPair, Below(OfferNow[e], o),
         wallet' = [wallet EXCEPT ![b] = wallet'[b],
                                  ![e] = <<Coin(@) + Coin(OfferNow[e]), Usd(@)>>],
         OfferNow'[b] = o, OfferNow' = [OfferNow EXCEPT ![b] = o, ![e] = NoPair],
         UNCHANGED <<DueNow, holding, reserve>>
  PROVE  PublicOffers!OfferNext
<1>1. PublicOffers!Outbid(b, OfferNow'[b], e)
  BY DEF PublicOffers!Outbid, PublicOffers!Offered, PublicOffers!Idle, PublicOffers!NoPair,
     PublicOffers!Below, PublicOffers!Coin, PublicOffers!Usd, NoPair,
     Below, Coin, Usd
<1> QED BY <1>1 DEF PublicOffers!OfferNext

LEMMA WithdrawStep ==
  ASSUME NEW b \in Bidders, OfferNow[b] # NoPair,
         OfferNow' = [OfferNow EXCEPT ![b] = NoPair],
         wallet' = [wallet EXCEPT ![b] = <<Coin(@) + Coin(OfferNow[b]), Usd(@)>>],
         UNCHANGED <<DueNow, holding, reserve>>
  PROVE  PublicOffers!OfferNext
<1>1. PublicOffers!Withdraw(b)
  BY DEF PublicOffers!Withdraw, PublicOffers!NoPair, PublicOffers!Coin, PublicOffers!Usd, NoPair, Coin, Usd
<1> QED BY <1>1 DEF PublicOffers!OfferNext

LEMMA CollectStep ==
  ASSUME NEW b \in Bidders, DueNow[b] # NoPair,
         DueNow' = [DueNow EXCEPT ![b] = NoPair],
         wallet' = [wallet EXCEPT ![b] = <<Coin(@) + Coin(DueNow[b]), Usd(@) + Usd(DueNow[b])>>],
         UNCHANGED <<OfferNow, holding, reserve>>
  PROVE  PublicOffers!OfferNext
<1>1. PublicOffers!Collect(b)
  BY DEF PublicOffers!Collect, PublicOffers!Plus, PublicOffers!NoPair, PublicOffers!Coin,
     PublicOffers!Usd, NoPair, Coin, Usd
<1> QED BY <1>1 DEF PublicOffers!OfferNext

LEMMA GovernStep ==
  ASSUME UNCHANGED <<OfferNow, DueNow, wallet>>
  PROVE  PublicOffers!OfferNext
<1>1. PublicOffers!Govern
  BY DEF PublicOffers!Govern
<1> QED BY <1>1 DEF PublicOffers!OfferNext

\* What may become of an offer at a price, in the terms of the clearing.
Fates(o, price) ==
  { <<Coin(o) - Coin(p), Usd(p)>> : p \in { q \in Fairly(price, o, Usd(o)) : Coin(q) <= Coin(o) } }

LEMMA FatesAreOutcomes ==
  ASSUME NEW o \in Rates, NEW price, NEW d \in Fates(o, price)
  PROVE  d \in PublicOffers!Outcomes(o, price)
<1>1. PICK p \in Fairly(price, o, Usd(o)) :
        Coin(p) <= Coin(o) /\ d = <<Coin(o) - Coin(p), Usd(p)>>
  BY DEF Fates
<1>2. Coin(o) \in Nat /\ Usd(o) \in Nat /\ Coin(p) \in Nat /\ Usd(p) \in Nat
  BY RateLegs, FairPair
<1>3. CASE p = NoPair
  <2>1. Coin(p) = 0 /\ Usd(p) = 0
    BY <1>3 DEF NoPair, Coin, Usd
  <2>2. PublicOffers!Usd(PublicOffers!TryCoin(0, PublicOffers!Usd(o), price, o)) = 0
    BY DEF PublicOffers!TryCoin, PublicOffers!NoPair, PublicOffers!Usd
  <2>3. PublicOffers!Coin(o) = Coin(o)
    BY DEF PublicOffers!Coin, Coin
  <2>4. d = <<Coin(o) - 0, 0>>
    BY <1>1, <2>1
  <2> QED BY <1>2, <2>2, <2>3, <2>4 DEF PublicOffers!Outcomes
<1>4. CASE p \in Rates /\ Usd(p) <= Usd(o) /\ Usd(p) = AtRate(Coin(p), price) /\ ~Below(o, p)
  <2> DEFINE coin == Coin(p)
             pair == <<coin, AtRate(coin, price)>>
  <2>1. coin \in Nat \ {0} /\ Usd(p) > 0
    BY <1>4, RateLegs
  <2>2. pair = p
    BY <1>4 DEF Rates, Coin, Usd
  <2>3. TryCoin(coin, Usd(o), price, o) = p
    <3>1. Usd(pair) \in 1 .. Usd(o) /\ ~Below(o, pair)
      BY <1>2, <1>4, <2>1, <2>2
    <3> QED BY <2>1, <2>2, <3>1 DEF TryCoin
  <2>4. PublicOffers!TryCoin(coin, PublicOffers!Usd(o), price, o) = TryCoin(coin, Usd(o), price, o)
    BY DEF PublicOffers!TryCoin, PublicOffers!AtRate, PublicOffers!Below, PublicOffers!NoPair,
       PublicOffers!Coin, PublicOffers!Usd, TryCoin, AtRate, Below, NoPair, Coin, Usd
  <2>5. /\ PublicOffers!Coin(o) = Coin(o) /\ PublicOffers!Usd(p) = Usd(p)
        /\ PublicOffers!NoPair = NoPair
    BY DEF PublicOffers!Coin, PublicOffers!Usd, PublicOffers!NoPair, Coin, Usd, NoPair
  <2>6. p # NoPair
    BY <2>1 DEF NoPair, Coin
  <2>7. coin \in 0 .. Coin(o)
    BY <1>1, <1>2
  <2> HIDE DEF coin
  <2>8. d = <<Coin(o) - coin, Usd(p)>>
    BY <1>1 DEF coin
  <2> QED BY <2>3, <2>4, <2>5, <2>6, <2>7, <2>8 DEF PublicOffers!Outcomes
<1> QED BY <1>1, <1>3, <1>4 DEF Fairly

LEMMA SettleStep ==
  ASSUME NEW b \in Bidders, OfferNow[b] # NoPair, ~Below(OfferNow[b], reserve),
         \A x \in Bidders :
           /\ DueNow[x] = NoPair
           /\ OfferNow[x] \in Rates \cup {NoPair}
           /\ IF OfferNow[x] = NoPair THEN DueNow'[x] = NoPair
              ELSE DueNow'[x] \in Fates(OfferNow[x], OfferNow[b]),
         OfferNow' = [x \in Bidders |-> NoPair],
         NEW pulled \in 0 .. MaxBudget,
         LET paid == Total([x \in Bidders |-> Usd(DueNow'[x])], Bidders)
         IN  paid <= holding + pulled /\ holding' = holding + pulled - paid,
         UNCHANGED <<wallet, reserve>>
  PROVE  PublicOffers!OfferNext
<1>1. PublicOffers!NoPair = NoPair
  BY DEF PublicOffers!NoPair, NoPair
<1>2. \A p, q : PublicOffers!Below(p, q) <=> Below(p, q)
  BY DEF PublicOffers!Below, PublicOffers!Coin, PublicOffers!Usd, Below, Coin, Usd
<1>3. \A p : PublicOffers!Usd(p) = Usd(p)
  BY DEF PublicOffers!Usd, Usd
<1>4. \A f, S : PublicOffers!Total(f, S) = Total(f, S)
  BY DEF PublicOffers!Total, PublicOffers!Units, PublicOffers!Cardinality, Cardinality, Total, Units
<1>5. \A x \in Bidders : OfferNow[x] # NoPair
        => DueNow'[x] \in PublicOffers!Outcomes(OfferNow[x], OfferNow[b])
  BY FatesAreOutcomes
<1>6. PublicOffers!Settle(b)
  BY <1>1, <1>2, <1>3, <1>4, <1>5 DEF PublicOffers!Settle
<1> QED BY <1>6 DEF PublicOffers!OfferNext

\* A placement changes what the book means to the bidder, and to the one it evicts.
LEMMA PlacingMeans ==
  ASSUME BookMeans, BookMeans', EntriesOK, NEW b \in Bidders, ~HasBid(b),
         \A j \in DOMAIN book : ~book[j].settled,
         NEW i, NEW entry, book' = With(i, entry),
         entry.bidder = b, ~entry.settled, entry.usd_owed = 0, entry.coin_refund = 0
  PROVE  /\ OfferNow'[b] = entry.bid
         /\ \A x \in Bidders \ {b} :
              OfferNow'[x] = IF i \in DOMAIN book /\ book[i].bidder = x THEN NoPair
                             ELSE OfferNow[x]
         /\ \A x \in Bidders : DueNow[x] = NoPair /\ DueNow'[x] = NoPair
<1>1. /\ DOMAIN book' = DOMAIN book \cup {i} /\ book'[i] = entry
      /\ \A j \in DOMAIN book \ {i} : book'[j] = book[j]
  BY DEF With
<1>2. OfferNow'[b] = entry.bid
  BY <1>1 DEF BookMeans
<1>3. \A j \in DOMAIN book : book[j].usd_owed = 0 /\ book[j].coin_refund = 0
  BY DEF EntriesOK
<1>4. \A j \in DOMAIN book' : book'[j].usd_owed = 0 /\ book'[j].coin_refund = 0
  BY <1>1, <1>3
<1>5. ASSUME NEW x \in Bidders PROVE DueNow[x] = NoPair
  <2>1. CASE HasBid(x)
    BY <1>3, <2>1 DEF HasBid, BookMeans, NoPair
  <2>2. CASE ~HasBid(x)
    BY <2>2 DEF BookMeans
  <2> QED BY <2>1, <2>2
<1>6. ASSUME NEW x \in Bidders PROVE DueNow'[x] = NoPair
  <2>1. CASE HasBid(x)'
    BY <1>4, <2>1 DEF HasBid, BookMeans, NoPair
  <2>2. CASE ~HasBid(x)'
    BY <2>2 DEF BookMeans
  <2> QED BY <2>1, <2>2
<1>7. ASSUME NEW x \in Bidders \ {b}
      PROVE  OfferNow'[x] = IF i \in DOMAIN book /\ book[i].bidder = x THEN NoPair
                            ELSE OfferNow[x]
  <2>1. CASE \E j \in DOMAIN book \ {i} : book[j].bidder = x
    <3>1. PICK j \in DOMAIN book \ {i} : book[j].bidder = x
      BY <2>1
    <3>2. book'[j] = book[j] /\ j \in DOMAIN book'
      BY <1>1, <3>1
    <3>3. ~(i \in DOMAIN book /\ book[i].bidder = x)
      BY <3>1 DEF EntriesOK
    <3> QED BY <3>1, <3>2, <3>3 DEF BookMeans
  <2>2. CASE ~\E j \in DOMAIN book \ {i} : book[j].bidder = x
    <3>1. ~HasBid(x)'
      BY <1>1, <2>2 DEF HasBid
    <3>2. OfferNow'[x] = NoPair
      BY <3>1 DEF BookMeans
    <3>3. (i \in DOMAIN book /\ book[i].bidder = x) \/ ~HasBid(x)
      BY <2>2 DEF HasBid
    <3> QED BY <3>2, <3>3 DEF BookMeans
  <2> QED BY <2>1, <2>2
<1> QED BY <1>2, <1>5, <1>6, <1>7

\* To all but the one who leaves the book means the same.
LEMMA LeavingMeans ==
  ASSUME BookMeans, BookMeans', EntriesOK, NEW i \in DOMAIN book, book' = Without(i)
  PROVE  \A x \in Bidders :
           /\ OfferNow'[x] = IF x = book[i].bidder THEN NoPair ELSE OfferNow[x]
           /\ DueNow'[x] = IF x = book[i].bidder THEN NoPair ELSE DueNow[x]
<1>1. /\ DOMAIN book' = DOMAIN book \ {i}
      /\ \A j \in DOMAIN book' : book'[j] = book[j]
  BY DEF Without
<1> SUFFICES ASSUME NEW x \in Bidders
             PROVE  /\ OfferNow'[x] = IF x = book[i].bidder THEN NoPair ELSE OfferNow[x]
                    /\ DueNow'[x] = IF x = book[i].bidder THEN NoPair ELSE DueNow[x]
  OBVIOUS
<1>2. CASE \E j \in DOMAIN book \ {i} : book[j].bidder = x
  <2>1. PICK j \in DOMAIN book \ {i} : book[j].bidder = x
    BY <1>2
  <2>2. book'[j] = book[j] /\ j \in DOMAIN book' /\ book[i].bidder # x
    BY <1>1, <2>1 DEF EntriesOK
  <2>3. /\ OfferNow'[x] = IF book[j].settled THEN NoPair ELSE book[j].bid
        /\ DueNow'[x] = <<book[j].coin_refund, book[j].usd_owed>>
    BY <2>1, <2>2 DEF BookMeans
  <2>4. /\ OfferNow[x] = IF book[j].settled THEN NoPair ELSE book[j].bid
        /\ DueNow[x] = <<book[j].coin_refund, book[j].usd_owed>>
    BY <2>1 DEF BookMeans
  <2> QED BY <2>2, <2>3, <2>4
<1>3. CASE ~\E j \in DOMAIN book \ {i} : book[j].bidder = x
  <2>1. ~HasBid(x)'
    BY <1>1, <1>3 DEF HasBid
  <2>2. OfferNow'[x] = NoPair /\ DueNow'[x] = NoPair
    BY <2>1 DEF BookMeans
  <2>3. book[i].bidder = x \/ ~HasBid(x)
    BY <1>3 DEF HasBid
  <2>4. book[i].bidder # x => OfferNow[x] = NoPair /\ DueNow[x] = NoPair
    BY <2>3 DEF BookMeans
  <2> QED BY <2>2, <2>4
<1> QED BY <1>2, <1>3

\* Two functions on the bidders that agree are the same.
LEMMA SameFunctions ==
  ASSUME NEW f, NEW g, f = [x \in Bidders |-> f[x]], g = [x \in Bidders |-> g[x]],
         \A x \in Bidders : f[x] = g[x]
  PROVE  f = g
<1>1. [x \in Bidders |-> f[x]] = [x \in Bidders |-> g[x]]
  OBVIOUS
<1> QED BY <1>1

LEMMA PlaceBidRefines ==
  ASSUME AuctionInv, AuctionInv', NEW b \in Bidders, NEW bid \in Offers, PlaceBid(b, bid)
  PROVE  PublicOffers!OfferNext
<1> DEFINE entry == [bidder |-> b, bid |-> bid, place_slot |-> slot,
                     place_round_end |-> round_end,
                     settled |-> FALSE, usd_owed |-> 0, coin_refund |-> 0]
           paid == Paid(wallet, b, -(Coin(bid) + bid_fee), 0)
<1>1. PICK i \in BidSlots :
        /\ book' = With(i, entry)
        /\ \/ i \notin DOMAIN book /\ wallet' = paid
           \/ /\ i \in DOMAIN book /\ Below(book[i].bid, bid)
              /\ wallet' = Paid(paid, book[i].bidder, Coin(book[i].bid), 0)
  BY DEF PlaceBid, FirstFree, Free, Weakest, Evicts
<1>2. /\ book_state = "open" /\ ~HasBid(b) /\ Coin(bid) + bid_fee <= Coin(wallet[b])
      /\ UNCHANGED <<holding, reserve>>
  BY DEF PlaceBid
<1>3. BookMeans /\ BookMeans' /\ EntriesOK /\ \A j \in DOMAIN book : ~book[j].settled
  BY <1>2, Meaning, MeaningNext DEF AuctionInv, BookInv, BidsKnown
<1>4. /\ entry.bidder = b /\ entry.usd_owed = 0 /\ entry.coin_refund = 0 /\ entry.bid = bid
      /\ ~entry.settled
  OBVIOUS
<1> HIDE DEF entry
<1>5. /\ OfferNow'[b] = bid
      /\ \A x \in Bidders \ {b} :
           OfferNow'[x] = IF i \in DOMAIN book /\ book[i].bidder = x THEN NoPair ELSE OfferNow[x]
      /\ \A x \in Bidders : DueNow[x] = NoPair /\ DueNow'[x] = NoPair
  BY <1>1, <1>2, <1>3, <1>4, PlacingMeans
<1>6. UNCHANGED DueNow /\ DueNow[b] = NoPair
  <2>1. DueNow = [x \in Bidders |-> DueNow[x]] /\ DueNow' = [x \in Bidders |-> DueNow'[x]]
    BY <1>3 DEF BookMeans
  <2> DEFINE d1 == DueNow
             d2 == DueNow'
  <2>2. \A x \in Bidders : d1[x] = d2[x]
    BY <1>5
  <2>3. d1 = [x \in Bidders |-> d1[x]] /\ d2 = [x \in Bidders |-> d2[x]]
    BY <2>1
  <2> HIDE DEF d1, d2
  <2>4. d1 = d2
    BY <2>2, <2>3, SameFunctions
  <2> QED BY <1>5, <2>4 DEF d1, d2
<1>7. OfferNow[b] = NoPair
  BY <1>2, <1>3 DEF BookMeans
<1>8. /\ OfferNow = [x \in Bidders |-> OfferNow[x]]
      /\ OfferNow' = [x \in Bidders |-> OfferNow'[x]]
  BY <1>3 DEF BookMeans
<1>9. /\ Coin(bid) \in Nat /\ bid_fee \in 0 .. Fee /\ bid_fee \in Nat
      /\ wallet \in [Bidders -> Nat \X Nat]
      /\ Coin(wallet[b]) \in Nat /\ Usd(wallet[b]) \in Nat
  BY AuctionConstants, RateLegs, Legs DEF AuctionInv, PursesOK
<1>10. /\ paid \in [Bidders -> Nat \X Nat]
       /\ paid[b] = <<Coin(wallet[b]) - Coin(bid) - bid_fee, Usd(wallet[b])>>
       /\ \A x \in Bidders : x # b => paid[x] = wallet[x]
  <2> DEFINE cost == -(Coin(bid) + bid_fee)
  <2>1. cost \in Int /\ Coin(wallet[b]) + cost \in Nat
        /\ Coin(wallet[b]) + cost = Coin(wallet[b]) - Coin(bid) - bid_fee
        /\ Usd(wallet[b]) + 0 = Usd(wallet[b])
    BY <1>2, <1>9
  <2> HIDE DEF cost
  <2>2. /\ Paid(wallet, b, cost, 0) \in [Bidders -> Nat \X Nat]
        /\ Paid(wallet, b, cost, 0)[b] = <<Coin(wallet[b]) + cost, Usd(wallet[b]) + 0>>
        /\ \A x \in Bidders : x # b => Paid(wallet, b, cost, 0)[x] = wallet[x]
    BY <1>9, <2>1, PaidTo
  <2>3. paid = Paid(wallet, b, cost, 0)
    BY DEF cost
  <2> HIDE DEF paid
  <2> QED BY <2>1, <2>2, <2>3
<1> HIDE DEF paid
<1>11. CASE i \notin DOMAIN book
  <2>1. wallet' = paid
    BY <1>1, <1>11
  <2>2. wallet' = [wallet EXCEPT ![b] = wallet'[b]]
    <3>1. paid = [wallet EXCEPT ![b] = paid[b]]
      BY <1>9, <1>10
    <3> QED BY <2>1, <3>1
  <2>3. OfferNow' = [OfferNow EXCEPT ![b] = bid]
    <3> DEFINE f == OfferNow
               g == OfferNow'
    <3>1. /\ f = [x \in Bidders |-> f[x]] /\ g = [x \in Bidders |-> g[x]]
          /\ g[b] = bid /\ \A x \in Bidders \ {b} : g[x] = f[x]
      BY <1>5, <1>8, <1>11
    <3> HIDE DEF f, g
    <3>2. g = [f EXCEPT ![b] = bid]
      BY <3>1
    <3> QED BY <3>2 DEF f, g
  <2>4. wallet'[b] = <<Coin(wallet[b]) - Coin(bid) - bid_fee, Usd(wallet[b])>>
    BY <1>10, <2>1
  <2> QED BY <1>2, <1>5, <1>6, <1>7, <1>9, <2>2, <2>3, <2>4, OfferStep
<1>12. CASE i \in DOMAIN book
  <2> DEFINE e == book[i].bidder
             back == Coin(book[i].bid)
  <2>1. e \in Bidders /\ e # b /\ OfferNow[e] = book[i].bid /\ OfferNow[e] # NoPair
        /\ Below(OfferNow[e], bid) /\ back \in Nat
    <3>1. book[i].bid \in Rates
      BY <1>12, AuctionConstants DEF AuctionInv, BookInv, BidsKnown
    <3>2. OfferNow[e] = book[i].bid /\ e \in Bidders
      BY <1>3, <1>12 DEF BookMeans
    <3>3. book[i].bid # NoPair
      BY <3>1 DEF Rates, NoPair
    <3>4. e # b
      BY <1>2, <1>12 DEF HasBid
    <3> QED BY <1>1, <1>12, <3>1, <3>2, <3>3, <3>4, RateLegs
  <2>2. wallet' = Paid(paid, e, back, 0)
    BY <1>1, <1>12
  <2>3. /\ wallet' \in [Bidders -> Nat \X Nat]
        /\ wallet'[e] = <<Coin(wallet[e]) + back, Usd(wallet[e])>>
        /\ \A x \in Bidders : x # e => wallet'[x] = paid[x]
    <3> HIDE DEF e, back
    <3>1. Coin(paid[e]) \in Nat /\ Usd(paid[e]) \in Nat /\ paid[e] = wallet[e]
      BY <1>10, <2>1, Legs
    <3>2. back \in Int /\ Coin(paid[e]) + back \in Nat /\ Usd(paid[e]) + 0 = Usd(paid[e])
      BY <2>1, <3>1
    <3>3. /\ Paid(paid, e, back, 0) \in [Bidders -> Nat \X Nat]
          /\ Paid(paid, e, back, 0)[e] = <<Coin(paid[e]) + back, Usd(paid[e]) + 0>>
          /\ \A x \in Bidders : x # e => Paid(paid, e, back, 0)[x] = paid[x]
      BY <1>10, <2>1, <3>2, PaidTo
    <3> QED BY <2>2, <3>1, <3>2, <3>3
  <2>4. wallet' = [wallet EXCEPT ![b] = wallet'[b],
                                 ![e] = <<Coin(@) + Coin(OfferNow[e]), Usd(@)>>]
    <3> DEFINE w == wallet'
    <3> HIDE DEF e, back
    <3>1. Coin(OfferNow[e]) = back
      BY <2>1 DEF back
    <3>2. /\ w \in [Bidders -> Nat \X Nat] /\ w[e] = <<Coin(wallet[e]) + back, Usd(wallet[e])>>
          /\ \A x \in Bidders \ {b, e} : w[x] = wallet[x]
      BY <1>10, <2>3
    <3> HIDE DEF w
    <3>3. w = [wallet EXCEPT ![b] = w[b], ![e] = <<Coin(wallet[e]) + back, Usd(wallet[e])>>]
      BY <1>9, <2>1, <3>2
    <3>4. w = [wallet EXCEPT ![b] = w[b], ![e] = <<Coin(@) + Coin(OfferNow[e]), Usd(@)>>]
      BY <2>1, <3>1, <3>3
    <3> QED BY <3>4 DEF w
  <2>5. OfferNow' = [OfferNow EXCEPT ![b] = bid, ![e] = NoPair]
    <3> DEFINE f == OfferNow
               g == OfferNow'
    <3>1. /\ f = [x \in Bidders |-> f[x]] /\ g = [x \in Bidders |-> g[x]]
          /\ g[b] = bid /\ \A x \in Bidders \ {b} : g[x] = IF e = x THEN NoPair ELSE f[x]
      BY <1>5, <1>8, <1>12
    <3> HIDE DEF f, g, e
    <3>2. g = [f EXCEPT ![b] = bid, ![e] = NoPair]
      BY <2>1, <3>1
    <3> QED BY <3>2 DEF f, g
  <2>6. wallet'[b] = <<Coin(wallet[b]) - Coin(bid) - bid_fee, Usd(wallet[b])>>
    BY <1>10, <2>1, <2>3
  <2> HIDE DEF e
  <2> QED BY <1>2, <1>5, <1>6, <1>7, <1>9, <2>1, <2>4, <2>5, <2>6, OutbidStep
<1> QED BY <1>11, <1>12

\* A function that differs from another at one place is that one, changed there.
LEMMA ChangedAt ==
  ASSUME NEW f, NEW g, NEW b \in Bidders, NEW v,
         f = [x \in Bidders |-> f[x]], g = [x \in Bidders |-> g[x]],
         \A x \in Bidders : g[x] = IF x = b THEN v ELSE f[x]
  PROVE  g = [f EXCEPT ![b] = v]
<1>1. [x \in Bidders |-> g[x]] = [x \in Bidders |-> IF x = b THEN v ELSE f[x]]
  OBVIOUS
<1>2. [f EXCEPT ![b] = v] = [x \in Bidders |-> IF x = b THEN v ELSE f[x]]
  OBVIOUS
<1> QED BY <1>1, <1>2

\* What a bidder that leaves is paid, as a change of the wallets.
LEMMA PaidIsChange ==
  ASSUME NEW w \in [Bidders -> Nat \X Nat], NEW b \in Bidders, NEW coin, NEW usd
  PROVE  Paid(w, b, coin, usd) = [w EXCEPT ![b] = <<Coin(@) + coin, Usd(@) + usd>>]
  BY DEF Paid

LEMMA CancelBidRefines ==
  ASSUME AuctionInv, AuctionInv', NEW i, CancelBid(i)
  PROVE  PublicOffers!OfferNext
<1> DEFINE b == book[i].bidder
<1>1. /\ i \in DOMAIN book /\ ~book[i].settled /\ book' = Without(i)
      /\ wallet' = Paid(wallet, b, Coin(book[i].bid), 0)
      /\ UNCHANGED <<holding, reserve>>
  BY DEF CancelBid, Cancellable
<1>2. BookMeans /\ BookMeans' /\ EntriesOK
  BY Meaning, MeaningNext DEF AuctionInv
<1>3. \A x \in Bidders :
        /\ OfferNow'[x] = IF x = b THEN NoPair ELSE OfferNow[x]
        /\ DueNow'[x] = IF x = b THEN NoPair ELSE DueNow[x]
  BY <1>1, <1>2, LeavingMeans
<1>4. /\ b \in Bidders /\ OfferNow[b] = book[i].bid
      /\ DueNow[b] = NoPair
  BY <1>1, <1>2 DEF BookMeans, EntriesOK, NoPair
<1>5. OfferNow[b] # NoPair
  <2>1. book[i].bid \in Rates
    BY <1>1, AuctionConstants DEF AuctionInv, BookInv, BidsKnown
  <2>2. book[i].bid # NoPair
    BY <2>1 DEF Rates, NoPair
  <2> QED BY <1>4, <2>2
<1>6. /\ OfferNow = [x \in Bidders |-> OfferNow[x]] /\ OfferNow' = [x \in Bidders |-> OfferNow'[x]]
      /\ DueNow = [x \in Bidders |-> DueNow[x]] /\ DueNow' = [x \in Bidders |-> DueNow'[x]]
  BY <1>2 DEF BookMeans
<1> HIDE DEF b
<1>7. UNCHANGED DueNow /\ OfferNow' = [OfferNow EXCEPT ![b] = NoPair]
  <2> DEFINE d1 == DueNow
             d2 == DueNow'
             o1 == OfferNow
             o2 == OfferNow'
  <2>1. \A x \in Bidders : d2[x] = d1[x] /\ o2[x] = IF x = b THEN NoPair ELSE o1[x]
    BY <1>3, <1>4
  <2>2. /\ o1 = [x \in Bidders |-> o1[x]] /\ o2 = [x \in Bidders |-> o2[x]]
        /\ d1 = [x \in Bidders |-> d1[x]] /\ d2 = [x \in Bidders |-> d2[x]]
    BY <1>6
  <2> HIDE DEF d1, d2, o1, o2
  <2>3. d2 = d1
    BY <2>1, <2>2, SameFunctions
  <2>4. o2 = [o1 EXCEPT ![b] = NoPair]
    BY <1>4, <2>1, <2>2, ChangedAt
  <2> QED BY <2>3, <2>4 DEF d1, d2, o1, o2
<1>8. wallet' = [wallet EXCEPT ![b] = <<Coin(@) + Coin(OfferNow[b]), Usd(@)>>]
  <2>1. wallet \in [Bidders -> Nat \X Nat] /\ Usd(wallet[b]) \in Nat
    BY <1>4, Legs DEF AuctionInv, PursesOK
  <2> DEFINE coin == Coin(book[i].bid)
             left == <<Coin(wallet[b]) + coin, Usd(wallet[b])>>
             kept == <<Coin(wallet[b]) + coin, Usd(wallet[b]) + 0>>
  <2>2. wallet' = Paid(wallet, b, coin, 0) /\ coin = Coin(OfferNow[b])
    BY <1>1, <1>4
  <2>3. kept = left
    BY <2>1
  <2> HIDE DEF coin
  <2>4. wallet' = [wallet EXCEPT ![b] = kept]
    BY <2>2 DEF Paid
  <2>5. wallet' = [wallet EXCEPT ![b] = left]
    BY <2>3, <2>4
  <2> QED BY <2>2, <2>5
<1> QED BY <1>1, <1>4, <1>5, <1>7, <1>8, WithdrawStep

LEMMA ClaimRefines ==
  ASSUME AuctionInv, AuctionInv', NEW i, Claim(i)
  PROVE  PublicOffers!OfferNext
<1> DEFINE b == book[i].bidder
           coin == book[i].coin_refund
           usd == book[i].usd_owed
<1>1. /\ i \in DOMAIN book /\ book[i].settled /\ book' = Without(i)
      /\ wallet' = Paid(wallet, b, coin, usd)
      /\ UNCHANGED <<holding, reserve>>
  BY DEF Claim
<1>2. BookMeans /\ BookMeans' /\ EntriesOK
  BY Meaning, MeaningNext DEF AuctionInv
<1>3. \A x \in Bidders :
        /\ OfferNow'[x] = IF x = b THEN NoPair ELSE OfferNow[x]
        /\ DueNow'[x] = IF x = b THEN NoPair ELSE DueNow[x]
  BY <1>1, <1>2, LeavingMeans
<1>4. /\ b \in Bidders /\ OfferNow[b] = NoPair /\ DueNow[b] = <<coin, usd>>
      /\ coin # 0 \/ usd # 0
  BY <1>1, <1>2 DEF BookMeans, EntriesOK
<1>5. DueNow[b] # NoPair
  BY <1>4 DEF NoPair
<1>6. /\ OfferNow = [x \in Bidders |-> OfferNow[x]] /\ OfferNow' = [x \in Bidders |-> OfferNow'[x]]
      /\ DueNow = [x \in Bidders |-> DueNow[x]] /\ DueNow' = [x \in Bidders |-> DueNow'[x]]
  BY <1>2 DEF BookMeans
<1> HIDE DEF b, coin, usd
<1>7. UNCHANGED OfferNow /\ DueNow' = [DueNow EXCEPT ![b] = NoPair]
  <2> DEFINE d1 == DueNow
             d2 == DueNow'
             o1 == OfferNow
             o2 == OfferNow'
  <2>1. \A x \in Bidders : o2[x] = o1[x] /\ d2[x] = IF x = b THEN NoPair ELSE d1[x]
    BY <1>3, <1>4
  <2>2. /\ o1 = [x \in Bidders |-> o1[x]] /\ o2 = [x \in Bidders |-> o2[x]]
        /\ d1 = [x \in Bidders |-> d1[x]] /\ d2 = [x \in Bidders |-> d2[x]]
    BY <1>6
  <2> HIDE DEF d1, d2, o1, o2
  <2>3. o2 = o1
    BY <2>1, <2>2, SameFunctions
  <2>4. d2 = [d1 EXCEPT ![b] = NoPair]
    BY <1>4, <2>1, <2>2, ChangedAt
  <2> QED BY <2>3, <2>4 DEF d1, d2, o1, o2
<1>8. wallet' = [wallet EXCEPT ![b] = <<Coin(@) + Coin(DueNow[b]), Usd(@) + Usd(DueNow[b])>>]
  <2>1. wallet \in [Bidders -> Nat \X Nat]
    BY DEF AuctionInv, PursesOK
  <2>2. wallet' = [wallet EXCEPT ![b] = <<Coin(@) + coin, Usd(@) + usd>>]
    BY <1>1, <1>4, <2>1, PaidIsChange
  <2>3. coin = Coin(DueNow[b]) /\ usd = Usd(DueNow[b])
    BY <1>4 DEF Coin, Usd
  <2> QED BY <2>2, <2>3
<1> QED BY <1>1, <1>4, <1>5, <1>7, <1>8, CollectStep

\* The book has not changed: neither has what it means.
LEMMA SameBook ==
  ASSUME UNCHANGED book
  PROVE  UNCHANGED <<OfferNow, DueNow>>
  BY DEF OfferNow, DueNow

\* A settlement is at the rate of one bid no worse than the reserve: what anybody
\* gets out of it is what may become of an offer at that rate.
LEMMA SettledAtOneRate ==
  ASSUME BookInv, EntriesOK, NEW budget \in Nat, NEW c,
         c = Cleared(Bids, reserve, budget),
         c.marginal # NoSlot \/ Eligible(Bids, reserve) # {}
  PROVE  \E m \in DOMAIN book :
           /\ ~Below(book[m].bid, reserve)
           /\ \A i \in DOMAIN book :
                <<Coin(book[i].bid) - Coin(c.fill[i]), Usd(c.fill[i])>>
                  \in Fates(book[i].bid, book[m].bid)
<1>1. /\ c \in Clearings(Bids, reserve, budget) /\ DOMAIN Bids = DOMAIN book
      /\ \A i \in DOMAIN book : Bids[i] = book[i].bid /\ Coin(c.fill[i]) <= Coin(book[i].bid)
  BY ClearingOfBook DEF Bids
<1>2. ASSUME NEW m \in Eligible(Bids, reserve),
             \A i \in DOMAIN book : c.fill[i] \in Fairly(Bids[m], Bids[i], Usd(Bids[i]))
      PROVE  /\ m \in DOMAIN book /\ ~Below(book[m].bid, reserve)
             /\ \A i \in DOMAIN book :
                  <<Coin(book[i].bid) - Coin(c.fill[i]), Usd(c.fill[i])>>
                    \in Fates(book[i].bid, book[m].bid)
  <2>1. m \in DOMAIN book /\ ~Below(book[m].bid, reserve)
    BY <1>1 DEF Eligible
  <2>2. ASSUME NEW i \in DOMAIN book
        PROVE  <<Coin(book[i].bid) - Coin(c.fill[i]), Usd(c.fill[i])>>
                 \in Fates(book[i].bid, book[m].bid)
    <3>1. c.fill[i] \in Fairly(book[m].bid, book[i].bid, Usd(book[i].bid))
          /\ Coin(c.fill[i]) <= Coin(book[i].bid)
      BY <1>1, <1>2, <2>1
    <3> QED BY <3>1 DEF Fates
  <2> QED BY <2>1, <2>2
<1>3. CASE c.marginal # NoSlot
  <2>1. c.marginal \in Eligible(Bids, reserve) /\ c.fill \in Fills(Bids, Bids[c.marginal], budget)
    BY <1>1, <1>3 DEF Clearings
  <2>2. \A i \in DOMAIN book : c.fill[i] \in Fairly(Bids[c.marginal], Bids[i], Usd(Bids[i]))
    BY <1>1, <2>1 DEF Fills
  <2> QED BY <1>2, <2>1, <2>2
<1>4. CASE c.marginal = NoSlot
  <2>1. PICK m \in Eligible(Bids, reserve) : TRUE
    BY <1>4
  <2>2. \A i \in DOMAIN book : c.fill[i] = NoPair
    BY <1>1, <1>4 DEF Clearings
  <2>3. \A i \in DOMAIN book : c.fill[i] \in Fairly(Bids[m], Bids[i], Usd(Bids[i]))
    BY <2>2 DEF Fairly
  <2> QED BY <1>2, <2>1, <2>3
<1> QED BY <1>3, <1>4

\* What the bidders are due is what the slots are owed.
LEMMA DueInAll ==
  ASSUME BookMeans, EntriesOK, IsFiniteSet(DOMAIN book), \A i \in DOMAIN book : book[i].settled
  PROVE  Total([x \in Bidders |-> Usd(DueNow[x])], Bidders) = Total(OwedBy, DOMAIN book)
<1> DEFINE D == DOMAIN book
           of == [i \in D |-> book[i].bidder]
           T == { book[i].bidder : i \in D }
           g == [x \in Bidders |-> Usd(DueNow[x])]
<1>1. of \in Bijection(D, T)
  BY DEF EntriesOK, Bijection, Injection, Surjection, IsInjective
<1>2. T \in SUBSET Bidders /\ IsFiniteSet(Bidders)
  BY AuctionConstants DEF EntriesOK
<1>3. \A i \in D : OwedBy[i] \in Nat /\ g[of[i]] = OwedBy[i]
  <2>1. ASSUME NEW i \in D PROVE OwedBy[i] \in Nat /\ g[of[i]] = OwedBy[i]
    <3>1. /\ book[i].bidder \in Bidders /\ of[i] = book[i].bidder
          /\ DueNow[book[i].bidder] = <<book[i].coin_refund, book[i].usd_owed>>
          /\ OwedBy[i] = book[i].usd_owed /\ book[i].usd_owed \in Nat
      BY DEF BookMeans, EntriesOK, OwedBy
    <3>2. Usd(DueNow[book[i].bidder]) = book[i].usd_owed
      BY <3>1 DEF Usd
    <3> QED BY <3>1, <3>2
  <2> QED BY <2>1
<1>4. \A x \in Bidders \ T : g[x] = 0
  <2>1. ASSUME NEW x \in Bidders \ T PROVE g[x] = 0
    <3>1. ~HasBid(x)
      BY DEF HasBid
    <3>2. DueNow[x] = NoPair /\ g[x] = Usd(DueNow[x])
      BY <3>1 DEF BookMeans
    <3> QED BY <3>2 DEF NoPair, Usd
  <2> QED BY <2>1
<1>5. Total(g, T) = Total(OwedBy, D)
  <2> HIDE DEF D, of, T, g
  <2> QED BY <1>1, <1>3, TotalRename DEF D
<1>6. Total(g, Bidders \ T) = 0
  BY <1>4, TotalZero
<1>7. \A x \in Bidders : g[x] \in Nat
  <2>1. ASSUME NEW x \in Bidders PROVE g[x] \in Nat
    <3>1. CASE x \notin T
      BY <1>4, <3>1
    <3>2. CASE x \in T
      <4>1. PICK i \in D : x = of[i]
        BY <3>2
      <4> QED BY <1>3, <4>1
    <3> QED BY <3>1, <3>2
  <2> QED BY <2>1
<1> HIDE DEF g, T, D, of
<1>8. Total(g, Bidders) = Total(g, T) + Total(g, Bidders \ T)
  BY <1>2, <1>7, TotalSplit
<1>9. Total(g, T) \in Nat
  <2>1. IsFiniteSet(T) /\ \A x \in T : g[x] \in Nat
    BY <1>2, <1>7, FS_Subset
  <2> QED BY <2>1, TotalType
<1>10. Total(g, Bidders) = Total(OwedBy, D)
  BY <1>5, <1>6, <1>8, <1>9
<1> QED BY <1>10 DEF g, D

LEMMA DueInAllNext ==
  ASSUME BookMeans', EntriesOK', IsFiniteSet(DOMAIN book'), \A i \in DOMAIN book' : book'[i].settled
  PROVE  Total([x \in Bidders |-> Usd(DueNow'[x])], Bidders) = Total(OwedBy', DOMAIN book')
<1>1. /\ BookMeans /\ EntriesOK /\ IsFiniteSet(DOMAIN book) /\ \A i \in DOMAIN book : book[i].settled
      => Total([x \in Bidders |-> Usd(DueNow[x])], Bidders) = Total(OwedBy, DOMAIN book)
  BY DueInAll
<1>2. (/\ BookMeans /\ EntriesOK /\ IsFiniteSet(DOMAIN book)
       /\ \A i \in DOMAIN book : book[i].settled
      => Total([x \in Bidders |-> Usd(DueNow[x])], Bidders) = Total(OwedBy, DOMAIN book))'
  BY DueInAll, PTL
<1> QED BY <1>2

\* Before a settlement nobody is due anything, after it nobody offers anything.
LEMMA SettlingMeans ==
  ASSUME BookMeans, BookMeans', EntriesOK, \A i \in DOMAIN book : ~book[i].settled,
         BookInv, NEW fill, book' = SettledWith(fill)
  PROVE  /\ OfferNow' = [x \in Bidders |-> NoPair]
         /\ \A x \in Bidders :
              /\ DueNow[x] = NoPair
              /\ ~HasBid(x) => OfferNow[x] = NoPair /\ DueNow'[x] = NoPair
         /\ \A i \in DOMAIN book :
              /\ OfferNow[book[i].bidder] = book[i].bid
              /\ DueNow'[book[i].bidder]
                   = <<Coin(book[i].bid) - Coin(fill[i]), Usd(fill[i])>>
<1>1. /\ DOMAIN book' = DOMAIN book
      /\ \A i \in DOMAIN book :
           /\ book'[i].bidder = book[i].bidder /\ book'[i].bid = book[i].bid
           /\ book'[i].settled = TRUE /\ book'[i].usd_owed = Usd(fill[i])
           /\ book'[i].coin_refund = Coin(book[i].bid) - Coin(fill[i])
  BY SettledBook
<1>2. \A x \in Bidders : HasBid(x)' <=> HasBid(x)
  BY <1>1 DEF HasBid
<1>3. ASSUME NEW i \in DOMAIN book
      PROVE  /\ OfferNow[book[i].bidder] = book[i].bid
             /\ OfferNow'[book[i].bidder] = NoPair
             /\ DueNow[book[i].bidder] = NoPair
             /\ DueNow'[book[i].bidder] = <<Coin(book[i].bid) - Coin(fill[i]), Usd(fill[i])>>
  <2>1. OfferNow[book[i].bidder] = book[i].bid
    BY DEF BookMeans
  <2>2. DueNow[book[i].bidder] = <<book[i].coin_refund, book[i].usd_owed>>
    BY DEF BookMeans
  <2>3. DueNow[book[i].bidder] = NoPair
    BY <2>2 DEF EntriesOK, NoPair
  <2>4. OfferNow'[book'[i].bidder] = NoPair
        /\ DueNow'[book'[i].bidder] = <<book'[i].coin_refund, book'[i].usd_owed>>
    BY <1>1 DEF BookMeans
  <2>5. /\ book'[i].bidder = book[i].bidder /\ book'[i].usd_owed = Usd(fill[i])
        /\ book'[i].coin_refund = Coin(book[i].bid) - Coin(fill[i])
    BY <1>1
  <2> QED BY <2>1, <2>3, <2>4, <2>5
<1>4. ASSUME NEW x \in Bidders, ~HasBid(x)
      PROVE  OfferNow[x] = NoPair /\ DueNow[x] = NoPair /\ OfferNow'[x] = NoPair /\ DueNow'[x] = NoPair
  <2>1. OfferNow[x] = NoPair /\ DueNow[x] = NoPair
    BY <1>4 DEF BookMeans
  <2>2. ~HasBid(x)'
    BY <1>2, <1>4
  <2>3. OfferNow'[x] = NoPair /\ DueNow'[x] = NoPair
    BY <2>2 DEF BookMeans
  <2> QED BY <2>1, <2>3
<1>5. ASSUME NEW x \in Bidders PROVE DueNow[x] = NoPair /\ OfferNow'[x] = NoPair
  <2>1. CASE ~HasBid(x)
    BY <1>4, <2>1
  <2>2. CASE HasBid(x)
    <3>1. PICK i \in DOMAIN book : book[i].bidder = x
      BY <2>2 DEF HasBid
    <3> QED BY <1>3, <3>1
  <2> QED BY <2>1, <2>2
<1>6. OfferNow' = [x \in Bidders |-> NoPair]
  <2>1. OfferNow' = [x \in Bidders |-> OfferNow'[x]]
    BY DEF BookMeans
  <2> DEFINE o == OfferNow'
  <2>2. o = [x \in Bidders |-> o[x]] /\ \A x \in Bidders : o[x] = NoPair
    BY <1>5, <2>1
  <2> HIDE DEF o
  <2>3. o = [x \in Bidders |-> NoPair]
    BY <2>2
  <2> QED BY <2>3 DEF o
<1> QED BY <1>3, <1>4, <1>5, <1>6

LEMMA SettlingRefines ==
  ASSUME AuctionInv, AuctionInv', NEW n \in 0 .. MaxBudget, Execute(n),
         NEW budget, budget = holding + n, NEW c, c = Cleared(Bids, reserve, budget),
         c.marginal # NoSlot \/ Eligible(Bids, reserve) # {},
         book' = SettledWith(c.fill),
         holding' = budget - Spent(c.fill)
  PROVE  PublicOffers!OfferNext
<1> DEFINE D == DOMAIN book
<1>1. /\ book_state = "open" /\ UNCHANGED <<wallet, reserve>>
  BY DEF Execute
<1>2. BookMeans /\ BookMeans' /\ EntriesOK /\ EntriesOK' /\ BookInv
      /\ \A i \in D : ~book[i].settled
  BY <1>1, Meaning, MeaningNext DEF AuctionInv, BookInv, BidsKnown
<1>3. budget \in Nat /\ holding \in Nat /\ n \in Nat
  BY AuctionConstants DEF AuctionInv, PursesOK
<1>4. PICK m \in D :
        /\ ~Below(book[m].bid, reserve)
        /\ \A i \in D : <<Coin(book[i].bid) - Coin(c.fill[i]), Usd(c.fill[i])>>
                          \in Fates(book[i].bid, book[m].bid)
  BY <1>2, <1>3, SettledAtOneRate
<1>5. /\ OfferNow' = [x \in Bidders |-> NoPair]
      /\ \A x \in Bidders :
           /\ DueNow[x] = NoPair
           /\ ~HasBid(x) => OfferNow[x] = NoPair /\ DueNow'[x] = NoPair
      /\ \A i \in D :
           /\ OfferNow[book[i].bidder] = book[i].bid
           /\ DueNow'[book[i].bidder] = <<Coin(book[i].bid) - Coin(c.fill[i]), Usd(c.fill[i])>>
  BY <1>2, SettlingMeans
<1>6. \A i \in D : book[i].bid \in Rates /\ book[i].bid # NoPair
  <2>1. ASSUME NEW i \in D PROVE book[i].bid \in Rates /\ book[i].bid # NoPair
    <3>1. book[i].bid \in Rates
      BY <1>2, AuctionConstants DEF BookInv, BidsKnown
    <3> QED BY <3>1 DEF Rates, NoPair
  <2> QED BY <2>1
<1> DEFINE b == book[m].bidder
<1>7. b \in Bidders /\ OfferNow[b] = book[m].bid /\ OfferNow[b] # NoPair
      /\ ~Below(OfferNow[b], reserve)
  BY <1>2, <1>4, <1>5, <1>6 DEF EntriesOK
<1>8. \A x \in Bidders :
        /\ DueNow[x] = NoPair
        /\ OfferNow[x] \in Rates \cup {NoPair}
        /\ IF OfferNow[x] = NoPair THEN DueNow'[x] = NoPair
           ELSE DueNow'[x] \in Fates(OfferNow[x], OfferNow[b])
  <2> HIDE DEF b
  <2>1. ASSUME NEW x \in Bidders
        PROVE  /\ OfferNow[x] \in Rates \cup {NoPair}
               /\ IF OfferNow[x] = NoPair THEN DueNow'[x] = NoPair
                  ELSE DueNow'[x] \in Fates(OfferNow[x], OfferNow[b])
    <3>1. CASE ~HasBid(x)
      BY <1>5, <3>1
    <3>2. CASE HasBid(x)
      <4>1. PICK i \in D : book[i].bidder = x
        BY <3>2 DEF HasBid
      <4>2. OfferNow[x] = book[i].bid /\ OfferNow[x] \in Rates /\ OfferNow[x] # NoPair
        BY <1>5, <1>6, <4>1
      <4>3. DueNow'[x] = <<Coin(book[i].bid) - Coin(c.fill[i]), Usd(c.fill[i])>>
        BY <1>5, <4>1
      <4>4. DueNow'[x] \in Fates(OfferNow[x], OfferNow[b])
        BY <1>4, <1>7, <4>2, <4>3
      <4> QED BY <4>2, <4>4
    <3> QED BY <3>1, <3>2
  <2> QED BY <1>5, <2>1
<1>9. /\ c.fill \in [D -> Nat \X Nat] /\ Spent(c.fill) \in Nat /\ Spent(c.fill) <= budget
  BY <1>2, <1>3, ClearingOfBook
<1>10. /\ DOMAIN book' = D
       /\ \A i \in D : book'[i].settled = TRUE /\ book'[i].usd_owed = Usd(c.fill[i])
  BY <1>2, SettledBook
<1> DEFINE paid == Total([x \in Bidders |-> Usd(DueNow'[x])], Bidders)
<1>11. paid = Spent(c.fill)
  <2>1. IsFiniteSet(D)
    BY <1>2, BookTypes
  <2>2. paid = Total(OwedBy', DOMAIN book')
    BY <1>2, <1>10, <2>1, DueInAllNext
  <2> DEFINE usds == [i \in D |-> Usd(c.fill[i])]
  <2>3. Spent(c.fill) = Total(usds, D)
    BY <1>9 DEF Spent
  <2>4. \A i \in D : OwedBy'[i] = usds[i]
    BY <1>10 DEF OwedBy
  <2>5. Total(OwedBy', D) = Total(usds, D)
    BY <2>4, TotalSame
  <2> QED BY <1>10, <2>2, <2>3, <2>5
<1>12. paid <= holding + n /\ holding' = holding + n - paid
  <2> HIDE DEF paid
  <2> QED BY <1>3, <1>9, <1>11
<1> HIDE DEF b
<1> QED BY <1>1, <1>5, <1>7, <1>8, <1>12, SettleStep

LEMMA SettlingCases ==
  ASSUME NEW c, NEW budget, ClearBook(c, budget)
  PROVE  \/ /\ c.marginal # NoSlot \/ Eligible(Bids, reserve) # {}
            /\ book' = SettledWith(c.fill)
            /\ holding' = budget - Spent(c.fill)
         \/ UNCHANGED book
  BY DEF ClearBook

LEMMA ExecuteRefines ==
  ASSUME AuctionInv, AuctionInv', NEW n \in 0 .. MaxBudget, Execute(n)
  PROVE  PublicOffers!OfferNext
<1> DEFINE budget == holding + n
           c == Cleared(Bids, reserve, budget)
<1>1. budget = holding + n /\ c = Cleared(Bids, reserve, budget)
  OBVIOUS
<1>2. ClearBook(c, budget) /\ UNCHANGED wallet
  BY DEF Execute
<1> HIDE DEF c, budget
<1>3. CASE UNCHANGED book
  BY <1>2, <1>3, SameBook, GovernStep
<1> QED BY <1>1, <1>2, <1>3, SettlingCases, SettlingRefines

LEMMA StepRefines ==
  AuctionInv /\ AuctionInv' /\ [AuctionNext]_<<slot, auction_vars>>
    => [PublicOffers!OfferNext]_(PublicOffers!offer_vars)
<1> SUFFICES ASSUME AuctionInv, AuctionInv', [AuctionNext]_<<slot, auction_vars>>
             PROVE  PublicOffers!OfferNext
  OBVIOUS
<1>1. ASSUME UNCHANGED <<book, wallet>> PROVE PublicOffers!OfferNext
  BY <1>1, SameBook, GovernStep
<1>2. ASSUME NEW r, SetReserve(r) PROVE PublicOffers!OfferNext
  BY <1>1, <1>2 DEF SetReserve, book_vars
<1>3. ASSUME NEW fee, SetBidFee(fee) PROVE PublicOffers!OfferNext
  BY <1>1, <1>3 DEF SetBidFee, book_vars
<1>4. ASSUME Shutdown PROVE PublicOffers!OfferNext
  BY <1>1, <1>4 DEF Shutdown, book_vars
<1>5. ASSUME AuctionTick PROVE PublicOffers!OfferNext
  BY <1>1, <1>5 DEF AuctionTick
<1>6. CASE UNCHANGED <<slot, auction_vars>>
  BY <1>1, <1>6 DEF auction_vars, book_vars
<1> QED
  BY <1>2, <1>3, <1>4, <1>5, <1>6, PlaceBidRefines, ExecuteRefines, ClaimRefines,
     CancelBidRefines DEF AuctionNext

LEMMA RefinementStarts ==
  AuctionInit => \A b \in Bidders : PublicOffers!Idle(b)
<1> SUFFICES ASSUME AuctionInit, NEW b \in Bidders PROVE PublicOffers!Idle(b)
  OBVIOUS
<1>1. BookMeans
  BY AuctionStarts, Meaning DEF AuctionInv
<1>2. ~HasBid(b)
  BY DEF AuctionInit, HasBid
<1>3. OfferNow[b] = NoPair /\ DueNow[b] = NoPair
  BY <1>1, <1>2 DEF BookMeans
<1> QED BY <1>3 DEF PublicOffers!Idle, PublicOffers!NoPair, NoPair

\* The auction of slots, rounds and escrow accounts is, to its bidders, an
\* OfferBook: an offer costs its COIN and comes back whole, or is settled with all
\* others at the rate of one of them and collected once (place_bid, execute,
\* claim, cancel_bid).
THEOREM AuctionImplementsOffers == AuctionSpec => ImplementsOffers
<1>1. AuctionInit => \A b \in Bidders : PublicOffers!Idle(b)
  BY RefinementStarts
<1>2. AuctionInv /\ AuctionInv' /\ [AuctionNext]_<<slot, auction_vars>>
        => [PublicOffers!OfferNext]_(PublicOffers!offer_vars)
  BY StepRefines
<1> QED BY <1>1, <1>2, AuctionInvariant, PTL
        DEF AuctionSpec, ImplementsOffers, PublicOffers!OfferSpec
=============================================================================
