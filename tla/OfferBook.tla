----------------------------- MODULE OfferBook -----------------------------
(***************************************************************************)
(* What the auction of twap-program promises a bidder, without slots,       *)
(* rounds and escrow accounts: an offer costs its COIN, it comes back whole  *)
(* or is settled together with all others at one price, and what it is due   *)
(* is collected once.  Auction implements it.                               *)
(***************************************************************************)
EXTENDS IntegerPairs, Sums

CONSTANTS
  Bidders,
  MaxFee,       \* bound: the fee of an offer
  MaxBudget     \* bound: collateral the auction ever gets

VARIABLES
  offer,       \* per bidder: its live offer, NoPair if none
  due,         \* per bidder: <<coin, usd>> it may collect
  wallet,      \* per bidder: <<coin, usd>> of its own
  holding,     \* collateral to buy with
  reserve      \* the rate below which nothing is bought

offer_vars == <<offer, due, wallet, holding, reserve>>

Plus(p, q) == <<Coin(p) + Coin(q), Usd(p) + Usd(q)>>

Idle(b) == offer[b] = NoPair /\ due[b] = NoPair

\* What may become of an offer at a price: some of its COIN is sold at it,
\* within its limit, and the rest comes back.
Outcomes(o, price) ==
  { <<Coin(o) - coin, Usd(TryCoin(coin, Usd(o), price, o))>> :
      coin \in { c \in 0 .. Coin(o) : c = 0 \/ TryCoin(c, Usd(o), price, o) # NoPair } }

----------------------------------------------------------------------------
\* Of what a new offer costs only the fee is spent.
Offered(b, o) ==
  /\ Idle(b)
  /\ \E fee \in 0 .. MaxFee :
       /\ Coin(o) + fee <= Coin(wallet[b])
       /\ wallet'[b] = <<Coin(wallet[b]) - Coin(o) - fee, Usd(wallet[b])>>

Offer(b, o) ==
  /\ Offered(b, o)
  /\ offer' = [offer EXCEPT ![b] = o]
  /\ wallet' = [wallet EXCEPT ![b] = wallet'[b]]
  /\ UNCHANGED <<due, holding, reserve>>

\* Another offer gives way to a strictly better one, and comes back whole.
Outbid(b, o, e) ==
  /\ Offered(b, o)
  /\ b # e /\ offer[e] # NoPair /\ Below(offer[e], o)
  /\ offer' = [offer EXCEPT ![b] = o, ![e] = NoPair]
  /\ wallet' = [wallet EXCEPT ![b] = wallet'[b], ![e] = <<Coin(@) + Coin(offer[e]), Usd(@)>>]
  /\ UNCHANGED <<due, holding, reserve>>

Withdraw(b) ==
  /\ offer[b] # NoPair
  /\ offer' = [offer EXCEPT ![b] = NoPair]
  /\ wallet' = [wallet EXCEPT ![b] = <<Coin(@) + Coin(offer[b]), Usd(@)>>]
  /\ UNCHANGED <<due, holding, reserve>>

\* All offers are settled at once, at the rate of one of them, out of what the
\* auction has, and only when nobody has anything to collect from before.
Settle(b) ==
  LET price == offer[b]
      paid  == Total([x \in Bidders |-> Usd(due'[x])], Bidders)
  IN  /\ price # NoPair /\ ~Below(price, reserve)
      /\ \A x \in Bidders :
           /\ due[x] = NoPair
           /\ due'[x] \in IF offer[x] = NoPair THEN {NoPair} ELSE Outcomes(offer[x], price)
      /\ offer' = [x \in Bidders |-> NoPair]
      /\ \E pulled \in 0 .. MaxBudget :
           paid <= holding + pulled /\ holding' = holding + pulled - paid
      /\ UNCHANGED <<wallet, reserve>>

Collect(b) ==
  /\ due[b] # NoPair
  /\ due' = [due EXCEPT ![b] = NoPair]
  /\ wallet' = [wallet EXCEPT ![b] = Plus(@, due[b])]
  /\ UNCHANGED <<offer, holding, reserve>>

\* Collateral comes in and is swept by governance, which also sets the reserve:
\* neither touches an offer or what anybody is due.
Govern == UNCHANGED <<offer, due, wallet>>

OfferNext ==
  \/ \E b \in Bidders : \/ Offer(b, offer'[b])
                        \/ \E e \in Bidders : Outbid(b, offer'[b], e)
                        \/ Withdraw(b) \/ Settle(b) \/ Collect(b)
  \/ Govern

OfferSpec ==
  /\ \A b \in Bidders : Idle(b)
  /\ [][OfferNext]_offer_vars
=============================================================================
