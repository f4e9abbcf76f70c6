---------------------------- MODULE BookClearing ----------------------------
(***************************************************************************)
(* One clearing of any book of bids against any budget: Cleared (Clearing),  *)
(* as execute of twap-program uses it, and what it promises.                *)
(***************************************************************************)
EXTENDS Clearing

CONSTANTS
  BookSlots,    \* bid slots
  BookBids,     \* bids they may hold
  LeastRates,   \* reserve rates
  Funds         \* budgets a round may have

ASSUME BookAssumption ==
  /\ IsFiniteSet(BookSlots) /\ BookSlots \subseteq Nat \ {NoSlot}
  /\ BookBids \subseteq (Nat \ {0}) \X (Nat \ {0})
  /\ LeastRates \subseteq Nat \X (Nat \ {0})
  /\ Funds \subseteq Nat

VARIABLES bids, least_rate, funds, cleared

clearing_vars == <<bids, least_rate, funds, cleared>>

NotCleared == [marginal |-> NoSlot, fill |-> <<>>]

ClearingInit ==
  /\ bids \in UNION { [S -> BookBids] : S \in SUBSET BookSlots }
  /\ least_rate \in LeastRates
  /\ funds \in Funds
  /\ cleared = NotCleared

Clear ==
  /\ cleared = NotCleared
  /\ cleared' = Cleared(bids, least_rate, funds)
  /\ UNCHANGED <<bids, least_rate, funds>>

ClearingSpec == ClearingInit /\ [][Clear]_clearing_vars

----------------------------------------------------------------------------
Price == bids[cleared.marginal]

Filled == { i \in DOMAIN cleared.fill : cleared.fill[i] # NoPair }

\* "every executed pair must still satisfy both the bidder's limit and the DAO
\* reserve" (README.md:245-246): all trades are at one price, rounded, which is
\* at the reserve or better and a bid's own; nobody gives more COIN per USD than
\* it offered, nor more COIN than it escrowed, and the budget suffices.
TradesAreFair ==
  Filled # {} =>
    /\ ~Below(Price, least_rate)
    /\ \A i \in Filled :
         LET pair == cleared.fill[i]
         IN  /\ Usd(pair) = AtRate(Coin(pair), Price) /\ Usd(pair) > 0
             /\ ~Below(bids[i], pair)
             /\ ~Below(bids[i], Price)
             /\ Coin(pair) <= Coin(bids[i])
    /\ Spent(cleared.fill) <= funds

\* What bids at the price or better could sell at it within a budget.
CouldSell(i, usd) ==
  { coin \in 1 .. Coin(bids[i]) : TryCoin(coin, usd, Price, bids[i]) # NoPair }

\* "Ordinary integer rounding remains in holding": what is left of the budget
\* could not have enlarged any fill at the price, nor made a new one.
LeftoverBuysNothing ==
  Filled # {} =>
    \A i \in DOMAIN bids :
      ~Below(bids[i], Price) =>
        \A coin \in CouldSell(i, Least(Usd(bids[i]),
                                       Usd(cleared.fill[i]) + funds - Spent(cleared.fill))) :
          coin <= Coin(cleared.fill[i])

\* "If every eligible bid is integer-infeasible, the aged book settles for
\* permissionless refunds", and only then: one bid that could trade on its own
\* is enough for the round to buy something, whatever the others are.
ExecutableBidsTrade ==
  cleared # NotCleared =>
    (Filled # {} <=>
       \E i \in Eligible(bids, least_rate) : Usd(Lot(bids[i])) <= Least(funds, Usd(bids[i])))
=============================================================================
