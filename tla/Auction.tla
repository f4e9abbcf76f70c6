------------------------------ MODULE Auction ------------------------------
(***************************************************************************)
(* The surplus auction of twap-program (twap-program/src/lib.rs): bidders    *)
(* escrow COIN in a book of few slots, a permissionless execute clears the   *)
(* book against the collateral pulled from the insurance once the round is   *)
(* over, and permissionless claims drain the book before the next round.     *)
(***************************************************************************)
EXTENDS SlotClock, Clearing

CONSTANTS
  Bidders,
  MaxBids,         \* MAX_BIDS
  RoundLength,     \* book.round_length
  Fee,             \* book.bid_fee at init_book
  Offers,          \* bids that bidders place: <<coin, usd>>
  Reserves,        \* reserve rates governance sets
  Coins,           \* COIN each bidder has at first
  MaxBudget        \* bound: collateral that ever reaches the holding

ASSUME AuctionAssumption ==
  /\ IsFiniteSet(Bidders)
  /\ MaxBids \in Nat \ {0}
  /\ RoundLength \in Nat \ {0} /\ RoundLength <= MaxSlot
  /\ {Fee, Coins, MaxBudget} \subseteq Nat
  /\ Offers \subseteq (Nat \ {0}) \X (Nat \ {0})
  /\ Reserves \subseteq Nat \X (Nat \ {0})

VARIABLES
  book,            \* occupied slots: bidder, bid, clocks, settled, owed, refund
  book_state,      \* BK_STATE: "open" or "settled"
  round_end,       \* BK_ROUND_END
  reserve,         \* BK_RESERVE_NUM and BK_RESERVE_DEN
  bid_fee,         \* BK_BID_FEE
  coin_escrow,     \* COIN in the book's escrow account
  settlement_usd,  \* collateral in the settlement account
  holding,         \* collateral in the canonical holding
  wallet,          \* per bidder: <<coin, usd>> in its own accounts
  received,        \* bound: collateral that reached the holding so far
  opened,          \* history: slot at which the round began to take bids
  gone             \* history: bids placed in this slot that have left again

book_vars == <<book, book_state, round_end, coin_escrow, settlement_usd, opened, gone>>

auction_vars == <<book_vars, reserve, bid_fee, holding, wallet, received>>

BidSlots == 1 .. MaxBids

Bids == [i \in DOMAIN book |-> book[i].bid]

\* What a cancellation commits to.
Commitment(i) ==
  [slot_index |-> i, bidder |-> book[i].bidder, place_slot |-> book[i].place_slot,
   place_round_end |-> book[i].place_round_end, bid |-> book[i].bid]

HasBid(b) == \E i \in DOMAIN book : book[i].bidder = b

\* COIN and collateral a bidder gets.
Paid(w, b, coin, usd) == [w EXCEPT ![b] = <<Coin(@) + coin, Usd(@) + usd>>]

With(i, entry) == [j \in DOMAIN book \cup {i} |-> IF j = i THEN entry ELSE book[j]]
Without(i)     == [j \in DOMAIN book \ {i} |-> book[j]]

\* History: bid i leaves the book.
Leaves(i) ==
  gone' = IF book[i].place_slot = slot THEN gone \cup {Commitment(i)} ELSE gone

----------------------------------------------------------------------------
\* init_book
AuctionInit ==
  /\ slot = 0
  /\ book = <<>>
  /\ book_state = "open"
  /\ round_end = RoundLength
  /\ reserve \in Reserves
  /\ bid_fee = Fee
  /\ coin_escrow = 0 /\ settlement_usd = 0 /\ holding = 0
  /\ wallet = [b \in Bidders |-> <<Coins, 0>>]
  /\ received = 0
  /\ opened = 0
  /\ gone = {}

SetReserve(r) ==
  /\ reserve' = r
  /\ UNCHANGED <<book_vars, bid_fee, holding, wallet, received>>

\* set_bid_fee: a bid that is already signed never costs more.
SetBidFee(fee) ==
  /\ fee <= bid_fee
  /\ bid_fee' = fee
  /\ UNCHANGED <<book_vars, reserve, holding, wallet, received>>

Free == BidSlots \ DOMAIN book

FirstFree(i) == i \in Free /\ \A j \in Free : i <= j

\* Of equally weak bids the first slot's is the weakest.
Weakest(w) ==
  /\ w \in DOMAIN book
  /\ \A j \in DOMAIN book :
       Below(book[w].bid, book[j].bid) \/ (SameRate(book[w].bid, book[j].bid) /\ w <= j)

\* Mutant: an equal bid evicts as well.
Evicts_Equal(bid, w) == ~Below(bid, book[w].bid)

\* Only a strictly better bid takes the weakest one's slot.
Evicts(bid, w) == Below(book[w].bid, bid)

\* place_bid.  Bids are placed while there is a slot left in which they could be
\* cancelled (bound).
PlaceBid(b, bid) ==
  LET entry == [bidder |-> b, bid |-> bid, place_slot |-> slot,
                place_round_end |-> round_end,
                settled |-> FALSE, usd_owed |-> 0, coin_refund |-> 0]
      paid  == Paid(wallet, b, -(Coin(bid) + bid_fee), 0)
  IN  /\ book_state = "open"
      /\ slot < round_end
      /\ Coin(bid) + bid_fee <= Coin(wallet[b])
      /\ ~HasBid(b)
      /\ slot + 2 * RoundLength <= MaxSlot
      /\ \E i \in BidSlots :
           /\ book' = With(i, entry)
           /\ \/ /\ FirstFree(i)
                 /\ wallet' = paid
                 /\ coin_escrow' = coin_escrow + Coin(bid)
                 /\ UNCHANGED gone
              \/ /\ Free = {}
                 /\ Weakest(i) /\ Evicts(bid, i)
                 /\ wallet' = Paid(paid, book[i].bidder, Coin(book[i].bid), 0)
                 /\ coin_escrow' = coin_escrow + Coin(bid) - Coin(book[i].bid)
                 /\ Leaves(i)
      /\ UNCHANGED <<book_state, round_end, settlement_usd, opened,
                     reserve, bid_fee, holding, received>>

\* Mutant: a filled bid gets all its COIN back.
Refund_All(bid, pair) == Coin(bid)

\* COIN that comes back of a bid of which `pair` is filled.
Refund(bid, pair) == Coin(bid) - Coin(pair)

SettledWith(fill) ==
  [i \in DOMAIN book |-> [book[i] EXCEPT !.settled = TRUE, !.usd_owed = Usd(fill[i]),
                                         !.coin_refund = Refund(book[i].bid, fill[i])]]

\* The book is settled if anything trades, and for refunds if no bid that could
\* trade at all does; otherwise its bids roll into the next round.
ClearBook(clear, budget) ==
  LET stable == clear.marginal # NoSlot
      refund == ~stable /\ budget > 0 /\ Eligible(Bids, reserve) # {}
  IN  \/ /\ stable \/ refund
         /\ book' = SettledWith(clear.fill)
         /\ book_state' = "settled"
         /\ coin_escrow' = coin_escrow - Bought(clear.fill)
         /\ holding' = budget - Spent(clear.fill)
         /\ settlement_usd' = settlement_usd + Spent(clear.fill)
         /\ UNCHANGED opened
      \/ /\ ~stable /\ ~refund
         /\ holding' = budget
         /\ opened' = slot
         /\ UNCHANGED <<book, book_state, coin_escrow, settlement_usd>>

\* execute: pulled is what this round takes from the insurance.
Execute(pulled) ==
  /\ book_state = "open"
  /\ slot >= round_end
  /\ slot + RoundLength <= MaxSlot
  /\ received + pulled <= MaxBudget
  /\ received' = received + pulled
  /\ ClearBook(Cleared(Bids, reserve, holding + pulled), holding + pulled)
  /\ round_end' = slot + RoundLength
  /\ UNCHANGED <<reserve, bid_fee, wallet, gone>>

\* Mutant: the round ends when the settlement said it would.
ReopenedEnd_AsSettled == round_end

\* A drained book starts a round of full length.
ReopenedEnd == SaturatingAdd(slot, RoundLength)

\* claim: anybody has a settled bid paid out.
Claim(i) ==
  /\ i \in DOMAIN book
  /\ book[i].settled
  /\ wallet' = Paid(wallet, book[i].bidder, book[i].coin_refund, book[i].usd_owed)
  /\ settlement_usd' = settlement_usd - book[i].usd_owed
  /\ coin_escrow' = coin_escrow - book[i].coin_refund
  /\ book' = Without(i)
  /\ \/ /\ DOMAIN book = {i}
        /\ book_state' = "open"
        /\ round_end' = ReopenedEnd
        /\ opened' = slot
     \/ /\ DOMAIN book # {i}
        /\ UNCHANGED <<book_state, round_end, opened>>
  /\ Leaves(i)
  /\ UNCHANGED <<reserve, bid_fee, holding, received>>

\* Mutants: a round is long enough; every roll starts the cooldown again.
CooldownEnd_OneRound(entry) == entry.place_slot + RoundLength
CooldownEnd_Rolling(entry) == round_end + RoundLength

CooldownEnd(entry) == entry.place_slot + 2 * RoundLength

\* Mutant: settled bids can be cancelled.
Cancellable_Settled(entry) == slot >= CooldownEnd(entry)

Cancellable(entry) == ~entry.settled /\ slot >= CooldownEnd(entry)

\* cancel_bid, signed by the bidder for exactly this commitment.
CancelBid(i) ==
  /\ i \in DOMAIN book
  /\ Cancellable(book[i])
  /\ wallet' = Paid(wallet, book[i].bidder, Coin(book[i].bid), 0)
  /\ coin_escrow' = coin_escrow - Coin(book[i].bid)
  /\ book' = Without(i)
  /\ Leaves(i)
  /\ UNCHANGED <<book_state, round_end, opened, settlement_usd,
                 reserve, bid_fee, holding, received>>

\* shutdown: governance sweeps the holding.
Shutdown ==
  /\ holding' = 0
  /\ UNCHANGED <<book_vars, reserve, bid_fee, wallet, received>>

\* What happened in a slot is over when the next begins.
AuctionTick ==
  /\ Tick
  /\ gone' = {}
  /\ UNCHANGED <<book, book_state, round_end, coin_escrow, settlement_usd, opened,
                 reserve, bid_fee, holding, wallet, received>>

----------------------------------------------------------------------------
AuctionNext ==
  \/ /\ \/ \E r \in Reserves : SetReserve(r)
        \/ \E fee \in 0 .. Fee : SetBidFee(fee)
        \/ Shutdown
        \/ \E b \in Bidders, bid \in Offers : PlaceBid(b, bid)
        \/ \E pulled \in 0 .. MaxBudget : Execute(pulled)
        \/ \E i \in BidSlots : Claim(i) \/ CancelBid(i)
     /\ UNCHANGED slot
  \/ AuctionTick

AuctionSpec == AuctionInit /\ [][AuctionNext]_<<slot, auction_vars>>

\* Time passes; anybody claims, and bidders that want to leave cancel.
AuctionFairness ==
  /\ WF_<<slot, auction_vars>>(AuctionTick)
  /\ \A i \in BidSlots :
       WF_<<slot, auction_vars>>((Claim(i) \/ CancelBid(i)) /\ UNCHANGED slot)

FairAuctionSpec == AuctionSpec /\ AuctionFairness

----------------------------------------------------------------------------
Escrowed(entry) == IF entry.settled THEN entry.coin_refund ELSE Coin(entry.bid)

\* The escrow holds the COIN of every live bid and every refund, and the
\* settlement account what is owed, to the atom, through evictions, clearings,
\* rolls, cancellations and claims (place_bid, execute, claim, cancel_bid).
AccountsBackTheBook ==
  /\ coin_escrow = Total([i \in DOMAIN book |-> Escrowed(book[i])], DOMAIN book)
  /\ settlement_usd = Total([i \in DOMAIN book |-> book[i].usd_owed], DOMAIN book)

\* "so every round ages its full length first": no book is executed before it
\* took bids for a whole round, however long the claims of the last one took.
RoundsRunInFull ==
  [][\A n \in 0 .. MaxBudget : Execute(n) => slot >= opened + RoundLength]_<<slot, auction_vars>>

\* "That cooldown prevents a last-second cancel from manipulating a pending
\* execute": a bid that is withdrawn was open to execution for a whole round
\* length after the round it joined was over.
BidsAreCommitted ==
  [][\A i \in DOMAIN book :
       CancelBid(i) => slot >= book[i].place_round_end + RoundLength]_<<slot, auction_vars>>

\* "so a withheld cancellation cannot act on a later slot incarnation": no bid
\* is ever placed under the commitment of one that left.
CommitmentsAreUnique ==
  [][\A i \in DOMAIN book' : Commitment(i)' \notin gone]_<<slot, auction_vars>>

\* What the book means to its bidders: the refinement mapping.
OfferNow ==
  [b \in Bidders |->
     IF \E i \in DOMAIN book : book[i].bidder = b /\ ~book[i].settled
     THEN (CHOOSE e \in { book[i] : i \in DOMAIN book } : e.bidder = b).bid
     ELSE NoPair]

DueNow ==
  [b \in Bidders |->
     LET mine == { i \in DOMAIN book : book[i].bidder = b /\ book[i].settled }
     IN  <<Total([i \in mine |-> book[i].coin_refund], mine),
           Total([i \in mine |-> book[i].usd_owed], mine)>>]

PublicOffers == INSTANCE OfferBook WITH MaxFee <- Fee, offer <- OfferNow, due <- DueNow

\* The auction keeps what OfferBook promises each bidder: one offer, back whole
\* or settled with all others at one price within its limit, collected once.
ImplementsOffers == PublicOffers!OfferSpec

\* A bidder that wants to leave gets out: by cancelling, by being outbid or by
\* being settled and paid out.
BiddersGetOut == \A b \in Bidders : HasBid(b) ~> ~HasBid(b)
=============================================================================
