----------------------------- MODULE MCAuction -----------------------------
(***************************************************************************)
(* TLC instance of Auction and of BookClearing: a behaviour either runs an   *)
(* auction, or clears one of many books, of small bids and of bids that need *)
(* a projection, when the auction is over.                                  *)
(***************************************************************************)
EXTENDS Auction, BookClearing

MCOffers == {<<2, 2>>, <<1, 2>>}

MCReserves == {<<0, 1>>, <<1, 1>>}

MCBids == {1, 2, 3, 5, 7} \X {1, 2, 3, 5, 7} \cup {<<12, 8>>, <<14, 10>>}

NothingToClear ==
  bids = <<>> /\ least_rate = <<0, 1>> /\ funds = 0 /\ cleared = NotCleared

\* No auction steps: the last slot, and nobody has placed a bid.
AuctionOver ==
  /\ slot = MaxSlot /\ book = <<>> /\ book_state = "open"
  /\ round_end = MaxSlot /\ reserve = <<0, 1>> /\ bid_fee = 0
  /\ coin_escrow = 0 /\ settlement_usd = 0 /\ holding = 0
  /\ wallet = [b \in Bidders |-> <<Coins, 0>>]
  /\ received = 0 /\ opened = MaxSlot /\ gone = {}

MCInit ==
  \/ AuctionInit /\ NothingToClear
  \/ ClearingInit /\ bids # <<>> /\ AuctionOver

MCNext ==
  \/ bids = <<>> /\ AuctionNext /\ UNCHANGED clearing_vars
  \/ bids # <<>> /\ Clear /\ UNCHANGED <<slot, auction_vars>>

MCSpec == MCInit /\ [][MCNext]_<<slot, auction_vars, clearing_vars>> /\ AuctionFairness
=============================================================================
