------------------------------ MODULE Clearing ------------------------------
(***************************************************************************)
(* How execute (twap-program/src/lib.rs) clears a book against a budget: at *)
(* one price, the rate of the last bid a best-first walk reaches, and in    *)
(* whole atoms.  A book maps the occupied slots to their bids, <<coin,      *)
(* usd>>; a clearing maps each of them to what is bought of it and for what. *)
(***************************************************************************)
EXTENDS IntegerPairs, Sums

NoSlot == 0     \* slots are numbered from 1

\* Bids at the reserve rate or better.
Eligible(book, reserve) == { i \in DOMAIN book : ~Below(book[i], reserve) }

\* Best rate first; of equal rates the first slot.
Ahead(book, i, j) == Below(book[j], book[i]) \/ (SameRate(book[i], book[j]) /\ i < j)

FirstOf(book, slots) == CHOOSE i \in slots : \A j \in slots \ {i} : Ahead(book, i, j)
LastOf(book, slots)  == CHOOSE i \in slots : \A j \in slots \ {i} : Ahead(book, j, i)

\* What is reached from `start` by a step for each of the slots, best bid first.
BestFirst(book, slots, start, Step(_, _)) ==
  LET upTo[S \in SUBSET slots] ==
        IF S = {} THEN start
        ELSE LET i == LastOf(book, S) IN Step(upTo[S \ {i}], i)
  IN  upTo[slots]

\* Mutant: a bid's nominal allocation may be no whole lot of its own.
Nominal_Unreduced(bid, left) == Least(left, Usd(bid))

\* What a bid takes of the budget at its own rate: all it wants if that buys
\* whole lots, else the lots that fit.
Nominal(bid, left) ==
  LET nominal == Least(left, Usd(bid))
      coin    == (nominal * Coin(bid)) \div Usd(bid)
  IN  IF coin # 0 /\ coin % Coin(Lot(bid)) = 0 THEN nominal
      ELSE (nominal \div Usd(Lot(bid))) * Usd(Lot(bid))

\* A bid takes its part of the budget; the last that takes something is marginal.
Take(walk, i, usd) ==
  IF usd = 0 THEN walk
  ELSE [left |-> walk.left - usd, marginal |-> i, taken |-> [walk.taken EXCEPT ![i] = usd]]

\* The nominal walk.
Walk(book, slots, excluded, budget) ==
  BestFirst(book, slots,
            [left |-> budget, marginal |-> NoSlot, taken |-> [i \in DOMAIN book |-> 0]],
            LAMBDA w, i : Take(w, i, IF i \in excluded THEN 0 ELSE Nominal(book[i], w.left)))

\* What the bids of a walk trade at its marginal rate, and which of them cannot.
AtMarginal(book, walk) ==
  LET Pair(i) == IF walk.marginal = NoSlot THEN NoPair
                 ELSE ExecutablePair(walk.taken[i], book[walk.marginal], book[i])
  IN  [marginal |-> walk.marginal,
       fill     |-> [i \in DOMAIN book |-> Pair(i)],
       failed   |-> { i \in DOMAIN book : walk.taken[i] # 0 /\ Pair(i) = NoPair }]

\* Bids that cannot trade at the marginal rate are left out, and the walk is
\* repeated without them until all can: at the latest when none is left.
Retried(book, slots, budget) ==
  LET Trades(excluded) == AtMarginal(book, Walk(book, slots, excluded, budget))
      With(excluded)   == excluded \cup Trades(excluded).failed
      excluded[tries \in 0 .. Cardinality(slots)] ==
        IF tries = 0 THEN {} ELSE With(excluded[tries - 1])
  IN  Trades(excluded[Cardinality(slots)])

Spent(fill)  == Total([i \in DOMAIN fill |-> Usd(fill[i])], DOMAIN fill)
Bought(fill) == Total([i \in DOMAIN fill |-> Coin(fill[i])], DOMAIN fill)

\* Mutant: what rounding left over stays unspent.
Reconciled_Not(book, slots, price, fill, budget) == fill

\* What rounding left over enlarges fills, best bid first, at the same price.
Reconciled(book, slots, price, fill, budget) ==
  LET Enlarged(f, i, larger) ==
        IF \/ Below(book[i], price)
           \/ Coin(f[i]) = Coin(book[i])
           \/ Coin(larger) <= Coin(f[i]) \/ Usd(larger) < Usd(f[i])
        THEN f ELSE [f EXCEPT ![i] = larger]
  IN  BestFirst(book, slots, fill,
                LAMBDA f, i :
                  Enlarged(f, i, MaxExecutablePair(Usd(f[i]) + budget - Spent(f), price, book[i])))

\* Bids ahead of the marginal one that got nothing.
Skipped(book, slots, marginal, fill) ==
  { i \in slots : fill[i] = NoPair /\ Ahead(book, i, marginal) }

\* Of two allocations the first, unless the second buys more, and buys from a bid
\* whose rate is the price among those allocated afresh.
Better(book, price, suffix, fill, replay) ==
  IF /\ \E i \in suffix : SameRate(book[i], price) /\ replay[i] # NoPair
     /\ \/ Spent(replay) > Spent(fill)
        \/ Spent(replay) = Spent(fill) /\ Bought(replay) > Bought(fill)
  THEN replay ELSE fill

\* Bids from `first` on allocated afresh at the price, with a lot kept back for
\* the marginal bid.
Replayed(book, slots, marginal, first, fill, budget) ==
  LET price  == book[marginal]
      suffix == { i \in slots : i = first \/ Ahead(book, first, i) }
      empty  == [i \in DOMAIN book |-> IF i \in suffix THEN NoPair ELSE fill[i]]
      Available(i, left) ==
        left - (IF Ahead(book, i, marginal) THEN Least(left, Usd(Lot(price))) ELSE 0)
      Allot(f, i, pair) ==
        IF Below(book[i], price) \/ pair = NoPair THEN f ELSE [f EXCEPT ![i] = pair]
  IN  Better(book, price, suffix, fill,
             BestFirst(book, suffix, empty,
                       LAMBDA f, i :
                         Allot(f, i, MaxExecutablePair(Available(i, budget - Spent(f)),
                                                       price, book[i]))))

\* The better fills after what rounding left over and whom it skipped.
Improved(book, slots, marginal, fill, budget) ==
  LET Unskipped(reconciled, skipped) ==
        IF skipped = {} THEN reconciled
        ELSE Replayed(book, slots, marginal, FirstOf(book, skipped), reconciled, budget)
      Whole(reconciled) == Unskipped(reconciled, Skipped(book, slots, marginal, reconciled))
  IN  Whole(Reconciled(book, slots, book[marginal], fill, budget))

\* The slot whose rate is the price, NoSlot if nothing trades, and the fills.
Cleared(book, reserve, budget) ==
  LET At(slots, trades) ==
        [marginal |-> trades.marginal,
         fill |-> IF trades.marginal = NoSlot THEN trades.fill
                  ELSE Improved(book, slots, trades.marginal, trades.fill, budget)]
      Auctioned(slots) == At(slots, Retried(book, slots, budget))
  IN  Auctioned(Eligible(book, reserve))
=============================================================================
