# Percolator-meta: a TLA+ development

This directory holds TLA+ models of the on-chain programs of this repository,
TLC configurations that check them on small instances, and proofs that the TLA+
proof system checks for every value of the constants.  Paths below are relative
to the repository (`subledger/src/lib.rs`), or to this directory (`Custody.tla`).

## 1. The system

The repository is a set of Solana programs around one external program,
Percolator, which runs a perpetual market and keeps an insurance fund for it.
All of them are sequential transaction handlers: a transaction runs to its end or
changes nothing, so what interleaves is whole instructions of different signers,
in any order, with the slot clock moving in between.  Programs interact by CPI (a
call within the same transaction), by reading each other's accounts, and by
holding each other's authorities.

| Component | State | Operations | Correct when |
|---|---|---|---|
| **distribution** | config (vault, supply, window, sealed proposal and slot), proposals with entry lists | init_config, create_proposal, append_entries, seal_winner, claim, burn_unclaimed | a sealed list is final, every entry is paid once while its window is open, nothing is paid after the burn |
| **genesis-vote** | config (tallies, executed, refunds started), registered proposals with support, one ballot per owner | init_config, register_proposal, vote (back, re-back, retract), trigger, retire_terminal_ballot | the tallies are the live ballots, each backed by locked capital; at most one outcome; nobody's capital is trapped |
| **subledger, insurance pool** | pool (principal, shares, generation), one position per owner (principal, shares, generation, lock, withdrawn) | init_insurance_pool, insurance_deposit, insurance_withdraw(_full), return_finalized_position, set_vote_lock, accept_operator, handoff_to_twap, attestations | owners together never claim more than the insurance, losses and gains fall on who was there, no exit is refused by arithmetic, no order of exits or deposits moves value between owners |
| **subledger, own-vault pool** | the same over a token vault of its own | init_pool, deposit, withdraw | the same, with tokens sent to the vault by anybody |
| **percolator-accounting** | none (readers of the market's account) | insurance and domain balances, the balanced withdrawal planner, phase and exposure predicates | every affordable payout has a plan, no plan touches a reservation |
| **twap-program, custody** | config: reserved floor, bound pool and its principal, pending rehandoff, economics | init_config, accept_operator, accept_from_subledger, return_to_subledger, set_reserved_floor, set_economics, return_resolved_*, donate, fees, restart | principal is never taken for surplus, the roles find their way back to who needs them |
| **twap-program, auction** | book: rounds, 32 bid slots, escrows, settlement | init_book, place_bid, execute, claim, cancel_bid, shutdown | escrow covers refunds and settlements, uniform price within both bounds, rounds always end |
| **market-controller** | a PDA with Percolator's admin roles, retirement markers, a token account in transit | init_market, accept_market_authority, grant_genesis_pool, donate_insurance, proxy_admin, two shutdown and three resolved returns, close_resolved_portfolio, close_market_and_reclaim | everybody gets its own money back before the market is gone, approvals act on what they were made for, nobody keeps a hold on a donated market |
| **residual-distributor** | epoch config with cohort totals, one stake per linked account and family, portfolio archives | init, init_reward_epoch, register_start, crystallize, freeze, claim, archive_portfolio | cohort totals are the stakes', claims are covered and deserved, nobody but the owner gives a reward up |
| **twap (host crate), setup, sim** | none on chain | - | - |

How they interact:

* genesis-vote reads principal and pool totals from the subledger, locks positions
  by CPI (`set_vote_lock`), and seals a distribution by CPI (`seal_winner`), for
  which its config is the distribution's seal authority.
* the subledger's `return_finalized_position` calls genesis-vote's
  `retire_terminal_ballot` to clear the ballot of the owner it pays off.
* the market's insurance roles move controller -> pool (`grant_genesis_pool`) ->
  TWAP (`handoff_to_twap` / `accept_from_subledger`) -> pool (`return_to_subledger`),
  and only their holder can move insurance.
* residual-distributor reads subledger positions, Percolator portfolios and the controller's
  retirement markers; the controller calls `archive_portfolio` before it has an empty
  portfolio closed.
* once a market is resolved, subledger and TWAP sign for the controller's return of the backing of
  asset 0 (`return_resolved_asset0_backing`).

What is hard: instructions of several owners and cranks in any order; signed
transactions that are withheld and land late; incrementally kept totals read by
another program; lazily updated positions; phases that meet at one slot;
rounding that repeats; roles that are with the wrong program when somebody needs
them; public cranks that somebody has to be able to call.  The full list, with
lines, is under "hazards" in `PROJECT.json`.

## 2. Modules

```
 SlotClock   Sums           ShareMath                DomainMath
     \      /   \               |                        |
   Distribution  DepositLedger  InsurancePool ---.   InsuranceDomains
          \       /    ^            |   \         \       |
          GenesisVote  '--implements'    \         \   SurplusRounds
               |                       Custody   OwnVault
     implements GenesisOutcome

 IntegerPairs --> Clearing --> Auction (SlotClock), implements OfferBook
                      '------> BookClearing

 RewardMath --> RewardEpoch (SlotClock, Sums)          MarketLifecycle
```

| Module | Models |
|---|---|
| `SlotClock` | `Clock::get().slot`; `MaxSlot` is `u64::MAX`, so saturation and its boundary are reachable |
| `Sums` | the sum of a function over a set |
| `Distribution` | distribution: one action per instruction, proposals as sequences of entries |
| `DepositLedger` | **abstract**: what genesis-vote relies on in a pool: principal, lock, withdrawn, resolution |
| `GenesisVote` | genesis-vote, composed with `DepositLedger` and `Distribution` |
| `GenesisOutcome` | **abstract**: one of two irrevocable outcomes, each in its phase |
| `ShareMath` | the share arithmetic: mint, redeem, rate-safe burn, rescale, and the payout without shares |
| `InsurancePool` | the insurance pool with shares over an external market; implements `DepositLedger` |
| `OwnVault` | the pool over a vault of its own, with the state and the share rules of `InsurancePool` |
| `DomainMath`, `InsuranceDomains` | the split of money over the long and short domain, the withdrawal planner, and the pool's moves through it |
| `SurplusRounds` | how `execute` sizes a pull and what becomes of it, composed with `InsuranceDomains` |
| `Custody` | the insurance roles and the TWAP's floor, composed with `InsurancePool` |
| `IntegerPairs` | the whole-atom arithmetic of a fill: the largest pair of COIN and USD between two rates |
| `Clearing` | how `execute` clears a book: walk, retries, reconciliation and replay, as functions of book, reserve and budget |
| `BookClearing` | one clearing of any book against any budget, and what it promises |
| `OfferBook` | **abstract**: what the auction promises a bidder, without slots, rounds and escrow |
| `Auction` | the book of twap-program: rounds, bid slots, escrow, settlement, claims and cancellations |
| `RewardMath` | time weights, the pro-rata split with its long division, the caps at a claim |
| `RewardEpoch` | a reward epoch of residual-distributor: five cohorts over positions and portfolios that change under it |
| `MarketLifecycle` | one market key under the controller: creation, donation, the admin proxy, every return, retirement |
| `*Proofs` | lemmas, inductive invariants and theorems of the module they are named after; `GenesisVoteProofs` has those of `Distribution` and `DepositLedger` too, `PoolProofs` those of both kinds of pool, `AuctionProofs` those of the clearing; `SumsProofs` has what all of them use |
| `MC*` | what TLC needs beyond the module: symmetry, small sets of bids, rates and routes |

Definitions named `X_Something` are mutants: what `X` would be with a plausible bug.
They are used by no specification.

### Correspondence with the code

**Distribution.** `header[p]` is the proposal account; a claimed entry has its amount
zeroed, as the code does.  `Donate` is an SPL transfer into the vault, which
nobody can prevent.  Account validation (owners, PDAs, signers) becomes the guards
that say who may act; a wrong account makes an instruction fail, which is a
step that does not happen.

**GenesisVote.** A vote is an authorization: the instruction's data plus, as history,
what its signer saw.  `withheld` holds those that were signed and have not landed.
Signing and landing at once is `FreshBacks`/`FreshRetracts`.  `Trigger` includes
the CPI into `SealWinner`; `Back` and `Retract` include the CPI into `SetVoteLock`;
`ReturnFinalizedPosition` is the pool's `TerminalReturn` with the ballot it
retires.  Not in the state: `config.outstanding_principal` (a cache that trigger
does not use), the weight mirrors (`support_weight`, `total_cast_weight`,
`voted_weight`), which are written and never decide.  A retract without a nonce,
which older layouts allow, is the same as one with nonce 0.  When
`terminal_refund_start_slot` overflows the code fails; the guard
`RefundStart <= MaxSlot` says so.

**InsurancePool.** `insurance`, `market`, `exposed` and `operator` are Percolator's.
`Claim(o)` is what a full exit of `o` would be paid.  An exit's arithmetic is
`PayOff`, shared by `Exit` (signed by the owner, holds only with the roles at the
pool and the position unlocked) and `TerminalReturn` (anybody, on an empty market).
`insurance_withdraw_full` carries a snapshot of the position and fails when it
changed; that makes it an exit of all principal.  `withdrawn_amount` and
start slots are telemetry and are left out.  Positions in layouts older than share
accounting are left out.  A share generation packs a reset and a scale epoch of
20 bits each; here a record with both bounded by `MaxEpoch`.

**OwnVault.** `own_vault` is `~pool.is_insurance()` and `insurance` the balance of the vault; a principal pool
then mints no shares and pays `Payout`, one with surplus prices its shares with the fixed
offset.  An exit is `PayOff` of all principal.  The code keeps the principal of a
withdrawn position for the record, where the model puts 0: `withdrawn` closes it.

**InsuranceDomains.** `remaining` is budget minus spent, `reserved` what positions
have reserved in a domain, `held_back` what other assets reserve of all of it.
A live payout is a plan: withdraw `gross`, top up `redeposit`; Percolator takes
long first.  A resolved market is simply withdrawn from.

**SurplusRounds.** `Whole` is `BPS_DENOMINATOR`.  `Round` is execute up to the budget, and
the split of the COIN that the auction then buys; `exposed` is what `asset_has_position_or_loss_state` says,
`bought` and `to_sink` stand for the clearing (`Clearing`) and the sink that governance set.
It is one transaction, so `RoundSucceeds` collects what would fail it: the checked
subtractions, the planner's conditions, a withdrawal without the roles, a top-up of a market
that is resolved.  `Handoff` takes any floor, where `Custody` derives it from what the pool owes.
`pull_due`, `auction_due` and `sink_due` are history variables: what the shares made due less
what was moved, in parts of an atom.  A change of shares starts the split between the routes
anew, as the code does, and only that one.

**Custody.** `MaxFloor` is `u128::MAX`, the floor that was never set.  `Execute`
keeps its custody side only: it pulls part of the surplus and raises the floor by
the rest; which part follows from governance's shares and two carries
(`SurplusRounds`), any part is allowed here.  What the auction then does with the pulled atoms is `Auction`,
where in turn any amount may be pulled.  `ReturnForExit` is one transaction: the roles go back and the
owner leaves with all it has.  `SetReservedFloor` and `Execute` need no roles when
they move no money, as in the code.

**Auction.** `book` maps the occupied bid slots to their fields; `reserve`, bids and
fills are pairs `<<coin, usd>>`, a rate is higher the more COIN it gives.  `Execute`
is the auction side of execute: the pull arrives in `holding`, `Cleared` decides,
the bought COIN leaves the escrow (to be burned or sent to the sink), the spent
collateral moves to the settlement account, and the round end is set whatever happened.
It settles for refunds only when there is a budget, an eligible bid and no fill, and
otherwise rolls.  `Claim` needs no signature; the last one opens the book again and
sets the round end anew.  `opened` and `gone` are history variables.  A cancellation's data
(`Commitment`) has to equal the live bid's, so that landing late is what
`CommitmentsAreUnique` is about: what `gone` holds are the commitments of bids
that left in the current slot of the clock, since a later placement differs in
`place_slot`.  Payouts go to any clean account of the bidder, which the bidder can always create,
so they are not refused.  `OfferNow` and `DueNow` are what the book means to a bidder, whatever slot
its bid is in: the pair it offers, and what it can collect.  The code never reads the balances of escrow and
settlement, so tokens that somebody sends there are left out.  Books of layouts
that took no cancellations are left out; the sink and its carry are in `SurplusRounds`.

**RewardEpoch.** `stake[s]` is the stake account of a linked account and a family, `s = <<account, family>>`:
LP and trader stakes of one portfolio have one address and exclude each other.
`position` and `portfolio` are external: what subledger and Percolator do to them at any time is
under "External", Percolator's counters only grow while a portfolio lives, and ids start
again only with a new market.  `TotalsToday` and `WitnessedTotals` are what the distributor
reads of a portfolio when a stake is registered, and later, when it is bound to an id; they are
sets of at most one value, empty where the code returns an error.  `Rewarded` is what a
claim pays points for.  `CleanUp` is one transaction: the controller's
close_resolved_portfolio with the distributor's archive_portfolio in it.  Funding paid as long
and as short are one counter, as the code adds them.  The accounts belong to one market.

**MarketLifecycle.** A slab is a market account at the key, `id` the generation Percolator
gives an asset.  `ProxyAdmin` is the proxy with its witness; `Approve` and
`ExecuteApproved` are an instruction governance signed off and somebody lands later
(a multisig or a timelock in front of governance), `GovernNow` the same at once.  `ActivationRoles`,
`InsuranceMayMove` and `SecondariesSettled` are the checks of what a donated market or a new asset may bring
along.  `custody` stands for the pool's and the TWAP's PDA, whose own programs are
`InsurancePool` and `Custody`.  The two backing domains of an asset are summed.  What a Percolator
instruction needs and does is read off how the controller uses it; its
time delays are left out, so shutdowns and forced closes come at any time.  An asset that an earlier version of
the controller let governance activate with insurance roles of an outsider is an initial state.
`TakeInsurance` is Percolator's withdrawal: in a live market the operator's signature is enough, as
market-controller/src/lib.rs:2612-2614 and subledger/src/lib.rs:2284-2286 say; in a resolved one only custody withdraws,
with both roles, and all other insurance leaves by the controller's returns.  History variables: `entitled` is what
everybody should own, `kept` the operators that a donation left in place, `skimmed` what an
operator took under the controller that was another's.

**Clearing, IntegerPairs and BookClearing.** The code walks an array of bids sorted by rate; here
`BestFirst` is a recursive function over sets of slots, best bid first, and what a retry or a
projection repeats is a recursive function over a count, so no module needs a RECURSIVE operator.  `MaxExcess` and `MaxSteps`
are `MAX_EXCESS_RESIDUES` (8) and the cap of the projection (128).  Both bound work and choose between
strategies, so run `auction` uses a small `MaxExcess` to have every strategy tried on small numbers, and
10 for `MaxSteps`, which no bid of the run exceeds; with 0 steps `LeftoverBuysNothing` fails.  Bid legs
are u64 and products u128, so comparisons are exact; a checked overflow of the
residue branch falls through to the next one, which a small instance does not reach.

## 3. Runs

A behaviour of `auction` either runs an auction or clears one book when the auction is over: two
questions, one instance of the clearing.  Every run disables the deadlock check: all of these systems may stop (every slot
used, everybody paid).  Bounds are in the headers of the cfgs.

| Run | Question | Bounds, and why they are enough |
|---|---|---|
| `distribution` | Are claims covered, exact and final, and leftovers burned? | two proposals of two entries, supply 3, slots 0..4, so windows end inside the range and, for late seals, at its end, which stands for `u64::MAX` (see "Smaller disagreements") |
| `vote` | Do tallies, locks, registration, decision and refunds agree? Is there one outcome? | three owners (quorum and majority differ from unanimity and from one), two proposals, slots over all four phases, ballots replaced once |
| `way_out` | Do public cranks alone return all capital? Does a vote ever trap it? Do late votes do what was meant? | two owners and two proposals: voted, lost, won, undecided; one authorization withheld, over two nonces and two principals |
| `pool` | Is a pool of either policy fair under losses, resets, rescales and donations? Is one over its own vault, whatever is sent to it? | two owners, amounts of 3 against moves of 2, so that prices are fractions; virtual offset 8 and a counter up to 64, so a deposit after losses halves the shares; resets up to epoch 1; own vaults up to 90 atoms, with 1, 3 or 80 of them sent: enough for a deposit of 3 to mint nothing, and for a share to be worth more than an atom |
| `surplus` | Has every payout and every round a plan that is harmless? Does every route get its share, over any number of rounds? | all fillings up to 4 with all reservations of an atom, so that domains are free, reserved in part and reserved altogether; shares of thirds, so that the routes alone, together and none of them leave every remainder; COIN one atom at a time, where a carry that is dropped shows most; floors over the whole range and unset |
| `custody` | Does the floor cover what is owed on every path of the roles? Do interrupted handoffs resume, is everybody paid? | two owners, one of them a voter, amounts of 1, insurance above all principal, floor up to 6 with the unset one apart from all real ones; shares never run short (run `pool` halves them); no symmetry |
| `auction` | Do accounts, rounds, commitments and bidders' rights survive every order of instructions? Is every clearing fair, and does it leave nothing that could have traded? | three bidders for two slots, so bids evict and are evicted; rates 1 and 1/2 and a reserve that excludes one of them, so rounds fill, fill partly, refund and roll; rounds of one slot out of four, so that a bid's cooldown ends inside the range.  Besides, one clearing each of all books of up to three bids with legs 1, 2, 3, 5, 7 or one of two larger pairs, with two reserves and six budgets up to 22: some 260,000.  Retries, residues, rays, projections, reconciliation and replays each improve some of them; with the smaller legs alone no ray or projection would be best |
| `rewards` | Are the totals the stakes', the claims covered and deserved, whatever happens to positions and portfolios? | one roster at a time: two insurance positions that share a cohort, a backing position, or a portfolio with a stake in one of the flow cohorts (stakes of different cohorts meet only in the vault, whose supplies add up); slots 0, 2, 4 (the epoch's end), 6 (the window to settle) and 8 (the freeze); supply 45, so that products overflow the limit of 16; two units of each flow and two portfolio ids, so that a portfolio is archived and opened again; deposits end, and the vault is funded, at the freeze |
| `market` | Does everybody get its own out of every life of a market? Do approvals stay with what they approved? | a creator and a provider, a token of the provider's and one of the traders', two slabs at one key, two assets, three generations; a pending configuration or resolution; one position at a time; the second slab is plain, since it differs from the first only in being there again |
| `exit_order`, `public_return`, `donated_operator` | The three findings below | just large enough; `donated_operator` has the bounds of `market` |

`custody` also checks that `InsurancePool`, with the roles moved by `Custody`,
implements `DepositLedger`: what genesis-vote is checked against is what the pool does.

`ResolvedMoneyCanLeave` (`market`) asks for the guards of a public step, so it needs no fairness: the step is
possible, whoever takes it.
`MCRewardEpoch` has the long division agree with the exact quotient on all inputs of six bits, as an
assumption TLC evaluates; that it does so for any width is proved (`LongDivisionIsExact`).

### Fairness

* `TimelySpec` (`way_out`): the clock ticks.  What else is fair is the premise of each
  property.  `CrankFairness` (`RefundsComplete`): for each owner somebody calls
  `return_finalized_position` while it stays possible; it takes no signature of the
  owner, so any bot can.  `LeaveFairness` (`OwnersCanLeave`): owners retract and exit
  while they can; nothing is assumed of others, governance or cranks.
* `FairCustodySpec` (`custody`): the public return and the public handoff are weakly
  fair.  The payoff of an owner is strongly fair: governance may take
  the roles away again between return and payoff, but a public return and a
  payoff fit into one transaction, so it cannot do so for ever.  Governance and owners are
  not fair.  The clock is not needed.
* `AuctionFairness` (`auction`): the clock ticks, and for each bid slot a claim, which anybody can
  send, or a cancellation, which the bidder sends that wants to leave, happens while one
  of them stays possible.  Nobody has to execute a round: `BiddersGetOut`
  holds also when no one does.

### Findings

* `exit_order`.  A comment in `insurance_withdraw` (subledger/src/lib.rs:2522-2525)
  calls equal positions exit-order independent.  In a principal pool they are not:
  the priced balance is capped by the principal owed, and an exit lowers the cap by
  all its principal, also when it was paid less.  In the run's trace the first
  of two equal positions gets 18 of its 24 and the second one 16, with 54 in the
  insurance.  With surplus owned by the shares the claim holds up to the
  rounding of what is burnt, a share, and of what is left, an atom: `ExitsMoveNoValue` (`pool`).
* `public_return`.  README.md:218-220 calls the return of the roles permissionless
  while an empty market's pool has owner principal.  `assert_principal` also asks
  for shares, and after a total loss, a later deposit and its exit, principal
  without shares remains.  Nobody is owed anything then; `OwedArePaidOff` (run
  `custody`) shows that whoever is owed something is paid.

* `donated_operator`.  README.md:86-89 and 421-423 say that a donation requires authority and operator of
  asset 0 to be one trusted identity, also while the insurance is empty.  `accept_market_authority` compares
  the two only if there is insurance or the authority is not the outgoing key
  (market-controller/src/lib.rs:2615-2617), and the later check of unfunded insurance looks at the authority alone
  (2645-2657).  A creator that is the authority and named another operator can donate its empty market; `UpdateAuthority`
  moves the authority to the controller and leaves the operator.  In the run's trace a fee is paid
  afterwards, and that operator withdraws what is governance's.  `NobodySkims` is violated;
  `EveryoneGetsTheirs` and `InsuranceStaysConstrained` (run `market`) show that this is the only way
  to another's insurance, and that only an operator which a donation kept can go it.

Smaller disagreements, without a run of their own:

* the comments at twap-program/src/lib.rs:2050-2052 and 3192-3194 say that a placed bid cannot be
  cancelled and leaves only by eviction; `cancel_bid` (4283) lets its bidder take it out
  after two round lengths, which is what the model does;
* the comments at distribution/src/lib.rs:714-717 and 789-791 say that a window whose end saturates
  never lets the burn happen.  The code compares `slot >= u64::MAX`, so in the very last slot
  claims are closed and the burn is open, as `Distribution` has it (`BurnEndsClaims` holds there too).  No live
  clock reaches that slot.  `LeftoversAreBurned` rests on the clock ticking up to its last slot, so of a
  saturated window it says only that.

## 4. Proofs

Proved with tlapm (SMT, Zenon, LS4) for every value of the constants that satisfies
the modules' named assumptions: sizes are naturals, sets of owners, proposals and recipients finite,
windows positive, and what is mentioned below.  `SumsProofs` has what the proofs share: totals (one changes by the
difference when one value does, splits, scales and covers its parts), powers of two, quotients, and
two ways to reason about recursion.  An induction is over a set of numbers or of sets,
and a recursive function has the values it should once some function is shown to satisfy its
equation (`FoldFits`, `CountFits`); both avoid the library's theorems that take operators.

| Theorem | Says |
|---|---|
| `DistTypeCorrect`, `ClaimsAreCovered`, `ClaimsAreExact`, `BurnEndsClaims` | types, coverage and exactness of claims, and that nothing is paid after a burn |
| `LedgerBalances` | outstanding principal is the sum over the positions |
| `TypeCorrect`, `TalliesAreLive`, `VotesNeverOutliveCapital`, `DecisionsAlwaysAgree`, `RegistrationIsFinal`, `CapitalDecides`, `ImplementsOutcome` | the properties of run `vote`, with types and the agreement of the two programs |
| `LateVotesAreMeant` | a withheld vote does what its signer meant, or nothing |
| `FloorAlwaysCovers`, `PullsAreHarmless` | the floor covers the principal; pulls take nobody's claim |
| `PoolImplementsLedger` | the pool, in custody or not, implements the ledger the vote composes with |
| `ExitsAlwaysAdmissible`, `ClaimsAlwaysCovered` | in a pool of either kind and policy no exit fails in its arithmetic, and all owners together can be paid |
| `ExitsNeverMoveValue`, `DepositsAlwaysKeepClaims` | an exit pays its owner no more than its claim falls and costs nobody more than the rounding; a deposit is worth itself and moves nobody else by more than an atom, with and without halving the shares |
| `TradesAlwaysFair` | any clearing of any book trades at one rate, within every limit, escrow and the budget |
| `ExecutableBidsAlwaysTrade` | a round trades exactly when one eligible bid has a whole lot within the budget, whatever the other bids are |
| `FarTradesAloneAreMissed` | all a clearing can miss at its price is a sale of a bid of another rate that pays at least `MaxSteps` (128 in the code) less than the budget and the bid's amount |
| `AccountsAlwaysBack`, `AuctionImplementsOffers` | escrow and settlement hold what the book accounts for, to the atom; the auction implements `OfferBook` |
| `EveryRoundRunsInFull`, `BidsStayCommitted`, `CommitmentsNeverRepeat` | the three action properties of run `auction` about rounds and bids |
| `RoundsTypeCorrect`, `EverySharePaid`, `MovesArePossible` | over any rounds every route gets its share up to an atom, and no payout or round fails over the domains |
| `MovesAlwaysNeutral` | no payout and no round touches a reservation, nor tilts the domains by more than what it takes |
| `TotalsAreRight` | the cohorts' totals are the points of their stakes, and stay so once frozen |
| `RewardsAlwaysCovered` | what all open stakes are due is in the vault, whoever claims first, and no stake is due less than its exact part |
| `RewardsAlwaysEarned`, `OnlyOwnersEverForfeit` | no stake is rewarded for more than it earned in the epoch; once frozen, nobody but its owner lowers that |
| `LifeIsOrdered`, `ApprovalsAreKept` | a retired key never comes back to the controller, so a late approval acts on the slab and generation it names |
| `InsuranceIsConstrained`, `NobodyIsPaidForAnother` | in the controller's markets no stranger is authority or admin over insurance, and none is operator but one that was operator of empty insurance when its market was donated (`kept`); everybody has what is theirs, except what such an operator took from governance |
| `NothingIsLeftBehind` | each balance of an empty resolved market has a public step that takes it out |

The argument, per component:

* **Distribution**: `DistInv` is `DistTypeOK /\ CoinConserved /\ HeadersAddUp /\
  VaultCovers`.  Coverage is not inductive alone: that a claim leaves the rest covered needs
  that settling an entry lowers what the winner still owes by exactly its amount; that a
  seal starts covered needs that a header's total is the sum of its entries, and
  that nothing has been burned before.
* **DepositLedger**: `LedgerInv` is the types and the sum; each action moves both
  sides by the same amount.
* **GenesisVote**: `GenesisInv` joins those two with `VoteInv` (tallies are sums over
  ballots, ballots are backed and locked), `RegistrationsHold` (a registered proposal is
  complete, another one has no support), `DecisionsAgree` and `RefundsExclude`
  (refunds without a decision mean that none was made and the refund phase began).
  The tallies need that ballots are backed, for no subtraction to go below zero; backing
  needs that the pool's exits respect the lock; the outcome needs both flags.
  For late votes `WithheldInv` says that a withheld vote of the current nonce is of the
  ballot its signer saw: a nonce is spent by every retraction and every replaced
  ballot.  `retire_terminal_ballot` clears a ballot without spending one, which is
  harmless only because nothing can be backed any more by then.
* **InsurancePool and OwnVault** (`PoolProofs`): `PoolInv` is `NumbersOK /\ TotalsOK /\ PositionsOK /\
  VaultOK /\ ParOK`.  `TotalsOK` says that the principal is the sum of the positions' and that the
  shares that still count are no more than the total, which lazily updated positions make an
  inequality; `PositionsOK` that a position with principal can always be brought to the pool's generation;
  `ParOK` that a principal pool which never lost anything has its shares at par.  Claims are then
  covered since the floors of parts are at most the floor of the whole.  For `ExitsNeverMoveValue`
  the price is compared before and after: the burn is the least number of shares that keeps the
  price from rising for the leaver, so it falls for nobody else and rises by less than one share's worth.  For
  `DepositsAlwaysKeepClaims` a deposit that halves the shares is the interesting case: one halving less
  did not fit, so the basis is at least four times the price, and halving rounds each
  claim by less than an atom.  Two assumptions bound the amounts by the counter:
  `VirtualShares * (MaxPrincipal + 1) <= MaxShares` and `8 * (MaxInsurance + 1) <= MaxShares`; in
  the code amounts are u64, the offset is 1,000,000 and the counter u128.  The proof corrected the model's
  own property: a bound of one atom for what an exit costs the others is false once
  donations have made a share worth more than an atom, so the bound is the rounding of
  one burnt share and an atom.
* **Custody**: `CustodyInv` is `AmountsOK /\ FloorOK /\ HeldByHandoff /\
  FloorCoversPrincipal`: once a handoff was recorded the floor is set and only
  its buffer on top of the recorded principal is free, and roles at the TWAP mean that
  there was a handoff.  `PullsAreHarmless` then needs that in a principal pool the
  price is over the lesser of insurance and principal, which a pull down to the
  floor leaves alone.  It is stated for principal pools, since with_surplus pools
  only hand over after everybody left.  `PoolImplementsLedger` maps each exit, deposit and lock to
  the ledger's, the last settlement of the market to `Resolve`, and all else to a stutter.
* **Auction**: `AuctionClocks` says that a round ends at most a round length from now and at least
  one after it began, and that a bid joined a round that ended at most a round length after its
  placement; the first two theorems are its consequences.  For the third,
  `BookInv` adds that a bid placed in this slot of the clock is unsettled in a round that
  is not over, and that whatever left in this slot was outbid by what is now
  in its place.  Since "outbid" is transitive and irreflexive on rates, no bid
  that comes back is the same again.  What the clearing decides plays no role for these three.
* **Clearing** (`AuctionProofs`): every pair that is ever traded comes from a single `TryCoin`, which
  checks limit, escrow and budget, or from a projection that ends at an exact pair; and every
  fill is built by adding such pairs at one rate while what is left of the budget pays for them.
  The sets `Walks`, `Fills` and `Clearings` say so of each intermediate result; that the
  recursive functions stay in them is shown with `FoldFits` and `CountFits`.  So `TradesAlwaysFair`
  does not depend on how good the searched candidates are.
  For `ExecutableBidsAlwaysTrade`, `Stands` says of each walk that it either took nothing, and no bid it may take
  from has a lot within the budget, or that its marginal bid took a multiple of its own lot.  At
  its own rate that multiple is an exact pair, so the marginal bid always trades; each retry
  excludes a bid that is not the marginal one, so a walk that could trade stays one that can; and
  neither reconciling nor allocating afresh unfills the last trade.
* **The search of the clearing** (`AuctionProofs`, from "Sales" on): a sale is COIN that `TryCoin` accepts.
  It pays a little less than the price and no less than the bid asks, by two excesses whose weighted sum is the
  distance of the rates (`SaleMeans`, `SaleExcess`).  So a bid at the very rate of the price sells whole
  lots (`LotsCover`).  Moving a sale by lots of the price keeps its excess and only widens
  the bid's limit (`SaleInClass`), so the largest pair of an excess covers all of them, and when there are at most `MaxExcess`
  excesses all are covered (`ResiduesCover`).  Which amounts have an excess is an inverse modulo the price's lot,
  which the lot's neighbours in the Stern-Brocot tree give (`ParentIsNext`), found by continued fractions over intervals that
  narrow (`IntervalsNarrow`, `ConvergentsRecur`).  When the lots' USD legs together exceed the distance, no sale
  lies strictly between the rates.  Otherwise the projection passes no sale, down to its
  seed or its cap (`ProjectedCovers`).  Together,
  `MaxExecutableCovers`: no sale is larger than the pair found, but those `Covers` excepts.
  `Exhausts` lifts this to a book: when reconciling has come to the end, what is left, which only got less since
  a bid was served, enlarges no fill of the bids it passed (`ReconciledCovers`).  The fresh allocation keeps
  a lot back for the marginal bid; `Serves` says that bids ahead of it are exhausted but for that lot, and
  that the lot is there when its turn comes (`ReplayServes`).  It is preferred only if it spends at least as much,
  so the bids before it stay exhausted as well (`ReplayedExhausts`).  A bid at the price or better is never below
  the reserve, so the eligible bids are all there are.
  `MaxSteps` is where the theorem ends: legs are u64 and the code's cap is 128 steps, so a larger sale
  may remain that only a longer projection would find.  The comment at
  twap-program/src/lib.rs:2722-2727 calls the cap a liveness guard with a safe fallback.  That the leftover buys
  nothing at all (`LeftoverBuysNothing`) is therefore a property of the instance, where no bid needs more
  than `MaxSteps` steps, and is model-checked only.
* **The auction's accounts**: `AuctionInv` is `BookInv /\ EntriesOK /\ PursesOK /\ AccountsBackTheBook`.
  An entry is owed nothing before the settlement and something from then on, and a bidder has one
  entry at most.  At a settlement the refund is the bid's COIN less the fill's, which fairness keeps from
  being negative, and what all are owed is what was spent.
  The refinement goes through `BookMeans`: each entry is one bidder's offer and due, so placing, evicting,
  cancelling and claiming change what one bidder (or two) offers, rolling changes nothing, and a
  settlement gives every bidder one of `OfferBook`'s outcomes at the rate of the marginal bid.
* **SurplusRounds**: `RoundsInv` says that shares fit into a whole, that each carry is less than
  an atom of its divisor, and that what is due is what is carried.  A share of `n` with a carry below the
  divisor is at most `n` (`SharesFit`), so neither the pull nor the auction's part exceeds what it is taken
  from; `n * share + carry` is quotient times divisor plus remainder, so paying the one and keeping the
  other leaves what is due equal to the carry.  A plan exists for every target that takes no
  more out of a domain than can be reached (`TargetsHavePlans`): a payout's target is clamped to that, and in a
  round without reservations everything can be reached.  For `MovesAlwaysNeutral` `DomainsInv`
  adds that reservations are no more than what remains, and that a deposit that can still be returned
  stands in the domains as it was spread; a proportional debit then shifts the split by at most an atom.
* **RewardEpoch**: `RewardInv` is the types and the totals.  Replacing a stake's points takes the
  old ones off a sum that contains them, so the total stays a natural number and stays the
  sum; after the freeze no action changes points at all.
  `CoverInv` adds that, once frozen, the vault covers what the open stakes would be paid for all their points.
  It holds at the freeze because the cohorts' supplies, each rounded down, add up to at most the supply,
  and shares, rounded down, to at most their cohort's; a claim pays no more than it takes
  off that sum, since the points rewarded are never more than the stake's.  The long division
  is exact by induction over the bits, which takes a supply of at most `SupplyBits` bits
  (`MintSupply < 2^SupplyBits`; 64 in the code, and the supply is a u64).
  `EarnedInv` adds what ties stakes to portfolios.  `IdsOK`: ids are given in ascending order and
  an archive is of an earlier portfolio than a live one, so exactly one of them can be a witness
  (`WitnessOnce`).  `PositionsOK`: only what was returned by the public is recorded as returned.
  `StakesOK`: whatever a witness says now is what the stake started from plus what was earned since, and
  a stake's points are at most its time weight times that.  For a trader the loss that was
  rewarded plus what had been won back by then is at most what was lost since the start, so that taking off
  what was won back later leaves at most what is still lost.  All steps but an accrual
  leave a stake's witness alone or take it away (`Quiet`).  For `OnlyOwnersEverForfeit` each step is
  asked what it does to a frozen stake: the only ones that take a witness away are a close and a later
  archive, and these are the owner's, or find a portfolio without flow, whose stakes have no points.
* **MarketLifecycle**: `LifeInv` says that a key with a marker is not the controller's, and that what is
  pending on a key without one was approved for the slab that is there.  A slab leaves
  the controller only by the close that writes the marker, and a marked key is neither
  created nor accepted again; ids are never given twice to an asset of one slab.
  `ConstrainedInv` adds to the third theorem that the controller's markets let no stranger
  append assets, and that whoever can withdraw from a live one is the provider or an operator in
  `kept`, which only grows.  `HistoryInv` says who can have skimmed: what is taken from governance
  goes to kept operators, so what everybody is due is what it is entitled to but for that.  `BooksInv` adds to the last one that a settled asset has neither
  roles nor money (else a restart would lose or pay it), and that a market that is
  closed or absent has settled assets only; every other action moves the two sides of one
  owner's equation by the same amount.
  `LeaveInv` is what the way out of the money rests on: an asset that is there has a provider of insurance, and backing has a
  backer (`Housed`); and while the controller is the market's authority it is the admin of every unsettled
  asset, or custody holds all roles of asset 0 (`Governed`).  Donation and activation establish
  the latter, grants and returns keep it, whatever outsiders were appointed in between.

Model-checked only: `LeftoverBuysNothing`, for the reason given above, and all liveness (`LeftoversAreBurned`, `RefundsComplete`,
`OwnersCanLeave`, `AuctionResumes`, `OwedArePaidOff`, `BiddersGetOut`), which rests on
fairness.  All other properties of the passing runs are proved.

## 5. Not modelled, and the plan

Not modelled for good: account validation as such, token account details, rent,
logging, serialisation layouts; Percolator, which is external and enters as
the steps a program has to expect from it; the host crates `twap`, `setup` and
`sim`, which no program links.

Not modelled:

* layouts that predate the deployed binaries: `retract_legacy_vote`, positions and pools without
  shares, books without places, reward configs and stakes of the genesis distribution (`init` of
  residual-distributor);
* of twap-program: `accept_operator` without a pool, `set_market_fees`, and `set_coin_sink`
  (`SurplusRounds` takes any sink in each round);
* of the controller's proxy: the comparison of the trade fee and of the resolution policy with their
  present values;
* losses of Percolator in `MarketLifecycle` (`InsurancePool` has them), and positions whose loss is
  not realised yet when an owner leaves: the guard of `PayOff` is what the code does
  about them.

Plan, in order of importance: losses that are not realised yet when an owner leaves, with the guard of
`PayOff`; legacy retraction; `accept_operator` without a pool.
