----------------------------- MODULE RewardEpoch -----------------------------
(***************************************************************************)
(* A reward epoch of the residual distributor                               *)
(* (residual-distributor/src/lib.rs).  Capital in subledger pools and the    *)
(* flows of Percolator portfolios earn points between two slots; after a     *)
(* window to settle them the cohorts' totals are frozen, and every stake     *)
(* claims its part of its cohort's COIN.  What a stake is paid for can       *)
(* disappear before that: capital leaves, losses are won back, portfolios    *)
(* are closed and opened again, whole markets are retired.                   *)
(*                                                                         *)
(* Positions are the subledger's, portfolios are Percolator's (external).    *)
(* All accounts belong to one market, and each has one owner.                *)
(***************************************************************************)
EXTENDS SlotClock, Sums, RewardMath

CONSTANTS
  InsurancePositions, BackingPositions, Portfolios,  \* what stakes are linked to
  Rosters,           \* bound: which of them, and of the flow cohorts, take part
  EpochStart,        \* config.emission_start_slot
  EpochEnd,          \* config.emission_end_slot
  FinalizeWindow,    \* config.finalize_window
  Bps,               \* BPS_DENOMINATOR, 10000 in the code
  InsuranceBps, BackingBps, LpBps, FundingPayerBps,
  FeeBps,            \* config.fee_support_bps
  Supplies,          \* expected_reward_supply: 0 for what the vault will hold
  MintSupply,        \* the COIN there is, once no more can be minted
  MaxPrincipal,      \* bound: principal, shared equally by the roster
  MaxFlow,           \* bound: units of each flow of a portfolio
  MaxPortfolioId,    \* bound: portfolios opened
  Stride             \* bound: slots that pass at once

Accounts == InsurancePositions \cup BackingPositions \cup Portfolios

CapitalCohorts == {"insurance", "backing"}
FlowCohorts    == {"lp", "trader", "funding"}
Cohorts        == CapitalCohorts \cup FlowCohorts

ASSUME RewardAssumption ==
  /\ IsFiniteSet(Accounts)
  /\ InsurancePositions \cap BackingPositions = {}
  /\ Portfolios \cap (InsurancePositions \cup BackingPositions) = {}
  /\ Rosters \subseteq SUBSET (Accounts \cup FlowCohorts)
  /\ EpochStart \in Nat /\ EpochEnd \in Nat /\ FinalizeWindow \in Nat
  /\ EpochStart < EpochEnd /\ FinalizeWindow > 0
  /\ EpochEnd + FinalizeWindow <= MaxSlot
  /\ Bps \in Nat \ {0} /\ FeeBps \in 0 .. Bps
  /\ InsuranceBps \in Nat /\ BackingBps \in Nat /\ LpBps \in Nat /\ FundingPayerBps \in Nat
  /\ InsuranceBps + BackingBps + LpBps + FundingPayerBps <= Bps
  /\ MintSupply \in Nat /\ MintSupply < 2^SupplyBits /\ Supplies \subseteq 0 .. MintSupply
  /\ MaxPrincipal \in Nat /\ MaxFlow \in Nat /\ MaxPortfolioId \in Nat
  /\ Stride \in Nat \ {0}

VARIABLES
  total_supply,      \* config.total_supply
  frozen,            \* config.freeze_slot # 0
  points_total,      \* per cohort: config.total_points and its siblings
  frozen_total,      \* per cohort: config.frozen_total_points and its siblings
  stake,             \* per linked account and family
  vault,             \* COIN in config.vault
  mintable,          \* the COIN mint still has an authority
  roster,            \* the accounts and flow cohorts that take part
  position,          \* per account: the subledger's
  portfolio,         \* external, per account: Percolator's
  next_portfolio_id, \* external: Percolator's
  market,            \* "live", "resolved" (external: Percolator) or "retired" (the controller)
  archive,           \* per account: the distributor's record of closed portfolios
  earned             \* history: per stake, the flow of its portfolio since it was
                     \* registered, until the epoch's end; what is spent, for ever

config_vars    == <<total_supply, frozen, points_total, frozen_total>>
coin_vars      == <<vault, mintable>>
portfolio_vars == <<portfolio, next_portfolio_id, archive>>
market_vars    == <<roster, position, portfolio_vars, market>>
reward_vars    == <<slot, config_vars, stake, coin_vars, market_vars, earned>>

\* Counters of a portfolio (funding paid as long and as short are one here).
Counters == {"received", "loss", "spent", "funding"}
NoFlow   == [c \in Counters |-> 0]

\* The counters a flow cohort is rewarded by.
CountersOf(cohort) ==
  CASE cohort = "lp"      -> {"received"}
    [] cohort = "trader"  -> {"loss", "spent"}
    [] cohort = "funding" -> {"funding"}

Plus(f, g) == [c \in Counters |-> f[c] + g[c]]

\* stake_family: LP and trader are views of one flow and exclude each other.
Families == CapitalCohorts \cup {"residual", "funding"}
Stakes == InsurancePositions \X {"insurance"} \cup BackingPositions \X {"backing"}
            \cup Portfolios \X {"residual", "funding"}

FamilyOf(cohort) == IF cohort \in {"lp", "trader"} THEN "residual" ELSE cohort

NoStake == [cohort |-> "none", residual_snap |-> 0, earnings_snap |-> 0, start_slot |-> 0,
            points |-> 0, eligible_accum |-> 0, claimed |-> FALSE, portfolio_id |-> 0]

Registered(s) == stake[s].cohort # "none"

NoPosition  == [principal |-> 0, withdrawn |-> FALSE, start_slot |-> 0,
                returned |-> 0, return_slot |-> 0]
NoPortfolio == [holder |-> "none", id |-> 0, counters |-> NoFlow]
NoArchive   == [exists |-> FALSE, id |-> 0, counters |-> NoFlow]

----------------------------------------------------------------------------
RewardInit ==
  /\ slot = 0
  /\ total_supply \in Supplies
  /\ frozen = FALSE
  /\ points_total = [c \in Cohorts |-> 0]
  /\ frozen_total = [c \in Cohorts |-> 0]
  /\ stake = [s \in Stakes |-> NoStake]
  /\ vault = 0
  /\ mintable = TRUE
  /\ roster \in Rosters
  /\ position = [x \in Accounts |-> NoPosition]
  /\ portfolio = [x \in Accounts |-> NoPortfolio]
  /\ next_portfolio_id = 1
  /\ market = "live"
  /\ archive = [x \in Accounts |-> NoArchive]
  /\ earned = [s \in Stakes |-> NoFlow]

----------------------------------------------------------------------------
(* What a portfolio's owner has had of each flow, as the distributor can     *)
(* see it: sets of at most one value, empty where the code returns an error. *)

\* The owner's own portfolio, of the market the stake is bound to.
LiveOf(x) == IF portfolio[x].holder = "owner" THEN {portfolio[x]} ELSE {}

\* Mutant: what was archived is left out.
WithLive_LiveOnly(x, live) == {live.counters}

\* totals_with_live: an incarnation is never counted twice.
WithLive(x, live) ==
  IF archive[x].exists /\ live.id <= archive[x].id THEN {}
  ELSE {Plus(archive[x].counters, live.counters)}

\* portfolio_totals of a registration: whatever portfolio is there now.
TotalsToday(x) ==
  IF portfolio[x].holder # "none" THEN UNION {WithLive(x, live) : live \in LiveOf(x)}
  ELSE IF archive[x].exists THEN {archive[x].counters} ELSE {}

\* Mutant: a market opened again under a retired key is taken for the old one.
WitnessedTotals_IgnoringRetirement(x, id) ==
  IF \E live \in LiveOf(x) : live.id = id THEN WithLive(x, portfolio[x])
  ELSE IF archive[x].exists /\ archive[x].id = id THEN {archive[x].counters} ELSE {}

\* portfolio_totals of a stake that is bound to portfolio id.
WitnessedTotals(x, id) ==
  IF market # "retired" /\ \E live \in LiveOf(x) : live.id = id THEN WithLive(x, portfolio[x])
  ELSE IF archive[x].exists /\ archive[x].id = id THEN {archive[x].counters} ELSE {}

\* residual_counter and funding_payer_counter.
Counter(cohort, totals) ==
  CASE cohort = "lp"      -> totals["received"]
    [] cohort = "trader"  -> Monus(totals["loss"], totals["spent"])
    [] cohort = "funding" -> totals["funding"]

----------------------------------------------------------------------------
(* Registration and points.                                                 *)

\* pool_allowed: the cohort of the pool the position is in.
PoolOf(x) == IF x \in InsurancePositions THEN "insurance" ELSE "backing"

\* register_start, signed by the account's owner.
Register(s, cohort, snap, id) ==
  /\ ~frozen
  /\ EpochStart <= slot /\ slot < EpochEnd
  /\ ~Registered(s)
  /\ stake' = [stake EXCEPT ![s] =
       [NoStake EXCEPT !.cohort = cohort, !.residual_snap = snap,
                       !.start_slot = slot, !.portfolio_id = id]]
  /\ UNCHANGED <<slot, config_vars, coin_vars, market_vars, earned>>

RegisterCapital(x) ==
  /\ x \in InsurancePositions \cup BackingPositions
  /\ position[x] # NoPosition
  /\ Register(<<x, FamilyOf(PoolOf(x))>>, PoolOf(x), 0, 0)

\* Mutant: flow of archived portfolios is not part of the start.
StartTotals_LiveOnly(x) == {live.counters : live \in LiveOf(x)}

StartTotals(x) == TotalsToday(x)

RegisterPortfolio(x, cohort) ==
  /\ x \in Portfolios
  /\ market # "retired"
  /\ \E totals \in StartTotals(x) :
       Register(<<x, FamilyOf(cohort)>>, cohort, Counter(cohort, totals),
                IF portfolio[x].holder = "owner" THEN portfolio[x].id ELSE archive[x].id)

\* The points of s become points; its cohort's total follows.
Recredit(s, points, net, accum) ==
  /\ ~frozen
  /\ ReplaceFits(points_total[stake[s].cohort], stake[s].points, points)
  /\ points_total' = [points_total EXCEPT ![stake[s].cohort] =
                        ReplacedPoints(@, stake[s].points, points)]
  /\ stake' = [stake EXCEPT ![s].points = points, ![s].earnings_snap = net,
                            ![s].eligible_accum = accum]
  /\ UNCHANGED <<slot, total_supply, frozen, frozen_total, coin_vars, market_vars, earned>>

\* Mutant: a top-up keeps the tenure of the registration.
EffectiveStart_StakeOnly(s) == stake[s].start_slot

\* Tenure starts with the registration, and anew with every top-up.
EffectiveStart(s) == Later(stake[s].start_slot, position[s[1]].start_slot)

\* Mutant: capital that the public returned is forfeited.
CapitalAtRisk_Forfeited(x) == position[x].principal

\* What the owner left at risk until now, or until it was returned by the public.
CapitalAtRisk(x) ==
  IF position[x].returned # 0 THEN position[x].returned
  ELSE IF position[x].withdrawn THEN 0 ELSE position[x].principal

\* crystallize of a capital stake, signed by its owner.
CrystallizeCapital(s) ==
  /\ stake[s].cohort \in CapitalCohorts
  /\ EpochStart <= slot /\ slot < EpochEnd + FinalizeWindow
  /\ LET x         == s[1]
         accrued   == Lesser(slot, EpochEnd)
         until     == IF position[x].returned # 0 THEN Lesser(accrued, position[x].return_slot)
                      ELSE accrued
         principal == CapitalAtRisk(x)
     IN  Recredit(s, FloorLog2(Monus(until, EffectiveStart(s))) * principal, principal, until)

\* Mutant: flow counts until the freeze.
AccrualOver_AtFreeze == frozen

\* Flow counts no more.
AccrualOver == slot > EpochEnd

\* crystallize of a flow stake, by anybody.  After the epoch only what a trader
\* won back since is taken off.
CrystallizeFlow(s) ==
  LET st == stake[s] IN
  /\ st.cohort \in FlowCohorts
  /\ EpochStart <= slot
  /\ AccrualOver => st.cohort = "trader"
  /\ \E totals \in WitnessedTotals(s[1], st.portfolio_id) :
       LET net   == Monus(Counter(st.cohort, totals), st.residual_snap)
           spent == IF st.cohort = "trader" THEN totals["spent"] ELSE 0
           cap   == TraderLiveCap(st.earnings_snap, st.eligible_accum, net, spent)
       IN  IF AccrualOver
           THEN /\ CapIsExact(st.points, st.earnings_snap, cap)
                /\ Recredit(s, CapResidualPoints(st.points, st.earnings_snap, cap), cap, spent)
           ELSE Recredit(s, IF st.cohort = "funding" THEN net
                            ELSE FloorLog2(slot - st.start_slot) * net, net, spent)

----------------------------------------------------------------------------
(* Freeze and claims.                                                       *)

FreezeSlot == EpochEnd + FinalizeWindow

\* The vault holds the fixed supply, which is all the COIN there is, or
\* anything at all.
Funded ==
  IF total_supply # 0 THEN MintSupply = total_supply /\ vault >= total_supply
  ELSE vault # 0

\* freeze, by anybody.
Freeze ==
  /\ ~frozen
  /\ slot >= FreezeSlot
  /\ ~mintable
  /\ Funded
  /\ frozen' = TRUE
  /\ total_supply' = IF total_supply # 0 THEN total_supply ELSE vault
  /\ frozen_total' = points_total
  /\ UNCHANGED <<slot, points_total, stake, coin_vars, market_vars, earned>>

BpsOf(cohort) ==
  CASE cohort = "insurance" -> InsuranceBps
    [] cohort = "backing"   -> BackingBps
    [] cohort = "lp"        -> LpBps
    [] cohort = "funding"   -> FundingPayerBps
    [] cohort = "trader"    -> Bps - InsuranceBps - BackingBps - LpBps - FundingPayerBps

CohortSupply(cohort) == (total_supply * BpsOf(cohort)) \div Bps

\* The portfolio a frozen stake is about is gone for good.
LpDetached(x, id) ==
  market = "retired" \/ portfolio[x].holder # "owner" \/ portfolio[x].id # id

\* The points s is rewarded for if it is claimed now: none at all where the code
\* wants a witness that is not there.
Rewarded(s) ==
  LET st == stake[s]
      x  == s[1]
  IN  CASE st.cohort = "none"    -> {}
        [] st.cohort = "funding" -> {st.points}
        [] st.cohort \in CapitalCohorts ->
             {Lesser(st.points, FloorLog2(Monus(st.eligible_accum, EffectiveStart(s)))
                                  * Lesser(st.earnings_snap, CapitalAtRisk(x)))}
        [] st.cohort = "lp" /\ LpDetached(x, st.portfolio_id) -> {st.points}
        [] OTHER ->
             UNION { LET net == Monus(Counter(st.cohort, totals), st.residual_snap)
                         cap == IF st.cohort = "lp" THEN net
                                ELSE TraderLiveCap(st.earnings_snap, st.eligible_accum, net,
                                                   totals["spent"])
                     IN  IF CapIsExact(st.points, st.earnings_snap, cap)
                         THEN {CapResidualPoints(st.points, st.earnings_snap, cap)} ELSE {}
                     : totals \in WitnessedTotals(x, st.portfolio_id) }

CeilDiv(a, b) == (a + b - 1) \div b

\* What a claim for points pays before its fee, and the fee: kept in the vault.
Share(s, points) ==
  PointsToAmount(CohortSupply(stake[s].cohort), points, frozen_total[stake[s].cohort])
Fee(s, amount) ==
  IF stake[s].cohort \in FlowCohorts THEN CeilDiv(amount * FeeBps, Bps) ELSE 0

\* claim: capital stakes by their owner, flow stakes by anybody.
Claim(s) ==
  /\ frozen
  /\ Registered(s) /\ ~stake[s].claimed
  /\ stake[s].points <= frozen_total[stake[s].cohort]
  /\ \E points \in Rewarded(s) :
       LET payout == Share(s, points) - Fee(s, Share(s, points))
       IN  /\ payout <= vault
           /\ vault' = vault - payout
  /\ stake' = [stake EXCEPT ![s].claimed = TRUE]
  /\ UNCHANGED <<slot, config_vars, mintable, market_vars, earned>>

----------------------------------------------------------------------------
(* The distributor's archive of closed portfolios.                          *)

\* archive_portfolio's add_live.
Archived(x) ==
  [exists |-> TRUE, id |-> portfolio[x].id,
   counters |-> Plus(archive[x].counters, portfolio[x].counters)]

\* close_resolved_portfolio of the market controller, by anybody: the counters
\* are archived before Percolator closes the portfolio.
CleanUp(x) ==
  /\ market = "resolved"
  /\ portfolio[x].holder = "owner"
  /\ archive[x].exists => portfolio[x].id > archive[x].id
  /\ archive' = [archive EXCEPT ![x] = Archived(x)]
  /\ portfolio' = [portfolio EXCEPT ![x] = NoPortfolio]
  /\ UNCHANGED <<slot, config_vars, stake, coin_vars, roster, position, next_portfolio_id,
                 market, earned>>

----------------------------------------------------------------------------
(* What other programs do: the subledger to positions, the controller to the *)
(* market, and, external, Percolator to portfolios and others to the COIN.    *)

Outside == UNCHANGED <<slot, config_vars, stake, roster>>

\* The subledger's insurance_deposit: every top-up starts the position's clock
\* anew (what moves in the pool is in InsurancePool).  Bound:
\* none once the epoch may freeze.
Deposit(x) ==
  /\ x \in InsurancePositions \cup BackingPositions
  /\ market = "live" /\ slot < FreezeSlot
  /\ ~position[x].withdrawn
  /\ position[x].principal < MaxPrincipal \div Cardinality(roster)
  /\ position' = [position EXCEPT ![x].principal = @ + 1, ![x].start_slot = slot]
  /\ Outside /\ UNCHANGED <<coin_vars, portfolio_vars, market, earned>>

\* The subledger's insurance_withdraw, by the owner.
Withdraw(x) ==
  /\ market # "retired"
  /\ position[x].principal > 0
  /\ position' = [position EXCEPT ![x].principal = @ - 1,
                                  ![x].withdrawn = position[x].principal = 1]
  /\ Outside /\ UNCHANGED <<coin_vars, portfolio_vars, market, earned>>

\* The subledger's return_finalized_position, by anybody.
TerminalReturn(x) ==
  /\ market = "resolved"
  /\ position[x].principal > 0
  /\ position' = [position EXCEPT ![x].principal = 0, ![x].withdrawn = TRUE,
                    ![x].returned = position[x].principal, ![x].return_slot = slot]
  /\ Outside /\ UNCHANGED <<coin_vars, portfolio_vars, market, earned>>

\* A portfolio is opened under a free key by its owner, or by somebody else
\* or for another market; ids start again only with a new market.
OpenPortfolio(x, holder) ==
  /\ x \in Portfolios
  /\ portfolio[x].holder = "none"
  /\ \E id \in IF holder = "other" THEN {0}
               ELSE IF market = "retired" THEN 1 .. next_portfolio_id
               ELSE {next_portfolio_id} :
       /\ id <= MaxPortfolioId
       /\ portfolio' = [portfolio EXCEPT ![x] =
                          [holder |-> holder, id |-> id, counters |-> NoFlow]]
       /\ next_portfolio_id' = IF id = next_portfolio_id THEN id + 1 ELSE next_portfolio_id
  /\ Outside /\ UNCHANGED <<coin_vars, position, market, archive, earned>>

\* Trading and settlement move the counters of an owner's portfolio.
Accrue(x, c) ==
  /\ portfolio[x].holder = "owner"
  /\ portfolio[x].counters[c] + archive[x].counters[c] < MaxFlow
  /\ c = "spent" => portfolio[x].counters["spent"] < portfolio[x].counters["loss"]
  /\ portfolio' = [portfolio EXCEPT ![x].counters[c] = @ + 1]
  /\ earned' = [s \in Stakes |->
       IF /\ s[1] = x /\ Registered(s) /\ stake[s].portfolio_id = portfolio[x].id
          /\ market # "retired"
          /\ slot <= EpochEnd \/ c = "spent"
       THEN [earned[s] EXCEPT ![c] = @ + 1] ELSE earned[s]]
  /\ Outside /\ UNCHANGED <<coin_vars, position, next_portfolio_id, market, archive>>

\* ClosePortfolio without the controller: the counters are lost.
ClosePortfolio(x) ==
  /\ portfolio[x].holder # "none"
  /\ portfolio' = [portfolio EXCEPT ![x] = NoPortfolio]
  /\ Outside /\ UNCHANGED <<coin_vars, position, next_portfolio_id, market, archive, earned>>

\* ... by somebody else's key, or by the controller: it archives no counters that
\* are all zero, and none of a market opened again under a retired key.
UnarchivedClose(x) ==
  /\ \/ portfolio[x].holder = "other"
     \/ market = "retired"
     \/ market = "resolved" /\ portfolio[x].counters = NoFlow
  /\ ClosePortfolio(x)

\* The market resolves; once all is out of it, the controller retires it
\* (close_market_and_reclaim).
NextPhase ==
  /\ \/ market = "live" /\ market' = "resolved"
     \/ /\ market = "resolved" /\ market' = "retired"
        /\ \A x \in Accounts : portfolio[x].holder # "owner"
  /\ Outside /\ UNCHANGED <<coin_vars, position, portfolio_vars, earned>>

\* The COIN.  Bounds: nothing before the freeze looks at it, and the vault is
\* funded before the mint is closed.
FundVault(n) ==
  /\ slot >= FreezeSlot
  /\ vault + n <= MintSupply
  /\ vault' = vault + n
  /\ Outside /\ UNCHANGED <<mintable, position, portfolio_vars, market, earned>>

RevokeMint ==
  /\ slot >= FreezeSlot
  /\ mintable /\ vault # 0
  /\ mintable' = FALSE
  /\ Outside /\ UNCHANGED <<vault, position, portfolio_vars, market, earned>>

RewardTime ==
  /\ slot + Stride <= MaxSlot
  /\ slot' = slot + Stride
  /\ UNCHANGED <<config_vars, stake, coin_vars, market_vars, earned>>

----------------------------------------------------------------------------
\* What only the owner of x does.
ByOwner(x) ==
  \/ Deposit(x) \/ Withdraw(x)
  \/ OpenPortfolio(x, "owner")
  \/ portfolio[x].holder = "owner" /\ ClosePortfolio(x)
  \/ \E cohort \in roster \cap FlowCohorts : \E c \in CountersOf(cohort) : Accrue(x, c)

\* What anybody does, or happens to x.
ByPublic(x) ==
  \/ TerminalReturn(x)
  \/ CleanUp(x)
  \/ OpenPortfolio(x, "other")
  \/ UnarchivedClose(x)

RewardNext ==
  \/ \E x \in roster \cap Accounts :
       \/ RegisterCapital(x)
       \/ \E cohort \in roster \cap FlowCohorts : RegisterPortfolio(x, cohort)
       \/ ByOwner(x)
       \/ ByPublic(x)
  \/ \E s \in Stakes : CrystallizeCapital(s) \/ CrystallizeFlow(s) \/ Claim(s)
  \/ Freeze
  \/ NextPhase
  \/ \E n \in Supplies \ {0} : FundVault(n)
  \/ RevokeMint
  \/ RewardTime

RewardSpec == RewardInit /\ [][RewardNext]_reward_vars

----------------------------------------------------------------------------
PointsIn(c) == [s \in Stakes |-> IF stake[s].cohort = c THEN stake[s].points ELSE 0]

\* The totals every share is a fraction of are the points of the stakes there
\* are, however often points were replaced, and frozen they stay that way
\* (crystallize, freeze).
TotalsMatchStakes ==
  \A c \in Cohorts :
    /\ points_total[c] = Total(PointsIn(c), Stakes)
    /\ frozen => frozen_total[c] = points_total[c]

Open == {s \in Stakes : Registered(s) /\ ~stake[s].claimed}

\* What s is paid if it is claimed now.
Due(s) == Total([points \in Rewarded(s) |-> Share(s, points)], Rewarded(s))

\* Shares are exact where the product of supply and points overflows, too.
SharesAreExact ==
  \A s \in Open : \A points \in Rewarded(s) : points > 0 =>
    LET total == frozen_total[stake[s].cohort]
        supply == CohortSupply(stake[s].cohort)
    IN  Share(s, points) * total <= supply * points /\ supply * points < (Share(s, points) + 1) * total

\* The vault never runs dry, whoever claims first: a cohort's open stakes are
\* together due no more than its supply, and all of them no more than there is;
\* and no stake is due less than its exact part (claim, points_to_amount).
RewardsAreCovered ==
  frozen =>
    LET due == [s \in Open |-> Due(s)]
    IN  /\ Total(due, Open) <= vault
        /\ \A c \in Cohorts : Total(due, {s \in Open : stake[s].cohort = c}) <= CohortSupply(c)
        /\ SharesAreExact

\* What s can have deserved at most: the longest time weight on the flow of its
\* portfolio between registration and the epoch's end, less what was won back
\* until now; or on the capital that never left since the last top-up.
Deserved(s) ==
  LET age == FloorLog2(EpochEnd - stake[s].start_slot)
  IN  CASE stake[s].cohort = "lp"      -> age * earned[s]["received"]
        [] stake[s].cohort = "trader"  -> age * Monus(earned[s]["loss"], earned[s]["spent"])
        [] stake[s].cohort = "funding" -> earned[s]["funding"]
        [] OTHER                       ->
             FloorLog2(Monus(EpochEnd, Later(stake[s].start_slot, position[s[1]].start_slot)))
               * CapitalAtRisk(s[1])

\* No stake is rewarded for more than it deserved: for no flow before or after,
\* for none that an archive and a live portfolio both count, for no loss that
\* was won back behind a closed portfolio, and for no tenure of late capital.
RewardsAreEarned ==
  \A s \in Open : \A points \in Rewarded(s) : points <= Deserved(s)

\* The owner gives up something of s: it moves its capital, trades on, closes the
\* portfolio before anybody archived its counters, or opened another one.
OwnerActs(s) == LET x == s[1] IN
  \/ position'[x] # position[x] /\ position'[x].returned = position[x].returned
  \/ /\ portfolio[x].holder = "owner" /\ portfolio[x].counters # NoFlow
     /\ portfolio'[x] # portfolio[x]
     /\ archive'[x] = archive[x] /\ market # "retired"
  \/ "owner" \in {portfolio[x].holder, portfolio'[x].holder}
     /\ portfolio'[x].id # stake[s].portfolio_id
     /\ portfolio[x].id # stake[s].portfolio_id

\* Once frozen, nobody but its owner lowers what a stake is rewarded for: nobody
\* by returning its capital, cleaning up its portfolio or taking its key,
\* retiring the market, claiming for others, or waiting.
OnlyOwnersForfeit ==
  [][frozen => \A s \in Open :
       stake'[s].claimed \/ OwnerActs(s)
       \/ \A points \in Rewarded(s) : points = 0 \/ \E kept \in Rewarded(s)' : kept >= points
    ]_reward_vars
=============================================================================
