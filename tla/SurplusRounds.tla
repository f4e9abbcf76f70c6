---------------------------- MODULE SurplusRounds ----------------------------
(***************************************************************************)
(* What a round of the auction takes out of the insurance, and where it     *)
(* goes (execute, reconfigure and set_economics of twap-program/src/lib.rs). *)
(* The surplus over the floor is split four ways: part is pulled, for the   *)
(* auction and as savings, the rest raises the floor; of the COIN the       *)
(* auction buys, part goes to a sink and the rest is burned.  Anybody may   *)
(* run rounds, so every share carries its fraction of an atom over to the   *)
(* next round.  Composed with the insurance pool's moves of InsuranceDomains. *)
(***************************************************************************)
EXTENDS InsuranceDomains

CONSTANTS
  Whole,       \* BPS_DENOMINATOR: a share of everything
  MaxFloor,    \* stands for u128::MAX, the floor that was never set
  MaxBought,   \* bound: COIN bought in a round
  DefaultBurn,               \* DEFAULT_SURPLUS_BUY_BURN_BPS
  Burns, Savings, Buybacks   \* bounds: the shares governance chooses from

ASSUME RoundsAssumption ==
  /\ Whole \in Nat \ {0}
  /\ MaxFloor \in Nat /\ MaxFloor > MaxInsurance
  /\ MaxBought \in Nat
  /\ ({DefaultBurn} \cup Burns \cup Savings \cup Buybacks) \subseteq 0 .. Whole

VARIABLES
  twap_holds,           \* the TWAP holds the insurance roles, not the pool
  reserved_floor,       \* config.reserved_floor
  surplus_buy_burn_bps, base_unit_savings_bps, buyback_bps,   \* shares, of Whole
  external_surplus_remainder_bps, auction_split_remainder_bps, buyback_remainder_bps,
  pull_due,             \* history: pulls that governance's shares made due, less
                        \* those made, in parts of an atom
  auction_due,          \* history: the same of the auction's part of the pulls,
                        \* since the shares were last set
  sink_due              \* history: the same of the sink's part of the COIN

shares  == <<surplus_buy_burn_bps, base_unit_savings_bps, buyback_bps>>
carries == <<external_surplus_remainder_bps, auction_split_remainder_bps,
             buyback_remainder_bps>>
dues    == <<pull_due, auction_due, sink_due>>

twap_vars  == <<twap_holds, reserved_floor, shares, carries, dues>>
round_vars == <<domain_vars, twap_vars>>

Insurance    == Sum2(remaining)
external_bps == surplus_buy_burn_bps + base_unit_savings_bps

\* balanced_insurance_domains
Balanced(total) == Split(total \div 2, total - total \div 2)

----------------------------------------------------------------------------
RoundsInit ==
  /\ DomainInit
  /\ twap_holds = FALSE
  /\ reserved_floor = MaxFloor
  /\ surplus_buy_burn_bps = DefaultBurn
  /\ base_unit_savings_bps = 0 /\ buyback_bps = 0
  /\ external_surplus_remainder_bps = 0
  /\ auction_split_remainder_bps = 0
  /\ buyback_remainder_bps = 0
  /\ pull_due = 0 /\ auction_due = 0 /\ sink_due = 0

\* Mutant: savings are not counted.
FitsTheSurplus_Alone(burn, savings) == burn <= Whole

\* The two pulls together never exceed the surplus.
FitsTheSurplus(burn, savings) == burn + savings <= Whole

\* reconfigure
Reconfigure(burn) ==
  /\ FitsTheSurplus(burn, base_unit_savings_bps)
  /\ surplus_buy_burn_bps' = burn
  /\ auction_split_remainder_bps' = 0
  /\ auction_due' = 0
  /\ UNCHANGED <<domain_vars, twap_holds, reserved_floor, base_unit_savings_bps,
                 buyback_bps, external_surplus_remainder_bps, buyback_remainder_bps,
                 pull_due, sink_due>>

\* set_economics
SetEconomics(savings, buyback) ==
  /\ FitsTheSurplus(surplus_buy_burn_bps, savings)
  /\ base_unit_savings_bps' = savings
  /\ buyback_bps' = buyback
  /\ auction_split_remainder_bps' = 0
  /\ auction_due' = 0
  /\ UNCHANGED <<domain_vars, twap_holds, reserved_floor, surplus_buy_burn_bps,
                 external_surplus_remainder_bps, buyback_remainder_bps,
                 pull_due, sink_due>>

\* set_reserved_floor: once set, the floor only rises, and never to what means unset.
SetReservedFloor(floor) ==
  /\ reserved_floor = MaxFloor \/ (floor >= reserved_floor /\ floor # MaxFloor)
  /\ reserved_floor' = floor
  /\ UNCHANGED <<domain_vars, twap_holds, shares, carries, dues>>

\* accept_from_subledger: the roles come with a floor, as Custody derives it
\* from what the pool owes.
Handoff(floor) ==
  /\ ~twap_holds
  /\ twap_holds' = TRUE
  /\ reserved_floor' = floor
  /\ UNCHANGED <<domain_vars, shares, carries, dues>>

\* return_to_subledger
Return ==
  /\ twap_holds
  /\ twap_holds' = FALSE
  /\ UNCHANGED <<domain_vars, reserved_floor, shares, carries, dues>>

\* donate_insurance: anybody may, while the TWAP holds the roles; which domain
\* the atoms end up in is Percolator's choice.
Donate(amount) ==
  /\ twap_holds
  /\ live
  /\ Insurance + amount <= MaxInsurance
  /\ \E long \in 0 .. amount :
       remaining' = Split(remaining.long + long, remaining.short + (amount - long))
  /\ before' = NoDeposit
  /\ UNCHANGED <<reserved, held_back, live, twap_vars>>

----------------------------------------------------------------------------
\* Execute pulls nothing while the asset is exposed.
Surplus(exposed) ==
  IF live /\ exposed THEN 0 ELSE Over(Insurance, reserved_floor)

\* Mutants: the fraction is dropped; each route is rounded on its own.
TotalPull_Floored(surplus) == (surplus * external_bps) \div Whole
TotalPull_PerRoute(surplus) ==
  (surplus * surplus_buy_burn_bps) \div Whole + (surplus * base_unit_savings_bps) \div Whole

\* What is pulled for both routes, and the fraction of an atom left over.
TotalPull(surplus) == (surplus * external_bps + external_surplus_remainder_bps) \div Whole
PullCarry(surplus) == (surplus * external_bps + external_surplus_remainder_bps) % Whole

\* Mutant: the fraction is dropped.
Burnable_Floored(total) ==
  IF external_bps = 0 THEN 0 ELSE (total * surplus_buy_burn_bps) \div external_bps

\* The auction's part of it; the rest is savings.
Burnable(total) ==
  IF external_bps = 0 THEN 0
  ELSE (total * surplus_buy_burn_bps + auction_split_remainder_bps) \div external_bps
BurnableCarry(total) ==
  IF external_bps = 0 THEN 0
  ELSE (total * surplus_buy_burn_bps + auction_split_remainder_bps) % external_bps

FloorAfter(surplus) == reserved_floor + (surplus - TotalPull(surplus))

\* A complete floor stands in the insurance, to be rebalanced.
HasPlan(exposed) == ~(live /\ exposed) /\ Insurance >= reserved_floor

NoPlan == [gross |-> 0, redeposit |-> Split(0, 0)]

\* Mutant: the insurance is left as the long-first withdrawal leaves it.
RoundTarget_LongFirst(surplus) ==
  WithdrawnLongFirst(remaining, Reachable, TotalPull(surplus))

\* The pull ends in the halves of the floor.
RoundTarget(surplus) == Balanced(FloorAfter(surplus))

RoundPlan(exposed) ==
  IF HasPlan(exposed) THEN Plan(remaining, Reachable, RoundTarget(Surplus(exposed)))
  ELSE NoPlan

\* No check fails in a round: the subtractions, the planner's conditions, and
\* what Percolator asks of a withdrawal and of a top-up.
RoundSucceeds(exposed) ==
  LET surplus == Surplus(exposed)
      total   == TotalPull(surplus)
      plan    == RoundPlan(exposed)
  IN  /\ total <= surplus
      /\ Burnable(total) <= total
      /\ HasPlan(exposed) =>
           PlanHolds(remaining, Reachable, RoundTarget(surplus), total, plan)
      /\ plan.gross # 0 => twap_holds
      /\ plan.redeposit # Split(0, 0) => live

\* Mutant: the fraction is dropped.
ToSink_Floored(bought) == (bought * buyback_bps) \div Whole

\* The sink's part of the COIN bought.
ToSink(bought) == (bought * buyback_bps + buyback_remainder_bps) \div Whole
SinkCarry(bought) == (bought * buyback_bps + buyback_remainder_bps) % Whole

\* execute: `bought` is what the auction then buys, `to_sink` whether there is a
\* sink whose time is not over.  (An account that became unusable has its part
\* burned, and the carry moves on all the same.)
Round(exposed, bought, to_sink) ==
  LET surplus == Surplus(exposed)
      total   == TotalPull(surplus)
      plan    == RoundPlan(exposed)
      left    == WithdrawnLongFirst(remaining, Reachable, plan.gross)
  IN  /\ RoundSucceeds(exposed)
      /\ remaining' = Split(left.long + plan.redeposit.long,
                            left.short + plan.redeposit.short)
      /\ reserved_floor' = FloorAfter(surplus)
      /\ external_surplus_remainder_bps' = PullCarry(surplus)
      /\ auction_split_remainder_bps' = BurnableCarry(total)
      /\ pull_due' = pull_due + surplus * external_bps
                       - Whole * (Insurance - Sum2(remaining'))
      /\ auction_due' = IF external_bps = 0 THEN 0
                        ELSE auction_due + total * surplus_buy_burn_bps
                               - external_bps * Burnable(total)
      /\ IF to_sink
         THEN /\ buyback_remainder_bps' = SinkCarry(bought)
              /\ sink_due' = sink_due + bought * buyback_bps - Whole * ToSink(bought)
         ELSE UNCHANGED <<buyback_remainder_bps, sink_due>>
      /\ before' = NoDeposit
      /\ UNCHANGED <<reserved, held_back, live, twap_holds, shares>>

----------------------------------------------------------------------------
Floors == (0 .. MaxInsurance) \cup {MaxFloor}

Governance ==
  \/ \E burn \in Burns : Reconfigure(burn)
  \/ \E savings \in Savings, buyback \in Buybacks : SetEconomics(savings, buyback)
  \/ \E floor \in Floors : SetReservedFloor(floor)

SomeRound ==
  \E exposed, to_sink \in BOOLEAN, bought \in 0 .. MaxBought :
    Round(exposed, bought, to_sink)

RoundsNext ==
  \/ Governance
  \/ \E floor \in 0 .. MaxInsurance : Handoff(floor)
  \/ Return
  \/ \E n \in 1 .. MaxInsurance : Donate(n)
  \/ SomeRound
  \/ ~twap_holds /\ PoolStep /\ UNCHANGED twap_vars
  \/ MarketStep /\ UNCHANGED twap_vars

RoundsSpec == RoundsInit /\ [][RoundsNext]_round_vars

----------------------------------------------------------------------------
\* Whatever governance's shares, the floor and the carries have become, a live
\* market's rounds do not fail over its insurance: neither a pull beyond the
\* surplus nor a floor that cannot be balanced "bricks" the auction
\* (execute, reconfigure).  And no exit out of the same domains is refused.
EveryMoveHasAPlan ==
  /\ EveryPayoutHasAPlan
  /\ live => RoundSucceeds(TRUE) /\ (twap_holds /\ Unreserved => RoundSucceeds(FALSE))

\* Over any number of rounds, however small their surplus and whatever governance
\* set in between, what left the insurance is governance's share of all the
\* surplus there was, short of less than an atom; so are the auction's part of it
\* and the sink's part of the COIN ("atom-sized cranks therefore cannot ratchet
\* either configured share into insurance", README.md:259; execute).
SharesArePaid ==
  /\ pull_due \in 0 .. Whole - 1
  /\ auction_due \in 0 .. Over(external_bps, 1)
  /\ sink_due \in 0 .. Whole - 1

\* No move of the pool or the TWAP shifts anybody's protection: what positions have
\* reserved of a domain stays, under a gross withdrawal and what is topped up
\* again; unreserved domains of a live market tilt no further than they did, but for
\* the odd atom; and a deposit into balanced domains that leaves again at once has
\* moved no atom at all, so neither deposits and exits nor rounds, however often,
\* move protection to one side of the market (insurance_withdrawal_plan,
\* plan_insurance_withdrawal_to_domains, execute).  Only the market and donors do.
MovesAreNeutral ==
  [][/\ (\E d \in Domains : remaining'[d] < reserved[d]) => MarketStep
     /\ live /\ Unreserved /\ Skew(remaining') > Greater(Skew(remaining), 1)
          => MarketStep \/ \E n \in 1 .. MaxInsurance : Donate(n)
     /\ (/\ live /\ Unreserved
         /\ before.amount > 0
         /\ before.remaining.short - before.remaining.long \in {0, 1}
         /\ PayOut(before.amount, before.amount))
          => remaining' = before.remaining]_round_vars
=============================================================================
