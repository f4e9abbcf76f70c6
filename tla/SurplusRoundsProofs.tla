------------------------- MODULE SurplusRoundsProofs -------------------------
(***************************************************************************)
(* Proofs about SurplusRounds: amounts and carries keep their types, every   *)
(* payout and every round has a plan, every route gets its share, and no     *)
(* move of the pool or the TWAP shifts anybody's protection.                *)
(***************************************************************************)
EXTENDS SurplusRounds, TLAPS

Amounts2 == [long : Nat, short : Nat]

\* Amounts are natural, the shares fit into a whole, and what is carried over is
\* less than an atom.
RoundsTypeOK ==
  /\ remaining \in Amounts2 /\ reserved \in Amounts2 /\ held_back \in Nat
  /\ live \in BOOLEAN /\ twap_holds \in BOOLEAN
  /\ before \in [remaining : Amounts2, amount : Nat]
  /\ reserved_floor \in Nat
  /\ surplus_buy_burn_bps \in 0 .. Whole
  /\ base_unit_savings_bps \in 0 .. Whole
  /\ buyback_bps \in 0 .. Whole
  /\ external_bps <= Whole
  /\ external_surplus_remainder_bps \in 0 .. Whole - 1
  /\ auction_split_remainder_bps \in 0 .. Over(external_bps, 1)
  /\ buyback_remainder_bps \in 0 .. Whole - 1

\* What is due is what is carried over.
DuesAreCarried ==
  /\ pull_due = external_surplus_remainder_bps
  /\ auction_due = auction_split_remainder_bps
  /\ sink_due = buyback_remainder_bps

RoundsInv == RoundsTypeOK /\ DuesAreCarried

----------------------------------------------------------------------------
\* Division with remainder.
LEMMA Division ==
  ASSUME NEW x \in Nat, NEW w \in Nat, w > 0
  PROVE  /\ x \div w \in Nat
         /\ x % w \in 0 .. w - 1
         /\ x = w * (x \div w) + (x % w)
  OBVIOUS

\* A fraction carried over never makes a share exceed what it is a share of.
LEMMA SharesFit ==
  ASSUME NEW n \in Nat, NEW share \in Nat, NEW carry \in Nat, NEW w \in Nat,
         w > 0, share <= w, carry < w
  PROVE  /\ (n * share + carry) \div w \in Nat
         /\ (n * share + carry) \div w <= n
         /\ (n * share + carry) % w \in 0 .. w - 1
         /\ w * ((n * share + carry) \div w) + ((n * share + carry) % w)
              = n * share + carry
<1> DEFINE x == n * share + carry
           q == x \div w
<1>1. n * share \in Nat
  OBVIOUS
<1>2. x \in Nat
  BY <1>1
<1>3. q \in Nat /\ x % w \in 0 .. w - 1 /\ x = w * q + (x % w)
  BY <1>2, Division
<1>4. n * share <= n * w
  OBVIOUS
<1>5. ASSUME q >= n + 1 PROVE FALSE
  <2>1. w * q >= w * (n + 1)
    BY <1>3, <1>5
  <2>2. w * (n + 1) = n * w + w
    OBVIOUS
  <2> HIDE DEF q
  <2> QED
    BY <1>1, <1>3, <1>4, <2>1, <2>2
<1> QED
  BY <1>3, <1>5

\* What a withdrawal can reach of the domains.
LEMMA ReachIsFree ==
  ASSUME RoundsTypeOK
  PROVE  /\ Reachable \in Amounts2
         /\ Free \in Amounts2
         /\ Reachable.long <= Free.long /\ Reachable.short <= Free.short
         /\ Free.long <= remaining.long /\ Free.short <= remaining.short
  BY DEF RoundsTypeOK, Amounts2, Reachable, Capacity, Free, Available, Over, Lesser,
         Greater, Split, Sum2

\* The planner's plan for a target: its amounts are integers, and carried out
\* it moves what it pays out and leaves natural amounts.
LEMMA PlansMoveTheirPayout ==
  ASSUME RoundsTypeOK, NEW target \in [long : Int, short : Int], NEW payout \in Int,
         PlanHolds(remaining, Reachable, target, payout,
                   Plan(remaining, Reachable, target))
  PROVE  LET plan == Plan(remaining, Reachable, target)
             left == WithdrawnLongFirst(remaining, Reachable, plan.gross)
             end  == Split(left.long + plan.redeposit.long,
                           left.short + plan.redeposit.short)
         IN  end \in Amounts2 /\ Sum2(end) = Sum2(remaining) - payout
<1> DEFINE plan == Plan(remaining, Reachable, target)
           left == WithdrawnLongFirst(remaining, Reachable, plan.gross)
<1>1. Reachable \in Amounts2 /\ remaining \in Amounts2
  BY ReachIsFree DEF RoundsTypeOK
<1>2. Reachable.long <= remaining.long /\ Reachable.short <= remaining.short
  BY ReachIsFree DEF RoundsTypeOK, Amounts2
<1>3. /\ plan.gross \in Int
      /\ plan.redeposit \in [long : Int, short : Int]
  BY <1>1 DEF Plan, Split, Amounts2
<1>4. /\ plan.gross \in 0 .. Sum2(Reachable)
      /\ plan.redeposit.long >= 0 /\ plan.redeposit.short >= 0
      /\ plan.gross - Sum2(plan.redeposit) = payout
  BY DEF PlanHolds
<1> HIDE DEF plan
<1>5. left \in Amounts2 /\ Sum2(left) = Sum2(remaining) - plan.gross
  BY <1>1, <1>2, <1>3, <1>4 DEF WithdrawnLongFirst, Split, Sum2, Lesser, Amounts2
<1> HIDE DEF left
<1>6. /\ Split(left.long + plan.redeposit.long, left.short + plan.redeposit.short) \in Amounts2
      /\ Sum2(Split(left.long + plan.redeposit.long, left.short + plan.redeposit.short))
           = Sum2(remaining) - payout
  BY <1>1, <1>3, <1>4, <1>5 DEF Split, Sum2, Amounts2
<1> QED
  BY <1>6 DEF plan, left

\* A target that gives up no more of a domain than can be reached has a plan.
LEMMA TargetsHavePlans ==
  ASSUME RoundsTypeOK, NEW target \in [long : Int, short : Int], NEW payout \in Nat,
         Sum2(target) = Sum2(remaining) - payout,
         payout <= Sum2(Reachable),
         target.long >= remaining.long - Reachable.long,
         target.short >= remaining.short - Reachable.short
  PROVE  PlanHolds(remaining, Reachable, target, payout,
                   Plan(remaining, Reachable, target))
<1>1. Reachable \in Amounts2 /\ remaining \in Amounts2
  BY ReachIsFree DEF RoundsTypeOK
<1>2. Reachable.long <= remaining.long /\ Reachable.short <= remaining.short
  BY ReachIsFree DEF RoundsTypeOK, Amounts2
<1> QED
  BY <1>1, <1>2 DEF PlanHolds, Plan, WithdrawnLongFirst, Split, Sum2, Lesser, Amounts2

----------------------------------------------------------------------------
\* The split of a withdrawal over the domains is complete.
LEMMA WithdrawSplitAddsUp ==
  ASSUME NEW d \in Amounts2, NEW amount \in Nat
  PROVE  WithdrawSplit(d, amount) \in Amounts2 /\ Sum2(WithdrawSplit(d, amount)) = amount
  BY DEF WithdrawSplit, Over, Lesser, Greater, Split, Sum2, Amounts2

LEMMA DepositSplitAddsUp ==
  ASSUME NEW d \in Amounts2, NEW amount \in Nat
  PROVE  DepositSplit(d, amount) \in Amounts2 /\ Sum2(DepositSplit(d, amount)) = amount
  BY DEF DepositSplit, Over, Lesser, Greater, Split, Sum2, Amounts2

\* The ideal debit never divides by zero.
LEMMA IdealIsExact ==
  ASSUME NEW d \in Amounts2, NEW principal \in Amounts2, NEW payout \in Nat,
         0 < Sum2(principal), payout <= Sum2(d)
  PROVE  IdealLongDebit(d, payout, principal) \in Int
<1> DEFINE owed     == Sum2(principal)
           residual == Split(Over(d.long, principal.long), Over(d.short, principal.short))
<1>1. owed \in Nat /\ owed > 0 /\ principal.long \in Nat
  BY DEF Sum2, Amounts2
<1>2. CASE payout <= owed
  <2>1. payout * principal.long \in Nat
    BY <1>1
  <2>2. (payout * principal.long) \div owed \in Int
    BY <1>1, <2>1, Division
  <2> QED
    BY <1>2, <2>2 DEF IdealLongDebit
<1>3. CASE ~(payout <= owed)
  <2>1. residual.long \in Nat /\ Sum2(residual) \in Nat /\ Sum2(residual) > 0
    BY <1>3 DEF Sum2, Split, Over, Greater, Amounts2
  <2>2. (payout - owed) * residual.long \in Nat
    BY <1>1, <1>3, <2>1
  <2>3. ((payout - owed) * residual.long) \div Sum2(residual) \in Int
    BY <2>1, <2>2, Division
  <2> QED
    BY <1>1, <1>3, <2>3 DEF IdealLongDebit
<1> QED
  BY <1>2, <1>3

\* Where a payout that can be reached should leave the domains can be reached.
LEMMA TargetsAreReachable ==
  ASSUME RoundsTypeOK, NEW payout \in Nat, NEW principal \in 1 .. payout,
         payout <= Sum2(Reachable)
  PROVE  /\ Target(payout, principal) \in [long : Int, short : Int]
         /\ Sum2(Target(payout, principal)) = Sum2(remaining) - payout
         /\ Target(payout, principal).long >= remaining.long - Reachable.long
         /\ Target(payout, principal).short >= remaining.short - Reachable.short
<1> DEFINE parts == WithdrawSplit(remaining, principal)
           ideal == IdealLongDebit(remaining, payout, parts)
           long  == LongDebit(ideal, payout, Reachable)
<1>1. Reachable \in Amounts2 /\ remaining \in Amounts2
  BY ReachIsFree DEF RoundsTypeOK
<1>2. Reachable.long <= remaining.long /\ Reachable.short <= remaining.short
  BY ReachIsFree DEF RoundsTypeOK, Amounts2
<1>3. parts \in Amounts2 /\ Sum2(parts) = principal
  BY <1>1, WithdrawSplitAddsUp
<1>4. payout <= Sum2(remaining)
  BY <1>1, <1>2 DEF Sum2, Amounts2
<1>5. ideal \in Int
  BY <1>1, <1>3, <1>4, IdealIsExact
<1> HIDE DEF ideal
<1>6. /\ long \in Int
      /\ long <= Reachable.long
      /\ payout - long <= Reachable.short
  BY <1>1, <1>5 DEF LongDebit, Over, Lesser, Greater, Sum2, Amounts2
<1> HIDE DEF long
<1>7. Target(payout, principal) = Split(remaining.long - long, remaining.short - (payout - long))
  BY DEF Target, long, ideal
<1> QED
  BY <1>1, <1>6, <1>7 DEF Split, Sum2, Amounts2

LEMMA PayoutsHavePlans ==
  ASSUME RoundsTypeOK
  PROVE  EveryPayoutHasAPlan
<1>1. Sum2(Reachable) \in Nat
  BY ReachIsFree DEF Sum2, Amounts2
<1> SUFFICES ASSUME NEW payout \in 1 .. Sum2(Reachable), NEW principal \in 1 .. payout
             PROVE  PlanHolds(remaining, Reachable, Target(payout, principal), payout,
                              Plan(remaining, Reachable, Target(payout, principal)))
  BY DEF EveryPayoutHasAPlan
<1> QED
  BY <1>1, TargetsAreReachable, TargetsHavePlans

----------------------------------------------------------------------------
\* What a round takes of its surplus, and the auction of that.
LEMMA PullsFit ==
  ASSUME RoundsTypeOK, NEW surplus \in Nat
  PROVE  /\ TotalPull(surplus) \in Nat
         /\ TotalPull(surplus) <= surplus
         /\ PullCarry(surplus) \in 0 .. Whole - 1
         /\ Whole * TotalPull(surplus) + PullCarry(surplus)
              = surplus * external_bps + external_surplus_remainder_bps
<1>1. /\ Whole \in Nat /\ Whole > 0
      /\ external_bps \in Nat /\ external_bps <= Whole
      /\ external_surplus_remainder_bps \in Nat /\ external_surplus_remainder_bps < Whole
  BY RoundsAssumption DEF RoundsTypeOK, external_bps
<1> QED
  BY <1>1, SharesFit DEF TotalPull, PullCarry

LEMMA BurnsFit ==
  ASSUME RoundsTypeOK, NEW total \in Nat
  PROVE  /\ Burnable(total) \in Nat
         /\ Burnable(total) <= total
         /\ BurnableCarry(total) \in 0 .. Over(external_bps, 1)
         /\ external_bps # 0 =>
              external_bps * Burnable(total) + BurnableCarry(total)
                = total * surplus_buy_burn_bps + auction_split_remainder_bps
<1>1. /\ external_bps \in Nat
      /\ surplus_buy_burn_bps \in Nat /\ surplus_buy_burn_bps <= external_bps
      /\ auction_split_remainder_bps \in 0 .. Over(external_bps, 1)
  BY RoundsAssumption DEF RoundsTypeOK, external_bps
<1>2. CASE external_bps = 0
  BY <1>2 DEF Burnable, BurnableCarry, Over, Greater
<1>3. CASE external_bps # 0
  <2>1. /\ Over(external_bps, 1) = external_bps - 1
        /\ auction_split_remainder_bps \in Nat
        /\ auction_split_remainder_bps < external_bps
    BY <1>1, <1>3 DEF Over, Greater
  <2> QED
    BY <1>1, <1>3, <2>1, SharesFit DEF Burnable, BurnableCarry
<1> QED
  BY <1>2, <1>3

LEMMA SinksFit ==
  ASSUME RoundsTypeOK, NEW bought \in Nat
  PROVE  /\ ToSink(bought) \in Nat
         /\ SinkCarry(bought) \in 0 .. Whole - 1
         /\ Whole * ToSink(bought) + SinkCarry(bought)
              = bought * buyback_bps + buyback_remainder_bps
<1>1. /\ Whole \in Nat /\ Whole > 0
      /\ buyback_bps \in Nat /\ buyback_bps <= Whole
      /\ buyback_remainder_bps \in Nat /\ buyback_remainder_bps < Whole
  BY RoundsAssumption DEF RoundsTypeOK
<1> QED
  BY <1>1, SharesFit DEF ToSink, SinkCarry

LEMMA SurplusIsThere ==
  ASSUME RoundsTypeOK, NEW exposed \in BOOLEAN
  PROVE  /\ Insurance \in Nat
         /\ Surplus(exposed) \in Nat
         /\ FloorAfter(Surplus(exposed)) \in Nat
         /\ HasPlan(exposed) =>
              Surplus(exposed) = Insurance - reserved_floor
<1>1. Insurance \in Nat /\ reserved_floor \in Nat
  BY DEF RoundsTypeOK, Insurance, Sum2, Amounts2
<1>2. Surplus(exposed) \in Nat
  BY <1>1 DEF Surplus, Over, Greater
<1>3. FloorAfter(Surplus(exposed)) \in Nat
  BY <1>1, <1>2, PullsFit DEF FloorAfter
<1>4. HasPlan(exposed) => Surplus(exposed) = Insurance - reserved_floor
  BY <1>1 DEF HasPlan, Surplus, Over, Greater
<1> QED
  BY <1>1, <1>2, <1>3, <1>4

LEMMA BalancedAddsUp ==
  ASSUME NEW total \in Nat
  PROVE  Balanced(total) \in Amounts2 /\ Sum2(Balanced(total)) = total
  BY DEF Balanced, Split, Sum2, Amounts2

LEMMA RoundsHavePlans ==
  ASSUME RoundsTypeOK, live
  PROVE  /\ RoundSucceeds(TRUE)
         /\ twap_holds /\ Unreserved => RoundSucceeds(FALSE)
<1>1. ASSUME NEW exposed \in BOOLEAN
      PROVE  /\ TotalPull(Surplus(exposed)) \in Nat
             /\ TotalPull(Surplus(exposed)) <= Surplus(exposed)
             /\ Burnable(TotalPull(Surplus(exposed))) <= TotalPull(Surplus(exposed))
  BY SurplusIsThere, PullsFit, BurnsFit
<1>2. RoundSucceeds(TRUE)
  BY <1>1 DEF RoundSucceeds, HasPlan, RoundPlan, NoPlan
<1>3. ASSUME twap_holds, Unreserved PROVE RoundSucceeds(FALSE)
  <2> DEFINE surplus == Surplus(FALSE)
             total   == TotalPull(surplus)
             target  == RoundTarget(surplus)
  <2>1. /\ total \in Nat /\ total <= surplus
        /\ Burnable(total) <= total
    BY <1>1
  <2>2. /\ Insurance \in Nat /\ reserved_floor \in Nat /\ surplus \in Nat
        /\ HasPlan(FALSE) => surplus = Insurance - reserved_floor
    BY SurplusIsThere DEF RoundsTypeOK
  <2>3. FloorAfter(surplus) = reserved_floor + (surplus - total)
    BY DEF FloorAfter
  <2>4. RoundPlan(FALSE) =
          IF HasPlan(FALSE) THEN Plan(remaining, Reachable, target) ELSE NoPlan
    BY DEF RoundPlan
  <2>5. target = Balanced(FloorAfter(surplus))
    BY DEF RoundTarget
  <2> SUFFICES /\ total <= surplus
               /\ Burnable(total) <= total
               /\ HasPlan(FALSE) =>
                    PlanHolds(remaining, Reachable, target, total, RoundPlan(FALSE))
    BY <1>3 DEF RoundSucceeds
  <2> HIDE DEF surplus, total, target
  <2>6. Reachable = remaining /\ remaining \in Amounts2
    BY <1>3 DEF RoundsTypeOK, Amounts2, Unreserved, Reachable, Capacity, Free, Available,
                Over, Lesser, Greater, Split, Sum2
  <2>7. ASSUME HasPlan(FALSE)
        PROVE  PlanHolds(remaining, Reachable, target, total,
                         Plan(remaining, Reachable, target))
    <3>1. FloorAfter(surplus) = Insurance - total /\ FloorAfter(surplus) \in Nat
      BY <2>1, <2>2, <2>3, <2>7
    <3>2. target \in Amounts2 /\ Sum2(target) = Sum2(remaining) - total
      BY <2>5, <3>1, BalancedAddsUp DEF Insurance
    <3>3. total <= Sum2(Reachable)
      BY <2>1, <2>2, <2>6, <2>7 DEF Insurance
    <3>4. /\ target \in [long : Int, short : Int]
          /\ target.long >= remaining.long - Reachable.long
          /\ target.short >= remaining.short - Reachable.short
      BY <2>6, <3>2 DEF Amounts2
    <3> QED
      BY <2>1, <3>2, <3>3, <3>4, TargetsHavePlans
  <2> QED
    BY <2>1, <2>4, <2>7
<1> QED
  BY <1>2, <1>3

----------------------------------------------------------------------------
\* A gross withdrawal of what can be reached leaves natural amounts.
LEMMA WithdrawalsAddUp ==
  ASSUME RoundsTypeOK, NEW gross \in 0 .. Sum2(Reachable)
  PROVE  /\ WithdrawnLongFirst(remaining, Reachable, gross) \in Amounts2
         /\ Sum2(WithdrawnLongFirst(remaining, Reachable, gross)) = Sum2(remaining) - gross
<1>1. Reachable \in Amounts2 /\ remaining \in Amounts2
  BY ReachIsFree DEF RoundsTypeOK
<1>2. Reachable.long <= remaining.long /\ Reachable.short <= remaining.short
  BY ReachIsFree DEF RoundsTypeOK, Amounts2
<1> QED
  BY <1>1, <1>2 DEF WithdrawnLongFirst, Split, Sum2, Lesser, Amounts2

\* A round takes its pull out of the insurance, planned or not.
LEMMA RoundsMoveTheirPull ==
  ASSUME RoundsTypeOK, NEW exposed \in BOOLEAN, NEW bought \in Nat, NEW to_sink \in BOOLEAN,
         Round(exposed, bought, to_sink)
  PROVE  /\ remaining' \in Amounts2
         /\ Insurance - Sum2(remaining') = TotalPull(Surplus(exposed))
<1> DEFINE total  == TotalPull(Surplus(exposed))
           target == RoundTarget(Surplus(exposed))
           plan   == RoundPlan(exposed)
           left   == WithdrawnLongFirst(remaining, Reachable, plan.gross)
<1>1. remaining' = Split(left.long + plan.redeposit.long, left.short + plan.redeposit.short)
  BY DEF Round
<1>2. total \in Nat /\ total <= Surplus(exposed) /\ Surplus(exposed) \in Nat
  BY SurplusIsThere, PullsFit
<1>3. CASE HasPlan(exposed)
  <2>1. plan = Plan(remaining, Reachable, target)
    BY <1>3 DEF RoundPlan
  <2>2. PlanHolds(remaining, Reachable, target, total, plan)
    BY <1>3 DEF Round, RoundSucceeds
  <2>3. target \in [long : Int, short : Int]
    BY SurplusIsThere, BalancedAddsUp DEF RoundTarget, Amounts2
  <2>4. total \in Int
    BY <1>2
  <2> HIDE DEF total, target
  <2>5. remaining' \in Amounts2 /\ Sum2(remaining') = Sum2(remaining) - total
    BY <1>1, <2>1, <2>2, <2>3, <2>4, PlansMoveTheirPayout
  <2>6. Sum2(remaining) \in Int
    BY DEF RoundsTypeOK, Amounts2, Sum2
  <2>7. Insurance - Sum2(remaining') = total
    BY <2>4, <2>5, <2>6 DEF Insurance
  <2> QED
    BY <2>5, <2>7 DEF total
<1>4. CASE ~HasPlan(exposed)
  <2>1. plan = NoPlan
    BY <1>4 DEF RoundPlan
  <2>2. 0 \in 0 .. Sum2(Reachable)
    BY ReachIsFree DEF Sum2, Amounts2
  <2>3. left \in Amounts2 /\ Sum2(left) = Sum2(remaining) - 0
    BY <2>1, <2>2, WithdrawalsAddUp DEF NoPlan
  <2>4. remaining' = Split(left.long + 0, left.short + 0)
    BY <1>1, <2>1 DEF NoPlan, Split
  <2> HIDE DEF left
  <2>5. remaining' \in Amounts2 /\ Sum2(remaining') = Sum2(remaining)
    BY <2>3, <2>4 DEF Split, Sum2, Amounts2, RoundsTypeOK
  <2>6. Surplus(exposed) = 0
    BY <1>4 DEF HasPlan, Surplus, Over, Greater, RoundsTypeOK, Insurance, Sum2, Amounts2
  <2>7. total = 0
    BY <1>2, <2>6
  <2>8. Sum2(remaining) \in Int
    BY DEF RoundsTypeOK, Amounts2, Sum2
  <2> QED
    BY <2>5, <2>7, <2>8 DEF Insurance
<1> QED
  BY <1>3, <1>4

LEMMA RoundKeepsInv ==
  ASSUME RoundsInv, NEW exposed \in BOOLEAN, NEW bought \in Nat, NEW to_sink \in BOOLEAN,
         Round(exposed, bought, to_sink)
  PROVE  RoundsInv'
<1> DEFINE surplus == Surplus(exposed)
           total   == TotalPull(surplus)
<1> USE DEF RoundsInv
<1>1. remaining' \in Amounts2 /\ Insurance - Sum2(remaining') = total
  BY RoundsMoveTheirPull
<1>2. surplus \in Nat /\ FloorAfter(surplus) \in Nat
  BY SurplusIsThere
<1>3. /\ total \in Nat
      /\ PullCarry(surplus) \in 0 .. Whole - 1
      /\ Whole * total + PullCarry(surplus)
           = surplus * external_bps + external_surplus_remainder_bps
  BY <1>2, PullsFit
<1>4. /\ Burnable(total) \in Nat
      /\ BurnableCarry(total) \in 0 .. Over(external_bps, 1)
      /\ external_bps # 0 =>
           external_bps * Burnable(total) + BurnableCarry(total)
             = total * surplus_buy_burn_bps + auction_split_remainder_bps
  BY <1>3, BurnsFit
<1>5. /\ ToSink(bought) \in Nat
      /\ SinkCarry(bought) \in 0 .. Whole - 1
      /\ Whole * ToSink(bought) + SinkCarry(bought)
           = bought * buyback_bps + buyback_remainder_bps
  BY SinksFit
<1>6. /\ reserved_floor' = FloorAfter(surplus)
      /\ external_surplus_remainder_bps' = PullCarry(surplus)
      /\ auction_split_remainder_bps' = BurnableCarry(total)
      /\ pull_due' = pull_due + surplus * external_bps - Whole * (Insurance - Sum2(remaining'))
      /\ auction_due' = IF external_bps = 0 THEN 0
                        ELSE auction_due + total * surplus_buy_burn_bps
                               - external_bps * Burnable(total)
      /\ IF to_sink
         THEN /\ buyback_remainder_bps' = SinkCarry(bought)
              /\ sink_due' = sink_due + bought * buyback_bps - Whole * ToSink(bought)
         ELSE UNCHANGED <<buyback_remainder_bps, sink_due>>
      /\ before' = NoDeposit
      /\ UNCHANGED <<reserved, held_back, live, twap_holds, shares>>
  BY DEF Round
<1>7. /\ external_bps' = external_bps
      /\ external_bps \in Nat
      /\ UNCHANGED <<surplus_buy_burn_bps, base_unit_savings_bps, buyback_bps>>
  BY <1>6, RoundsAssumption DEF external_bps, shares, RoundsTypeOK
<1>9. external_bps = 0 => BurnableCarry(total) = 0
  BY DEF BurnableCarry
<1>10. /\ Whole \in Nat
       /\ surplus_buy_burn_bps \in Nat /\ buyback_bps \in Nat
       /\ external_surplus_remainder_bps \in Nat /\ auction_split_remainder_bps \in Nat
       /\ buyback_remainder_bps \in Nat
       /\ pull_due = external_surplus_remainder_bps
       /\ auction_due = auction_split_remainder_bps
       /\ sink_due = buyback_remainder_bps
       /\ buyback_remainder_bps \in 0 .. Whole - 1
  BY <1>7, RoundsAssumption DEF DuesAreCarried, RoundsTypeOK, Over, Greater
<1> HIDE DEF surplus, total
<1>11. pull_due' = external_surplus_remainder_bps'
  <2>1. pull_due' = external_surplus_remainder_bps + surplus * external_bps - Whole * total
    BY <1>1, <1>6, <1>10
  <2>2. surplus * external_bps \in Int /\ Whole * total \in Int
    BY <1>2, <1>3, <1>7, <1>10
  <2> QED
    BY <1>3, <1>6, <1>10, <2>1, <2>2
<1>12. auction_due' = auction_split_remainder_bps'
  <2>1. total * surplus_buy_burn_bps \in Int /\ external_bps * Burnable(total) \in Int
    BY <1>3, <1>4, <1>7, <1>10
  <2>2. BurnableCarry(total) \in Int
    BY <1>4, <1>7 DEF Over, Greater
  <2> QED
    BY <1>4, <1>6, <1>9, <1>10, <2>1, <2>2
<1>13. sink_due' = buyback_remainder_bps' /\ buyback_remainder_bps' \in 0 .. Whole - 1
  <2>1. bought * buyback_bps \in Int /\ Whole * ToSink(bought) \in Int
    BY <1>5, <1>10
  <2> QED
    BY <1>5, <1>6, <1>10, <2>1
<1>14. before' \in [remaining : Amounts2, amount : Nat]
  BY <1>6 DEF NoDeposit, Split, Amounts2
<1>15. auction_split_remainder_bps' \in 0 .. Over(external_bps, 1)'
  BY <1>4, <1>6, <1>7 DEF Over, Greater
<1>16. RoundsTypeOK'
  BY <1>1, <1>2, <1>3, <1>6, <1>7, <1>13, <1>14, <1>15 DEF RoundsTypeOK
<1> QED
  BY <1>11, <1>12, <1>13, <1>16 DEF DuesAreCarried

----------------------------------------------------------------------------
LEMMA InitHasInv ==
  RoundsInit => RoundsInv
<1> SUFFICES ASSUME RoundsInit PROVE RoundsInv
  OBVIOUS
<1>1. /\ Whole \in Nat /\ Whole > 0
      /\ DefaultBurn \in 0 .. Whole
      /\ MaxFloor \in Nat
  BY RoundsAssumption
<1>2. Split(0, 0) \in Amounts2 /\ NoDeposit \in [remaining : Amounts2, amount : Nat]
  BY DEF NoDeposit, Split, Amounts2
<1>3. external_bps = DefaultBurn
  BY <1>1 DEF RoundsInit, external_bps
<1>4. 0 \in 0 .. Over(external_bps, 1)
  BY <1>1, <1>3 DEF Over, Greater
<1>5. 0 \in 0 .. Whole - 1 /\ 0 \in 0 .. Whole /\ external_bps <= Whole
  BY <1>1, <1>3
<1>6. /\ remaining \in Amounts2 /\ reserved \in Amounts2 /\ held_back \in Nat
      /\ live \in BOOLEAN /\ before \in [remaining : Amounts2, amount : Nat]
  BY <1>2 DEF RoundsInit, DomainInit
<1>7. RoundsTypeOK
  BY <1>1, <1>4, <1>5, <1>6 DEF RoundsInit, RoundsTypeOK
<1> QED
  BY <1>7 DEF RoundsInit, RoundsInv, DuesAreCarried

LEMMA GovernanceKeepsInv ==
  ASSUME RoundsInv, Governance
  PROVE  RoundsInv'
<1> USE DEF RoundsInv
<1>1. CASE \E burn \in Burns : Reconfigure(burn)
  BY <1>1, RoundsAssumption
  DEF Reconfigure, FitsTheSurplus, RoundsTypeOK, DuesAreCarried, domain_vars,
      external_bps, Over, Greater
<1>2. CASE \E savings \in Savings, buyback \in Buybacks : SetEconomics(savings, buyback)
  BY <1>2, RoundsAssumption
  DEF SetEconomics, FitsTheSurplus, RoundsTypeOK, DuesAreCarried, domain_vars,
      external_bps, Over, Greater
<1>3. CASE \E floor \in Floors : SetReservedFloor(floor)
  BY <1>3, RoundsAssumption, DomainAssumption
  DEF SetReservedFloor, Floors, RoundsTypeOK, DuesAreCarried, domain_vars, shares,
      carries, dues, external_bps, Over
<1> QED
  BY <1>1, <1>2, <1>3 DEF Governance

LEMMA RolesKeepInv ==
  ASSUME RoundsInv, (\E floor \in 0 .. MaxInsurance : Handoff(floor)) \/ Return
  PROVE  RoundsInv'
<1> USE DEF RoundsInv
<1>1. /\ UNCHANGED domain_vars /\ UNCHANGED shares
      /\ UNCHANGED carries /\ UNCHANGED dues
  BY DEF Handoff, Return
<1>2. twap_holds' \in BOOLEAN /\ reserved_floor' \in Nat
  <2>1. CASE Return
    BY <2>1 DEF Return, RoundsTypeOK
  <2>2. CASE \E floor \in 0 .. MaxInsurance : Handoff(floor)
    <3>1. PICK floor \in 0 .. MaxInsurance : Handoff(floor)
      BY <2>2
    <3>2. twap_holds' = TRUE /\ reserved_floor' = floor
      BY <3>1 DEF Handoff
    <3> QED
      BY <3>2, DomainAssumption
  <2> QED
    BY <2>1, <2>2
<1>3. external_bps' = external_bps
  BY <1>1 DEF shares, external_bps
<1>4. Over(external_bps, 1)' = Over(external_bps, 1)
  BY <1>3 DEF Over
<1>5. RoundsTypeOK'
  BY <1>1, <1>2, <1>3, <1>4 DEF RoundsTypeOK, domain_vars, shares, carries
<1> QED
  BY <1>1, <1>5 DEF DuesAreCarried, carries, dues

\* A move of the domains alone keeps the invariant if it leaves natural amounts.
LEMMA DomainMovesKeepInv ==
  ASSUME RoundsInv, UNCHANGED twap_vars,
         remaining' \in Amounts2, reserved' \in Amounts2, held_back' \in Nat,
         live' \in BOOLEAN, before' \in [remaining : Amounts2, amount : Nat]
  PROVE  RoundsInv'
  BY DEF RoundsInv, RoundsTypeOK, DuesAreCarried, twap_vars, shares, carries, dues,
         external_bps, Over

LEMMA DonationsKeepInv ==
  ASSUME RoundsInv, NEW n \in 1 .. MaxInsurance, Donate(n)
  PROVE  RoundsInv'
<1>1. PICK long \in 0 .. n :
        remaining' = Split(remaining.long + long, remaining.short + (n - long))
  BY DEF Donate
<1>2. remaining' \in Amounts2
  BY <1>1 DEF RoundsInv, RoundsTypeOK, Amounts2, Split
<1>3. before' \in [remaining : Amounts2, amount : Nat]
  BY DEF Donate, NoDeposit, Split, Amounts2
<1> QED
  BY <1>2, <1>3, DomainMovesKeepInv DEF Donate, RoundsInv, RoundsTypeOK

LEMMA PoolStepKeepsInv ==
  ASSUME RoundsInv, PoolStep, UNCHANGED twap_vars
  PROVE  RoundsInv'
<1>1. RoundsTypeOK
  BY DEF RoundsInv
<1>2. /\ reserved \in Amounts2 /\ held_back \in Nat /\ live \in BOOLEAN
      /\ remaining \in Amounts2
      /\ NoDeposit \in [remaining : Amounts2, amount : Nat]
  BY <1>1 DEF RoundsTypeOK, NoDeposit, Split, Amounts2
<1>3. PICK n \in 1 .. MaxInsurance :
        TopUp(n) \/ PayOutResolved(n) \/ \E principal \in 1 .. n : PayOut(n, principal)
  BY DEF PoolStep
<1>4. n \in Nat
  BY DomainAssumption
<1>5. CASE TopUp(n)
  <2>1. DepositSplit(remaining, n) \in Amounts2
    BY <1>2, <1>4, DepositSplitAddsUp
  <2>2. remaining' \in Amounts2
    BY <1>2, <1>5, <2>1 DEF TopUp, Split, Amounts2
  <2>3. before' \in [remaining : Amounts2, amount : Nat]
    BY <1>2, <1>4, <1>5 DEF TopUp
  <2> QED
    BY <1>2, <1>5, <2>2, <2>3, DomainMovesKeepInv DEF TopUp
<1>6. CASE PayOutResolved(n)
  <2>1. n \in 0 .. Sum2(Reachable)
    BY <1>1, <1>4, <1>6, ReachIsFree DEF PayOutResolved, Sum2, Amounts2
  <2>2. remaining' \in Amounts2
    BY <1>1, <1>6, <2>1, WithdrawalsAddUp DEF PayOutResolved
  <2> QED
    BY <1>2, <1>6, <2>2, DomainMovesKeepInv DEF PayOutResolved
<1>7. CASE \E principal \in 1 .. n : PayOut(n, principal)
  <2>1. PICK principal \in 1 .. n : PayOut(n, principal)
    BY <1>7
  <2>2. n <= Sum2(Reachable)
    BY <2>1 DEF PayOut
  <2>3. Target(n, principal) \in [long : Int, short : Int]
    BY <1>1, <1>4, <2>1, <2>2, TargetsAreReachable
  <2>4. remaining' \in Amounts2
    BY <1>1, <1>4, <2>1, <2>3, PlansMoveTheirPayout DEF PayOut
  <2> QED
    BY <1>2, <2>1, <2>4, DomainMovesKeepInv DEF PayOut
<1> QED
  BY <1>3, <1>5, <1>6, <1>7

LEMMA MarketStepKeepsInv ==
  ASSUME RoundsInv, MarketStep, UNCHANGED twap_vars
  PROVE  RoundsInv'
<1>1. /\ reserved \in Amounts2 /\ held_back \in Nat /\ live \in BOOLEAN
      /\ remaining \in Amounts2
  BY DEF RoundsInv, RoundsTypeOK
<1>2. PICK d \in Domains : Market(d)
  BY DEF MarketStep
<1>3. before' \in [remaining : Amounts2, amount : Nat]
  BY <1>2 DEF Market, NoDeposit, Split, Amounts2
<1>4. /\ remaining' \in Amounts2 /\ reserved' \in Amounts2
      /\ held_back' \in Nat /\ live' \in BOOLEAN
  <2>1. ASSUME NEW a \in Amounts2, NEW v \in Nat
        PROVE  [a EXCEPT ![d] = v] \in Amounts2
    BY DEF Domains, Amounts2
  <2>2. remaining[d] \in Nat /\ reserved[d] \in Nat
    BY <1>1 DEF Domains, Amounts2
  <2>3. remaining[d] + 1 \in Nat /\ Over(reserved[d], 1) \in Nat
    BY <2>2 DEF Over, Greater
  <2>4. CASE remaining' = [remaining EXCEPT ![d] = remaining[d] + 1]
             /\ UNCHANGED <<reserved, held_back, live>>
    BY <1>1, <2>1, <2>3, <2>4
  <2>5. CASE /\ remaining[d] > 0
             /\ remaining' = [remaining EXCEPT ![d] = remaining[d] - 1]
             /\ reserved' = [reserved EXCEPT ![d] = Over(reserved[d], 1)]
             /\ UNCHANGED <<held_back, live>>
    <3>1. remaining[d] - 1 \in Nat
      BY <2>2, <2>5
    <3> QED
      BY <1>1, <2>1, <2>3, <2>5, <3>1
  <2>6. CASE /\ \E r \in 0 .. Lesser(remaining[d], MaxReserved) :
                  reserved' = [reserved EXCEPT ![d] = r]
             /\ UNCHANGED <<remaining, held_back, live>>
    <3>1. PICK r \in 0 .. Lesser(remaining[d], MaxReserved) :
                 reserved' = [reserved EXCEPT ![d] = r]
      BY <2>6
    <3>2. r \in Nat
      BY <2>2, DomainAssumption DEF Lesser
    <3> QED
      BY <1>1, <2>1, <2>6, <3>1, <3>2
  <2>7. CASE held_back' \in 0 .. MaxReserved /\ UNCHANGED <<remaining, reserved, live>>
    BY <1>1, <2>7, DomainAssumption
  <2>8. CASE live' = FALSE /\ UNCHANGED <<remaining, reserved, held_back>>
    BY <1>1, <2>8
  <2> QED
    BY <1>2, <2>4, <2>5, <2>6, <2>7, <2>8 DEF Market
<1> QED
  BY <1>3, <1>4, DomainMovesKeepInv

LEMMA StepsKeepInv ==
  ASSUME RoundsInv, [RoundsNext]_round_vars
  PROVE  RoundsInv'
<1>1. CASE SomeRound
  BY <1>1, RoundKeepsInv, RoundsAssumption DEF SomeRound
<1>2. CASE UNCHANGED round_vars
  <2>1. UNCHANGED domain_vars /\ UNCHANGED twap_vars
    BY <1>2 DEF round_vars
  <2>2. /\ remaining' \in Amounts2 /\ reserved' \in Amounts2 /\ held_back' \in Nat
        /\ live' \in BOOLEAN /\ before' \in [remaining : Amounts2, amount : Nat]
    BY <2>1 DEF domain_vars, RoundsInv, RoundsTypeOK
  <2> QED
    BY <2>1, <2>2, DomainMovesKeepInv
<1> QED
  BY <1>1, <1>2, GovernanceKeepsInv, RolesKeepInv, DonationsKeepInv, PoolStepKeepsInv,
     MarketStepKeepsInv DEF RoundsNext

LEMMA RoundsKeepInv ==
  RoundsSpec => []RoundsInv
<1>1. RoundsInv /\ [RoundsNext]_round_vars => RoundsInv'
  BY StepsKeepInv
<1> QED
  BY InitHasInv, <1>1, PTL DEF RoundsSpec

----------------------------------------------------------------------------
\* Amounts are natural numbers, no share exceeds a whole, the two pulls together
\* do not exceed the surplus, and no carry holds as much as an atom
\* (reconfigure, set_economics, execute).
THEOREM RoundsTypeCorrect == RoundsSpec => []RoundsTypeOK
<1>1. RoundsInv => RoundsTypeOK
  BY DEF RoundsInv
<1> QED
  BY RoundsKeepInv, <1>1, PTL

\* However many rounds are run, by whomever and however small their surplus, what
\* was pulled, auctioned and sent to the sink is the share that governance set,
\* short of less than an atom (execute).
THEOREM EverySharePaid == RoundsSpec => []SharesArePaid
<1>1. RoundsInv => SharesArePaid
  BY DEF RoundsInv, RoundsTypeOK, DuesAreCarried, SharesArePaid
<1> QED
  BY RoundsKeepInv, <1>1, PTL

\* However the domains stand and whatever is reserved of them, a payout that can
\* be reached has a plan, and a live market's round neither pulls more than the
\* surplus nor fails to balance the floor (insurance_withdrawal_plan, execute).
THEOREM MovesArePossible == RoundsSpec => []EveryMoveHasAPlan
<1>1. RoundsInv => EveryMoveHasAPlan
  BY PayoutsHavePlans, RoundsHavePlans DEF RoundsInv, EveryMoveHasAPlan
<1> QED
  BY RoundsKeepInv, <1>1, PTL

----------------------------------------------------------------------------
\* What positions have reserved is there.
ReservedIsThere ==
  reserved.long <= remaining.long /\ reserved.short <= remaining.short

\* A deposit just made stands in the domains as it was spread.
DepositStands ==
  before.amount > 0 =>
    LET delta == DepositSplit(before.remaining, before.amount)
    IN  /\ remaining.long = before.remaining.long + delta.long
        /\ remaining.short = before.remaining.short + delta.short

DomainsInv == RoundsInv /\ ReservedIsThere /\ DepositStands

\* A gross withdrawal within what can be reached touches nothing reserved.
LEMMA WithdrawalsSpareReserved ==
  ASSUME DomainsInv, NEW gross \in 0 .. Sum2(Reachable)
  PROVE  LET left == WithdrawnLongFirst(remaining, Reachable, gross)
         IN  left \in Amounts2 /\ left.long >= reserved.long /\ left.short >= reserved.short
<1>1. /\ Reachable \in Amounts2 /\ remaining \in Amounts2 /\ reserved \in Amounts2
      /\ Reachable.long <= Free.long /\ Reachable.short <= Free.short
  BY ReachIsFree DEF DomainsInv, RoundsInv, RoundsTypeOK
<1>2. /\ Free.long = remaining.long - reserved.long
      /\ Free.short = remaining.short - reserved.short
  BY <1>1 DEF Free, Over, Greater, Split, DomainsInv, ReservedIsThere, Amounts2
<1> QED
  BY <1>1, <1>2 DEF WithdrawnLongFirst, Lesser, Split, Sum2, Amounts2

\* What a plan redeposits does not take from what it leaves.
LEMMA PlansSpareReserved ==
  ASSUME DomainsInv, NEW target \in [long : Int, short : Int], NEW payout \in Int,
         PlanHolds(remaining, Reachable, target, payout,
                   Plan(remaining, Reachable, target))
  PROVE  LET plan == Plan(remaining, Reachable, target)
             left == WithdrawnLongFirst(remaining, Reachable, plan.gross)
         IN  /\ left.long + plan.redeposit.long = target.long
             /\ left.short + plan.redeposit.short = target.short
             /\ target.long >= reserved.long
             /\ target.short >= reserved.short
<1> DEFINE plan == Plan(remaining, Reachable, target)
           left == WithdrawnLongFirst(remaining, Reachable, plan.gross)
<1>1. /\ plan.gross \in 0 .. Sum2(Reachable)
      /\ plan.redeposit.long >= 0 /\ plan.redeposit.short >= 0
      /\ left.long + plan.redeposit.long = target.long
      /\ left.short + plan.redeposit.short = target.short
  BY DEF PlanHolds
<1>2. left \in Amounts2 /\ left.long >= reserved.long /\ left.short >= reserved.short
  BY <1>1, WithdrawalsSpareReserved
<1>3. /\ plan.redeposit.long \in Int /\ plan.redeposit.short \in Int
      /\ reserved.long \in Nat /\ reserved.short \in Nat
      /\ left.long \in Nat /\ left.short \in Nat
  BY <1>2, ReachIsFree DEF Plan, Split, DomainsInv, RoundsInv, RoundsTypeOK, Amounts2
<1> HIDE DEF plan, left
<1>4. /\ left.long + plan.redeposit.long = target.long
      /\ left.short + plan.redeposit.short = target.short
      /\ target.long >= reserved.long
      /\ target.short >= reserved.short
  BY <1>1, <1>2, <1>3
<1> QED
  BY <1>4 DEF plan, left

\* The domains after a payout and after a round.
LEMMA PayoutsEndInTarget ==
  ASSUME DomainsInv, NEW payout \in Nat, NEW principal \in Nat, PayOut(payout, principal)
  PROVE  /\ remaining' = Target(payout, principal)
         /\ remaining'.long >= reserved.long /\ remaining'.short >= reserved.short
<1> DEFINE target == Target(payout, principal)
<1>1. /\ principal \in 1 .. payout /\ payout <= Sum2(Reachable)
      /\ PlanHolds(remaining, Reachable, target, payout, Plan(remaining, Reachable, target))
  BY DEF PayOut
<1>2. target \in [long : Int, short : Int] /\ payout \in Int
  BY <1>1, TargetsAreReachable DEF DomainsInv, RoundsInv
<1>3. target = Split(target.long, target.short)
  BY DEF Target, Split
<1> HIDE DEF target
<1> DEFINE plan == Plan(remaining, Reachable, target)
           left == WithdrawnLongFirst(remaining, Reachable, plan.gross)
<1>4. /\ left.long + plan.redeposit.long = target.long
      /\ left.short + plan.redeposit.short = target.short
      /\ target.long >= reserved.long
      /\ target.short >= reserved.short
  BY <1>1, <1>2, PlansSpareReserved
<1>5. remaining' = Split(left.long + plan.redeposit.long, left.short + plan.redeposit.short)
  BY DEF PayOut, target
<1>6. remaining' = target
  BY <1>3, <1>4, <1>5
<1> QED
  BY <1>4, <1>6 DEF target

LEMMA RoundsEndInTarget ==
  ASSUME DomainsInv, NEW exposed \in BOOLEAN, NEW bought \in Nat, NEW to_sink \in BOOLEAN,
         Round(exposed, bought, to_sink)
  PROVE  /\ \/ remaining' = Balanced(FloorAfter(Surplus(exposed)))
            \/ remaining' = remaining
         /\ remaining'.long >= reserved.long /\ remaining'.short >= reserved.short
<1> DEFINE surplus == Surplus(exposed)
           target  == RoundTarget(surplus)
           plan    == RoundPlan(exposed)
           left    == WithdrawnLongFirst(remaining, Reachable, plan.gross)
<1>1. remaining' = Split(left.long + plan.redeposit.long, left.short + plan.redeposit.short)
  BY DEF Round
<1>2. CASE HasPlan(exposed)
  <2>1. plan = Plan(remaining, Reachable, target)
    BY <1>2 DEF RoundPlan
  <2>2. PlanHolds(remaining, Reachable, target, TotalPull(surplus), plan)
    BY <1>2 DEF Round, RoundSucceeds
  <2>3. TotalPull(surplus) \in Int /\ FloorAfter(surplus) \in Nat
    BY SurplusIsThere, PullsFit DEF DomainsInv, RoundsInv
  <2>4. target \in [long : Int, short : Int]
    BY <2>3, BalancedAddsUp DEF RoundTarget, Amounts2
  <2>5. target = Split(target.long, target.short)
    BY DEF RoundTarget, Balanced, Split
  <2> HIDE DEF target
  <2>6. /\ left.long + plan.redeposit.long = target.long
        /\ left.short + plan.redeposit.short = target.short
        /\ target.long >= reserved.long
        /\ target.short >= reserved.short
    BY <2>1, <2>2, <2>3, <2>4, PlansSpareReserved
  <2>7. remaining' = target
    BY <1>1, <2>5, <2>6
  <2> QED
    BY <2>6, <2>7 DEF target, RoundTarget
<1>3. CASE ~HasPlan(exposed)
  <2>1. plan.gross = 0 /\ plan.redeposit.long = 0 /\ plan.redeposit.short = 0
    BY <1>3 DEF RoundPlan, NoPlan, Split
  <2>2. Reachable \in Amounts2 /\ remaining \in Amounts2
    BY ReachIsFree DEF DomainsInv, RoundsInv, RoundsTypeOK
  <2>3. remaining' = remaining
    BY <1>1, <2>1, <2>2 DEF WithdrawnLongFirst, Lesser, Split, Amounts2
  <2> QED
    BY <2>3 DEF DomainsInv, ReservedIsThere
<1> QED
  BY <1>2, <1>3

\* The market keeps to its reservations, and leaves no deposit as it was.
LEMMA MarketSparesReserved ==
  ASSUME DomainsInv, MarketStep
  PROVE  ReservedIsThere' /\ DepositStands'
<1>1. PICK d \in Domains : Market(d)
  BY DEF MarketStep
<1>2. /\ remaining \in Amounts2 /\ reserved \in Amounts2
      /\ reserved.long <= remaining.long /\ reserved.short <= remaining.short
  BY DEF DomainsInv, RoundsInv, RoundsTypeOK, ReservedIsThere
<1>3. DepositStands'
  BY <1>1 DEF Market, DepositStands, NoDeposit
<1>4. remaining[d] \in Nat /\ reserved[d] \in Nat /\ reserved[d] <= remaining[d]
  BY <1>2 DEF Domains, Amounts2
<1>5. ASSUME NEW r \in Nat, NEW s \in Nat, s <= r,
             remaining' = [remaining EXCEPT ![d] = r], reserved' = [reserved EXCEPT ![d] = s]
      PROVE  ReservedIsThere'
  <2>1. CASE d = "long"
    BY <1>2, <1>5, <2>1 DEF ReservedIsThere, Amounts2
  <2>2. CASE d = "short"
    BY <1>2, <1>5, <2>2 DEF ReservedIsThere, Amounts2
  <2> QED
    BY <2>1, <2>2 DEF Domains
<1>6. /\ remaining = [remaining EXCEPT ![d] = remaining[d]]
      /\ reserved = [reserved EXCEPT ![d] = reserved[d]]
  BY <1>2 DEF Amounts2
<1>7. CASE remaining' = [remaining EXCEPT ![d] = remaining[d] + 1] /\ UNCHANGED reserved
  <2>1. remaining[d] + 1 \in Nat /\ reserved[d] <= remaining[d] + 1
    BY <1>4
  <2> QED
    BY <1>3, <1>4, <1>5, <1>6, <1>7, <2>1
<1>8. CASE /\ remaining[d] > 0
           /\ remaining' = [remaining EXCEPT ![d] = remaining[d] - 1]
           /\ reserved' = [reserved EXCEPT ![d] = Over(reserved[d], 1)]
  <2>1. remaining[d] - 1 \in Nat /\ Over(reserved[d], 1) \in Nat
        /\ Over(reserved[d], 1) <= remaining[d] - 1
    BY <1>4, <1>8 DEF Over, Greater
  <2> QED
    BY <1>3, <1>5, <1>8, <2>1
<1>9. CASE /\ \E r \in 0 .. Lesser(remaining[d], MaxReserved) :
                reserved' = [reserved EXCEPT ![d] = r]
           /\ UNCHANGED remaining
  <2>1. PICK r \in 0 .. Lesser(remaining[d], MaxReserved) :
               reserved' = [reserved EXCEPT ![d] = r]
    BY <1>9
  <2>2. r \in Nat /\ r <= remaining[d]
    BY <1>4, <2>1, DomainAssumption DEF Lesser
  <2> QED
    BY <1>3, <1>4, <1>5, <1>6, <1>9, <2>1, <2>2
<1>10. CASE UNCHANGED <<remaining, reserved>>
  BY <1>3, <1>10 DEF DomainsInv, ReservedIsThere
<1> QED
  BY <1>1, <1>7, <1>8, <1>9, <1>10 DEF Market

\* So do the pool and the TWAP.
LEMMA MovesSpareReserved ==
  ASSUME DomainsInv, [RoundsNext]_round_vars, ~MarketStep
  PROVE  /\ remaining'.long >= reserved.long /\ remaining'.short >= reserved.short
         /\ reserved' = reserved
         /\ DepositStands'
<1>1. /\ remaining \in Amounts2 /\ reserved \in Amounts2
      /\ reserved.long <= remaining.long /\ reserved.short <= remaining.short
      /\ DepositStands
  BY DEF DomainsInv, RoundsInv, RoundsTypeOK, ReservedIsThere
<1>2. ASSUME before' = NoDeposit PROVE DepositStands'
  BY <1>2 DEF DepositStands, NoDeposit
<1>3. CASE UNCHANGED domain_vars
  BY <1>1, <1>3 DEF domain_vars, DepositStands
<1>4. CASE \E n \in 1 .. MaxInsurance : Donate(n)
  <2>1. PICK n \in 1 .. MaxInsurance : Donate(n)
    BY <1>4
  <2>2. PICK long \in 0 .. n :
          remaining' = Split(remaining.long + long, remaining.short + (n - long))
    BY <2>1 DEF Donate
  <2>3. remaining'.long >= reserved.long /\ remaining'.short >= reserved.short
    BY <1>1, <2>2 DEF Split, Amounts2
  <2> QED
    BY <1>2, <2>1, <2>3 DEF Donate
<1>5. CASE SomeRound
  <2>1. PICK exposed \in BOOLEAN, to_sink \in BOOLEAN, bought \in 0 .. MaxBought :
          Round(exposed, bought, to_sink)
    BY <1>5 DEF SomeRound
  <2>2. bought \in Nat
    BY RoundsAssumption
  <2> QED
    BY <1>2, <2>1, <2>2, RoundsEndInTarget DEF Round
<1>6. CASE PoolStep
  <2>1. PICK n \in 1 .. MaxInsurance :
          TopUp(n) \/ PayOutResolved(n) \/ \E principal \in 1 .. n : PayOut(n, principal)
    BY <1>6 DEF PoolStep
  <2>2. n \in Nat
    BY DomainAssumption
  <2>3. CASE TopUp(n)
    <3> DEFINE delta == DepositSplit(remaining, n)
    <3>1. /\ remaining' = Split(remaining.long + delta.long, remaining.short + delta.short)
          /\ before' = [remaining |-> remaining, amount |-> n]
          /\ reserved' = reserved
      BY <2>3 DEF TopUp
    <3>2. delta \in Amounts2
      BY <1>1, <2>2, DepositSplitAddsUp
    <3>3. DepositStands'
      BY <3>1 DEF DepositStands, Split
    <3> HIDE DEF delta
    <3>4. remaining'.long >= reserved.long /\ remaining'.short >= reserved.short
      BY <1>1, <3>1, <3>2 DEF Split, Amounts2
    <3> QED
      BY <3>1, <3>3, <3>4
  <2>4. CASE PayOutResolved(n)
    <3>1. n \in 0 .. Sum2(Reachable)
      BY <2>2, <2>4, ReachIsFree DEF PayOutResolved, Sum2, Amounts2, DomainsInv, RoundsInv
    <3>2. remaining' = WithdrawnLongFirst(remaining, Reachable, n)
      BY <2>4 DEF PayOutResolved
    <3> QED
      BY <1>2, <2>4, <3>1, <3>2, WithdrawalsSpareReserved DEF PayOutResolved
  <2>5. CASE \E principal \in 1 .. n : PayOut(n, principal)
    <3>1. PICK principal \in 1 .. n : PayOut(n, principal)
      BY <2>5
    <3>2. principal \in Nat
      OBVIOUS
    <3> QED
      BY <1>2, <2>2, <3>1, <3>2, PayoutsEndInTarget DEF PayOut
  <2> QED
    BY <2>1, <2>3, <2>4, <2>5
<1> QED
  BY <1>3, <1>4, <1>5, <1>6
  DEF RoundsNext, Governance, Reconfigure, SetEconomics, SetReservedFloor, Handoff,
      Return, round_vars

LEMMA InitHasDomainsInv ==
  RoundsInit => DomainsInv
<1>1. RoundsInit => ReservedIsThere /\ DepositStands
  BY DEF RoundsInit, DomainInit, ReservedIsThere, DepositStands, NoDeposit, Split
<1> QED
  BY <1>1, InitHasInv DEF DomainsInv

LEMMA StepsKeepDomainsInv ==
  ASSUME DomainsInv, [RoundsNext]_round_vars
  PROVE  DomainsInv'
<1>1. RoundsInv'
  BY StepsKeepInv DEF DomainsInv
<1>2. CASE MarketStep
  BY <1>1, <1>2, MarketSparesReserved DEF DomainsInv
<1>3. CASE ~MarketStep
  <2>1. ReservedIsThere'
    BY <1>3, MovesSpareReserved DEF ReservedIsThere
  <2> QED
    BY <1>1, <1>3, <2>1, MovesSpareReserved DEF DomainsInv
<1> QED
  BY <1>2, <1>3

----------------------------------------------------------------------------
\* Taking `x` of `left` out of the long part `r`, as far as whole atoms go in
\* proportion, leaves a difference that is the earlier one at most, but for one atom.
LEMMA ProportionIsNeutral ==
  ASSUME NEW r \in Nat, NEW s \in Nat, NEW e \in Nat, 0 < e, e <= r + s
  PROVE  LET x == (e * r) \div (r + s)
             D == (r - x) - (s - (e - x))
         IN  /\ x \in 0 .. r /\ x <= e /\ e - x <= s
             /\ D <= Greater(r - s, 0) + 1
             /\ D >= Lesser(r - s, 0)
<1> DEFINE w == r + s
           y == e * r
           x == y \div w
           D == (r - x) - (s - (e - x))
<1>1. w \in Nat /\ w > 0 /\ y \in Nat /\ e * w \in Nat /\ w * r \in Nat
  OBVIOUS
<1>2. x \in Nat /\ w * x <= y /\ y < w * x + w
  <2> HIDE DEF y, w
  <2>1. y % w \in 0 .. w - 1 /\ y = w * (y \div w) + (y % w) /\ y \div w \in Nat
    BY <1>1, Division
  <2>2. w * (y \div w) \in Nat
    BY <1>1, <2>1
  <2> QED
    BY <1>1, <2>1, <2>2
<1>3. y <= w * r /\ y <= e * w /\ e * w - y = e * s
  OBVIOUS
<1>4. e * s <= w * s
  OBVIOUS
<1> HIDE DEF x
<1>5. ASSUME NEW a \in Int, NEW b \in Int, w * a < w * b PROVE a < b
  <2> HIDE DEF w
  <2>1. SUFFICES ASSUME a >= b PROVE FALSE
    OBVIOUS
  <2>2. w * a >= w * b
    BY <1>1, <2>1
  <2> QED
    BY <1>1, <1>5, <2>2
<1>6. w * (r + 1) = w * r + w /\ w * (e + 1) = w * e + w /\ w * e = e * w
  OBVIOUS
<1>7. x <= r /\ x <= e
  <2>1. w * x < w * (r + 1) /\ w * x < w * (e + 1)
    <3>1. w * x \in Int
      BY <1>1, <1>2
    <3> HIDE DEF w, y
    <3> QED
      BY <1>1, <1>2, <1>3, <1>6, <3>1
  <2>2. x < r + 1
    BY <1>2, <1>5, <2>1
  <2>3. x < e + 1
    BY <1>2, <1>5, <2>1
  <2> HIDE DEF w, y
  <2> QED
    BY <1>2, <2>2, <2>3
<1>8. e - x <= s
  <2>1. w * (e - x) = w * e - w * x /\ w * (s + 1) = w * s + w
    BY <1>2
  <2>2. w * (e - x) < w * (s + 1)
    <3>1. w * x \in Int /\ w * s \in Int /\ e * s \in Int
      BY <1>1, <1>2
    <3> HIDE DEF w, y
    <3> QED
      BY <1>1, <1>2, <1>3, <1>4, <1>6, <2>1, <3>1
  <2>3. e - x < s + 1
    BY <1>2, <1>5, <2>2
  <2> QED
    BY <1>2, <2>3
<1>9. /\ D \in Int /\ D = (r - s) + e - 2 * x
      /\ w * D = w * (r - s) + e * w - 2 * (w * x)
  BY <1>2
<1> DEFINE k == (w - e) * (r - s)
<1>10. k \in Int /\ k = w * (r - s) + e * w - 2 * y
  BY <1>1
<1> HIDE DEF D, k
<1>11. w * D >= k /\ w * D < k + 2 * w
  <2>1. w * x \in Int /\ w * (r - s) \in Int
    BY <1>1, <1>2
  <2> HIDE DEF w, y
  <2> QED
    BY <1>1, <1>2, <1>9, <1>10, <2>1
<1>12. /\ r >= s => k >= 0 /\ k <= w * (r - s)
       /\ r <= s => k <= 0 /\ k >= w * (r - s)
  <2> DEFINE g == w - e
             h == r - s
  <2>1. g \in Int /\ h \in Int /\ 0 <= g /\ g <= w /\ k = g * h
    BY DEF k
  <2> HIDE DEF g, w
  <2>2. h >= 0 => g * h >= 0 /\ g * h <= w * h
    BY <1>1, <2>1
  <2>3. h <= 0 => g * h <= 0 /\ g * h >= w * h
    BY <1>1, <2>1
  <2> QED
    BY <2>1, <2>2, <2>3
<1>13. /\ w * ((r - s) + 2) = w * (r - s) + 2 * w
       /\ w * (0 - 1) = 0 - w /\ w * 2 = 2 * w
       /\ w * ((r - s) - 1) = w * (r - s) - w
       /\ w * D \in Int /\ w * (r - s) \in Int
  BY <1>1, <1>9
<1>14. CASE r >= s
  <2>1. w * D < w * ((r - s) + 2) /\ w * (0 - 1) < w * D
    <3> HIDE DEF w
    <3> QED
      BY <1>1, <1>10, <1>11, <1>12, <1>13, <1>14
  <2>2. D < (r - s) + 2 /\ 0 - 1 < D
    BY <1>5, <1>9, <2>1
  <2> QED
    BY <1>2, <1>7, <1>8, <1>9, <1>14, <2>2 DEF Greater, Lesser, D, x
<1>15. CASE r < s
  <2>1. w * D < w * 2 /\ w * ((r - s) - 1) < w * D
    <3> HIDE DEF w
    <3> QED
      BY <1>1, <1>10, <1>11, <1>12, <1>13, <1>15
  <2>2. D < 2 /\ (r - s) - 1 < D
    BY <1>5, <1>9, <2>1
  <2> QED
    BY <1>2, <1>7, <1>8, <1>9, <1>15, <2>2 DEF Greater, Lesser, D, x
<1> QED
  BY <1>14, <1>15

\* Nothing is reserved: all of the domains can be reached.
LEMMA UnreservedIsReachable ==
  ASSUME RoundsTypeOK, Unreserved
  PROVE  Reachable = remaining
<1>1. remaining = Split(remaining.long, remaining.short)
      /\ remaining.long \in Nat /\ remaining.short \in Nat
  BY DEF RoundsTypeOK, Amounts2, Split
<1>2. reserved.long = 0 /\ reserved.short = 0 /\ held_back = 0
  BY DEF Unreserved, Split
<1>3. Free = Split(remaining.long, remaining.short) /\ Available = Sum2(remaining)
  BY <1>1, <1>2 DEF Free, Available, Over, Greater, Sum2
<1>4. Reachable.long = remaining.long /\ Reachable.short = remaining.short
  BY <1>1, <1>3 DEF Reachable, Capacity, Lesser, Sum2, Split
<1>5. Reachable = Split(Reachable.long, Reachable.short)
  BY DEF Reachable, Capacity, Split
<1> QED
  BY <1>1, <1>4, <1>5

\* The principal of a payout evens the domains out as far as it goes.
LEMMA PrincipalEvensOut ==
  ASSUME NEW d \in Amounts2, NEW principal \in Nat, 0 < principal, principal <= Sum2(d)
  PROVE  LET parts == WithdrawSplit(d, principal)
         IN  /\ parts.long <= d.long /\ parts.short <= d.short
             /\ Greater((d.long - parts.long) - (d.short - parts.short), 0) + 1
                  <= Greater(Skew(d), 1)
             /\ Lesser((d.long - parts.long) - (d.short - parts.short), 0)
                  >= 0 - Greater(Skew(d), 1)
<1> DEFINE parts == WithdrawSplit(d, principal)
           skew  == Skew(d)
           gap   == Lesser(skew, principal)
           rest  == principal - gap
           half  == rest \div 2
<1>1. d.long \in Nat /\ d.short \in Nat /\ principal <= d.long + d.short
  BY DEF Amounts2, Sum2
<1>2. /\ skew = IF d.long >= d.short THEN d.long - d.short ELSE d.short - d.long
      /\ skew \in Nat
  BY <1>1 DEF Skew, Greater, Lesser
<1>3. Over(Greater(d.long, d.short), Lesser(d.long, d.short)) = skew
  BY <1>1 DEF Skew, Greater, Lesser, Over
<1>4. parts = IF d.long >= d.short THEN Split(gap + rest - half, half)
              ELSE Split(rest - half, gap + half)
  BY <1>3 DEF WithdrawSplit
<1> HIDE DEF parts, skew
<1>5. /\ gap \in Nat /\ gap <= skew /\ gap <= principal
      /\ gap = skew \/ (gap = principal /\ principal < skew)
  BY <1>2 DEF Lesser
<1> HIDE DEF gap
<1>6. rest \in Nat /\ (gap = skew \/ rest = 0)
  BY <1>2, <1>5
<1> HIDE DEF rest
<1>7. half \in Nat /\ (rest = 2 * half \/ rest = 2 * half + 1)
  BY <1>6
<1> HIDE DEF half
<1>8. rest = principal - gap
  BY DEF rest
<1>9. Greater(Skew(d), 1) = IF skew >= 1 THEN skew ELSE 1
  BY DEF Greater, skew
<1> QED
  BY <1>1, <1>2, <1>4, <1>5, <1>6, <1>7, <1>8, <1>9 DEF Split, Greater, Lesser, parts

\* A deposit evens the domains out as far as it goes.
LEMMA DepositsEvenOut ==
  ASSUME NEW d \in Amounts2, NEW amount \in Nat
  PROVE  LET delta == DepositSplit(d, amount)
         IN  Skew(Split(d.long + delta.long, d.short + delta.short)) <= Greater(Skew(d), 1)
<1> DEFINE delta == DepositSplit(d, amount)
           skew  == Skew(d)
           gap   == Lesser(skew, amount)
           rest  == amount - gap
           half  == rest \div 2
<1>1. d.long \in Nat /\ d.short \in Nat
  BY DEF Amounts2
<1>2. /\ skew = IF d.long >= d.short THEN d.long - d.short ELSE d.short - d.long
      /\ skew \in Nat
  BY <1>1 DEF Skew, Greater, Lesser
<1>3. Over(Greater(d.long, d.short), Lesser(d.long, d.short)) = skew
  BY <1>1 DEF Skew, Greater, Lesser, Over
<1>4. delta = IF d.long <= d.short THEN Split(gap + half, rest - half)
              ELSE Split(half, gap + rest - half)
  BY <1>3 DEF DepositSplit
<1> HIDE DEF delta, skew
<1>5. /\ gap \in Nat /\ gap <= skew /\ gap <= amount
      /\ gap = skew \/ (gap = amount /\ amount < skew)
  BY <1>2 DEF Lesser
<1>6. rest \in Nat /\ (gap = skew \/ rest = 0)
  BY <1>2, <1>5
<1> HIDE DEF gap, rest
<1>7. half \in Nat /\ (rest = 2 * half \/ rest = 2 * half + 1)
  BY <1>6
<1> HIDE DEF half
<1>8. Greater(Skew(d), 1) = IF skew >= 1 THEN skew ELSE 1
  BY DEF Greater, skew
<1> DEFINE l == d.long + delta.long
           s == d.short + delta.short
           limit == IF skew >= 1 THEN skew ELSE 1
<1>9. l \in Int /\ s \in Int /\ l - s <= limit /\ s - l <= limit
  BY <1>1, <1>2, <1>4, <1>5, <1>6, <1>7 DEF Split
<1> HIDE DEF l, s, limit
<1>10. Skew(Split(l, s)) <= limit
  <2>1. Skew(Split(l, s)) = l - s \/ Skew(Split(l, s)) = s - l
    BY <1>9 DEF Skew, Greater, Lesser, Split
  <2> QED
    BY <1>9, <2>1
<1> QED
  BY <1>8, <1>10 DEF l, s, limit, delta

\* Of unreserved domains, the ideal debit is what is taken.
LEMMA IdealIsTaken ==
  ASSUME NEW d \in Amounts2, NEW payout \in Nat, NEW ideal \in Nat,
         ideal <= d.long, ideal <= payout, payout - ideal <= d.short
  PROVE  LongDebit(ideal, payout, d) = ideal
  BY DEF LongDebit, Greater, Lesser, Over, Amounts2

\* A payout out of unreserved domains tilts them no further, but for an odd atom.
LEMMA PayoutsAreNeutral ==
  ASSUME RoundsTypeOK, Unreserved, NEW payout \in Nat, NEW principal \in 1 .. payout,
         payout <= Sum2(remaining)
  PROVE  LET t == Target(payout, principal)
         IN  /\ t = Split(t.long, t.short) /\ t.long \in Int /\ t.short \in Int
             /\ t.long - t.short <= Greater(Skew(remaining), 1)
             /\ t.short - t.long <= Greater(Skew(remaining), 1)
<1> DEFINE parts == WithdrawSplit(remaining, principal)
           ideal == IdealLongDebit(remaining, payout, parts)
           long  == LongDebit(ideal, payout, Reachable)
           r     == remaining.long - parts.long
           s     == remaining.short - parts.short
           e     == payout - principal
           limit == Greater(Skew(remaining), 1)
<1>1. remaining \in Amounts2 /\ principal \in Nat /\ 0 < principal
      /\ principal <= payout /\ principal <= Sum2(remaining)
      /\ remaining.long \in Nat /\ remaining.short \in Nat
  BY DEF RoundsTypeOK, Amounts2, Sum2
<1>2. /\ parts.long \in Nat /\ parts.short \in Nat
      /\ parts.long + parts.short = principal
  BY <1>1, WithdrawSplitAddsUp DEF Sum2, Amounts2
<1>3. /\ parts.long <= remaining.long /\ parts.short <= remaining.short
      /\ Greater(r - s, 0) + 1 <= limit
      /\ Lesser(r - s, 0) >= 0 - limit
  BY <1>1, PrincipalEvensOut
<1>4. limit \in Nat
  BY <1>1 DEF Greater, Lesser, Skew
<1> HIDE DEF parts
<1>5. r \in Nat /\ s \in Nat /\ e \in Nat /\ e <= r + s
  BY <1>1, <1>2, <1>3 DEF Sum2
<1>6. /\ Over(remaining.long, parts.long) = r
      /\ Over(remaining.short, parts.short) = s
  BY <1>1, <1>2, <1>3 DEF Over, Greater
<1>7. /\ ideal \in Nat /\ ideal <= remaining.long /\ ideal <= payout
      /\ payout - ideal <= remaining.short
      /\ (remaining.long - ideal) - (remaining.short - (payout - ideal)) <= limit
      /\ (remaining.long - ideal) - (remaining.short - (payout - ideal)) >= 0 - limit
  <2>1. CASE e = 0
    <3>1. ideal = (payout * parts.long) \div Sum2(parts) /\ Sum2(parts) = payout
      BY <1>1, <1>2, <2>1 DEF IdealLongDebit, Sum2
    <3>2. (payout * parts.long) \div payout = parts.long
      BY <1>1, <1>2
    <3>3. ideal = parts.long /\ payout - ideal = parts.short
      BY <1>1, <1>2, <2>1, <3>1, <3>2
    <3> HIDE DEF ideal, limit
    <3> QED
      BY <1>1, <1>2, <1>3, <1>4, <3>3 DEF Greater, Lesser
  <2>2. CASE e # 0
    <3> DEFINE x == (e * r) \div (r + s)
               D == (r - x) - (s - (e - x))
    <3>1. ideal = parts.long + x
      <4>1. payout > Sum2(parts) /\ Sum2(parts) = principal
        BY <1>1, <1>2, <2>2 DEF Sum2
      <4> QED
        BY <1>1, <1>6, <4>1 DEF IdealLongDebit, Split, Sum2
    <3>2. /\ x \in 0 .. r /\ x <= e /\ e - x <= s
          /\ D <= Greater(r - s, 0) + 1
          /\ D >= Lesser(r - s, 0)
      <4>1. r \in Nat /\ s \in Nat /\ e \in Nat /\ e <= r + s /\ 0 < e
        BY <1>5, <2>2
      <4> HIDE DEF r, s, e
      <4> QED
        BY <4>1, ProportionIsNeutral
    <3> HIDE DEF x
    <3>3. Greater(r - s, 0) \in Int /\ Lesser(r - s, 0) \in Int /\ D \in Int /\ x \in Nat
      BY <1>5, <3>2 DEF Greater, Lesser
    <3>4. D <= limit /\ D >= 0 - limit
      <4> HIDE DEF D, limit, r, s
      <4> QED
        BY <1>3, <1>4, <3>2, <3>3
    <3>5. (remaining.long - ideal) - (remaining.short - (payout - ideal)) = D
      <4> HIDE DEF ideal
      <4> QED
        BY <1>1, <1>2, <3>1, <3>3
    <3>6. /\ ideal \in Nat /\ ideal <= remaining.long /\ ideal <= payout
          /\ payout - ideal <= remaining.short
      <4> HIDE DEF ideal
      <4> QED
        BY <1>1, <1>2, <3>1, <3>2, <3>3
    <3> QED
      BY <3>4, <3>5, <3>6
  <2> QED
    BY <2>1, <2>2
<1> HIDE DEF ideal, limit
<1>8. long = ideal
  BY <1>1, <1>7, IdealIsTaken, UnreservedIsReachable
<1>9. Target(payout, principal) = Split(remaining.long - ideal, remaining.short - (payout - ideal))
  BY <1>8 DEF Target, ideal, parts
<1> QED
  BY <1>1, <1>4, <1>7, <1>9 DEF Split, limit

\* How a withdrawal is spread when the domains are even, but for an odd atom.
LEMMA WithdrawnOfEven ==
  ASSUME NEW d \in Amounts2, NEW n \in Nat, n > 0
  PROVE  /\ d.short = d.long =>
              WithdrawSplit(d, n) = Split(n - n \div 2, n \div 2)
         /\ d.short = d.long + 1 =>
              WithdrawSplit(d, n) = Split((n - 1) - (n - 1) \div 2, 1 + (n - 1) \div 2)
<1>1. d.long \in Nat /\ d.short \in Nat
  BY DEF Amounts2
<1> DEFINE gap == Lesser(Over(Greater(d.long, d.short), Lesser(d.long, d.short)), n)
<1>2. CASE d.short = d.long
  <2>1. gap = 0
    BY <1>1, <1>2 DEF Lesser, Greater, Over
  <2>2. WithdrawSplit(d, n) = Split(0 + (n - 0) - (n - 0) \div 2, (n - 0) \div 2)
    BY <1>1, <1>2, <2>1 DEF WithdrawSplit
  <2>3. n - 0 = n /\ 0 + n = n
    OBVIOUS
  <2> QED
    BY <1>1, <1>2, <2>2, <2>3
<1>3. CASE d.short = d.long + 1
  <2>1. gap = 1 /\ ~(d.long >= d.short)
    BY <1>1, <1>3 DEF Lesser, Greater, Over
  <2>2. WithdrawSplit(d, n) = Split((n - 1) - (n - 1) \div 2, 1 + (n - 1) \div 2)
    BY <2>1 DEF WithdrawSplit
  <2> QED
    BY <1>1, <1>3, <2>2
<1> QED
  BY <1>2, <1>3

\* A deposit into balanced domains that leaves at once leaves them as they were.
LEMMA RoundTripsAreNeutral ==
  ASSUME DomainsInv, Unreserved, before.amount > 0,
         before.remaining.short - before.remaining.long \in {0, 1},
         before.amount <= Sum2(remaining)
  PROVE  Target(before.amount, before.amount) = before.remaining
<1> DEFINE n     == before.amount
           b     == before.remaining
           delta == DepositSplit(b, n)
           parts == WithdrawSplit(remaining, n)
           ideal == IdealLongDebit(remaining, n, parts)
           long  == LongDebit(ideal, n, Reachable)
<1>1. /\ n \in Nat /\ n > 0 /\ b \in Amounts2 /\ remaining \in Amounts2
      /\ b.long \in Nat /\ b.short \in Nat
      /\ remaining.long \in Nat /\ remaining.short \in Nat
  BY DEF DomainsInv, RoundsInv, RoundsTypeOK, Amounts2
<1>2. remaining.long = b.long + delta.long /\ remaining.short = b.short + delta.short
  BY DEF DomainsInv, DepositStands
<1>3. b = Split(b.long, b.short)
  BY <1>1 DEF Amounts2, Split
<1> HIDE DEF b, n
<1>4. parts.long = delta.long /\ parts.short = delta.short
  <2>1. b.short = b.long \/ b.short = b.long + 1
    BY <1>1 DEF b
  <2>2. CASE b.short = b.long
    <3>1. delta = Split(n \div 2, n - n \div 2)
      BY <1>1, <2>2 DEF DepositSplit, Greater, Lesser, Over
    <3> DEFINE half == n \div 2
    <3>2. half \in Nat /\ (n = 2 * half \/ n = 2 * half + 1)
      BY <1>1
    <3>3. /\ delta.long = half /\ delta.short = n - half
          /\ remaining.long = b.long + half /\ remaining.short = b.long + (n - half)
      BY <1>2, <2>2, <3>1 DEF Split
    <3> HIDE DEF half, delta
    <3>4. CASE n = 2 * half
      <4>1. parts = Split(n - n \div 2, n \div 2)
        <5>1. remaining.short = remaining.long
          BY <1>1, <3>2, <3>3, <3>4
        <5> QED
          BY <1>1, <5>1, WithdrawnOfEven
      <4>2. n \div 2 = half
        BY <3>2, <3>4
      <4> QED
        BY <1>1, <3>2, <3>3, <3>4, <4>1, <4>2 DEF Split
    <3>5. CASE n = 2 * half + 1
      <4>1. parts = Split((n - 1) - (n - 1) \div 2, 1 + (n - 1) \div 2)
        <5>1. remaining.short = remaining.long + 1
          BY <1>1, <3>2, <3>3, <3>5
        <5> QED
          BY <1>1, <5>1, WithdrawnOfEven
      <4>2. (n - 1) \div 2 = half
        BY <3>2, <3>5
      <4> QED
        BY <1>1, <3>2, <3>3, <3>5, <4>1, <4>2 DEF Split
    <3> QED
      BY <3>2, <3>4, <3>5
  <2>3. CASE b.short = b.long + 1
    <3> DEFINE half == (n - 1) \div 2
    <3>1. delta = Split(1 + half, (n - 1) - half)
      BY <1>1, <2>3 DEF DepositSplit, Greater, Lesser, Over
    <3>2. half \in Nat /\ (n = 2 * half + 1 \/ n = 2 * half + 2)
      BY <1>1
    <3>3. /\ delta.long = 1 + half /\ delta.short = (n - 1) - half
          /\ remaining.long = b.long + 1 + half
          /\ remaining.short = b.long + 1 + ((n - 1) - half)
      BY <1>1, <1>2, <2>3, <3>1, <3>2 DEF Split
    <3> HIDE DEF half, delta
    <3>4. CASE n = 2 * half + 1
      <4>1. parts = Split(n - n \div 2, n \div 2)
        <5>1. remaining.short = remaining.long
          BY <1>1, <3>2, <3>3, <3>4
        <5> QED
          BY <1>1, <5>1, WithdrawnOfEven
      <4>2. n \div 2 = half
        BY <3>2, <3>4
      <4> QED
        BY <1>1, <3>2, <3>3, <3>4, <4>1, <4>2 DEF Split
    <3>5. CASE n = 2 * half + 2
      <4>1. parts = Split((n - 1) - (n - 1) \div 2, 1 + (n - 1) \div 2)
        <5>1. remaining.short = remaining.long + 1
          BY <1>1, <3>2, <3>3, <3>5
        <5> QED
          BY <1>1, <5>1, WithdrawnOfEven
      <4>2. (n - 1) \div 2 = half
        BY <3>2, <3>5
      <4> QED
        BY <1>1, <3>2, <3>3, <3>5, <4>1, <4>2 DEF Split
    <3> QED
      BY <3>2, <3>4, <3>5
  <2> QED
    BY <2>1, <2>2, <2>3
<1>5. /\ delta.long \in Nat /\ delta.short \in Nat /\ delta.long + delta.short = n
  BY <1>1, DepositSplitAddsUp DEF Sum2, Amounts2
<1> HIDE DEF delta, parts
<1>6. ideal = delta.long
  <2>1. Sum2(parts) = n
    BY <1>4, <1>5 DEF Sum2
  <2>2. (n * delta.long) \div n = delta.long
    BY <1>1, <1>5
  <2> QED
    BY <1>1, <1>4, <2>1, <2>2 DEF IdealLongDebit
<1>7. long = ideal
  <2>1. Reachable = remaining
    BY UnreservedIsReachable DEF DomainsInv, RoundsInv
  <2> QED
    BY <1>1, <1>2, <1>5, <1>6, <2>1, IdealIsTaken
<1>8. Target(n, n) = Split(remaining.long - delta.long, remaining.short - (n - delta.long))
  BY <1>6, <1>7 DEF Target, parts
<1>9. remaining.long - delta.long = b.long /\ remaining.short - (n - delta.long) = b.short
  BY <1>1, <1>2, <1>5
<1> QED
  BY <1>3, <1>8, <1>9 DEF b, n

LEMMA MovesStayNeutral ==
  ASSUME DomainsInv, [RoundsNext]_round_vars
  PROVE  /\ (\E d \in Domains : remaining'[d] < reserved[d]) => MarketStep
         /\ live /\ Unreserved /\ Skew(remaining') > Greater(Skew(remaining), 1)
              => MarketStep \/ \E n \in 1 .. MaxInsurance : Donate(n)
         /\ (/\ live /\ Unreserved
             /\ before.amount > 0
             /\ before.remaining.short - before.remaining.long \in {0, 1}
             /\ PayOut(before.amount, before.amount))
              => remaining' = before.remaining
<1>1. /\ remaining \in Amounts2 /\ reserved \in Amounts2
      /\ before \in [remaining : Amounts2, amount : Nat]
      /\ RoundsTypeOK /\ RoundsTypeOK' /\ remaining' \in Amounts2
  BY StepsKeepInv DEF DomainsInv, RoundsInv, RoundsTypeOK
<1>2. (\E d \in Domains : remaining'[d] < reserved[d]) => MarketStep
  BY <1>1, MovesSpareReserved DEF Domains, Amounts2
<1>3. ASSUME live, Unreserved, ~MarketStep, ~(\E n \in 1 .. MaxInsurance : Donate(n))
      PROVE  Skew(remaining') <= Greater(Skew(remaining), 1)
  <2>1. ASSUME remaining' = remaining PROVE Skew(remaining') <= Greater(Skew(remaining), 1)
    BY <1>1, <2>1 DEF Skew, Greater, Lesser, Amounts2
  <2>2. CASE SomeRound
    <3>1. PICK exposed \in BOOLEAN, to_sink \in BOOLEAN, bought \in 0 .. MaxBought :
            Round(exposed, bought, to_sink)
      BY <2>2 DEF SomeRound
    <3>2. bought \in Nat /\ FloorAfter(Surplus(exposed)) \in Nat
      BY <1>1, RoundsAssumption, SurplusIsThere
    <3>3. CASE remaining' = Balanced(FloorAfter(Surplus(exposed)))
      <4> DEFINE total == FloorAfter(Surplus(exposed))
                 half  == total \div 2
      <4>1. remaining'.long = half /\ remaining'.short = total - half
        BY <3>3 DEF Balanced, Split
      <4>2. half \in Nat /\ (total = 2 * half \/ total = 2 * half + 1)
        BY <3>2
      <4> HIDE DEF half, total
      <4>3. Skew(remaining') <= 1
        BY <3>2, <4>1, <4>2 DEF Skew, Greater, Lesser, total
      <4>4. Skew(remaining) \in Nat /\ Skew(remaining') \in Nat
        BY <1>1 DEF Skew, Greater, Lesser, Amounts2
      <4> QED
        BY <4>3, <4>4 DEF Greater
    <3> QED
      BY <2>1, <3>1, <3>2, <3>3, RoundsEndInTarget
  <2>3. CASE PoolStep
    <3>1. PICK n \in 1 .. MaxInsurance :
            TopUp(n) \/ PayOutResolved(n) \/ \E principal \in 1 .. n : PayOut(n, principal)
      BY <2>3 DEF PoolStep
    <3>2. n \in Nat
      BY DomainAssumption
    <3>3. CASE TopUp(n)
      <4> DEFINE delta == DepositSplit(remaining, n)
      <4>1. remaining' = Split(remaining.long + delta.long, remaining.short + delta.short)
        BY <3>3 DEF TopUp
      <4>2. Skew(Split(remaining.long + delta.long, remaining.short + delta.short))
              <= Greater(Skew(remaining), 1)
        BY <1>1, <3>2, DepositsEvenOut
      <4> QED
        BY <4>1, <4>2
    <3>4. CASE PayOutResolved(n)
      BY <1>3, <3>4 DEF PayOutResolved
    <3>5. CASE \E principal \in 1 .. n : PayOut(n, principal)
      <4>1. PICK principal \in 1 .. n : PayOut(n, principal)
        BY <3>5
      <4>2. principal \in Nat
        OBVIOUS
      <4>3. remaining' = Target(n, principal)
        BY <3>2, <4>1, <4>2, PayoutsEndInTarget
      <4>4. n <= Sum2(remaining)
        BY <1>1, <1>3, <4>1, UnreservedIsReachable DEF PayOut
      <4> DEFINE t == Target(n, principal)
      <4>5. /\ t.long \in Int /\ t.short \in Int
            /\ t.long - t.short <= Greater(Skew(remaining), 1)
            /\ t.short - t.long <= Greater(Skew(remaining), 1)
        BY <1>1, <1>3, <3>2, <4>4, PayoutsAreNeutral
      <4> HIDE DEF t
      <4>6. Skew(t) <= Greater(Skew(remaining), 1)
        <5>1. Skew(t) = t.long - t.short \/ Skew(t) = t.short - t.long
          BY <4>5 DEF Skew, Greater, Lesser
        <5> QED
          BY <4>5, <5>1
      <4> QED
        BY <4>3, <4>6 DEF t
    <3> QED
      BY <3>1, <3>3, <3>4, <3>5
  <2> QED
    BY <1>3, <2>1, <2>2, <2>3
    DEF RoundsNext, Governance, Reconfigure, SetEconomics, SetReservedFloor, Handoff,
        Return, round_vars, domain_vars
<1>4. ASSUME live, Unreserved, before.amount > 0,
             before.remaining.short - before.remaining.long \in {0, 1},
             PayOut(before.amount, before.amount)
      PROVE  remaining' = before.remaining
  <2>1. before.amount \in Nat
    BY <1>1
  <2>2. remaining' = Target(before.amount, before.amount)
    BY <1>4, <2>1, PayoutsEndInTarget
  <2>3. before.amount <= Sum2(remaining)
    BY <1>1, <1>4, UnreservedIsReachable DEF PayOut
  <2> QED
    BY <1>4, <2>2, <2>3, RoundTripsAreNeutral
<1>5. Skew(remaining) \in Nat /\ Skew(remaining') \in Nat
  BY <1>1 DEF Skew, Greater, Lesser, Amounts2
<1> QED
  BY <1>2, <1>3, <1>4, <1>5 DEF Greater

\* Nothing that the pool and the TWAP do with the domains touches what is reserved of
\* them, tilts unreserved domains further, but for an odd atom, or is left behind by
\* a deposit that leaves again (insurance_withdrawal_plan, execute).
THEOREM MovesAlwaysNeutral == RoundsSpec => MovesAreNeutral
<1>1. DomainsInv /\ [RoundsNext]_round_vars => DomainsInv'
  BY StepsKeepDomainsInv
<1>2. DomainsInv /\ [RoundsNext]_round_vars =>
        [/\ (\E d \in Domains : remaining'[d] < reserved[d]) => MarketStep
         /\ live /\ Unreserved /\ Skew(remaining') > Greater(Skew(remaining), 1)
              => MarketStep \/ \E n \in 1 .. MaxInsurance : Donate(n)
         /\ (/\ live /\ Unreserved
             /\ before.amount > 0
             /\ before.remaining.short - before.remaining.long \in {0, 1}
             /\ PayOut(before.amount, before.amount))
              => remaining' = before.remaining]_round_vars
  BY MovesStayNeutral
<1> QED
  BY InitHasDomainsInv, <1>1, <1>2, PTL DEF RoundsSpec, MovesAreNeutral
=============================================================================
