----------------------------- MODULE DomainMath -----------------------------
(***************************************************************************)
(* How money is spread over the two insurance domains, long and short, of a *)
(* market (subledger/src/lib.rs, percolator-accounting/src/lib.rs).         *)
(* Percolator pays a withdrawal out of the long domain before the short     *)
(* one.  So whoever wants the domains to end up in some other way withdraws *)
(* more than it needs and tops the excess up again: that is a plan.         *)
(***************************************************************************)
EXTENDS Integers

Lesser(a, b)  == IF a <= b THEN a ELSE b
Greater(a, b) == IF a >= b THEN a ELSE b
Over(a, b)    == Greater(a - b, 0)      \* saturating_sub

\* An amount per domain.
Split(l, s) == [long |-> l, short |-> s]
Sum2(d)     == d.long + d.short

\* A deposit fills the lower domain up first and halves the rest; the odd atom
\* goes to short.
DepositSplit(d, amount) ==
  LET gap  == Lesser(Over(Greater(d.long, d.short), Lesser(d.long, d.short)), amount)
      rest == amount - gap
  IN  IF d.long <= d.short THEN Split(gap + rest \div 2, rest - rest \div 2)
      ELSE Split(rest \div 2, gap + rest - rest \div 2)

\* Mutant: the odd atom comes from short, as a deposit's goes to short.
WithdrawSplit_OddShort(d, amount) == DepositSplit(Split(d.short, d.long), amount)

\* A withdrawal takes from the higher domain first and halves the rest; the odd
\* atom comes from long.
WithdrawSplit(d, amount) ==
  LET gap  == Lesser(Over(Greater(d.long, d.short), Lesser(d.long, d.short)), amount)
      rest == amount - gap
  IN  IF d.long >= d.short THEN Split(gap + rest - rest \div 2, rest \div 2)
      ELSE Split(rest - rest \div 2, gap + rest \div 2)

\* The long domain's part of a payout of which `principal` is the part that is
\* principal, domain by domain; what goes beyond follows the remaining balances.
IdealLongDebit(d, payout, principal) ==
  LET owed      == Sum2(principal)
      residual  == Split(Over(d.long, principal.long), Over(d.short, principal.short))
  IN  IF payout <= owed
      THEN (payout * principal.long) \div owed
      ELSE principal.long
             + ((payout - owed) * residual.long) \div Sum2(residual)

\* Mutant: what is reserved is not looked at.
Capacity_Gross(d, free, available) == d

\* What of each domain a withdrawal can reach: `free` is not reserved, and at
\* most `available` can leave the market.
Capacity(d, free, available) ==
  LET long == Lesser(available, free.long)
  IN  Split(long, Lesser(available, Sum2(free)) - long)

\* Mutants: the payout is taken long first, as Percolator would; the ideal debit
\* is not fitted to the capacities.
LongDebit_LongFirst(ideal, payout, capacity) == Lesser(payout, capacity.long)
LongDebit_Ideal(ideal, payout, capacity) == ideal

\* The ideal debit as far as both domains' capacities allow.
LongDebit(ideal, payout, capacity) ==
  Greater(Over(payout, capacity.short), Lesser(ideal, Lesser(payout, capacity.long)))

\* A plan reaches `target`: the short domain gains what long gives up, or gives
\* up itself, and then all of long that can be reached moves first.
Plan(d, capacity, target) ==
  IF target.short >= d.short
  THEN [gross |-> d.long - target.long, redeposit |-> Split(0, target.short - d.short)]
  ELSE [gross |-> capacity.long + (d.short - target.short),
        redeposit |-> Split(target.long - (d.long - capacity.long), 0)]

\* What Percolator leaves in the domains after a gross withdrawal.
WithdrawnLongFirst(d, capacity, gross) ==
  LET long == Lesser(gross, capacity.long)
  IN  Split(d.long - long, d.short - (gross - long))

\* The planner accepts a plan: it can be withdrawn, pays out `payout`, and ends
\* in the target.
PlanHolds(d, capacity, target, payout, plan) ==
  LET left == WithdrawnLongFirst(d, capacity, plan.gross)
  IN  /\ plan.redeposit.long >= 0 /\ plan.redeposit.short >= 0
      /\ plan.gross \in 0 .. Sum2(capacity)
      /\ left.long + plan.redeposit.long = target.long
      /\ left.short + plan.redeposit.short = target.short
      /\ plan.gross - Sum2(plan.redeposit) = payout
=============================================================================
