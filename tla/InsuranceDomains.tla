-------------------------- MODULE InsuranceDomains --------------------------
(***************************************************************************)
(* The two insurance domains of a market and what an insurance pool does to *)
(* them (subledger/src/lib.rs): insurance_deposit spreads a top-up,         *)
(* insurance_withdraw plans its payout.  The market around them is external: *)
(* fees and losses hit one domain, and open positions reserve part of it.   *)
(***************************************************************************)
EXTENDS DomainMath

CONSTANTS
  MaxInsurance,   \* bound: insurance of the market (u128 in the code)
  MaxReserved     \* bound: reserved part of a domain

ASSUME DomainAssumption == MaxInsurance \in Nat /\ MaxReserved \in Nat

VARIABLES
  remaining,      \* insurance_domain_budget - insurance_domain_spent
  reserved,       \* insurance_credit_reserved, rounded up to atoms
  held_back,      \* of all of it, what other assets reserve
  live,           \* the market is live
  before          \* history: [remaining, amount] of a deposit just made

domain_vars == <<remaining, reserved, held_back, live, before>>

Domains == {"long", "short"}
Free    == Split(Over(remaining.long, reserved.long), Over(remaining.short, reserved.short))
Available  == Over(Sum2(remaining), held_back)
Reachable  == Capacity(remaining, Free, Available)

NoDeposit == [remaining |-> Split(0, 0), amount |-> 0]

----------------------------------------------------------------------------
DomainInit ==
  /\ remaining = Split(0, 0)
  /\ reserved = Split(0, 0)
  /\ held_back = 0
  /\ live = TRUE
  /\ before = NoDeposit

\* insurance_deposit: Percolator takes top-ups of a live market only.
TopUp(amount) ==
  LET delta == DepositSplit(remaining, amount)
  IN  /\ live
      /\ Sum2(remaining) + amount <= MaxInsurance
      /\ remaining' = Split(remaining.long + delta.long, remaining.short + delta.short)
      /\ before' = [remaining |-> remaining, amount |-> amount]
      /\ UNCHANGED <<reserved, held_back, live>>

\* Where a payout with this much principal in it should leave the domains.
Target(payout, principal) ==
  LET ideal == IdealLongDebit(remaining, payout, WithdrawSplit(remaining, principal))
      long  == LongDebit(ideal, payout, Reachable)
  IN  Split(remaining.long - long, remaining.short - (payout - long))

\* insurance_withdraw out of a live market.
PayOut(payout, principal) ==
  LET target == Target(payout, principal)
      plan   == Plan(remaining, Reachable, target)
      left   == WithdrawnLongFirst(remaining, Reachable, plan.gross)
  IN  /\ live
      /\ principal \in 1 .. payout
      /\ payout <= Sum2(Reachable)
      /\ PlanHolds(remaining, Reachable, target, payout, plan)
      /\ remaining' = Split(left.long + plan.redeposit.long,
                            left.short + plan.redeposit.short)
      /\ before' = NoDeposit
      /\ UNCHANGED <<reserved, held_back, live>>

\* insurance_withdraw out of a market that is resolved.
PayOutResolved(payout) ==
  /\ ~live
  /\ payout \in 1 .. Sum2(Reachable)
  /\ remaining' = WithdrawnLongFirst(remaining, Reachable, payout)
  /\ before' = NoDeposit
  /\ UNCHANGED <<reserved, held_back, live>>

\* External: an atom is earned, lost, reserved or released.
Market(d) ==
  /\ before' = NoDeposit
  /\ \/ /\ live
        /\ Sum2(remaining) < MaxInsurance
        /\ remaining' = [remaining EXCEPT ![d] = @ + 1]
        /\ UNCHANGED <<reserved, held_back, live>>
     \/ /\ remaining[d] > 0
        /\ remaining' = [remaining EXCEPT ![d] = @ - 1]
        /\ reserved' = [reserved EXCEPT ![d] = Over(@, 1)]
        /\ UNCHANGED <<held_back, live>>
     \/ /\ \E r \in 0 .. Lesser(remaining[d], MaxReserved) :
             reserved' = [reserved EXCEPT ![d] = r]
        /\ UNCHANGED <<remaining, held_back, live>>
     \/ /\ held_back' \in 0 .. MaxReserved
        /\ UNCHANGED <<remaining, reserved, live>>
     \/ /\ live
        /\ live' = FALSE
        /\ UNCHANGED <<remaining, reserved, held_back>>

PoolStep ==
  \E n \in 1 .. MaxInsurance :
    TopUp(n) \/ PayOutResolved(n) \/ \E principal \in 1 .. n : PayOut(n, principal)

MarketStep == \E d \in Domains : Market(d)

----------------------------------------------------------------------------
\* No exit is refused by the planner: whatever can be reached can be paid out,
\* however the domains and their reservations stand (insurance_withdrawal_plan).
EveryPayoutHasAPlan ==
  \A payout \in 1 .. Sum2(Reachable) : \A principal \in 1 .. payout :
    LET target == Target(payout, principal)
    IN  PlanHolds(remaining, Reachable, target, payout,
                  Plan(remaining, Reachable, target))

Skew(d)    == Greater(d.long, d.short) - Lesser(d.long, d.short)
Unreserved == reserved = Split(0, 0) /\ held_back = 0
=============================================================================
