---------------------------- MODULE InsurancePool ----------------------------
(***************************************************************************)
(* The insurance pool of the subledger (subledger/src/lib.rs): owners put   *)
(* principal into the insurance of one Percolator market and hold shares of *)
(* it.  Losses of the market shrink the insurance, fees and donations let   *)
(* it grow.  The policy says who owns the growth: "principal" pools price   *)
(* their shares over the principal they owe at most, "with_surplus" pools   *)
(* over all of it.  DepositLedger is what remains without the shares.       *)
(*                                                                         *)
(* The market is Percolator's and external; `operator` is whoever holds the *)
(* market's insurance roles, and the pool moves money only while it does.   *)
(* InsuranceDomains models how the money is spread over the market's domains.  *)
(* OwnVault adds the pools that keep their money in a vault of their own.     *)
(***************************************************************************)
EXTENDS SlotClock, Sums, ShareMath

CONSTANTS
  Owners,           \* depositors
  Policies,         \* values of pool.policy: "principal", "with_surplus"
  OwnVaults,        \* values of own_vault: FALSE for insurance pools
  DepositStart,     \* pool.deposit_start_slot
  DepositWindow,    \* pool.deposit_window_slots
  BootstrapDelay,   \* pool.bootstrap_delay_slots
  MaxPrincipal,     \* bound: outstanding principal (u64 in the code)
  MaxInsurance,     \* bound: insurance of the market (u64 in the code)
  MaxEpoch,         \* SHARE_GENERATION_MASK, 2^20 - 1 in the code
  Voters,           \* bound: owners that vote, and whose positions are locked
  Sizes,            \* bound: amounts an owner moves at once, short of all it has
  MarketMoves       \* bound: amounts lost, earned or donated at once

ASSUME PoolAssumption ==
  /\ IsFiniteSet(Owners)
  /\ Policies \subseteq {"principal", "with_surplus"}
  /\ OwnVaults \subseteq BOOLEAN
  /\ DepositStart \in Nat
  /\ DepositWindow \in Nat \ {0}
  /\ BootstrapDelay \in Nat \ {0}
  /\ MaxPrincipal \in Nat
  /\ MaxInsurance \in Nat
  /\ MaxEpoch \in Nat
  /\ Sizes \subseteq Nat \ {0}
  /\ MarketMoves \subseteq Nat \ {0}
  \* Principal at par fits the share counter: u64 amounts, 10^6 virtual shares, u128.
  /\ VirtualShares * (MaxPrincipal + 1) <= MaxShares

VARIABLES
  policy,         \* pool.policy, fixed when the pool is opened
  own_vault,      \* ~pool.is_insurance(), likewise: see OwnVault
  pool_open,      \* the pool account exists
  outstanding,    \* pool.outstanding_principal
  total_shares,   \* pool.total_shares
  generation,     \* pool.share_generation: [reset, scale]
  position,       \* per owner
  insurance,      \* asset-0 insurance of the market, or what is in the own vault
  market,         \* "live", "resolved" or, once nothing is left in it, "empty"
  exposed,        \* open positions or losses not realised yet
  operator,       \* who holds the insurance roles
  impaired        \* history: insurance was once less than the principal owed

pool_kind   == <<policy, own_vault>>
pool_vars   == <<pool_kind, pool_open, outstanding, total_shares, generation, position>>
market_vars == <<insurance, market, exposed, operator>>
ins_vars    == <<slot, pool_vars, market_vars, impaired>>

Generation == [reset : 0 .. MaxEpoch, scale : 0 .. MaxEpoch]
Position   == [principal : 0 .. MaxPrincipal, shares : 0 .. MaxShares,
               generation : Generation, vote_locked : BOOLEAN, withdrawn : BOOLEAN]

FirstGeneration == [reset |-> 0, scale |-> 0]
NoPosition      == [principal |-> 0, shares |-> 0, generation |-> FirstGeneration,
                    vote_locked |-> FALSE, withdrawn |-> FALSE]

DepositDeadline == DepositStart + DepositWindow
BootstrapEnd    == DepositStart + BootstrapDelay
DepositsOpen    == DepositStart <= slot /\ slot < DepositDeadline

----------------------------------------------------------------------------
(* Shares and what they are worth.                                          *)

\* Mutant: a principal pool prices its shares over all the insurance.
PricedBalance_All(balance, owed) == balance

\* What the shares are priced over.
PricedBalance(balance, owed) ==
  IF policy = "principal" THEN Least(balance, owed) ELSE balance

Priced    == PricedBalance(insurance, outstanding)
PoolBasis == Basis(total_shares, generation.scale, 0)

\* Mutants: a reset generation is not noticed; halvings are not caught up with.
CurrentShares_AnyReset(o) ==
  LazilyRescaled(position[o].shares,
                 IF generation.scale >= position[o].generation.scale
                 THEN generation.scale - position[o].generation.scale ELSE 0)
CurrentShares_AnyScale(o) ==
  IF position[o].generation.reset = generation.reset THEN position[o].shares ELSE 0

\* o's shares once its position is moved to the pool's generation.
CurrentShares(o) ==
  IF position[o].generation.reset = generation.reset
  THEN LazilyRescaled(position[o].shares, generation.scale - position[o].generation.scale)
  ELSE 0

\* The position is not of a later generation than the pool.
Movable(o) ==
  LET of == position[o].generation
  IN  \/ of.reset < generation.reset
      \/ of.reset = generation.reset /\ of.scale <= generation.scale

\* The shares that go with n of o's principal.
Retired(o, n) ==
  IF n = position[o].principal THEN CurrentShares(o)
  ELSE (CurrentShares(o) * n) \div position[o].principal

\* What o is paid for n of its principal.
Owed(o, n) ==
  LET worth == Redeem(Retired(o, n), Priced, PoolBasis)
  IN  IF policy = "with_surplus" THEN worth
      ELSE IF own_vault THEN Payout(insurance, outstanding, n)
      ELSE Least(n, worth)

Claim(o) == IF position[o].principal = 0 THEN 0 ELSE Owed(o, position[o].principal)

\* The share arithmetic accepts an exit of n by o; amounts are unsigned.
Admissible(o, n) ==
  /\ Movable(o)
  /\ policy = "principal" /\ CurrentShares(o) # 0 => total_shares # 0
  /\ Retired(o, n) <= total_shares
  /\ Owed(o, n) \in 0 .. insurance

\* The pool's shares after an exit.  The last one out leaves none, or, where
\* growth belongs to the shares, as many unowned ones as price it at par.
TotalAfterExit(left, balance, burnt) ==
  IF left # 0 THEN total_shares - burnt
  ELSE IF policy = "principal" THEN 0 ELSE balance * VirtualShares

----------------------------------------------------------------------------
PoolInit ==
  /\ slot = 0
  /\ policy \in Policies
  /\ own_vault \in OwnVaults
  /\ pool_open = FALSE
  /\ outstanding = 0
  /\ total_shares = 0
  /\ generation = FirstGeneration
  /\ position = [o \in Owners |-> NoPosition]
  /\ insurance = 0
  /\ market = "live"
  /\ exposed = FALSE
  /\ operator = "controller"
  /\ impaired = FALSE

InitPool ==
  /\ ~pool_open
  /\ slot < DepositDeadline
  /\ slot < BootstrapEnd
  /\ DepositDeadline <= BootstrapEnd
  /\ BootstrapEnd <= MaxSlot
  /\ pool_open' = TRUE
  /\ UNCHANGED <<slot, pool_kind, outstanding, total_shares, generation, position, market_vars>>

\* The shares are worth nothing: the next deposit starts them afresh.
Wiped == Priced = 0 /\ total_shares # 0

\* Mutant: the pool's generation stays the same.
RestartedGeneration_Same == generation

\* The generation a deposit mints in, before it is rescaled.
RestartedGeneration ==
  IF Wiped /\ outstanding # 0
  THEN [reset |-> generation.reset + 1, scale |-> 0] ELSE generation

RestartedTotal == IF Wiped THEN 0 ELSE total_shares

\* insurance_deposit: a position that left stays closed; Percolator takes no
\* top-up once the market is resolved.
Deposit(o, n) ==
  /\ pool_open
  /\ n > 0
  /\ DepositsOpen
  /\ market = "live"
  /\ operator = "pool"
  /\ ~position[o].withdrawn
  /\ outstanding + n <= MaxPrincipal
  /\ insurance + n <= MaxInsurance
  /\ RestartedGeneration.reset <= MaxEpoch
  /\ \E k \in FittingRescales(n, Priced, RestartedTotal, RestartedGeneration.scale) :
       LET gen    == [RestartedGeneration EXCEPT !.scale = @ + k]
           total  == Rescaled(RestartedTotal, k)
           minted == Minted(n, Priced, RestartedTotal, RestartedGeneration.scale, k)
           kept   == IF position[o].generation.reset = gen.reset
                     THEN LazilyRescaled(position[o].shares,
                                         gen.scale - position[o].generation.scale)
                     ELSE 0
       IN  /\ gen.scale <= MaxEpoch
           /\ FairlyMinted(n, minted, Priced, total + VirtualSharesAt(gen.scale))
           /\ total_shares' = total + minted
           /\ generation' = gen
           /\ position' = [position EXCEPT ![o] =
                [principal   |-> position[o].principal + n,
                 shares      |-> kept + minted,
                 generation  |-> gen,
                 vote_locked |-> position[o].vote_locked,
                 withdrawn   |-> FALSE]]
  /\ outstanding' = outstanding + n
  /\ insurance' = insurance + n
  /\ UNCHANGED <<slot, pool_kind, pool_open, market, exposed, operator>>

\* What every exit does: n of o's principal leaves the pool and o is paid what
\* it is worth.  While losses may still be coming, only worthless principal
\* leaves a live market.
PayOff(o, n) ==
  LET paid    == Owed(o, n)
      left    == outstanding - n
      balance == PricedBalance(insurance - paid, left)
      burnt   == IF Retired(o, n) = 0 THEN 0
                 ELSE RateSafeBurn(Retired(o, n), Priced, balance, PoolBasis)
  IN  /\ ~position[o].withdrawn
      /\ n \in 1 .. position[o].principal
      /\ n <= outstanding
      /\ Admissible(o, n)
      /\ ~(paid > 0 /\ market = "live" /\ exposed)
      /\ insurance' = insurance - paid
      /\ outstanding' = left
      /\ total_shares' = TotalAfterExit(left, balance, burnt)
      /\ generation' = IF left = 0 THEN [generation EXCEPT !.scale = 0] ELSE generation
      /\ UNCHANGED <<slot, pool_kind, pool_open, market, exposed>>

\* o's position after n of its principal left.
Reduced(o, n, locked) ==
  [principal   |-> position[o].principal - n,
   shares      |-> CurrentShares(o) - Retired(o, n),
   generation  |-> generation,
   vote_locked |-> locked,
   withdrawn   |-> n = position[o].principal]

\* Mutant: a vote lock holds nothing back.
Unlocked_Always(o) == TRUE

Unlocked(o) == ~position[o].vote_locked

\* o takes out n of its principal, of its own will ...
Leave(o, n) ==
  /\ Unlocked(o)
  /\ PayOff(o, n)
  /\ position' = [position EXCEPT ![o] = Reduced(o, n, position[o].vote_locked)]

\* ... by insurance_withdraw, or insurance_withdraw_full for all of it.
Exit(o, n) ==
  /\ operator = "pool"
  /\ Leave(o, n)
  /\ UNCHANGED operator

\* return_finalized_position: anybody, once the market is empty.  Genesis-vote
\* retires the ballot behind the lock.
TerminalReturn(o) ==
  /\ market = "empty"
  /\ operator = "pool"
  /\ PayOff(o, position[o].principal)
  /\ position' = [position EXCEPT ![o] = Reduced(o, position[o].principal, FALSE)]
  /\ UNCHANGED operator

SetVoteLock(o, locked) ==
  /\ pool_open
  /\ position[o].principal > 0
  /\ position' = [position EXCEPT ![o].vote_locked = locked]
  /\ UNCHANGED <<slot, pool_kind, pool_open, outstanding, total_shares, generation, market_vars>>

----------------------------------------------------------------------------
(* External: the market, and the programs the roles are handed to.          *)

MarketUnchanged == UNCHANGED <<slot, pool_vars>>

\* Fees, and donations by anybody.
Earn(n) ==
  /\ market = "live"
  /\ insurance + n <= MaxInsurance
  /\ insurance' = insurance + n
  /\ MarketUnchanged /\ UNCHANGED <<market, exposed, operator>>

\* A loss is realised against the insurance.
Lose(n) ==
  /\ exposed
  /\ n <= insurance
  /\ insurance' = insurance - n
  /\ MarketUnchanged /\ UNCHANGED <<market, exposed, operator>>

\* Positions are opened; all of them are closed and their losses realised.
Trade ==
  /\ market = "live" \/ exposed
  /\ exposed' = ~exposed
  /\ MarketUnchanged /\ UNCHANGED <<insurance, market, operator>>

ResolveMarket ==
  \/ /\ market = "live"
     /\ market' = "resolved"
     /\ MarketUnchanged /\ UNCHANGED <<insurance, exposed, operator>>
  \/ /\ market = "resolved"
     /\ ~exposed
     /\ market' = "empty"
     /\ MarketUnchanged /\ UNCHANGED <<insurance, exposed, operator>>

\* The roles are granted to the pool, handed on and returned, at any time.
MoveRoles ==
  /\ pool_open
  /\ operator' \in {"pool", "twap"} \ {operator}
  /\ MarketUnchanged /\ UNCHANGED <<insurance, market, exposed>>

----------------------------------------------------------------------------
PoolNext ==
  \/ InitPool
  \/ \E o \in Owners :
       \/ \E n \in Sizes : Deposit(o, n)
       \/ \E n \in Sizes \cup {position[o].principal} : Exit(o, n)
       \/ TerminalReturn(o)
       \/ o \in Voters /\ \E locked \in BOOLEAN : SetVoteLock(o, locked)

MarketNext ==
  \/ \E n \in MarketMoves : Earn(n) \/ Lose(n)
  \/ Trade
  \/ ResolveMarket

PoolTime == Tick /\ UNCHANGED <<pool_vars, market_vars>>

NotesImpairment == impaired' = (impaired \/ insurance' < outstanding')

InsuranceNext ==
  /\ PoolNext \/ MarketNext \/ MoveRoles \/ PoolTime
  /\ NotesImpairment

InsuranceSpec == PoolInit /\ [][InsuranceNext]_ins_vars

----------------------------------------------------------------------------
\* No exit is ever refused, and nobody's capital stuck, by the arithmetic
\* itself: the pool counts at least the shares retired, the payout is there,
\* and no position is ahead of the pool's generation (insurance_withdraw_impl).
ExitsAreAdmissible ==
  \A o \in Owners : \A n \in 1 .. position[o].principal :
    n <= outstanding /\ Admissible(o, n)

\* All owners together can be paid what each would be paid if it left now; and
\* a principal pool that never lost anything, as one with its own vault never
\* does, owes every owner its principal to the atom, whatever was earned, donated,
\* topped up or partly withdrawn (insurance_withdraw_impl, payout).
ClaimsAreCovered ==
  /\ Total([o \in Owners |-> Claim(o)], Owners) <= insurance
  /\ policy = "principal" /\ (own_vault \/ ~impaired)
       => \A o \in Owners : Claim(o) = position[o].principal

Deposited(o) == position'[o].principal - position[o].principal

\* What one share is worth: nothing, unless many times the shares' number of
\* tokens were sent to a vault.
SharePrice == Redeem(1, Priced, PoolBasis)

\* Leaving first, last or in parts wins nothing: an exit pays no more than the
\* claim falls, makes no other owner richer (rate_safe_pool_share_burn keeps the
\* rounding in the pool), and where growth belongs to the shares costs no other
\* owner more than the rounding of the burn, one share, and that of the claim.
ExitsMoveNoValue ==
  [][\A o \in Owners : Deposited(o) < 0 =>
       /\ insurance - insurance' + Claim(o)' <= Claim(o)
       /\ \A q \in Owners \ {o} :
            /\ Claim(q)' <= Claim(q)
            /\ policy = "with_surplus" => Claim(q)' >= Claim(q) - SharePrice - 1]_ins_vars

\* A deposit is worth itself and moves nobody else's claim, up to one atom each
\* (require_bounded_share_rounding), also when it rescales the shares or tokens
\* were sent to the vault; and into a pool worth nothing it recapitalises no
\* position wiped out before it.
DepositsKeepClaims ==
  [][\A o \in Owners : Deposited(o) > 0 =>
       /\ Claim(o)' - Claim(o) \in Deposited(o) - 1 .. Deposited(o) + 1
       /\ \A q \in Owners \ {o} : /\ Claim(q)' \in Claim(q) - 1 .. Claim(q) + 1
                                 /\ Priced = 0 => Claim(q)' = 0]_ins_vars

\* "equal-entry positions remain pro-rata and exit-order independent"
\* (insurance_withdraw_impl): of two positions that are alike, the one left
\* behind is worth what the other one was paid, up to an atom of rounding.
ExitOrderIsIrrelevant ==
  [][\A o, q \in Owners :
       o # q /\ position[o] = position[q] /\ Deposited(o) < 0 /\ position'[o].withdrawn
         => Claim(q)' >= insurance - insurance' - 1]_ins_vars

\* Seen without its shares, the pool is the ledger genesis-vote builds on.
Ledger == INSTANCE DepositLedger WITH
  position <- [o \in Owners |->
                 [principal   |-> position[o].principal,
                  vote_locked |-> position[o].vote_locked,
                  withdrawn   |-> position[o].withdrawn]],
  resolved <- market = "empty"

\* InsurancePool implements DepositLedger.
ImplementsLedger == Ledger!LedgerSpec
=============================================================================
