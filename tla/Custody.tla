------------------------------- MODULE Custody -------------------------------
(***************************************************************************)
(* Who holds the insurance roles of the market, and what it may do with     *)
(* them: the market controller grants them to the insurance pool, the pool  *)
(* hands them to the TWAP (twap-program/src/lib.rs), which may pull surplus  *)
(* out of the insurance but never principal, and the TWAP returns them for  *)
(* governance, for an owner that leaves, or for anybody once the market is  *)
(* resolved and empty.  reserved_floor is what the TWAP has to leave alone. *)
(***************************************************************************)
EXTENDS InsurancePool

CONSTANT MaxFloor    \* stands for u128::MAX, the floor that was never set

ASSUME CustodyAssumption == MaxFloor \in Nat /\ MaxFloor > MaxInsurance + MaxPrincipal

VARIABLES
  custody_bound,       \* config.custody_pool is this pool (CUSTODY_MODE_POOL_BOUND)
  custody_principal,   \* config.custody_principal: what the last handoff protected
  reserved_floor,      \* config.reserved_floor
  rehandoff_pending    \* config.rehandoff_pending: an owner left on its own

twap_vars == <<custody_bound, custody_principal, reserved_floor, rehandoff_pending>>

custody_vars == <<ins_vars, twap_vars>>

\* Mutant: the floor of the first handoff is kept.
FloorAtHandoff_Kept ==
  IF custody_bound THEN reserved_floor
  ELSE IF reserved_floor = MaxFloor \/ reserved_floor < outstanding
       THEN outstanding ELSE reserved_floor

\* The floor a handoff leaves: principal protected before is replaced by what
\* the pool owes now, and every buffer on top of it is kept.
FloorAtHandoff ==
  IF custody_bound THEN (reserved_floor - custody_principal) + outstanding
  ELSE IF reserved_floor = MaxFloor \/ reserved_floor < outstanding
       THEN outstanding ELSE reserved_floor

OwnerClaimsCleared ==
  outstanding = 0 /\ (policy = "principal" => total_shares = 0)

\* assert_principal
HasPrincipal ==
  policy = "principal" /\ outstanding # 0 /\ total_shares # 0

----------------------------------------------------------------------------
CustodyInit ==
  /\ PoolInit
  /\ ~own_vault
  /\ custody_bound = FALSE
  /\ custody_principal = 0
  /\ reserved_floor = MaxFloor
  /\ rehandoff_pending = FALSE

PoolUnchanged == UNCHANGED <<slot, pool_vars, market, exposed>>

\* grant_genesis_pool: governance has the controller grant its roles.
GrantGenesisPool ==
  /\ pool_open
  /\ operator = "controller"
  /\ operator' = "pool"
  /\ PoolUnchanged /\ UNCHANGED <<insurance, twap_vars>>

\* handoff_to_twap and accept_from_subledger: signed by governance, or by
\* anybody after an owner left on its own.
HandoffToTwap(governed) ==
  /\ pool_open
  /\ operator = "pool"
  /\ policy = "with_surplus" => OwnerClaimsCleared
  /\ governed \/ (custody_bound /\ rehandoff_pending)
  /\ custody_bound => reserved_floor # MaxFloor /\ reserved_floor >= custody_principal
  /\ reserved_floor' = FloorAtHandoff
  /\ custody_principal' = outstanding
  /\ custody_bound' = TRUE
  /\ rehandoff_pending' = FALSE
  /\ operator' = "twap"
  /\ PoolUnchanged /\ UNCHANGED insurance

\* return_to_subledger, signed by governance.
ReturnByGovernance ==
  /\ operator = "twap"
  /\ custody_bound
  /\ operator' = "pool"
  /\ PoolUnchanged /\ UNCHANGED <<insurance, twap_vars>>

\* Mutant: only once the insurance is drained.
MayReturnPublicly_NoInsurance == market = "empty" /\ insurance = 0

\* Anybody may return the roles now.
MayReturnPublicly ==
  market = "empty" /\ (insurance # 0 => HasPrincipal)

\* return_to_subledger, by anybody.
ReturnResolved ==
  /\ operator = "twap"
  /\ custody_bound
  /\ MayReturnPublicly
  /\ operator' = "pool"
  /\ PoolUnchanged /\ UNCHANGED <<insurance, twap_vars>>

\* return_to_subledger by an owner, who leaves with all it has in the same
\* transaction.
ReturnForExit(o) ==
  /\ operator = "twap"
  /\ custody_bound
  /\ market # "empty"
  /\ ~rehandoff_pending
  /\ Leave(o, position[o].principal)
  /\ operator' = "pool"
  /\ rehandoff_pending' = TRUE
  /\ UNCHANGED <<custody_bound, custody_principal, reserved_floor>>

\* Mutant: governance may lower the floor.
FloorMayBecome_Any(floor) == TRUE

\* Once set, the floor only rises, and never to what means unset.
FloorMayBecome(floor) ==
  reserved_floor = MaxFloor \/ (floor >= reserved_floor /\ floor # MaxFloor)

SetReservedFloor(floor) ==
  /\ FloorMayBecome(floor)
  /\ reserved_floor' = floor
  /\ PoolUnchanged
  /\ UNCHANGED <<insurance, operator, custody_bound, custody_principal, rehandoff_pending>>

Surplus ==
  IF (market = "live" /\ exposed) \/ insurance < reserved_floor THEN 0
  ELSE insurance - reserved_floor

\* execute: part of the surplus is pulled, and the rest becomes part of the
\* floor.  Which part is governance's economics; only a pull needs the roles, so
\* the floor may also rise while the pool holds them.
Execute(pulled) ==
  /\ pulled \in 0 .. Surplus
  /\ pulled # 0 => operator = "twap"
  /\ insurance' = insurance - pulled
  /\ reserved_floor' = reserved_floor + (Surplus - pulled)
  /\ PoolUnchanged
  /\ UNCHANGED <<operator, custody_bound, custody_principal, rehandoff_pending>>

\* return_resolved_protocol_insurance: what no owner has a claim to.
ReturnResolvedProtocolInsurance ==
  /\ operator = "twap"
  /\ market = "empty"
  /\ OwnerClaimsCleared
  /\ insurance # 0
  /\ insurance' = 0
  /\ PoolUnchanged /\ UNCHANGED <<operator, twap_vars>>

----------------------------------------------------------------------------
Governed ==
  \/ GrantGenesisPool
  \/ HandoffToTwap(TRUE)
  \/ ReturnByGovernance
  \/ \E floor \in (0 .. MaxInsurance) \cup {MaxFloor} : SetReservedFloor(floor)

Public ==
  \/ HandoffToTwap(FALSE)
  \/ ReturnResolved
  \/ \E o \in Owners : ReturnForExit(o)
  \/ \E pulled \in 0 .. MaxInsurance : Execute(pulled)
  \/ ReturnResolvedProtocolInsurance

CustodyNext ==
  /\ \/ Governed
     \/ Public
     \/ (PoolNext \/ MarketNext \/ PoolTime) /\ UNCHANGED twap_vars
  /\ NotesImpairment

CustodySpec == CustodyInit /\ [][CustodyNext]_custody_vars

\* Anybody cranks what anybody may: returns after the resolution, and handing
\* back after an owner left.  Governance may hand the roles on between a return
\* and the payoff it was meant for, but not for ever: both fit one transaction.
CrankReturn    == ReturnResolved /\ NotesImpairment
CrankHandoff   == HandoffToTwap(FALSE) /\ NotesImpairment
CrankPayoff(o) == TerminalReturn(o) /\ UNCHANGED twap_vars /\ NotesImpairment

CustodyFairness ==
  /\ WF_custody_vars(CrankReturn)
  /\ WF_custody_vars(CrankHandoff)
  /\ \A o \in Owners : SF_custody_vars(CrankPayoff(o))

FairCustodySpec == CustodySpec /\ CustodyFairness

----------------------------------------------------------------------------
\* While the TWAP holds the roles its floor covers all the principal the pool
\* owes, also after owners left, the roles went back and forth, the surplus was
\* ratcheted and governance raised the floor (accept_from_subledger).
FloorCoversPrincipal == operator = "twap" => outstanding <= reserved_floor

\* The TWAP's pulls and the terminal sweep take nothing that any owner would
\* be paid (execute, return_resolved_protocol_insurance).
PullsLeaveClaims ==
  [][(\E n \in 0 .. MaxInsurance : Execute(n)) \/ ReturnResolvedProtocolInsurance
       => \A o \in Owners : Claim(o)' = Claim(o)]_custody_vars

\* "an owner exit cannot permanently interrupt the auction": the roles it took
\* from the TWAP can be handed back, whatever left the pool meanwhile.
AuctionResumes == rehandoff_pending ~> ~rehandoff_pending

\* Whoever is owed something by a market that is resolved and empty is paid off
\* by public cranks alone, wherever the roles were when it resolved.
OwedArePaidOff ==
  \A o \in Owners : market = "empty" /\ Claim(o) > 0 ~> position[o].withdrawn

\* "After resolution, returning the roles is permissionless while the bound
\* market is empty and the pool still has owner principal" (README.md:218-220).
ReturnIsPermissionless ==
  operator = "twap" /\ market = "empty" /\ outstanding > 0 => MayReturnPublicly
=============================================================================
