---------------------------- MODULE CustodyProofs ----------------------------
(***************************************************************************)
(* The TWAP's floor covers the pool's principal, for any owners, amounts    *)
(* and windows.  The share arithmetic plays no part in it beyond what every *)
(* exit checks: a payout is at least nothing and at most the insurance.     *)
(* Nor does it in the last part: seen without shares, the pool in custody   *)
(* is the ledger the vote builds on.                                        *)
(***************************************************************************)
EXTENDS Custody, TLAPS

\* What the pool owes, holds and has recorded, without the shares.
AmountsOK ==
  /\ outstanding \in 0 .. MaxPrincipal
  /\ insurance \in 0 .. MaxInsurance
  /\ position = [o \in Owners |-> position[o]]
  /\ \A o \in Owners : position[o].principal \in Nat

\* A floor is unset or small; once a handoff was recorded it is set, and only
\* its buffer on top of the recorded principal is free.
FloorOK ==
  /\ custody_bound \in BOOLEAN
  /\ reserved_floor \in (0 .. MaxInsurance + MaxPrincipal) \cup {MaxFloor}
  /\ custody_principal \in 0 .. MaxPrincipal
  /\ custody_bound => /\ reserved_floor # MaxFloor
                      /\ reserved_floor - custody_principal <= MaxInsurance
  /\ ~custody_bound => reserved_floor \in (0 .. MaxInsurance) \cup {MaxFloor}

\* The TWAP holds the roles by a handoff only.
HeldByHandoff == operator = "twap" => custody_bound

CustodyInv == AmountsOK /\ FloorOK /\ HeldByHandoff /\ FloorCoversPrincipal

\* What the assumptions say of the bounds.
LEMMA Bounds ==
  /\ MaxPrincipal \in Nat /\ MaxInsurance \in Nat
  /\ MaxFloor \in Nat /\ MaxFloor > MaxInsurance + MaxPrincipal
BY PoolAssumption, CustodyAssumption

----------------------------------------------------------------------------
LEMMA CustodyInvInit == CustodyInit => CustodyInv
<1> SUFFICES ASSUME CustodyInit PROVE CustodyInv
  OBVIOUS
<1>1. AmountsOK
  BY Bounds DEF CustodyInit, PoolInit, AmountsOK, NoPosition
<1>2. FloorOK
  <2>1. custody_bound \in BOOLEAN /\ ~custody_bound
    BY DEF CustodyInit
  <2>2. reserved_floor = MaxFloor /\ custody_principal = 0
    BY DEF CustodyInit
  <2> QED BY <2>1, <2>2, Bounds DEF FloorOK
<1>3. operator # "twap"
  BY DEF CustodyInit, PoolInit
<1> QED BY <1>1, <1>2, <1>3 DEF CustodyInv, HeldByHandoff, FloorCoversPrincipal

\* A payoff shrinks what is owed and what is held.
LEMMA PayOffShrinks ==
  ASSUME AmountsOK, NEW o \in Owners, NEW n, PayOff(o, n)
  PROVE  /\ n \in Nat /\ n <= position[o].principal
         /\ outstanding' \in 0 .. MaxPrincipal /\ outstanding' <= outstanding
         /\ insurance' \in 0 .. MaxInsurance
<1> DEFINE owed == Owed(o, n)
<1>1. owed \in 0 .. insurance /\ insurance' = insurance - owed
  BY DEF PayOff, Admissible
<1>2. n \in 1 .. position[o].principal /\ n <= outstanding /\ outstanding' = outstanding - n
  BY DEF PayOff
<1>3. position[o].principal \in Nat
  BY DEF AmountsOK
<1> HIDE DEF owed
<1> QED BY <1>1, <1>2, <1>3, Bounds DEF AmountsOK

\* Replacing one position keeps the positions positions.
LEMMA PositionsStay ==
  ASSUME AmountsOK, NEW o \in Owners, NEW pos, pos.principal \in Nat,
         position' = [position EXCEPT ![o] = pos]
  PROVE  /\ position' = [q \in Owners |-> position'[q]]
         /\ \A q \in Owners : position'[q].principal \in Nat
<1>1. position = [q \in Owners |-> position[q]]
  BY DEF AmountsOK
<1>2. position' = [q \in Owners |-> IF q = o THEN pos ELSE position[q]]
  BY <1>1
<1>3. \A q \in Owners : position'[q] = IF q = o THEN pos ELSE position[q]
  BY <1>2
<1> QED BY <1>2, <1>3 DEF AmountsOK

\* An exit, whoever asked for it, keeps the amounts in order and owes no more.
LEMMA ExitAmounts ==
  ASSUME AmountsOK, NEW o \in Owners, NEW n, NEW locked, PayOff(o, n),
         position' = [position EXCEPT ![o] = Reduced(o, n, locked)]
  PROVE  AmountsOK' /\ outstanding' <= outstanding
<1>1. /\ n \in Nat /\ n <= position[o].principal
      /\ outstanding' \in 0 .. MaxPrincipal /\ outstanding' <= outstanding
      /\ insurance' \in 0 .. MaxInsurance
  BY PayOffShrinks
<1> DEFINE pos == Reduced(o, n, locked)
<1>2. pos.principal = position[o].principal - n
  BY DEF Reduced
<1>3. pos.principal \in Nat
  BY <1>1, <1>2 DEF AmountsOK
<1> HIDE DEF pos
<1>4. position' = [position EXCEPT ![o] = pos]
  BY DEF pos
<1>5. /\ position' = [q \in Owners |-> position'[q]]
      /\ \A q \in Owners : position'[q].principal \in Nat
  BY <1>3, <1>4, PositionsStay
<1> QED BY <1>1, <1>5 DEF AmountsOK

----------------------------------------------------------------------------
\* What the pool does by itself, without the TWAP: it moves amounts while it
\* holds the roles, and leaves the roles and the TWAP's records alone.
LEMMA PoolKeepsInv ==
  ASSUME CustodyInv, PoolNext, UNCHANGED twap_vars
  PROVE  CustodyInv'
<1>0. AmountsOK /\ FloorOK /\ HeldByHandoff /\ FloorCoversPrincipal
  BY DEF CustodyInv
<1>1. FloorOK'
  BY <1>0 DEF FloorOK, twap_vars
<1>2. ASSUME InitPool PROVE CustodyInv'
  BY <1>0, <1>1, <1>2 DEF InitPool, CustodyInv, AmountsOK, HeldByHandoff,
     FloorCoversPrincipal, twap_vars, market_vars
<1>3. ASSUME NEW o \in Owners, NEW n \in Sizes, Deposit(o, n) PROVE CustodyInv'
  <2>1. n \in Nat /\ n > 0
    BY PoolAssumption
  <2>2. /\ outstanding' = outstanding + n /\ outstanding + n <= MaxPrincipal
        /\ insurance' = insurance + n /\ insurance + n <= MaxInsurance
        /\ operator' = "pool"
    BY <1>3 DEF Deposit
  <2>3. PICK shares, gen :
          position' = [position EXCEPT ![o] =
            [principal |-> position[o].principal + n, shares |-> shares,
             generation |-> gen, vote_locked |-> position[o].vote_locked,
             withdrawn |-> FALSE]]
    BY <1>3 DEF Deposit
  <2> DEFINE pos == [principal |-> position[o].principal + n, shares |-> shares,
                     generation |-> gen, vote_locked |-> position[o].vote_locked,
                     withdrawn |-> FALSE]
  <2>4. pos.principal = position[o].principal + n
    OBVIOUS
  <2>5. pos.principal \in Nat
    BY <1>0, <2>1, <2>4 DEF AmountsOK
  <2>6. position' = [position EXCEPT ![o] = pos]
    BY <2>3
  <2> HIDE DEF pos
  <2>7. /\ position' = [q \in Owners |-> position'[q]]
        /\ \A q \in Owners : position'[q].principal \in Nat
    BY <1>0, <2>5, <2>6, PositionsStay
  <2>8. AmountsOK'
    BY <1>0, <2>1, <2>2, <2>7, Bounds DEF AmountsOK
  <2> QED BY <1>1, <2>2, <2>8 DEF CustodyInv, HeldByHandoff, FloorCoversPrincipal
<1>4. ASSUME NEW o \in Owners, NEW n, Exit(o, n) PROVE CustodyInv'
  <2>1. AmountsOK'
    BY <1>0, <1>4, ExitAmounts DEF Exit, Leave
  <2>2. operator' = "pool"
    BY <1>4 DEF Exit
  <2> QED BY <1>1, <2>1, <2>2 DEF CustodyInv, HeldByHandoff, FloorCoversPrincipal
<1>5. ASSUME NEW o \in Owners, TerminalReturn(o) PROVE CustodyInv'
  <2>1. AmountsOK'
    BY <1>0, <1>5, ExitAmounts DEF TerminalReturn
  <2>2. operator' = "pool"
    BY <1>5 DEF TerminalReturn
  <2> QED BY <1>1, <2>1, <2>2 DEF CustodyInv, HeldByHandoff, FloorCoversPrincipal
<1>6. ASSUME NEW o \in Owners, NEW locked \in BOOLEAN, SetVoteLock(o, locked)
      PROVE CustodyInv'
  <2>1. position' = [position EXCEPT ![o].vote_locked = locked]
    BY <1>6 DEF SetVoteLock
  <2> DEFINE pos == [position[o] EXCEPT !.vote_locked = locked]
  <2>2. position' = [position EXCEPT ![o] = pos]
    BY <2>1
  <2>3. pos.principal = position[o].principal
    OBVIOUS
  <2>4. pos.principal \in Nat
    BY <1>0, <2>3 DEF AmountsOK
  <2> HIDE DEF pos
  <2>5. /\ position' = [q \in Owners |-> position'[q]]
        /\ \A q \in Owners : position'[q].principal \in Nat
    BY <1>0, <2>2, <2>4, PositionsStay
  <2>6. AmountsOK' /\ outstanding' = outstanding /\ operator' = operator
    BY <1>0, <1>6, <2>5 DEF SetVoteLock, AmountsOK, market_vars
  <2> QED BY <1>0, <1>1, <2>6 DEF CustodyInv, HeldByHandoff, FloorCoversPrincipal,
                                  twap_vars
<1> QED BY <1>2, <1>3, <1>4, <1>5, <1>6 DEF PoolNext

\* The market moves the insurance only.
LEMMA MarketKeepsInv ==
  ASSUME CustodyInv, MarketNext \/ PoolTime, UNCHANGED twap_vars
  PROVE  CustodyInv'
<1>0. AmountsOK /\ FloorOK /\ HeldByHandoff /\ FloorCoversPrincipal
  BY DEF CustodyInv
<1>1. FloorOK'
  BY <1>0 DEF FloorOK, twap_vars
<1>2. UNCHANGED <<outstanding, position, operator>>
  BY DEF MarketNext, Earn, Lose, Trade, ResolveMarket, PoolTime, MarketUnchanged,
         pool_vars, market_vars
<1>3. insurance' \in 0 .. MaxInsurance
  <2>1. ASSUME NEW n \in MarketMoves, Earn(n) \/ Lose(n) PROVE insurance' \in 0 .. MaxInsurance
    <3>1. n \in Nat
      BY PoolAssumption
    <3> QED BY <1>0, <2>1, <3>1, Bounds DEF Earn, Lose, AmountsOK
  <2>2. ASSUME Trade \/ ResolveMarket \/ PoolTime PROVE insurance' = insurance
    BY <2>2 DEF Trade, ResolveMarket, PoolTime, market_vars
  <2> QED BY <1>0, <2>1, <2>2 DEF MarketNext, AmountsOK
<1>4. AmountsOK'
  BY <1>0, <1>2, <1>3 DEF AmountsOK
<1> QED BY <1>0, <1>1, <1>2, <1>4 DEF CustodyInv, HeldByHandoff, FloorCoversPrincipal,
                                      twap_vars

\* A handoff leaves a floor that is the principal and a bounded buffer.
LEMMA HandoffKeepsInv ==
  ASSUME CustodyInv, NEW governed, HandoffToTwap(governed)
  PROVE  CustodyInv'
<1>0. AmountsOK /\ FloorOK
  BY DEF CustodyInv
<1>1. UNCHANGED <<outstanding, position, insurance>> /\ operator' = "twap"
  BY DEF HandoffToTwap, PoolUnchanged, pool_vars
<1>2. /\ custody_bound' = TRUE /\ custody_principal' = outstanding
      /\ reserved_floor' = FloorAtHandoff
      /\ custody_bound => reserved_floor >= custody_principal
  BY DEF HandoffToTwap
<1>3. AmountsOK'
  BY <1>0, <1>1 DEF AmountsOK
<1>4. /\ FloorAtHandoff \in 0 .. MaxInsurance + MaxPrincipal
      /\ FloorAtHandoff - outstanding <= MaxInsurance
      /\ outstanding <= FloorAtHandoff
  <2>1. CASE custody_bound
    BY <1>0, <1>2, <2>1, Bounds DEF FloorAtHandoff, FloorOK, AmountsOK
  <2>2. CASE ~custody_bound
    BY <1>0, <2>2, Bounds DEF FloorAtHandoff, FloorOK, AmountsOK
  <2> QED BY <2>1, <2>2
<1>5. FloorOK'
  BY <1>0, <1>2, <1>4, Bounds DEF FloorOK, AmountsOK
<1> QED BY <1>1, <1>2, <1>3, <1>4, <1>5 DEF CustodyInv, HeldByHandoff,
                                            FloorCoversPrincipal

\* A pull moves the floor up to what is left of the insurance, if at all.
LEMMA ExecuteKeepsInv ==
  ASSUME CustodyInv, NEW pulled, Execute(pulled)
  PROVE  CustodyInv'
<1>0. AmountsOK /\ FloorOK /\ HeldByHandoff /\ FloorCoversPrincipal
  BY DEF CustodyInv
<1>1. /\ UNCHANGED <<outstanding, position, operator, custody_bound, custody_principal>>
      /\ pulled \in 0 .. Surplus /\ insurance' = insurance - pulled
      /\ reserved_floor' = reserved_floor + (Surplus - pulled)
  BY DEF Execute, PoolUnchanged, pool_vars
<1>2. reserved_floor \in Nat /\ insurance \in Nat
  BY <1>0, Bounds DEF FloorOK, AmountsOK
<1>3. Surplus \in Nat /\ (Surplus # 0 => reserved_floor + Surplus = insurance)
  BY <1>2 DEF Surplus
<1>4. pulled \in Nat /\ pulled <= Surplus
  BY <1>1, <1>3
<1>5. insurance' \in 0 .. MaxInsurance
  <2>1. insurance <= MaxInsurance /\ insurance' = insurance - pulled
    BY <1>0, <1>1, Bounds DEF AmountsOK
  <2>2. pulled <= insurance
    BY <1>2, <1>3, <1>4
  <2> QED BY <1>2, <1>4, <2>1, <2>2, Bounds
<1>6. /\ reserved_floor' \in Nat /\ reserved_floor' >= reserved_floor
      /\ reserved_floor' = reserved_floor \/ reserved_floor' <= MaxInsurance
  BY <1>0, <1>1, <1>2, <1>3, <1>4, Bounds DEF AmountsOK
<1>7. AmountsOK'
  BY <1>0, <1>1, <1>5 DEF AmountsOK
<1>8. FloorOK'
  BY <1>0, <1>1, <1>2, <1>6, Bounds DEF FloorOK
<1>9. FloorCoversPrincipal'
  BY <1>0, <1>1, <1>2, <1>6 DEF FloorCoversPrincipal, AmountsOK
<1> QED BY <1>0, <1>1, <1>7, <1>8, <1>9 DEF CustodyInv, HeldByHandoff

\* Governance never lowers a floor that is set.
LEMMA SetFloorKeepsInv ==
  ASSUME CustodyInv, NEW floor \in (0 .. MaxInsurance) \cup {MaxFloor},
         SetReservedFloor(floor)
  PROVE  CustodyInv'
<1>0. AmountsOK /\ FloorOK /\ HeldByHandoff /\ FloorCoversPrincipal
  BY DEF CustodyInv
<1>1. /\ UNCHANGED <<outstanding, position, insurance, operator, custody_bound,
                     custody_principal>>
      /\ reserved_floor' = floor /\ FloorMayBecome(floor)
  BY DEF SetReservedFloor, PoolUnchanged, pool_vars
<1>2. AmountsOK'
  BY <1>0, <1>1 DEF AmountsOK
<1>3. FloorOK'
  BY <1>0, <1>1, Bounds DEF FloorOK, FloorMayBecome
<1>4. FloorCoversPrincipal'
  BY <1>0, <1>1, Bounds DEF FloorCoversPrincipal, FloorMayBecome, FloorOK, AmountsOK,
                            HeldByHandoff
<1> QED BY <1>0, <1>1, <1>2, <1>3, <1>4 DEF CustodyInv, HeldByHandoff

\* The roles leave the TWAP.
LEMMA ReturnKeepsInv ==
  ASSUME CustodyInv,
         \/ GrantGenesisPool \/ ReturnByGovernance \/ ReturnResolved
         \/ \E o \in Owners : ReturnForExit(o)
  PROVE  CustodyInv'
<1>0. AmountsOK /\ FloorOK
  BY DEF CustodyInv
<1>1. operator' = "pool" /\ UNCHANGED <<reserved_floor, custody_bound, custody_principal>>
  BY DEF GrantGenesisPool, ReturnByGovernance, ReturnResolved, ReturnForExit, twap_vars
<1>2. AmountsOK'
  <2>1. ASSUME NEW o \in Owners, ReturnForExit(o) PROVE AmountsOK'
    BY <1>0, <2>1, ExitAmounts DEF ReturnForExit, Leave
  <2>2. ASSUME GrantGenesisPool \/ ReturnByGovernance \/ ReturnResolved PROVE AmountsOK'
    BY <1>0, <2>2 DEF GrantGenesisPool, ReturnByGovernance, ReturnResolved,
                      PoolUnchanged, pool_vars, AmountsOK
  <2> QED BY <2>1, <2>2
<1>3. FloorOK'
  BY <1>0, <1>1 DEF FloorOK
<1> QED BY <1>1, <1>2, <1>3 DEF CustodyInv, HeldByHandoff, FloorCoversPrincipal

LEMMA CustodyInvStep == CustodyInv /\ [CustodyNext]_custody_vars => CustodyInv'
<1> SUFFICES ASSUME CustodyInv, [CustodyNext]_custody_vars PROVE CustodyInv'
  OBVIOUS
<1>1. CASE Governed
  BY <1>1, HandoffKeepsInv, SetFloorKeepsInv, ReturnKeepsInv DEF Governed
<1>2. CASE Public
  <2>1. ASSUME ReturnResolvedProtocolInsurance PROVE CustodyInv'
    BY <2>1, Bounds DEF ReturnResolvedProtocolInsurance, CustodyInv, AmountsOK, FloorOK,
       HeldByHandoff, FloorCoversPrincipal, PoolUnchanged, pool_vars, twap_vars
  <2> QED BY <1>2, <2>1, HandoffKeepsInv, ReturnKeepsInv, ExecuteKeepsInv DEF Public
<1>3. CASE (PoolNext \/ MarketNext \/ PoolTime) /\ UNCHANGED twap_vars
  BY <1>3, PoolKeepsInv, MarketKeepsInv
<1>4. CASE UNCHANGED custody_vars
  BY <1>4 DEF custody_vars, ins_vars, pool_vars, market_vars, twap_vars, CustodyInv,
     AmountsOK, FloorOK, HeldByHandoff, FloorCoversPrincipal
<1> QED BY <1>1, <1>2, <1>3, <1>4 DEF CustodyNext

----------------------------------------------------------------------------
\* Whatever owners, governance and cranks do in whatever order, the TWAP never
\* holds the roles with a floor below the pool's principal: accept_from_subledger
\* exchanges exactly the principal it recorded, and set_reserved_floor and the
\* ratchet of execute only raise the floor.
THEOREM FloorAlwaysCovers == CustodySpec => []FloorCoversPrincipal
<1>1. CustodyInit => CustodyInv
  BY CustodyInvInit
<1>2. CustodyInv /\ [CustodyNext]_custody_vars => CustodyInv'
  BY CustodyInvStep
<1>3. CustodyInv => FloorCoversPrincipal
  BY DEF CustodyInv
<1> QED BY <1>1, <1>2, <1>3, PTL DEF CustodySpec

----------------------------------------------------------------------------
Pull == (\E n \in 0 .. MaxInsurance : Execute(n)) \/ ReturnResolvedProtocolInsurance

\* A principal pool prices its shares over the principal it owes at most, and
\* that much is left, or nothing is owed.
LEMMA PullKeepsPrice ==
  ASSUME CustodyInv, policy = "principal", Pull
  PROVE  Priced' = Priced /\ UNCHANGED <<pool_kind, total_shares, generation, position>>
<1>0. /\ outstanding \in Nat /\ insurance \in Nat
      /\ operator = "twap" => custody_bound
      /\ operator = "twap" => outstanding <= reserved_floor
      /\ custody_bound => reserved_floor \in Nat
  BY Bounds DEF CustodyInv, AmountsOK, FloorOK, HeldByHandoff, FloorCoversPrincipal
<1>1. ASSUME NEW n \in 0 .. MaxInsurance, Execute(n)
      PROVE  /\ Least(insurance', outstanding') = Least(insurance, outstanding)
             /\ UNCHANGED <<pool_kind, total_shares, generation, position>>
  <2>1. /\ n # 0 => operator = "twap"
        /\ n \in 0 .. Surplus /\ insurance' = insurance - n
        /\ UNCHANGED <<pool_kind, outstanding, total_shares, generation, position>>
    BY <1>1 DEF Execute, PoolUnchanged, pool_vars
  <2>2. n \in Nat /\ (n # 0 => outstanding <= insurance - n)
    BY <1>0, <2>1, Bounds DEF Surplus
  <2> QED BY <1>0, <2>1, <2>2 DEF Least
<1>2. ASSUME ReturnResolvedProtocolInsurance
      PROVE  /\ Least(insurance', outstanding') = Least(insurance, outstanding)
             /\ UNCHANGED <<pool_kind, total_shares, generation, position>>
  <2>1. /\ outstanding = 0 /\ insurance' = 0
        /\ UNCHANGED <<pool_kind, outstanding, total_shares, generation, position>>
    BY <1>2 DEF ReturnResolvedProtocolInsurance, OwnerClaimsCleared, PoolUnchanged,
                pool_vars
  <2> QED BY <1>0, <2>1 DEF Least
<1> QED BY <1>1, <1>2 DEF Pull, Priced, PricedBalance, pool_kind

\* What an owner would be paid depends on nothing else.
LEMMA PriceFixesClaim ==
  ASSUME ~own_vault, Priced' = Priced, UNCHANGED <<pool_kind, total_shares, generation, position>>,
         NEW o \in Owners
  PROVE  Claim(o)' = Claim(o)
<1>1. PoolBasis' = PoolBasis
  BY DEF PoolBasis
<1>2. CurrentShares(o)' = CurrentShares(o)
  BY DEF CurrentShares
<1> DEFINE n == position[o].principal
<1>3. Retired(o, n)' = Retired(o, n)
  BY <1>2 DEF Retired
<1>4. Owed(o, n)' = Owed(o, n)
  BY <1>1, <1>3 DEF Owed, pool_kind
<1> QED BY <1>4 DEF Claim

\* A pool never changes its kind.
LEMMA KindIsFixed == [CustodyNext]_custody_vars => pool_kind' = pool_kind
<1> SUFFICES ASSUME [CustodyNext]_custody_vars PROVE pool_kind' = pool_kind
  OBVIOUS
<1> USE DEF PoolUnchanged, MarketUnchanged, pool_vars
<1>1. CASE Governed
  BY <1>1 DEF Governed, GrantGenesisPool, HandoffToTwap, ReturnByGovernance, SetReservedFloor
<1>2. CASE Public
  BY <1>2 DEF Public, HandoffToTwap, ReturnResolved, ReturnForExit, Leave, PayOff, Execute,
              ReturnResolvedProtocolInsurance
<1>3. CASE PoolNext
  <2>1. ASSUME NEW o \in Owners, NEW n, Deposit(o, n) PROVE pool_kind' = pool_kind
    BY <2>1 DEF Deposit
  <2>2. ASSUME NEW o \in Owners, NEW n, Exit(o, n) \/ TerminalReturn(o) PROVE pool_kind' = pool_kind
    BY <2>2 DEF Exit, Leave, TerminalReturn, PayOff
  <2> QED BY <1>3, <2>1, <2>2 DEF PoolNext, InitPool, SetVoteLock
<1>4. CASE MarketNext
  BY <1>4 DEF MarketNext, Earn, Lose, Trade, ResolveMarket
<1>5. CASE PoolTime
  BY <1>5 DEF PoolTime
<1>6. CASE UNCHANGED custody_vars
  BY <1>6 DEF custody_vars, ins_vars
<1> QED BY <1>1, <1>2, <1>3, <1>4, <1>5, <1>6 DEF CustodyNext

\* The auction's pulls and the terminal sweep cost no owner of a principal pool
\* an atom (execute, return_resolved_protocol_insurance).
THEOREM PullsAreHarmless ==
  Policies = {"principal"} => (CustodySpec => PullsLeaveClaims)
<1> SUFFICES ASSUME Policies = {"principal"} PROVE CustodySpec => PullsLeaveClaims
  OBVIOUS
<1> DEFINE Inv == CustodyInv /\ policy = "principal" /\ ~own_vault
<1>1. CustodyInit => Inv
  BY CustodyInvInit DEF CustodyInit, PoolInit
<1>2. Inv /\ [CustodyNext]_custody_vars => Inv'
  BY CustodyInvStep, KindIsFixed DEF pool_kind
<1>3. Inv /\ [CustodyNext]_custody_vars
        => [Pull => \A o \in Owners : Claim(o)' = Claim(o)]_custody_vars
  BY PullKeepsPrice, PriceFixesClaim
<1> QED BY <1>1, <1>2, <1>3, PTL DEF CustodySpec, PullsLeaveClaims, Pull
----------------------------------------------------------------------------
(* The pool in custody is the ledger that genesis-vote builds on: shares,    *)
(* prices, the roles and the TWAP's records stutter.                         *)

\* What the ledger shows of one position, and of all.
Seen(pos) == [principal |-> pos.principal, vote_locked |-> pos.vote_locked,
              withdrawn |-> pos.withdrawn]
AllSeen == [o \in Owners |-> Seen(position[o])]

FlagsOK ==
  \A o \in Owners : position[o].withdrawn = TRUE \/ position[o].withdrawn = FALSE

\* A step the ledger does not see.
LedgerUnseen == UNCHANGED <<slot, pool_open, position, outstanding>>
                /\ (market' = "empty") = (market = "empty")

LEMMA UnseenStutters ==
  ASSUME LedgerUnseen
  PROVE  UNCHANGED <<slot, Ledger!ledger_vars>>
BY DEF LedgerUnseen, Ledger!ledger_vars

LEMMA SeenChange ==
  ASSUME AmountsOK, NEW o \in Owners, NEW pos, position' = [position EXCEPT ![o] = pos]
  PROVE  AllSeen' = [AllSeen EXCEPT ![o] = Seen(pos)]
<1>1. position' = [q \in Owners |-> IF q = o THEN pos ELSE position[q]]
  BY DEF AmountsOK
<1>2. \A q \in Owners : Seen(position[q])' = IF q = o THEN Seen(pos) ELSE Seen(position[q])
  BY <1>1 DEF Seen
<1> QED BY <1>2 DEF AllSeen

\* An owner that leaves with part or all of its principal exits the ledger.
LEMMA LeaveIsExit ==
  ASSUME AmountsOK, NEW o \in Owners, NEW n, Leave(o, n)
  PROVE  n \in Ledger!Amount /\ Ledger!Exit(o, n) /\ UNCHANGED slot
<1>1. /\ n \in 1 .. position[o].principal /\ n <= outstanding
      /\ outstanding' = outstanding - n
      /\ ~position[o].withdrawn /\ ~position[o].vote_locked
      /\ UNCHANGED <<slot, pool_open, market>>
  BY DEF Leave, PayOff, Unlocked
<1>2. n \in Nat /\ n \in Ledger!Amount
  BY <1>1, Bounds DEF AmountsOK, Ledger!Amount
<1> DEFINE pos == Reduced(o, n, position[o].vote_locked)
<1>3. Seen(pos) = [principal |-> position[o].principal - n,
                   vote_locked |-> position[o].vote_locked,
                   withdrawn |-> (n = position[o].principal)]
  BY DEF Reduced, Seen
<1>4. position' = [position EXCEPT ![o] = pos]
  BY DEF Leave
<1> HIDE DEF pos
<1>5. AllSeen' = [AllSeen EXCEPT ![o] = Seen(pos)]
  BY <1>4, SeenChange
<1>6. AllSeen' = [AllSeen EXCEPT ![o].principal = @ - n,
                                 ![o].withdrawn = (n = AllSeen[o].principal)]
  BY <1>3, <1>5, Zenon DEF AllSeen, Seen
<1> QED BY <1>1, <1>2, <1>6 DEF Ledger!Exit, Ledger!MayExit, AllSeen, Seen

LEMMA ReturnIsReturn ==
  ASSUME AmountsOK, NEW o \in Owners, TerminalReturn(o)
  PROVE  Ledger!TerminalReturn(o) /\ UNCHANGED slot
<1> DEFINE n == position[o].principal
           pos == Reduced(o, n, FALSE)
<1>1. /\ n \in 1 .. n /\ n <= outstanding /\ outstanding' = outstanding - n
      /\ ~position[o].withdrawn /\ market = "empty"
      /\ UNCHANGED <<slot, pool_open, market>>
  BY DEF TerminalReturn, PayOff
<1>2. n \in 1 .. outstanding /\ n - n = 0
  BY <1>1 DEF AmountsOK
<1>3. Seen(pos) = [principal |-> 0, vote_locked |-> FALSE, withdrawn |-> TRUE]
  BY <1>2 DEF Reduced, Seen
<1>4. position' = [position EXCEPT ![o] = pos]
  BY DEF TerminalReturn
<1> HIDE DEF pos
<1>5. AllSeen' = [AllSeen EXCEPT ![o] = Seen(pos)]
  BY <1>4, SeenChange
<1> QED BY <1>1, <1>2, <1>3, <1>5 DEF Ledger!TerminalReturn, AllSeen, Seen

LEMMA DepositIsDeposit ==
  ASSUME AmountsOK, FlagsOK, NEW o \in Owners, NEW n \in Sizes, Deposit(o, n)
  PROVE  n \in Ledger!Amount /\ Ledger!Deposit(o, n) /\ UNCHANGED slot
<1>1. /\ n \in Nat /\ n > 0 /\ outstanding + n <= MaxPrincipal
      /\ outstanding' = outstanding + n /\ pool_open /\ DepositsOpen
      /\ ~position[o].withdrawn
      /\ UNCHANGED <<slot, pool_open, market>>
  BY PoolAssumption DEF Deposit
<1>2. n \in Ledger!Amount
  BY <1>1, Bounds DEF AmountsOK, Ledger!Amount
<1>3. PICK shares, gen :
        position' = [position EXCEPT ![o] =
          [principal |-> position[o].principal + n, shares |-> shares,
           generation |-> gen, vote_locked |-> position[o].vote_locked,
           withdrawn |-> FALSE]]
  BY DEF Deposit
<1> DEFINE pos == [principal |-> position[o].principal + n, shares |-> shares,
                   generation |-> gen, vote_locked |-> position[o].vote_locked,
                   withdrawn |-> FALSE]
<1>4. Seen(pos) = [principal |-> position[o].principal + n,
                   vote_locked |-> position[o].vote_locked,
                   withdrawn |-> position[o].withdrawn]
  BY <1>1 DEF Seen, FlagsOK
<1>5. position' = [position EXCEPT ![o] = pos]
  BY <1>3
<1> HIDE DEF pos
<1>6. AllSeen' = [AllSeen EXCEPT ![o] = Seen(pos)]
  BY <1>5, SeenChange
<1>7. AllSeen' = [AllSeen EXCEPT ![o].principal = @ + n]
  BY <1>4, <1>6 DEF AllSeen, Seen
<1>8. Ledger!DepositsOpen
  BY <1>1 DEF DepositsOpen, DepositDeadline, Ledger!DepositsOpen, Ledger!DepositDeadline
<1> QED BY <1>1, <1>2, <1>7, <1>8 DEF Ledger!Deposit, AllSeen, Seen

LEMMA LockIsLock ==
  ASSUME AmountsOK, NEW o \in Owners, NEW locked \in BOOLEAN, SetVoteLock(o, locked)
  PROVE  Ledger!SetVoteLock(o, locked) /\ UNCHANGED slot
<1> DEFINE pos == [position[o] EXCEPT !.vote_locked = locked]
<1>1. /\ UNCHANGED <<slot, pool_open, outstanding, market>>
      /\ position' = [position EXCEPT ![o] = pos]
  BY DEF SetVoteLock, market_vars
<1>2. Seen(pos) = [Seen(position[o]) EXCEPT !.vote_locked = locked]
  BY DEF Seen
<1> HIDE DEF pos
<1>3. AllSeen' = [AllSeen EXCEPT ![o] = Seen(pos)]
  BY <1>1, SeenChange
<1>4. AllSeen[o] = Seen(position[o])
  BY DEF AllSeen
<1>5. AllSeen' = [AllSeen EXCEPT ![o].vote_locked = locked]
  BY <1>2, <1>3, <1>4
<1> QED BY <1>1, <1>5 DEF Ledger!SetVoteLock, AllSeen, Seen

LEMMA PoolIsLedger ==
  ASSUME AmountsOK, FlagsOK, PoolNext
  PROVE  Ledger!LedgerNext
<1>1. ASSUME InitPool PROVE Ledger!InitPool /\ UNCHANGED slot
  BY <1>1 DEF InitPool, Ledger!InitPool, DepositDeadline, BootstrapEnd, market_vars,
     Ledger!DepositDeadline, Ledger!BootstrapEnd
<1>2. ASSUME NEW o \in Owners, NEW n \in Sizes, Deposit(o, n) PROVE Ledger!LedgerNext
  BY <1>2, DepositIsDeposit DEF Ledger!LedgerNext, Ledger!DepositNext
<1>3. ASSUME NEW o \in Owners, NEW n, Exit(o, n) PROVE Ledger!LedgerNext
  BY <1>3, LeaveIsExit DEF Exit, Ledger!LedgerNext, Ledger!DepositNext
<1>4. ASSUME NEW o \in Owners, TerminalReturn(o) PROVE Ledger!LedgerNext
  BY <1>4, ReturnIsReturn DEF Ledger!LedgerNext
<1>5. ASSUME NEW o \in Owners, NEW locked \in BOOLEAN, SetVoteLock(o, locked)
      PROVE  Ledger!LedgerNext
  BY <1>5, LockIsLock DEF Ledger!LedgerNext
<1>6. ASSUME InitPool PROVE Ledger!LedgerNext
  BY <1>1, <1>6 DEF Ledger!LedgerNext, Ledger!DepositNext
<1> QED BY <1>2, <1>3, <1>4, <1>5, <1>6 DEF PoolNext

LEMMA MarketIsLedger ==
  ASSUME MarketNext \/ PoolTime
  PROVE  [Ledger!LedgerNext]_<<slot, Ledger!ledger_vars>>
<1>1. CASE PoolTime
  <2>1. Tick /\ UNCHANGED <<pool_open, position, outstanding, market>>
    BY <1>1 DEF PoolTime, pool_vars, market_vars
  <2> QED BY <2>1 DEF Tick, Ledger!Tick, Ledger!LedgerNext, Ledger!ledger_vars
<1>2. CASE MarketNext /\ (market' = "empty") # (market = "empty")
  <2>1. /\ market = "resolved" /\ market' = "empty"
        /\ UNCHANGED <<slot, pool_open, position, outstanding>>
    BY <1>2 DEF MarketNext, Earn, Lose, Trade, ResolveMarket, MarketUnchanged, pool_vars
  <2> QED BY <2>1 DEF Ledger!LedgerNext, Ledger!DepositNext, Ledger!Resolve
<1>3. CASE MarketNext /\ (market' = "empty") = (market = "empty")
  <2>1. UNCHANGED <<slot, pool_open, position, outstanding>>
    BY <1>3 DEF MarketNext, Earn, Lose, Trade, ResolveMarket, MarketUnchanged, pool_vars
  <2> QED BY <1>3, <2>1, UnseenStutters DEF LedgerUnseen
<1> QED BY <1>1, <1>2, <1>3

LEMMA CustodyIsLedger ==
  ASSUME AmountsOK, FlagsOK, [CustodyNext]_custody_vars
  PROVE  [Ledger!LedgerNext]_<<slot, Ledger!ledger_vars>>
<1>1. ASSUME NEW o \in Owners, ReturnForExit(o)
      PROVE  Ledger!LedgerNext
  BY <1>1, LeaveIsExit DEF ReturnForExit, Ledger!LedgerNext, Ledger!DepositNext
<1>2. ASSUME \/ Governed \/ HandoffToTwap(FALSE) \/ ReturnResolved
             \/ \E pulled \in 0 .. MaxInsurance : Execute(pulled)
             \/ ReturnResolvedProtocolInsurance
      PROVE  UNCHANGED <<slot, Ledger!ledger_vars>>
  <2>1. PoolUnchanged
    BY <1>2 DEF Governed, GrantGenesisPool, HandoffToTwap, ReturnByGovernance,
       SetReservedFloor, ReturnResolved, Execute, ReturnResolvedProtocolInsurance
  <2> QED BY <2>1, UnseenStutters DEF LedgerUnseen, PoolUnchanged, pool_vars
<1>3. ASSUME UNCHANGED custody_vars PROVE UNCHANGED <<slot, Ledger!ledger_vars>>
  BY <1>3, UnseenStutters DEF LedgerUnseen, custody_vars, ins_vars, pool_vars, market_vars
<1> QED BY <1>1, <1>2, <1>3, PoolIsLedger, MarketIsLedger DEF CustodyNext, Public

\* The flag that closes a position stays a flag.
LEMMA FlagChange ==
  ASSUME AmountsOK, FlagsOK, NEW o \in Owners, NEW pos, pos.withdrawn = TRUE \/ pos.withdrawn = FALSE,
         position' = [position EXCEPT ![o] = pos]
  PROVE  FlagsOK'
<1>1. position' = [q \in Owners |-> IF q = o THEN pos ELSE position[q]]
  BY DEF AmountsOK
<1> QED BY <1>1 DEF FlagsOK

LEMMA FlagsKept ==
  ASSUME AmountsOK, FlagsOK, [CustodyNext]_custody_vars
  PROVE  FlagsOK'
<1>1. ASSUME UNCHANGED position PROVE FlagsOK'
  BY <1>1 DEF FlagsOK
<1>2. ASSUME NEW o \in Owners, NEW n, NEW locked,
             position' = [position EXCEPT ![o] = Reduced(o, n, locked)]
      PROVE  FlagsOK'
  <2>1. \/ Reduced(o, n, locked).withdrawn = TRUE
        \/ Reduced(o, n, locked).withdrawn = FALSE
    BY DEF Reduced
  <2> QED BY <1>2, <2>1, FlagChange
<1>3. ASSUME NEW o \in Owners, NEW n \in Sizes, Deposit(o, n) PROVE FlagsOK'
  <2>1. PICK shares, gen :
          position' = [position EXCEPT ![o] =
            [principal |-> position[o].principal + n, shares |-> shares,
             generation |-> gen, vote_locked |-> position[o].vote_locked,
             withdrawn |-> FALSE]]
    BY <1>3 DEF Deposit
  <2> DEFINE pos == [principal |-> position[o].principal + n, shares |-> shares,
                     generation |-> gen, vote_locked |-> position[o].vote_locked,
                     withdrawn |-> FALSE]
  <2>2. position' = [position EXCEPT ![o] = pos] /\ pos.withdrawn = FALSE
    BY <2>1
  <2> HIDE DEF pos
  <2> QED BY <2>2, FlagChange
<1>4. ASSUME NEW o \in Owners, NEW locked \in BOOLEAN, SetVoteLock(o, locked) PROVE FlagsOK'
  <2> DEFINE pos == [position[o] EXCEPT !.vote_locked = locked]
  <2>1. position' = [position EXCEPT ![o] = pos]
    BY <1>4 DEF SetVoteLock
  <2>2. pos.withdrawn = TRUE \/ pos.withdrawn = FALSE
    BY DEF FlagsOK
  <2> HIDE DEF pos
  <2> QED BY <2>1, <2>2, FlagChange
<1>5. ASSUME NEW o \in Owners, NEW n, Leave(o, n) \/ TerminalReturn(o) PROVE FlagsOK'
  BY <1>2, <1>5 DEF Leave, TerminalReturn
<1>6. CASE PoolNext
  <2>1. ASSUME InitPool PROVE UNCHANGED position
    BY <2>1 DEF InitPool
  <2> QED BY <1>1, <1>3, <1>4, <1>5, <1>6, <2>1 DEF PoolNext, Exit
<1>7. CASE Public \/ Governed
  <2>1. \/ \E o \in Owners : ReturnForExit(o)
        \/ PoolUnchanged
    BY <1>7 DEF Public, Governed, GrantGenesisPool, HandoffToTwap, ReturnByGovernance,
       SetReservedFloor, ReturnResolved, Execute, ReturnResolvedProtocolInsurance
  <2> QED BY <1>1, <1>5, <2>1 DEF ReturnForExit, PoolUnchanged, pool_vars
<1>8. CASE MarketNext \/ PoolTime \/ UNCHANGED custody_vars
  <2>1. UNCHANGED position
    BY <1>8 DEF MarketNext, Earn, Lose, Trade, ResolveMarket, MarketUnchanged, PoolTime,
       custody_vars, ins_vars, pool_vars
  <2> QED BY <1>1, <2>1
<1> QED BY <1>6, <1>7, <1>8 DEF CustodyNext

\* The insurance pool, also while its roles go back and forth to the TWAP, is
\* the deposit ledger that the vote composes with: genesis-vote reads and locks
\* nothing else of it (insurance_deposit, insurance_withdraw, set_vote_lock).
THEOREM PoolImplementsLedger == CustodySpec => ImplementsLedger
<1>1. CustodyInit => CustodyInv /\ FlagsOK
  <2>1. CustodyInit => FlagsOK
    BY DEF CustodyInit, PoolInit, FlagsOK, NoPosition
  <2> QED BY <2>1, CustodyInvInit
<1>2. CustodyInit => slot = 0 /\ Ledger!LedgerInit
  BY DEF CustodyInit, PoolInit, NoPosition, Ledger!LedgerInit, Ledger!NoPosition
<1>3. CustodyInv /\ FlagsOK /\ [CustodyNext]_custody_vars
        => [Ledger!LedgerNext]_<<slot, Ledger!ledger_vars>> /\ FlagsOK'
  BY CustodyIsLedger, FlagsKept DEF CustodyInv
<1> QED BY <1>1, <1>2, <1>3, CustodyInvStep, PTL
        DEF CustodySpec, ImplementsLedger, Ledger!LedgerSpec
=============================================================================
