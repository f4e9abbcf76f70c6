---------------------------- MODULE DepositLedger ----------------------------
(***************************************************************************)
(* What an insurance pool of the subledger (subledger/src/lib.rs) promises  *)
(* the programs around it, without its share arithmetic: who has how much   *)
(* principal in it, whether the position is locked by a vote, and whether   *)
(* it has left.  genesis-vote reads exactly this much of the pool and the   *)
(* positions; InsurancePool implements it.                                  *)
(***************************************************************************)
EXTENDS SlotClock, Sums

CONSTANTS
  Owners,           \* depositors
  DepositStart,     \* pool.deposit_start_slot
  DepositWindow,    \* pool.deposit_window_slots
  BootstrapDelay,   \* pool.bootstrap_delay_slots
  MaxPrincipal      \* bound: outstanding principal (u64 in the code)

ASSUME LedgerAssumption ==
  /\ IsFiniteSet(Owners)
  /\ DepositStart \in Nat
  /\ DepositWindow \in Nat \ {0}
  /\ BootstrapDelay \in Nat \ {0}
  /\ MaxPrincipal \in Nat

VARIABLES
  pool_open,      \* the pool account exists
  position,       \* per owner: principal, vote_locked, withdrawn
  outstanding,    \* pool.outstanding_principal
  resolved        \* the market is resolved and empty

ledger_vars == <<pool_open, position, outstanding, resolved>>

Amount == 0 .. MaxPrincipal

Position == [principal : Amount, vote_locked : BOOLEAN, withdrawn : BOOLEAN]

NoPosition == [principal |-> 0, vote_locked |-> FALSE, withdrawn |-> FALSE]

DepositDeadline == DepositStart + DepositWindow

BootstrapEnd    == DepositStart + BootstrapDelay

DepositsOpen == DepositStart <= slot /\ slot < DepositDeadline

PrincipalOf == [o \in Owners |-> position[o].principal]

----------------------------------------------------------------------------
LedgerInit ==
  /\ pool_open = FALSE
  /\ position = [o \in Owners |-> NoPosition]
  /\ outstanding = 0
  /\ resolved = FALSE

\* init_insurance_pool: too late once the deposit window is over, and the
\* window never outlasts the bootstrap.
InitPool ==
  /\ ~pool_open
  /\ slot < DepositDeadline
  /\ slot < BootstrapEnd
  /\ DepositDeadline <= BootstrapEnd
  /\ BootstrapEnd <= MaxSlot
  /\ pool_open' = TRUE
  /\ UNCHANGED <<position, outstanding, resolved>>

\* insurance_deposit: opens a position or tops one up; a position that left
\* stays closed.
Deposit(o, n) ==
  /\ pool_open
  /\ n > 0
  /\ DepositsOpen
  /\ ~position[o].withdrawn
  /\ outstanding + n <= MaxPrincipal
  /\ position' = [position EXCEPT ![o].principal = @ + n]
  /\ outstanding' = outstanding + n
  /\ UNCHANGED <<pool_open, resolved>>

\* Mutant: the vote lock is not looked at.
MayExit_WhenLocked(o) == ~position[o].withdrawn

MayExit(o) == ~position[o].withdrawn /\ ~position[o].vote_locked

\* insurance_withdraw: the owner takes out n of its principal.
Exit(o, n) ==
  /\ MayExit(o)
  /\ n \in 1 .. position[o].principal
  /\ n <= outstanding
  /\ position' = [position EXCEPT ![o].principal = @ - n,
                                  ![o].withdrawn = (n = position[o].principal)]
  /\ outstanding' = outstanding - n
  /\ UNCHANGED <<pool_open, resolved>>

\* return_finalized_position: anybody closes a whole position of a resolved
\* market.  The ballot behind the lock is retired in the same transaction.
TerminalReturn(o) ==
  /\ resolved
  /\ ~position[o].withdrawn
  /\ position[o].principal \in 1 .. outstanding
  /\ position' = [position EXCEPT ![o] =
                    [principal |-> 0, vote_locked |-> FALSE, withdrawn |-> TRUE]]
  /\ outstanding' = outstanding - position[o].principal
  /\ UNCHANGED <<pool_open, resolved>>

\* set_vote_lock, signed by the vote authority and the owner.
SetVoteLock(o, locked) ==
  /\ position' = [position EXCEPT ![o].vote_locked = locked]
  /\ UNCHANGED <<pool_open, outstanding, resolved>>

\* External: Percolator resolves the market and the last portfolio closes.
Resolve ==
  /\ ~resolved
  /\ resolved' = TRUE
  /\ UNCHANGED <<pool_open, position, outstanding>>

----------------------------------------------------------------------------
\* What other transactions may do to the ledger without a vote being involved.
DepositNext ==
  \/ InitPool
  \/ \E o \in Owners, n \in Amount : Deposit(o, n) \/ Exit(o, n)
  \/ Resolve

LedgerNext ==
  \/ /\ \/ DepositNext
        \/ \E o \in Owners :
             TerminalReturn(o) \/ \E locked \in BOOLEAN : SetVoteLock(o, locked)
     /\ UNCHANGED slot
  \/ Tick /\ UNCHANGED ledger_vars

LedgerSpec ==
  slot = 0 /\ LedgerInit /\ [][LedgerNext]_<<slot, ledger_vars>>

----------------------------------------------------------------------------
LedgerTypeOK ==
  /\ slot \in Slots
  /\ pool_open \in BOOLEAN
  /\ position \in [Owners -> Position]
  /\ outstanding \in Amount
  /\ resolved \in BOOLEAN

\* The pool's counter, kept by adding and subtracting, is what the positions
\* still have in it: the vote's quorum and the terminal attestations read it.
OutstandingIsOwed == outstanding = Total(PrincipalOf, Owners)
=============================================================================
