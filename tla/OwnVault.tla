------------------------------ MODULE OwnVault ------------------------------
(***************************************************************************)
(* The other kind of pool of the subledger (subledger/src/lib.rs): its money *)
(* is in a token vault of its own, without market, roles, deposit window or   *)
(* votes.  Nothing can be lost, but anybody can send tokens to the vault, also *)
(* before the pool is opened.  Owners leave with all they have at once.      *)
(*                                                                         *)
(* Position, share and generation fields are those of InsurancePool, whose   *)
(* `insurance` is the balance of the vault here; shares are never halved.    *)
(* That a handler serves one kind of pool only (is_insurance) is in PoolsNext. *)
(***************************************************************************)
EXTENDS InsurancePool

CONSTANTS
  MaxVault,      \* bound: tokens in the vault (u64 in the code)
  VaultMoves     \* bound: amounts deposited in or sent to the vault at once

ASSUME VaultAssumption ==
  /\ MaxVault \in Nat
  /\ VaultMoves \subseteq Nat \ {0}

\* The share counter is far wider than an amount: u128 and u64.
ASSUME CounterAssumption == 8 * (MaxInsurance + 1) <= MaxShares

\* init_pool: the vault need not be empty.
InitVaultPool ==
  /\ ~pool_open
  /\ pool_open' = TRUE
  /\ UNCHANGED <<slot, pool_kind, outstanding, total_shares, generation, position, market_vars>>

\* deposit: a principal pool mints no shares.  The share counter has no end here:
\* without losses a vault full of tokens is worth a fraction of it.
VaultDeposit(o, n) ==
  LET minted == IF policy = "principal" THEN 0
                ELSE Minted(n, insurance, total_shares, 0, 0)
  IN  /\ pool_open
      /\ ~position[o].withdrawn
      /\ outstanding + n <= MaxPrincipal
      /\ insurance + n <= MaxVault
      /\ policy = "with_surplus" => FairlyMinted(n, minted, insurance, PoolBasis)
      /\ insurance' = insurance + n
      /\ outstanding' = outstanding + n
      /\ total_shares' = total_shares + minted
      /\ position' = [position EXCEPT ![o].principal = @ + n, ![o].shares = @ + minted]
      /\ UNCHANGED <<slot, pool_kind, pool_open, generation, market, exposed, operator>>

\* withdraw: the snapshot it carries makes it an exit of the principal its owner
\* saw.  (The code keeps the principal of a withdrawn position for the record.)
VaultWithdraw(o) ==
  /\ PayOff(o, position[o].principal)
  /\ position' = [position EXCEPT ![o] = Reduced(o, position[o].principal, FALSE)]
  /\ UNCHANGED operator

\* A token transfer into the vault.
Send(n) ==
  /\ insurance + n <= MaxVault
  /\ insurance' = insurance + n
  /\ MarketUnchanged /\ UNCHANGED <<market, exposed, operator>>

VaultNext ==
  /\ \/ InitVaultPool
     \/ \E o \in Owners : VaultWithdraw(o) \/ \E n \in VaultMoves : VaultDeposit(o, n)
     \/ \E n \in VaultMoves : Send(n)
  /\ NotesImpairment

\* Pools of both kinds.
PoolsNext ==
  \/ own_vault /\ VaultNext
  \/ ~own_vault /\ InsuranceNext

PoolsSpec == PoolInit /\ [][PoolsNext]_ins_vars
=============================================================================
