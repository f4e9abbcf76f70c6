---------------------------- MODULE Distribution ----------------------------
(***************************************************************************)
(* The genesis COIN distribution program (distribution/src/lib.rs): anybody *)
(* drafts proposals, a proposal being a list of (recipient, amount)         *)
(* entries; the authority of the config seals one of them, once; each named *)
(* recipient pulls its own entry while the claim window is open; after the  *)
(* window anybody burns what is left in the vault.                          *)
(*                                                                         *)
(* One config is modelled.  Accounts that do not exist yet are: the config  *)
(* while config_initialized is FALSE, and a proposal while its capacity is  *)
(* 0 (CreateProposal rejects a zero capacity).                              *)
(***************************************************************************)
EXTENDS SlotClock, Sequences, Sums

CONSTANTS
  Proposals,      \* proposal accounts, one per proposal_id
  Creators,       \* signers that draft proposals
  Recipients,     \* wallets a proposal may name
  Null,           \* Pubkey::default()
  TotalSupply,    \* config.total_supply, the whole supply of the mint
  ClaimWindow,    \* config.claim_window_slots
  MaxEntries,     \* MAX_ENTRIES
  MaxBatch        \* bound: entries per append_entries call

ASSUME DistributionAssumption ==
  /\ Null \notin Proposals \cup Creators \cup Recipients
  /\ IsFiniteSet(Recipients)
  /\ TotalSupply \in Nat \ {0}
  /\ ClaimWindow \in Nat \ {0}
  /\ MaxEntries \in Nat \ {0}
  /\ MaxBatch \in Nat

VARIABLES
  config_initialized,
  sealed_proposal,    \* the winner, Null until sealed
  seal_slot,
  header,             \* proposal headers
  entries,            \* proposal entries: [recipient, amount]
  vault,              \* COIN in the config's vault
  wallet,             \* COIN held by each recipient
  coin_supply,        \* supply of the COIN mint
  received            \* history: COIN each recipient was paid by Claim

dist_vars == <<config_initialized, sealed_proposal, seal_slot, header, entries,
               vault, wallet, coin_supply, received>>

Amounts == 0 .. TotalSupply
Entry   == [recipient : Recipients \cup {Null}, amount : Amounts]
Header  == [creator : Creators \cup {Null}, capacity : 0 .. MaxEntries,
            total_amount : Amounts, sealed : BOOLEAN]

NoHeader == [creator |-> Null, capacity |-> 0, total_amount |-> 0, sealed |-> FALSE]

Exists(p)   == header[p].capacity > 0
IsSealed    == sealed_proposal # Null
EntryCount(p) == Len(entries[p])

\* Mutant: the addition wraps, as u64 addition does in a release build.
WindowEnd_Wrapping == (seal_slot + ClaimWindow) % (MaxSlot + 1)

\* The first slot at which claims are over and burning is open.
WindowEnd == SaturatingAdd(seal_slot, ClaimWindow)

\* The amounts of a list of entries by index, all of them and those naming r.
AmountsOf(list)     == [i \in 1 .. Len(list) |-> list[i].amount]
AmountsFor(list, r) ==
  [i \in 1 .. Len(list) |-> IF list[i].recipient = r THEN list[i].amount ELSE 0]
ListTotal(list)     == Total(AmountsOf(list), 1 .. Len(list))
NamedTotal(list, r) == Total(AmountsFor(list, r), 1 .. Len(list))

Unclaimed(p) == ListTotal(entries[p])

\* Mutant: the paid entry is not zeroed.
Settled_Unchanged(list, i) == list

\* The entries once entry i is paid: its amount is zeroed, the rest is kept.
Settled(list, i) == [list EXCEPT ![i].amount = 0]

\* Mutant: a sealed proposal still takes entries.
Draftable_WhenSealed(p) == Exists(p)

\* Entries may be added to p.
Draftable(p) == Exists(p) /\ ~header[p].sealed /\ ~IsSealed

\* p never allocates more than the supply.
FitsSupply(p, batch) == header[p].total_amount + ListTotal(batch) <= TotalSupply

\* seal_winner accepts p.
Sealable(p) ==
  /\ Exists(p)
  /\ ~IsSealed
  /\ EntryCount(p) # 0
  /\ header[p].total_amount <= TotalSupply

ClaimsOpen == IsSealed /\ slot < WindowEnd

----------------------------------------------------------------------------
\* The whole supply is minted into the vault before init_config is called.
DistInit ==
  /\ config_initialized = FALSE
  /\ sealed_proposal = Null
  /\ seal_slot = 0
  /\ header = [p \in Proposals |-> NoHeader]
  /\ entries = [p \in Proposals |-> <<>>]
  /\ vault = TotalSupply
  /\ wallet = [r \in Recipients |-> 0]
  /\ coin_supply = TotalSupply
  /\ received = [r \in Recipients |-> 0]

InitDistribution ==
  /\ ~config_initialized
  /\ coin_supply = TotalSupply
  /\ vault >= TotalSupply
  /\ config_initialized' = TRUE
  /\ UNCHANGED <<sealed_proposal, seal_slot, header, entries, vault, wallet,
                 coin_supply, received>>

CreateProposal(creator, p, capacity) ==
  /\ config_initialized
  /\ capacity \in 1 .. MaxEntries
  /\ ~IsSealed
  /\ ~Exists(p)
  /\ header' = [header EXCEPT ![p] =
                  [creator |-> creator, capacity |-> capacity,
                   total_amount |-> 0, sealed |-> FALSE]]
  /\ UNCHANGED <<config_initialized, sealed_proposal, seal_slot, entries, vault,
                 wallet, coin_supply, received>>

\* A call carries a whole batch, checked before any of it is written.
AppendEntries(creator, p, batch) ==
  /\ config_initialized
  /\ Draftable(p)
  /\ header[p].creator = creator
  /\ EntryCount(p) + Len(batch) <= header[p].capacity
  /\ \A i \in 1 .. Len(batch) : batch[i].amount # 0 /\ batch[i].recipient # Null
  /\ FitsSupply(p, batch)
  /\ entries' = [entries EXCEPT ![p] = @ \o batch]
  /\ header' = [header EXCEPT ![p].total_amount = @ + ListTotal(batch)]
  /\ UNCHANGED <<config_initialized, sealed_proposal, seal_slot, vault, wallet,
                 coin_supply, received>>

SealWinner(p) ==
  /\ config_initialized
  /\ Sealable(p)
  /\ sealed_proposal' = p
  /\ seal_slot' = slot
  /\ header' = [header EXCEPT ![p].sealed = TRUE]
  /\ UNCHANGED <<config_initialized, entries, vault, wallet, coin_supply, received>>

\* The named recipient of entry i pulls it; the SPL transfer fails when the
\* vault holds less.
Claim(r, p, i) ==
  /\ config_initialized
  /\ ClaimsOpen
  /\ sealed_proposal = p
  /\ i \in 1 .. EntryCount(p)
  /\ entries[p][i].recipient = r
  /\ entries[p][i].amount # 0
  /\ vault >= entries[p][i].amount
  /\ vault' = vault - entries[p][i].amount
  /\ wallet' = [wallet EXCEPT ![r] = @ + entries[p][i].amount]
  /\ received' = [received EXCEPT ![r] = @ + entries[p][i].amount]
  /\ entries' = [entries EXCEPT ![p] = Settled(@, i)]
  /\ UNCHANGED <<config_initialized, sealed_proposal, seal_slot, header, coin_supply>>

\* Mutant: only what the entries still promise, so that the part of the supply
\* no entry names, and what is sent back to the vault, stay in it.
Leftover_Promised ==
  IF Unclaimed(sealed_proposal) < vault THEN Unclaimed(sealed_proposal) ELSE vault

\* What a burn takes: the balance of the vault.
Leftover == vault

\* A call on an empty vault succeeds and changes nothing.
BurnUnclaimed ==
  /\ config_initialized
  /\ IsSealed
  /\ slot >= WindowEnd
  /\ Leftover > 0
  /\ vault' = vault - Leftover
  /\ coin_supply' = coin_supply - Leftover
  /\ UNCHANGED <<config_initialized, sealed_proposal, seal_slot, header, entries,
                 wallet, received>>

\* External: a holder may send COIN back to the vault's token account at any
\* time; the SPL token program asks nobody's leave.
Donate(r, n) ==
  /\ n \in 1 .. wallet[r]
  /\ wallet' = [wallet EXCEPT ![r] = @ - n]
  /\ vault' = vault + n
  /\ UNCHANGED <<config_initialized, sealed_proposal, seal_slot, header, entries,
                 coin_supply, received>>

----------------------------------------------------------------------------
Batches == UNION { [1 .. n -> Entry] : n \in 0 .. MaxBatch }

\* Drafting and paying out; sealing is left to the program's authority.
DraftNext ==
  \/ InitDistribution
  \/ \E c \in Creators, p \in Proposals :
       \/ \E capacity \in 0 .. MaxEntries : CreateProposal(c, p, capacity)
       \/ \E batch \in Batches : AppendEntries(c, p, batch)

PayoutNext ==
  \/ \E r \in Recipients, p \in Proposals :
       \E i \in 1 .. MaxEntries : Claim(r, p, i)
  \/ BurnUnclaimed
  \/ \E r \in Recipients : \E n \in 1 .. TotalSupply : Donate(r, n)

\* The program alone: its authority may seal any proposal that has an entry.
DistNext ==
  \/ (DraftNext \/ PayoutNext \/ \E p \in Proposals : SealWinner(p)) /\ UNCHANGED slot
  \/ Tick /\ UNCHANGED dist_vars

\* Time passes, and burning is a permissionless crank.
DistFairness ==
  /\ WF_<<slot, dist_vars>>(Tick /\ UNCHANGED dist_vars)
  /\ WF_<<slot, dist_vars>>(BurnUnclaimed /\ UNCHANGED slot)

DistStart == slot = 0 /\ DistInit

DistSpec == DistStart /\ [][DistNext]_<<slot, dist_vars>> /\ DistFairness

----------------------------------------------------------------------------
\* The state of every account has the type its layout gives it.
DistTypeOK ==
  /\ slot \in Slots
  /\ config_initialized \in BOOLEAN
  /\ sealed_proposal \in Proposals \cup {Null}
  /\ seal_slot \in Slots
  /\ header \in [Proposals -> Header]
  /\ entries \in [Proposals -> Seq(Entry)]
  /\ vault \in Nat
  /\ wallet \in [Recipients -> Nat]
  /\ coin_supply \in Nat
  /\ received \in [Recipients -> Nat]

\* While the window of a sealed distribution is open the vault can pay every
\* unpaid entry of the winner, whatever was claimed, drafted, donated or tried
\* in the meantime.  The window is the mathematical one: an addition that
\* wrapped would close it early and burn live claims (claim, burn_unclaimed).
ClaimableWhileOpen ==
  IsSealed /\ slot < MaxSlot /\ slot < seal_slot + ClaimWindow
    => Unclaimed(sealed_proposal) <= vault

\* Each recipient is paid out of its own unpaid entries of the winner, exactly
\* once and for the exact amount (claim); before the seal nobody is paid, and
\* after it nobody adds to the winner or redirects it (append_entries).
ClaimsSettleEntries ==
  [][\A r \in Recipients :
       IF IsSealed
       THEN received'[r] + NamedTotal(entries[sealed_proposal]', r)
              = received[r] + NamedTotal(entries[sealed_proposal], r)
       ELSE received'[r] = received[r]]_dist_vars

\* A claim never races a burn: once any COIN has been burned no claim pays,
\* even out of COIN donated to the vault afterwards.
NoPayoutAfterBurn ==
  [][coin_supply < TotalSupply => received' = received]_dist_vars

\* A distribution whose window ends within the clock empties its vault: what no
\* entry names and what nobody claimed, and again whatever holders send back
\* after a burn (burn_unclaimed).  A window that saturates is left out: the
\* code's comments expect no burn for it.
LeftoversAreBurned ==
  IsSealed /\ seal_slot + ClaimWindow <= MaxSlot ~> vault = 0
=============================================================================
