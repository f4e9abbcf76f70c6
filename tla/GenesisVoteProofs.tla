-------------------------- MODULE GenesisVoteProofs --------------------------
(***************************************************************************)
(* What holds of Distribution for every set of proposals, recipients and    *)
(* every supply, claim window and slot range; of DepositLedger; and then of *)
(* GenesisVote, which composes the two, for any owners, proposals,          *)
(* recipients, windows and amounts: the tallies count the live ballots,     *)
(* ballots never outlive their capital, the programs agree on the decision, *)
(* sealing and refunding exclude each other, and votes that land late are   *)
(* meant.                                                                   *)
(***************************************************************************)
EXTENDS GenesisVote, SumsProofs

----------------------------------------------------------------------------
(* Lists of entries.                                                        *)

\* The amounts of a list of entries are natural numbers.
LEMMA AmountsType ==
  ASSUME NEW list \in Seq(Entry)
  PROVE  \A i \in 1 .. Len(list) :
           /\ list[i] \in Entry
           /\ AmountsOf(list)[i] = list[i].amount
           /\ AmountsOf(list)[i] \in Nat
           /\ \A r : AmountsFor(list, r)[i] \in Nat
<1>1. \A i \in 1 .. Len(list) : list[i] \in Entry
  OBVIOUS
<1>2. \A e \in Entry : e.amount \in Nat
  BY DistributionAssumption DEF Entry, Amounts
<1>3. \A i \in 1 .. Len(list) : AmountsOf(list)[i] = list[i].amount
  BY DEF AmountsOf
<1>4. \A r : \A i \in 1 .. Len(list) :
        AmountsFor(list, r)[i] = IF list[i].recipient = r THEN list[i].amount ELSE 0
  BY DEF AmountsFor
<1> QED BY <1>1, <1>2, <1>3, <1>4

\* The total of a list of entries is a natural number, and so is the part of
\* it that names r.
LEMMA ListTotalType ==
  ASSUME NEW list \in Seq(Entry)
  PROVE  /\ ListTotal(list) \in Nat
         /\ \A r : NamedTotal(list, r) \in Nat
<1>1. IsFiniteSet(1 .. Len(list))
  BY FS_Interval
<1>2. \A i \in 1 .. Len(list) : AmountsOf(list)[i] \in Nat
  BY AmountsType
<1>3. ListTotal(list) \in Nat
  BY <1>1, <1>2, TotalType DEF ListTotal
<1>4. ASSUME NEW r PROVE NamedTotal(list, r) \in Nat
  BY <1>1, AmountsType, TotalType DEF NamedTotal
<1> QED BY <1>3, <1>4

\* append_entries: the total of a list grows by the total of what is appended.
LEMMA ListTotalAppend ==
  ASSUME NEW list \in Seq(Entry), NEW batch \in Seq(Entry)
  PROVE  ListTotal(list \o batch) = ListTotal(list) + ListTotal(batch)
<1> DEFINE n == Len(list)
           m == Len(batch)
           both == list \o batch
           f == AmountsOf(both)
           S == 1 .. (n + m)
           T == 1 .. n
           b == [i \in 1 .. m |-> i + n]
<1>1. /\ n \in Nat /\ m \in Nat
      /\ both \in Seq(Entry) /\ Len(both) = n + m
      /\ \A i \in 1 .. n : both[i] = list[i]
      /\ \A i \in 1 .. m : both[i + n] = batch[i]
  OBVIOUS
<1>2. IsFiniteSet(S) /\ IsFiniteSet(1 .. m)
  BY <1>1, FS_Interval
<1>3. \A i \in S : f[i] \in Nat
  BY <1>1, AmountsType
<1>4. T \in SUBSET S /\ S \ T = (n + 1) .. (n + m)
  BY <1>1
<1>5. Total(f, S) = Total(f, T) + Total(f, S \ T)
  BY <1>2, <1>3, <1>4, TotalSplit
<1>6. Total(f, T) = ListTotal(list)
  <2>1. \A i \in T : f[i] = AmountsOf(list)[i]
    BY <1>1 DEF AmountsOf
  <2> QED BY <2>1, TotalSame DEF ListTotal
<1>7. Total(f, (n + 1) .. (n + m)) = ListTotal(batch)
  <2>1. b \in [1 .. m -> (n + 1) .. (n + m)]
    BY <1>1
  <2>2. \A i, j \in 1 .. m : b[i] = b[j] => i = j
    BY <1>1
  <2>3. \A t \in (n + 1) .. (n + m) : t - n \in 1 .. m /\ b[t - n] = t
    BY <1>1
  <2>4. b \in Bijection(1 .. m, (n + 1) .. (n + m))
    BY <2>1, <2>2, <2>3 DEF Bijection, Injection, IsInjective, Surjection
  <2>5. \A i \in 1 .. m : AmountsOf(batch)[i] \in Nat
    BY AmountsType
  <2>6. \A i \in 1 .. m : f[b[i]] = AmountsOf(batch)[i]
    BY <1>1 DEF AmountsOf
  <2> DEFINE h == AmountsOf(batch)
             M == 1 .. m
             N == (n + 1) .. (n + m)
  <2>7. IsFiniteSet(M) /\ b \in Bijection(M, N)
        /\ \A i \in M : h[i] \in Nat /\ f[b[i]] = h[i]
    BY <1>2, <2>4, <2>5, <2>6
  <2> HIDE DEF b, f, h, M, N
  <2>8. Total(f, N) = Total(h, M)
    BY <2>7, TotalRename
  <2> QED BY <2>8 DEF ListTotal, h, M, N
<1>8. ListTotal(both) = Total(f, S)
  BY <1>1 DEF ListTotal
<1> QED BY <1>4, <1>5, <1>6, <1>7, <1>8

\* claim: settling an entry takes exactly its amount off the list, all of it
\* off what the list owes the recipient the entry names.
LEMMA SettleTakesAmount ==
  ASSUME NEW list \in Seq(Entry), NEW i \in 1 .. Len(list)
  PROVE  /\ Settled(list, i) \in Seq(Entry)
         /\ Len(Settled(list, i)) = Len(list)
         /\ \A j \in 1 .. Len(list) :
              /\ Settled(list, i)[j].recipient = list[j].recipient
              /\ Settled(list, i)[j].amount = IF j = i THEN 0 ELSE list[j].amount
         /\ ListTotal(Settled(list, i)) = ListTotal(list) - list[i].amount
         /\ \A r : NamedTotal(Settled(list, i), r) =
                     IF list[i].recipient = r
                     THEN NamedTotal(list, r) - list[i].amount
                     ELSE NamedTotal(list, r)
<1> DEFINE done == Settled(list, i)
           f == AmountsOf(list)
           g == AmountsOf(done)
           S == 1 .. Len(list)
<1>0. \A j \in S : list[j] \in Entry
  OBVIOUS
<1>1. done = [j \in S |-> IF j = i THEN [list[j] EXCEPT !.amount = 0] ELSE list[j]]
  BY DEF Settled
<1>2. \A j \in S : done[j] \in Entry
  BY <1>0, <1>1, DistributionAssumption DEF Entry, Amounts
<1>3. done \in Seq(Entry) /\ Len(done) = Len(list)
  BY <1>1, <1>2
<1>4. \A j \in S : /\ done[j].recipient = list[j].recipient
                   /\ done[j].amount = IF j = i THEN 0 ELSE list[j].amount
  BY <1>0, <1>1 DEF Entry
<1>5. IsFiniteSet(S)
  BY FS_Interval
<1>6. /\ f \in [S -> Nat] /\ g \in [S -> Nat]
      /\ \A j \in S : f[j] = list[j].amount /\ g[j] = done[j].amount
  BY <1>3, AmountsType DEF AmountsOf
<1>7. \A j \in S : j # i => f[j] = g[j]
  BY <1>4, <1>6
<1>8. g[i] = 0
  BY <1>4, <1>6
<1> HIDE DEF f, g
<1>9. Total(g, S) = Total(f, S) - list[i].amount
  <2>0. i \in S /\ f \in [S -> Nat] /\ g \in [S -> Nat]
    BY <1>6
  <2> HIDE DEF S
  <2>1. Total(f, S) \in Nat /\ Total(g, S) = Total(f, S) - f[i] + g[i]
    BY <1>5, <1>7, <2>0, TotalChange, Zenon
  <2> QED BY <2>0, <2>1, <1>6, <1>8
<1>10. ASSUME NEW r
       PROVE  NamedTotal(done, r) = IF list[i].recipient = r
                                    THEN NamedTotal(list, r) - list[i].amount
                                    ELSE NamedTotal(list, r)
  <2> DEFINE k == AmountsFor(list, r)
             h == AmountsFor(done, r)
  <2>1. k \in [S -> Nat] /\ h \in [S -> Nat]
    BY <1>3, AmountsType DEF AmountsFor
  <2>3. \A j \in S : j # i => k[j] = h[j]
    BY <1>3, <1>4 DEF AmountsFor
  <2>4. /\ k[i] = IF list[i].recipient = r THEN list[i].amount ELSE 0
        /\ h[i] = 0
    BY <1>3, <1>4 DEF AmountsFor
  <2>2. i \in S
    OBVIOUS
  <2> HIDE DEF S, k, h
  <2>5. Total(k, S) \in Nat /\ Total(h, S) = Total(k, S) - k[i] + h[i]
    BY <1>5, <2>1, <2>2, <2>3, TotalChange, Zenon
  <2>6. list[i].amount \in Nat /\ Total(k, S) \in Nat
    BY <1>0, <2>2, <2>5, DistributionAssumption DEF Entry, Amounts
  <2>7. CASE list[i].recipient = r
    <3>1. Total(h, S) = Total(k, S) - list[i].amount
      BY <2>4, <2>5, <2>7, <2>6
    <3> QED BY <1>3, <2>7, <3>1 DEF NamedTotal, S, k, h
  <2>8. CASE list[i].recipient # r
    <3>1. Total(h, S) = Total(k, S)
      BY <2>4, <2>5, <2>6, <2>8
    <3> QED BY <1>3, <2>8, <3>1 DEF NamedTotal, S, k, h
  <2> QED BY <2>7, <2>8
<1> HIDE DEF done
<1>11. ListTotal(done) = ListTotal(list) - list[i].amount
  BY <1>3, <1>9 DEF ListTotal, f, g
<1> QED BY <1>3, <1>4, <1>10, <1>11 DEF done

----------------------------------------------------------------------------
(* The inductive invariant.                                                 *)

\* COIN is only ever moved between the vault and the wallets, or burned.
CoinConserved == coin_supply = vault + Total(wallet, Recipients)

\* Until it is sealed, a proposal's header adds up its entries.
HeadersAddUp ==
  \A p \in Proposals :
    /\ p # sealed_proposal => header[p].total_amount = Unclaimed(p)
    /\ ~Exists(p) => header[p].total_amount = 0

\* The vault covers the whole supply until the seal, then the unpaid entries
\* of the winner until the window has elapsed; nothing burns before that.
VaultCovers ==
  /\ ~IsSealed => vault >= TotalSupply
  /\ IsSealed /\ slot < WindowEnd => Unclaimed(sealed_proposal) <= vault
  /\ coin_supply # TotalSupply => IsSealed /\ slot >= WindowEnd

DistInv == DistTypeOK /\ CoinConserved /\ HeadersAddUp /\ VaultCovers

\* Types of what the state functions of the invariant return.
LEMMA DerivedTypes ==
  ASSUME DistTypeOK
  PROVE  /\ \A p \in Proposals : Unclaimed(p) \in Nat
         /\ \A p \in Proposals : header[p].total_amount \in Nat
         /\ WindowEnd \in Slots
         /\ Total(wallet, Recipients) \in Nat
<1>1. ASSUME NEW p \in Proposals PROVE Unclaimed(p) \in Nat
  <2>1. entries[p] \in Seq(Entry)
    BY DEF DistTypeOK
  <2> QED BY <2>1, ListTotalType DEF Unclaimed
<1>2. ASSUME NEW p \in Proposals PROVE header[p].total_amount \in Nat
  BY DistributionAssumption DEF DistTypeOK, Header, Amounts
<1>3. WindowEnd \in Slots
  BY DistributionAssumption, MaxSlotAssumption
     DEF DistTypeOK, WindowEnd, SaturatingAdd, Slots
<1>4. Total(wallet, Recipients) \in Nat
  BY DistributionAssumption, TotalType DEF DistTypeOK
<1> QED BY <1>1, <1>2, <1>3, <1>4

LEMMA DistInvInit == DistStart => DistInv
<1> SUFFICES ASSUME slot = 0, DistInit PROVE DistInv
  BY DEF DistStart
<1> USE DistributionAssumption, MaxSlotAssumption DEF DistInit
<1>1. Total(wallet, Recipients) = 0
  BY TotalZero
<1>2. ASSUME NEW p \in Proposals PROVE Unclaimed(p) = 0
  <2>1. 1 .. Len(entries[p]) = {}
    OBVIOUS
  <2> QED BY <2>1, TotalZero DEF Unclaimed, ListTotal
<1>3. DistTypeOK
  <2>1. NoHeader \in Header
    BY DEF NoHeader, Header, Amounts
  <2>2. <<>> \in Seq(Entry)
    OBVIOUS
  <2>3. config_initialized \in BOOLEAN
    OBVIOUS
  <2>4. slot \in Slots /\ seal_slot \in Slots /\ vault \in Nat /\ coin_supply \in Nat
    BY DEF Slots
  <2>5. wallet \in [Recipients -> Nat] /\ received \in [Recipients -> Nat]
    OBVIOUS
  <2>6. header \in [Proposals -> Header] /\ entries \in [Proposals -> Seq(Entry)]
    BY <2>1, <2>2
  <2> HIDE DEF DistInit
  <2> QED BY <2>3, <2>4, <2>5, <2>6 DEF DistTypeOK, DistInit
<1>4. CoinConserved
  BY <1>1 DEF CoinConserved
<1>5. HeadersAddUp
  BY <1>2 DEF HeadersAddUp, NoHeader
<1>6. VaultCovers
  BY DEF VaultCovers, IsSealed
<1> QED BY <1>3, <1>4, <1>5, <1>6 DEF DistInv

LEMMA InitDistributionInv ==
  ASSUME DistInv, InitDistribution, UNCHANGED slot PROVE DistInv'
<1> USE DEF InitDistribution
<1>1. DistTypeOK'
  BY DEF DistInv, DistTypeOK
<1>2. CoinConserved'
  BY DEF DistInv, CoinConserved
<1>3. HeadersAddUp'
  BY DEF DistInv, HeadersAddUp, Unclaimed, Exists
<1>4. VaultCovers'
  BY DEF DistInv, VaultCovers, Unclaimed, IsSealed, WindowEnd
<1> QED BY <1>1, <1>2, <1>3, <1>4 DEF DistInv

LEMMA CreateProposalInv ==
  ASSUME DistInv, NEW c \in Creators, NEW p \in Proposals,
         NEW capacity \in 0 .. MaxEntries,
         CreateProposal(c, p, capacity), UNCHANGED slot
  PROVE  DistInv'
<1> DEFINE h == [creator |-> c, capacity |-> capacity,
                 total_amount |-> 0, sealed |-> FALSE]
<1>1. header' = [header EXCEPT ![p] = h]
  BY DEF CreateProposal
<1>2. DistTypeOK'
  <2>1. h \in Header
    BY DistributionAssumption DEF Header, Amounts
  <2> HIDE DEF h
  <2> QED BY <1>1, <2>1 DEF DistInv, DistTypeOK, CreateProposal
<1>3. CoinConserved'
  BY DEF DistInv, CoinConserved, CreateProposal
<1>4. HeadersAddUp'
  <2>1. ASSUME NEW q \in Proposals
        PROVE  /\ (q # sealed_proposal => header[q].total_amount = Unclaimed(q))'
               /\ (~Exists(q) => header[q].total_amount = 0)'
    <3>1. CASE q = p
      <4>1. Unclaimed(p) = 0
        BY DistributionAssumption DEF DistInv, HeadersAddUp, CreateProposal, IsSealed
      <4>2. header'[p].total_amount = 0
        BY <1>1 DEF DistInv, DistTypeOK
      <4> QED BY <3>1, <4>1, <4>2 DEF Unclaimed, CreateProposal
    <3>2. CASE q # p
      <4>1. header'[q] = header[q]
        BY <1>1, <3>2 DEF DistInv, DistTypeOK
      <4> QED BY <4>1 DEF DistInv, HeadersAddUp, Unclaimed, Exists, CreateProposal
    <3> QED BY <3>1, <3>2
  <2> QED BY <2>1 DEF HeadersAddUp
<1>5. VaultCovers'
  BY DEF DistInv, VaultCovers, Unclaimed, IsSealed, WindowEnd, CreateProposal
<1> QED BY <1>2, <1>3, <1>4, <1>5 DEF DistInv

LEMMA AppendEntriesInv ==
  ASSUME DistInv, NEW c \in Creators, NEW p \in Proposals, NEW batch \in Batches,
         AppendEntries(c, p, batch), UNCHANGED slot
  PROVE  DistInv'
<1>1. batch \in Seq(Entry)
  BY DistributionAssumption DEF Batches
<1>2. entries[p] \in Seq(Entry)
  BY DEF DistInv, DistTypeOK
<1>3. /\ entries' = [entries EXCEPT ![p] = @ \o batch]
      /\ entries'[p] = entries[p] \o batch
      /\ \A q \in Proposals : q # p => entries'[q] = entries[q]
  BY DEF DistInv, DistTypeOK, AppendEntries
<1>4. Unclaimed(p)' = Unclaimed(p) + ListTotal(batch)
  BY <1>1, <1>2, <1>3, ListTotalAppend DEF Unclaimed
<1>5. ListTotal(batch) \in Nat
  BY <1>1, ListTotalType
<1>6. /\ header' = [header EXCEPT ![p].total_amount = @ + ListTotal(batch)]
      /\ header'[p].total_amount = header[p].total_amount + ListTotal(batch)
      /\ header'[p].capacity = header[p].capacity
      /\ \A q \in Proposals : q # p => header'[q] = header[q]
  BY DEF DistInv, DistTypeOK, Header, AppendEntries
<1>7. DistTypeOK'
  <2>1. header[p].total_amount + ListTotal(batch) \in Amounts
    BY <1>5, DerivedTypes, DistributionAssumption
       DEF DistInv, AppendEntries, FitsSupply, Amounts
  <2>2. header' \in [Proposals -> Header]
    BY <1>6, <2>1 DEF DistInv, DistTypeOK, Header
  <2>3. entries[p] \o batch \in Seq(Entry)
    BY <1>1, <1>2
  <2>4. entries' \in [Proposals -> Seq(Entry)]
    BY <1>3, <2>3 DEF DistInv, DistTypeOK
  <2> QED BY <2>2, <2>4 DEF DistInv, DistTypeOK, AppendEntries
<1>8. CoinConserved'
  BY DEF DistInv, CoinConserved, AppendEntries
<1>9. HeadersAddUp'
  <2>1. ASSUME NEW q \in Proposals
        PROVE  /\ (q # sealed_proposal => header[q].total_amount = Unclaimed(q))'
               /\ (~Exists(q) => header[q].total_amount = 0)'
    <3>1. CASE q = p
      <4>1. p # sealed_proposal /\ sealed_proposal' = sealed_proposal /\ Exists(p)
        BY DistributionAssumption DEF AppendEntries, Draftable, IsSealed
      <4>2. header[p].total_amount = Unclaimed(p)
        BY <4>1 DEF DistInv, HeadersAddUp
      <4> QED BY <1>4, <1>6, <3>1, <4>1, <4>2 DEF Exists
    <3>2. CASE q # p
      BY <1>3, <1>6, <3>2
         DEF DistInv, HeadersAddUp, Unclaimed, Exists, AppendEntries
    <3> QED BY <3>1, <3>2
  <2> QED BY <2>1 DEF HeadersAddUp
<1>10. VaultCovers'
  BY DEF DistInv, VaultCovers, Unclaimed, IsSealed, WindowEnd, AppendEntries, Draftable
<1> QED BY <1>7, <1>8, <1>9, <1>10 DEF DistInv

LEMMA SealWinnerInv ==
  ASSUME DistInv, NEW p \in Proposals, SealWinner(p), UNCHANGED slot
  PROVE  DistInv'
<1>1. ~IsSealed /\ sealed_proposal' = p /\ p # Null
  BY DistributionAssumption DEF SealWinner, Sealable
<1>2. /\ header' = [header EXCEPT ![p].sealed = TRUE]
      /\ \A q \in Proposals : /\ header'[q].total_amount = header[q].total_amount
                              /\ header'[q].capacity = header[q].capacity
  BY DEF DistInv, DistTypeOK, Header, SealWinner
<1>3. DistTypeOK'
  <2>1. header' \in [Proposals -> Header]
    BY <1>2 DEF DistInv, DistTypeOK, Header
  <2> QED BY <1>1, <2>1 DEF DistInv, DistTypeOK, SealWinner
<1>4. CoinConserved'
  BY DEF DistInv, CoinConserved, SealWinner
<1>5. HeadersAddUp'
  BY <1>1, <1>2, DistributionAssumption
     DEF DistInv, HeadersAddUp, Unclaimed, Exists, IsSealed, SealWinner
<1>6. VaultCovers'
  <2>1. Unclaimed(p) <= TotalSupply /\ vault >= TotalSupply
    BY <1>1, DistributionAssumption
       DEF DistInv, HeadersAddUp, VaultCovers, SealWinner, Sealable, IsSealed
  <2>2. Unclaimed(p)' = Unclaimed(p) /\ vault' = vault /\ coin_supply' = coin_supply
    BY DEF Unclaimed, SealWinner
  <2>3. coin_supply = TotalSupply
    BY <1>1 DEF DistInv, VaultCovers
  <2>4. Unclaimed(p) \in Nat /\ vault \in Nat
    BY DerivedTypes DEF DistInv, DistTypeOK
  <2> QED BY <1>1, <2>1, <2>2, <2>3, <2>4, DistributionAssumption
          DEF VaultCovers, IsSealed, Unclaimed
<1> QED BY <1>3, <1>4, <1>5, <1>6 DEF DistInv

LEMMA ClaimInv ==
  ASSUME DistInv, NEW r \in Recipients, NEW p \in Proposals, NEW i \in 1 .. MaxEntries,
         Claim(r, p, i), UNCHANGED slot
  PROVE  /\ DistInv'
         /\ Unclaimed(p)' = Unclaimed(p) - entries[p][i].amount
         /\ \A s \in Recipients :
              NamedTotal(entries[p]', s) =
                IF s = r THEN NamedTotal(entries[p], s) - entries[p][i].amount
                         ELSE NamedTotal(entries[p], s)
<1> DEFINE list == entries[p]
           n == entries[p][i].amount
<1>1. list \in Seq(Entry) /\ i \in 1 .. Len(list)
  BY DEF DistInv, DistTypeOK, Claim, EntryCount
<1>2. /\ entries' = [entries EXCEPT ![p] = Settled(list, i)]
      /\ entries'[p] = Settled(list, i)
      /\ \A q \in Proposals : q # p => entries'[q] = entries[q]
  BY DEF DistInv, DistTypeOK, Claim
<1>3. n \in Nat /\ n <= vault /\ list[i].recipient = r
  BY <1>1, AmountsType DEF Claim
<1>4. Unclaimed(p)' = Unclaimed(p) - n
  BY <1>1, <1>2, SettleTakesAmount DEF Unclaimed
<1>5. \A s \in Recipients :
        NamedTotal(entries'[p], s) = IF s = r THEN NamedTotal(list, s) - n
                                              ELSE NamedTotal(list, s)
  BY <1>1, <1>2, <1>3, SettleTakesAmount
<1>6. sealed_proposal = p /\ IsSealed /\ slot < WindowEnd
  BY DEF Claim, ClaimsOpen
<1>7. /\ wallet \in [Recipients -> Nat]
      /\ wallet' = [wallet EXCEPT ![r] = @ + n]
      /\ wallet' \in [Recipients -> Nat]
      /\ wallet'[r] = wallet[r] + n
      /\ \A s \in Recipients : s # r => wallet[s] = wallet'[s]
  BY <1>3 DEF DistInv, DistTypeOK, Claim
<1>8. vault \in Nat /\ vault' = vault - n /\ vault' \in Nat
  BY <1>3 DEF DistInv, DistTypeOK, Claim
<1>9. DistTypeOK'
  <2>1. Settled(list, i) \in Seq(Entry)
    BY <1>1, SettleTakesAmount
  <2>2. entries' \in [Proposals -> Seq(Entry)]
    BY <1>2, <2>1 DEF DistInv, DistTypeOK
  <2>3. received' \in [Recipients -> Nat]
    BY <1>3 DEF DistInv, DistTypeOK, Claim
  <2> QED BY <1>7, <1>8, <2>2, <2>3 DEF DistInv, DistTypeOK, Claim
<1>10. CoinConserved'
  <2>0. /\ IsFiniteSet(Recipients)
        /\ wallet \in [Recipients -> Nat] /\ wallet' \in [Recipients -> Nat]
        /\ \A s \in Recipients : s # r => wallet[s] = wallet'[s]
    BY <1>7, DistributionAssumption
  <2>1. /\ Total(wallet, Recipients) \in Nat
        /\ Total(wallet', Recipients) = Total(wallet, Recipients) - wallet[r] + wallet'[r]
    BY <2>0, TotalChange
  <2>2. wallet[r] \in Nat
    BY <1>7
  <2> QED BY <1>3, <1>7, <1>8, <2>1, <2>2 DEF DistInv, CoinConserved, Claim
<1>11. HeadersAddUp'
  BY <1>2, <1>6 DEF DistInv, HeadersAddUp, Unclaimed, Exists, Claim
<1>12. VaultCovers'
  <2>1. Unclaimed(p) \in Nat /\ Unclaimed(p) <= vault
    BY <1>6, DerivedTypes DEF DistInv, VaultCovers
  <2>2. (Unclaimed(sealed_proposal) <= vault)'
    BY <1>3, <1>4, <1>6, <1>8, <2>1 DEF Claim
  <2> QED BY <1>6, <2>2 DEF DistInv, VaultCovers, IsSealed, WindowEnd, Claim
<1> QED BY <1>4, <1>5, <1>9, <1>10, <1>11, <1>12 DEF DistInv

LEMMA BurnUnclaimedInv ==
  ASSUME DistInv, BurnUnclaimed, UNCHANGED slot PROVE DistInv'
<1>1. /\ vault \in Nat /\ coin_supply \in Nat /\ Total(wallet, Recipients) \in Nat
      /\ coin_supply = vault + Total(wallet, Recipients)
  BY DerivedTypes DEF DistInv, DistTypeOK, CoinConserved
<1>2. vault' = 0 /\ coin_supply' = coin_supply - vault /\ coin_supply' \in Nat
  BY <1>1 DEF BurnUnclaimed, Leftover
<1>3. DistTypeOK'
  BY <1>2 DEF DistInv, DistTypeOK, BurnUnclaimed
<1>4. CoinConserved'
  BY <1>1, <1>2 DEF CoinConserved, BurnUnclaimed
<1>5. HeadersAddUp'
  BY DEF DistInv, HeadersAddUp, Unclaimed, Exists, BurnUnclaimed
<1>6. VaultCovers'
  <2>1. WindowEnd \in Nat /\ slot \in Nat
    BY DerivedTypes DEF DistInv, DistTypeOK, Slots
  <2> QED BY <2>1 DEF VaultCovers, IsSealed, WindowEnd, Leftover, BurnUnclaimed
<1> QED BY <1>3, <1>4, <1>5, <1>6 DEF DistInv

LEMMA DonateInv ==
  ASSUME DistInv, NEW r \in Recipients, NEW n \in 1 .. TotalSupply,
         Donate(r, n), UNCHANGED slot
  PROVE  DistInv'
<1>1. n \in Nat /\ n <= wallet[r]
  BY DistributionAssumption DEF DistInv, DistTypeOK, Donate
<1>2. /\ wallet \in [Recipients -> Nat]
      /\ wallet' \in [Recipients -> Nat]
      /\ wallet[r] \in Nat /\ wallet'[r] = wallet[r] - n
      /\ \A s \in Recipients : s # r => wallet[s] = wallet'[s]
  BY <1>1 DEF DistInv, DistTypeOK, Donate
<1>3. vault \in Nat /\ vault' = vault + n
  BY <1>1 DEF DistInv, DistTypeOK, Donate
<1>4. DistTypeOK'
  BY <1>1, <1>2, <1>3 DEF DistInv, DistTypeOK, Donate
<1>5. CoinConserved'
  <2>0. IsFiniteSet(Recipients)
    BY DistributionAssumption
  <2>1. /\ Total(wallet, Recipients) \in Nat
        /\ Total(wallet', Recipients) = Total(wallet, Recipients) - wallet[r] + wallet'[r]
    BY <1>2, <2>0, TotalChange
  <2> QED BY <1>1, <1>2, <1>3, <2>1 DEF DistInv, CoinConserved, Donate
<1>6. HeadersAddUp'
  BY DEF DistInv, HeadersAddUp, Unclaimed, Exists, Donate
<1>7. VaultCovers'
  <2>1. \A p \in Proposals : Unclaimed(p)' = Unclaimed(p) /\ Unclaimed(p) \in Nat
    BY DerivedTypes DEF DistInv, Unclaimed, Donate
  <2>2. IsSealed => sealed_proposal \in Proposals
    BY DEF DistInv, DistTypeOK, IsSealed
  <2> QED BY <1>1, <1>3, <2>1, <2>2, DistributionAssumption
          DEF DistInv, VaultCovers, IsSealed, WindowEnd, Donate
<1> QED BY <1>4, <1>5, <1>6, <1>7 DEF DistInv

LEMMA TickInv == ASSUME DistInv, Tick, UNCHANGED dist_vars PROVE DistInv'
<1>1. slot \in Nat /\ slot' = slot + 1 /\ slot' \in Slots /\ WindowEnd \in Nat
  BY DerivedTypes, MaxSlotAssumption DEF DistInv, DistTypeOK, Slots, Tick
<1>2. DistTypeOK'
  BY <1>1 DEF DistInv, DistTypeOK, dist_vars
<1>3. CoinConserved'
  BY DEF DistInv, CoinConserved, dist_vars
<1>4. HeadersAddUp'
  BY DEF DistInv, HeadersAddUp, Unclaimed, Exists, dist_vars
<1>5. VaultCovers'
  BY <1>1 DEF DistInv, VaultCovers, Unclaimed, IsSealed, WindowEnd, dist_vars
<1> QED BY <1>2, <1>3, <1>4, <1>5 DEF DistInv

LEMMA DistInvStep == DistInv /\ [DistNext]_<<slot, dist_vars>> => DistInv'
<1> SUFFICES ASSUME DistInv, [DistNext]_<<slot, dist_vars>> PROVE DistInv'
  OBVIOUS
<1>1. CASE UNCHANGED <<slot, dist_vars>>
  BY <1>1
     DEF dist_vars, DistInv, DistTypeOK, CoinConserved, HeadersAddUp, VaultCovers,
         Unclaimed, Exists, IsSealed, WindowEnd
<1>2. CASE Tick /\ UNCHANGED dist_vars
  BY <1>2, TickInv
<1>3. ASSUME DraftNext, UNCHANGED slot PROVE DistInv'
  BY <1>3, InitDistributionInv, CreateProposalInv, AppendEntriesInv DEF DraftNext
<1>4. ASSUME PayoutNext, UNCHANGED slot PROVE DistInv'
  BY <1>4, ClaimInv, BurnUnclaimedInv, DonateInv DEF PayoutNext
<1>5. ASSUME NEW p \in Proposals, SealWinner(p), UNCHANGED slot PROVE DistInv'
  BY <1>5, SealWinnerInv
<1> QED BY <1>1, <1>2, <1>3, <1>4, <1>5 DEF DistNext

----------------------------------------------------------------------------
(* The theorems.                                                            *)

LEMMA DistSpecInv == DistSpec => []DistInv
<1>1. DistStart => DistInv
  BY DistInvInit
<1>2. DistInv /\ [DistNext]_<<slot, dist_vars>> => DistInv'
  BY DistInvStep
<1> QED BY <1>1, <1>2, PTL DEF DistSpec

\* Every account of the distribution has the type its layout gives it; with
\* it goes that burning never takes the supply below what wallets hold.
THEOREM DistTypeCorrect == DistSpec => []DistTypeOK
<1>1. DistInv => DistTypeOK
  BY DEF DistInv
<1> QED BY <1>1, DistSpecInv, PTL

\* For every supply, claim window and slot range: while the window of a sealed
\* distribution is open, the vault covers every unpaid entry of the winner
\* (claim, burn_unclaimed), even where seal_slot + window saturates.
THEOREM ClaimsAreCovered == DistSpec => []ClaimableWhileOpen
<1>1. DistInv => ClaimableWhileOpen
  <2> SUFFICES ASSUME DistInv, IsSealed, slot < MaxSlot, slot < seal_slot + ClaimWindow
               PROVE  Unclaimed(sealed_proposal) <= vault
    BY DEF ClaimableWhileOpen
  <2>1. slot < WindowEnd
    BY DistributionAssumption, MaxSlotAssumption DEF WindowEnd, SaturatingAdd
  <2> QED BY <2>1 DEF DistInv, VaultCovers
<1> QED BY <1>1, DistSpecInv, PTL

\* For every list of entries: each recipient is paid its own unpaid entries of
\* the winner, once and for their exact amounts, and nothing else (claim).
THEOREM ClaimsAreExact == DistSpec => ClaimsSettleEntries
<1> DEFINE Exact ==
      \A r \in Recipients :
        IF IsSealed
        THEN received'[r] + NamedTotal(entries[sealed_proposal]', r)
               = received[r] + NamedTotal(entries[sealed_proposal], r)
        ELSE received'[r] = received[r]
<1>1. DistInv /\ [DistNext]_<<slot, dist_vars>> => [Exact]_dist_vars
  <2> SUFFICES ASSUME DistInv, [DistNext]_<<slot, dist_vars>> PROVE [Exact]_dist_vars
    OBVIOUS
  <2>1. CASE UNCHANGED dist_vars
    BY <2>1
  <2>2. CASE received' = received /\ (IsSealed => UNCHANGED <<sealed_proposal, entries>>)
    BY <2>2
  <2>3. ASSUME NEW r \in Recipients, NEW p \in Proposals, NEW i \in 1 .. MaxEntries,
               Claim(r, p, i), UNCHANGED slot
        PROVE  Exact
    <3> DEFINE n == entries[p][i].amount
    <3>1. /\ entries[p] \in Seq(Entry) /\ i \in 1 .. Len(entries[p])
          /\ received \in [Recipients -> Nat]
      BY <2>3 DEF DistInv, DistTypeOK, Claim, EntryCount
    <3>2. n \in Nat /\ \A s \in Recipients : NamedTotal(entries[p], s) \in Nat
      BY <3>1, AmountsType, ListTotalType
    <3>3. \A s \in Recipients :
            NamedTotal(entries[p]', s) = IF s = r THEN NamedTotal(entries[p], s) - n
                                                  ELSE NamedTotal(entries[p], s)
      BY <2>3, ClaimInv
    <3>4. sealed_proposal = p /\ IsSealed /\ sealed_proposal' = p
      BY <2>3 DEF Claim, ClaimsOpen
    <3>5. received' = [received EXCEPT ![r] = @ + n]
      BY <2>3 DEF Claim
    <3> HIDE DEF n
    <3>6. ASSUME NEW s \in Recipients
          PROVE  received'[s] + NamedTotal(entries[p]', s)
                   = received[s] + NamedTotal(entries[p], s)
      <4>1. received[s] \in Nat
        BY <3>1
      <4>2. received'[s] = IF s = r THEN received[s] + n ELSE received[s]
        BY <3>1, <3>5
      <4>3. NamedTotal(entries[p], s) \in Nat
        BY <3>2
      <4> QED BY <3>2, <3>3, <4>1, <4>2, <4>3
    <3> QED BY <3>4, <3>6
  <2>4. ASSUME DraftNext PROVE Exact
    BY <2>2, <2>4
       DEF DraftNext, InitDistribution, CreateProposal, AppendEntries, Draftable
  <2>5. ASSUME NEW p \in Proposals, SealWinner(p) PROVE Exact
    BY <2>2, <2>5 DEF SealWinner, Sealable
  <2>6. ASSUME PayoutNext, UNCHANGED slot PROVE Exact
    BY <2>2, <2>3, <2>6 DEF PayoutNext, BurnUnclaimed, Donate
  <2> QED BY <2>1, <2>4, <2>5, <2>6 DEF DistNext, dist_vars
<1>2. ClaimsSettleEntries <=> [][Exact]_dist_vars
  BY DEF ClaimsSettleEntries
<1> QED BY <1>1, <1>2, DistSpecInv, PTL DEF DistSpec

\* A claim never races a burn, whatever the window: once COIN was burned no
\* claim pays (burn_unclaimed, claim).
THEOREM BurnEndsClaims == DistSpec => NoPayoutAfterBurn
<1>1. DistInv /\ [DistNext]_<<slot, dist_vars>>
        => [coin_supply < TotalSupply => received' = received]_dist_vars
  <2> SUFFICES ASSUME DistInv, [DistNext]_<<slot, dist_vars>>,
                      coin_supply < TotalSupply
               PROVE  received' = received
    OBVIOUS
  <2>1. slot >= WindowEnd /\ slot \in Nat /\ WindowEnd \in Nat
    BY DerivedTypes, DistributionAssumption
       DEF DistInv, DistTypeOK, VaultCovers, Slots
  <2>2. ~ClaimsOpen
    BY <2>1 DEF ClaimsOpen
  <2> QED
    BY <2>2 DEF DistNext, DraftNext, PayoutNext, InitDistribution, CreateProposal,
                AppendEntries, SealWinner, Claim, BurnUnclaimed, Donate, dist_vars
<1> QED BY <1>1, DistSpecInv, PTL DEF DistSpec, NoPayoutAfterBurn

----------------------------------------------------------------------------
(* The ledger alone: its counter agrees with its positions, for any owners, *)
(* windows and amounts.                                                     *)

LedgerInv == LedgerTypeOK /\ OutstandingIsOwed

\* What the invariant says of one owner.
LEMMA PositionFacts ==
  ASSUME LedgerInv, NEW o \in Owners
  PROVE  /\ outstanding \in Nat
         /\ position[o] = [principal |-> position[o].principal,
                           vote_locked |-> position[o].vote_locked,
                           withdrawn |-> position[o].withdrawn]
         /\ position[o].principal \in Nat
         /\ PrincipalOf \in [Owners -> Nat]
         /\ position[o].principal <= outstanding
<1>1. position[o] \in Position /\ outstanding \in Nat
  BY LedgerAssumption DEF LedgerInv, LedgerTypeOK, Amount
<1>2. \A q \in Owners : position[q].principal \in Nat
  BY LedgerAssumption DEF LedgerInv, LedgerTypeOK, Position, Amount
<1>3. PrincipalOf \in [Owners -> Nat] /\ PrincipalOf[o] = position[o].principal
  BY <1>2 DEF PrincipalOf
<1>4. PrincipalOf[o] <= Total(PrincipalOf, Owners)
  BY <1>3, LedgerAssumption, TotalCovers
<1> QED BY <1>1, <1>2, <1>3, <1>4 DEF LedgerInv, OutstandingIsOwed, Position

\* Moving one owner's principal moves the sum of the principals as much.
LEMMA PrincipalChange ==
  ASSUME LedgerInv, NEW o \in Owners, NEW pos \in Position,
         position' = [position EXCEPT ![o] = pos]
  PROVE  /\ position' \in [Owners -> Position]
         /\ Total(PrincipalOf, Owners)' = outstanding - position[o].principal + pos.principal
<1>1. position \in [Owners -> Position] /\ position' \in [Owners -> Position]
  BY DEF LedgerInv, LedgerTypeOK
<1>2. \A q \in Owners : position'[q] = IF q = o THEN pos ELSE position[q]
  BY <1>1
<1> DEFINE f == PrincipalOf
           g == PrincipalOf'
<1>3. \A q \in Owners : position[q].principal \in Nat /\ position'[q].principal \in Nat
  BY <1>1, LedgerAssumption DEF Position, Amount
<1>4. /\ f \in [Owners -> Nat] /\ g \in [Owners -> Nat]
      /\ \A q \in Owners : q # o => f[q] = g[q]
  BY <1>2, <1>3 DEF PrincipalOf
<1>5. f[o] = position[o].principal /\ g[o] = pos.principal
  BY <1>2 DEF PrincipalOf
<1>6. IsFiniteSet(Owners)
  BY LedgerAssumption
<1> HIDE DEF f, g
<1>7. Total(f, Owners) \in Nat /\ Total(g, Owners) = Total(f, Owners) - f[o] + g[o]
  BY <1>4, <1>6, TotalChange
<1> QED BY <1>1, <1>5, <1>7 DEF LedgerInv, OutstandingIsOwed, f, g

LEMMA LedgerInvInit == slot = 0 /\ LedgerInit => LedgerInv
<1> SUFFICES ASSUME slot = 0, LedgerInit PROVE LedgerInv
  OBVIOUS
<1>1. NoPosition \in Position
  BY LedgerAssumption DEF NoPosition, Position, Amount
<1>2. position \in [Owners -> Position] /\ outstanding \in Amount /\ slot \in Slots
  BY <1>1, LedgerAssumption, MaxSlotAssumption DEF LedgerInit, Amount, Slots
<1>3. pool_open \in BOOLEAN /\ resolved \in BOOLEAN
  BY DEF LedgerInit
<1>4. \A o \in Owners : PrincipalOf[o] = 0
  BY DEF LedgerInit, PrincipalOf, NoPosition
<1>5. Total(PrincipalOf, Owners) = 0
  BY <1>4, TotalZero
<1>6. outstanding = 0
  BY DEF LedgerInit
<1> QED BY <1>2, <1>3, <1>5, <1>6 DEF LedgerInv, LedgerTypeOK, OutstandingIsOwed

LEMMA DepositInv ==
  ASSUME LedgerInv, NEW o \in Owners, NEW n \in Amount, Deposit(o, n), UNCHANGED slot
  PROVE  LedgerInv'
<1> DEFINE pos == [position[o] EXCEPT !.principal = @ + n]
<1>0. /\ outstanding \in Nat /\ position[o].principal \in Nat
      /\ position[o].principal <= outstanding
  BY PositionFacts
<1>1. n \in Nat /\ outstanding + n \in Amount
  BY <1>0, LedgerAssumption DEF Deposit, Amount
<1>2. position[o].principal + n \in Amount
  BY <1>0, <1>1, LedgerAssumption DEF Amount
<1>3. pos \in Position /\ pos.principal = position[o].principal + n
  BY <1>2 DEF LedgerInv, LedgerTypeOK, Position
<1>4. position' = [position EXCEPT ![o] = pos]
  BY DEF Deposit
<1> HIDE DEF pos
<1>5. /\ position' \in [Owners -> Position]
      /\ Total(PrincipalOf, Owners)' = outstanding - position[o].principal + pos.principal
  BY <1>3, <1>4, PrincipalChange
<1>6. outstanding' = Total(PrincipalOf, Owners)'
  BY <1>1, <1>3, <1>5, PositionFacts DEF Deposit
<1> QED BY <1>1, <1>5, <1>6 DEF LedgerInv, LedgerTypeOK, OutstandingIsOwed, Deposit

LEMMA ExitInv ==
  ASSUME LedgerInv, NEW o \in Owners, NEW n \in Amount, Exit(o, n), UNCHANGED slot
  PROVE  LedgerInv'
<1> DEFINE pos == [position[o] EXCEPT !.principal = @ - n,
                                      !.withdrawn = (n = position[o].principal)]
<1>1. n \in Nat /\ n <= position[o].principal /\ outstanding - n \in Amount
  BY PositionFacts, LedgerAssumption DEF Exit, LedgerInv, LedgerTypeOK, Amount
<1>2. position[o].principal - n \in Amount
  BY <1>1, PositionFacts, LedgerAssumption DEF LedgerInv, LedgerTypeOK, Amount
<1>3. pos \in Position /\ pos.principal = position[o].principal - n
  BY <1>2 DEF LedgerInv, LedgerTypeOK, Position
<1>4. position' = [position EXCEPT ![o] = pos]
  BY DEF Exit
<1> HIDE DEF pos
<1>5. /\ position' \in [Owners -> Position]
      /\ Total(PrincipalOf, Owners)' = outstanding - position[o].principal + pos.principal
  BY <1>3, <1>4, PrincipalChange
<1>6. outstanding' = Total(PrincipalOf, Owners)'
  BY <1>1, <1>3, <1>5, PositionFacts DEF Exit
<1> QED BY <1>1, <1>5, <1>6 DEF LedgerInv, LedgerTypeOK, OutstandingIsOwed, Exit

LEMMA TerminalReturnInv ==
  ASSUME LedgerInv, NEW o \in Owners, TerminalReturn(o), UNCHANGED slot
  PROVE  LedgerInv'
<1> DEFINE pos == [principal |-> 0, vote_locked |-> FALSE, withdrawn |-> TRUE]
<1>1. outstanding - position[o].principal \in Amount
  BY PositionFacts, LedgerAssumption DEF LedgerInv, LedgerTypeOK, Amount
<1>2. pos \in Position /\ pos.principal = 0
  BY LedgerAssumption DEF Position, Amount
<1>3. position' = [position EXCEPT ![o] = pos]
  BY DEF TerminalReturn
<1> HIDE DEF pos
<1>4. /\ position' \in [Owners -> Position]
      /\ Total(PrincipalOf, Owners)' = outstanding - position[o].principal + pos.principal
  BY <1>2, <1>3, PrincipalChange
<1>5. outstanding' = Total(PrincipalOf, Owners)'
  BY <1>2, <1>4, PositionFacts DEF TerminalReturn
<1> QED BY <1>1, <1>4, <1>5 DEF LedgerInv, LedgerTypeOK, OutstandingIsOwed, TerminalReturn

LEMMA SetVoteLockInv ==
  ASSUME LedgerInv, NEW o \in Owners, NEW locked \in BOOLEAN,
         SetVoteLock(o, locked), UNCHANGED slot
  PROVE  LedgerInv'
<1> DEFINE pos == [position[o] EXCEPT !.vote_locked = locked]
<1>1. pos \in Position /\ pos.principal = position[o].principal
  BY DEF LedgerInv, LedgerTypeOK, Position
<1>2. position' = [position EXCEPT ![o] = pos]
  BY DEF SetVoteLock
<1> HIDE DEF pos
<1>3. /\ position' \in [Owners -> Position]
      /\ Total(PrincipalOf, Owners)' = outstanding - position[o].principal + pos.principal
  BY <1>1, <1>2, PrincipalChange
<1>4. outstanding' = Total(PrincipalOf, Owners)'
  BY <1>1, <1>3, PositionFacts DEF SetVoteLock
<1> QED BY <1>3, <1>4 DEF LedgerInv, LedgerTypeOK, OutstandingIsOwed, SetVoteLock

LEMMA LedgerInvStep == LedgerInv /\ [LedgerNext]_<<slot, ledger_vars>> => LedgerInv'
<1> SUFFICES ASSUME LedgerInv, [LedgerNext]_<<slot, ledger_vars>> PROVE LedgerInv'
  OBVIOUS
<1> USE DEF LedgerInv, LedgerTypeOK, OutstandingIsOwed, PrincipalOf
<1>1. CASE UNCHANGED <<slot, ledger_vars>>
  BY <1>1 DEF ledger_vars
<1>2. CASE Tick /\ UNCHANGED ledger_vars
  BY <1>2, MaxSlotAssumption DEF ledger_vars, Tick, Slots
<1>3. ASSUME InitPool, UNCHANGED slot PROVE LedgerInv'
  BY <1>3 DEF InitPool
<1>4. ASSUME Resolve, UNCHANGED slot PROVE LedgerInv'
  BY <1>4 DEF Resolve
<1> HIDE DEF LedgerInv, LedgerTypeOK, OutstandingIsOwed, PrincipalOf
<1>5. ASSUME DepositNext, UNCHANGED slot PROVE LedgerInv'
  BY <1>3, <1>4, <1>5, DepositInv, ExitInv DEF DepositNext
<1> QED BY <1>1, <1>2, <1>5, TerminalReturnInv, SetVoteLockInv DEF LedgerNext

\* The counter of outstanding principal agrees with the positions whatever is
\* deposited, taken out, locked or paid off (insurance_deposit,
\* insurance_withdraw, return_finalized_position, set_vote_lock).
THEOREM LedgerBalances == LedgerSpec => [](LedgerTypeOK /\ OutstandingIsOwed)
<1>1. LedgerInv => LedgerTypeOK /\ OutstandingIsOwed
  BY DEF LedgerInv
<1> QED BY <1>1, LedgerInvInit, LedgerInvStep, PTL DEF LedgerSpec

----------------------------------------------------------------------------
(* The vote as seen by the two programs it composes: every step of it is a  *)
(* step of theirs, or leaves them alone.                                    *)

LEMMA StepOfLedger == [Next]_vars => [LedgerNext]_<<slot, ledger_vars>>
<1> SUFFICES ASSUME [Next]_vars PROVE [LedgerNext]_<<slot, ledger_vars>>
  OBVIOUS
<1>1. CASE UNCHANGED vars
  BY <1>1 DEF vars
<1>2. CASE Deposits
  BY <1>2 DEF Deposits, LedgerNext
<1>3. CASE Drafts
  BY <1>3 DEF Drafts
<1>4. CASE Payouts
  BY <1>4 DEF Payouts
<1>5. CASE Time
  BY <1>5 DEF Time, LedgerNext
<1>6. CASE InitVote
  BY <1>6 DEF InitVote
<1>7. ASSUME NEW c \in Creators, NEW p \in Proposals, RegisterProposal(c, p)
      PROVE  UNCHANGED <<slot, ledger_vars>>
  BY <1>7 DEF RegisterProposal
<1>8. ASSUME NEW v \in Owners, Withhold(v) PROVE UNCHANGED <<slot, ledger_vars>>
  BY <1>8 DEF Withhold
<1>9. ASSUME NEW v \in Owners, CastBack(v) PROVE LedgerNext
  <2>1. SetVoteLock(v, TRUE) /\ UNCHANGED slot
    BY <1>9 DEF CastBack, Back
  <2> QED BY <2>1 DEF LedgerNext
<1>10. ASSUME NEW v \in Owners, CastRetract(v) PROVE LedgerNext
  <2>1. SetVoteLock(v, FALSE) /\ UNCHANGED slot
    BY <1>10 DEF CastRetract, Retract
  <2> QED BY <2>1 DEF LedgerNext
<1>11. ASSUME NEW v \in Owners, ReturnFinalizedPosition(v) PROVE LedgerNext
  BY <1>11 DEF ReturnFinalizedPosition, LedgerNext
<1>12. ASSUME NEW p \in Proposals, Trigger(p) PROVE UNCHANGED <<slot, ledger_vars>>
  BY <1>12 DEF Trigger
<1> QED BY <1>1, <1>2, <1>3, <1>4, <1>5, <1>6, <1>7, <1>8, <1>9, <1>10, <1>11, <1>12
        DEF Next

LEMMA StepOfDistribution == [Next]_vars => [DistNext]_<<slot, dist_vars>>
<1> SUFFICES ASSUME [Next]_vars PROVE [DistNext]_<<slot, dist_vars>>
  OBVIOUS
<1>1. CASE UNCHANGED vars
  BY <1>1 DEF vars
<1>2. CASE Deposits
  BY <1>2 DEF Deposits
<1>3. CASE Drafts \/ Payouts
  BY <1>3 DEF Drafts, Payouts, DistNext
<1>4. CASE Time
  BY <1>4 DEF Time, DistNext
<1>5. CASE InitVote
  BY <1>5 DEF InitVote
<1>6. ASSUME NEW c \in Creators, NEW p \in Proposals, RegisterProposal(c, p)
      PROVE  UNCHANGED <<slot, dist_vars>>
  BY <1>6 DEF RegisterProposal
<1>7. ASSUME NEW v \in Owners,
             \/ Withhold(v) \/ CastBack(v)
             \/ CastRetract(v) \/ ReturnFinalizedPosition(v)
      PROVE  UNCHANGED <<slot, dist_vars>>
  BY <1>7 DEF Withhold, CastBack, Back, CastRetract, Retract, ReturnFinalizedPosition
<1>8. ASSUME NEW p \in Proposals, Trigger(p) PROVE DistNext
  BY <1>8 DEF Trigger, DistNext
<1> QED BY <1>1, <1>2, <1>3, <1>4, <1>5, <1>6, <1>7, <1>8 DEF Next

----------------------------------------------------------------------------
(* The vote's own invariant.                                                *)

VoteInv == VoteTypeOK /\ TalliesCountLiveBallots /\ BallotsAreBackedByCapital

\* What one ballot adds to the tally of p.
Backing(b, p) == IF b.voted_proposal = p THEN b.voted_principal ELSE 0

\* The types of what a ballot adds, and that the tallies cover it.
LEMMA BallotFacts ==
  ASSUME VoteInv, NEW v \in Owners
  PROVE  /\ ballot[v] \in Ballot
         /\ ballot[v].voted_principal \in Nat /\ ballot[v].vote_nonce \in Nat
         /\ VotedPrincipal \in [Owners -> Nat]
         /\ ballot[v].voted_principal <= total_voted_principal
         /\ total_voted_principal \in Nat
         /\ \A p \in Proposals :
              /\ proposal_vote[p].support_principal \in Nat
              /\ BackedPrincipal(p) \in [Owners -> Nat]
              /\ Backing(ballot[v], p) <= proposal_vote[p].support_principal
<1>1. \A w \in Owners : ballot[w] \in Ballot
  BY DEF VoteInv, VoteTypeOK
<1>2. \A w \in Owners : ballot[w].voted_principal \in Nat /\ ballot[w].vote_nonce \in Nat
  BY <1>1 DEF Ballot
<1>3. VotedPrincipal \in [Owners -> Nat] /\ VotedPrincipal[v] = ballot[v].voted_principal
  BY <1>2 DEF VotedPrincipal
<1>4. IsFiniteSet(Owners)
  BY LedgerAssumption
<1>5. ballot[v].voted_principal <= total_voted_principal /\ total_voted_principal \in Nat
  BY <1>3, <1>4, TotalCovers DEF VoteInv, VoteTypeOK, TalliesCountLiveBallots
<1>6. ASSUME NEW p \in Proposals
      PROVE  /\ proposal_vote[p].support_principal \in Nat
             /\ BackedPrincipal(p) \in [Owners -> Nat]
             /\ Backing(ballot[v], p) <= proposal_vote[p].support_principal
  <2>1. /\ BackedPrincipal(p) \in [Owners -> Nat]
        /\ BackedPrincipal(p)[v] = Backing(ballot[v], p)
    BY <1>2 DEF BackedPrincipal, Backing
  <2>2. proposal_vote[p].support_principal \in Nat
    BY DEF VoteInv, VoteTypeOK, ProposalVote
  <2> QED BY <1>4, <2>1, <2>2, TotalCovers DEF VoteInv, TalliesCountLiveBallots
<1> QED BY <1>1, <1>2, <1>3, <1>5, <1>6

\* Replacing one owner's ballot moves each sum by what the ballot adds.
LEMMA BallotChange ==
  ASSUME VoteInv, NEW v \in Owners, NEW b \in Ballot,
         ballot' = [ballot EXCEPT ![v] = b]
  PROVE  /\ Total(VotedPrincipal, Owners)'
              = total_voted_principal - ballot[v].voted_principal + b.voted_principal
         /\ \A p \in Proposals :
              Total(BackedPrincipal(p), Owners)'
                = proposal_vote[p].support_principal - Backing(ballot[v], p) + Backing(b, p)
<1>1. /\ ballot \in [Owners -> Ballot] /\ ballot' \in [Owners -> Ballot]
      /\ \A w \in Owners : ballot'[w] = IF w = v THEN b ELSE ballot[w]
  BY DEF VoteInv, VoteTypeOK
<1>2. \A w \in Owners : ballot[w].voted_principal \in Nat /\ ballot'[w].voted_principal \in Nat
  BY <1>1 DEF Ballot
<1>3. IsFiniteSet(Owners)
  BY LedgerAssumption
<1>4. Total(VotedPrincipal, Owners)'
        = total_voted_principal - ballot[v].voted_principal + b.voted_principal
  <2> DEFINE f == VotedPrincipal
             g == VotedPrincipal'
  <2>1. /\ f \in [Owners -> Nat] /\ g \in [Owners -> Nat]
        /\ \A w \in Owners : w # v => f[w] = g[w]
    BY <1>1, <1>2 DEF VotedPrincipal
  <2>2. f[v] = ballot[v].voted_principal /\ g[v] = b.voted_principal
    BY <1>1 DEF VotedPrincipal
  <2>3. total_voted_principal = Total(f, Owners)
    BY DEF VoteInv, TalliesCountLiveBallots
  <2>4. Total(VotedPrincipal, Owners)' = Total(g, Owners)
    OBVIOUS
  <2> HIDE DEF f, g
  <2>5. Total(g, Owners) = Total(f, Owners) - f[v] + g[v]
    BY <1>3, <2>1, TotalChange
  <2> QED BY <2>2, <2>3, <2>4, <2>5
<1>5. ASSUME NEW p \in Proposals
      PROVE  Total(BackedPrincipal(p), Owners)'
               = proposal_vote[p].support_principal - Backing(ballot[v], p) + Backing(b, p)
  <2> DEFINE f == BackedPrincipal(p)
             g == BackedPrincipal(p)'
  <2>1. /\ f \in [Owners -> Nat] /\ g \in [Owners -> Nat]
        /\ \A w \in Owners : w # v => f[w] = g[w]
    BY <1>1, <1>2 DEF BackedPrincipal
  <2>2. f[v] = Backing(ballot[v], p) /\ g[v] = Backing(b, p)
    BY <1>1 DEF BackedPrincipal, Backing
  <2>3. proposal_vote[p].support_principal = Total(f, Owners)
    BY DEF VoteInv, TalliesCountLiveBallots
  <2>4. Total(BackedPrincipal(p), Owners)' = Total(g, Owners)
    OBVIOUS
  <2> HIDE DEF f, g
  <2>5. Total(g, Owners) = Total(f, Owners) - f[v] + g[v]
    BY <1>3, <2>1, TotalChange
  <2> QED BY <2>2, <2>3, <2>4, <2>5
<1> QED BY <1>4, <1>5

\* Backing a ballot out takes exactly what it adds off the tallies.
LEMMA BackOut ==
  ASSUME VoteInv, NEW v \in Owners, NEW p \in Proposals
  PROVE  /\ SupportWithout(v, p) = proposal_vote[p].support_principal - Backing(ballot[v], p)
         /\ SupportWithout(v, p) \in Nat
         /\ TotalWithout(v) = total_voted_principal - ballot[v].voted_principal
         /\ TotalWithout(v) \in Nat
<1>1. p # Null
  BY DistributionAssumption
<1>2. ~HasLiveBallot(v) => ballot[v].voted_principal = 0
  <2>1. HasLiveBallot(v) <=> ballot[v].voted_principal > 0
    BY DEF VoteInv, BallotsAreBackedByCapital
  <2> QED BY <2>1, BallotFacts
<1>3. SupportWithout(v, p) = proposal_vote[p].support_principal - Backing(ballot[v], p)
  BY <1>1 DEF SupportWithout, Backing, HasLiveBallot
<1>4. Backing(ballot[v], p) \in Nat
  BY BallotFacts DEF Backing
<1>5. TotalWithout(v) = total_voted_principal - ballot[v].voted_principal
  BY <1>2, BallotFacts DEF TotalWithout
<1> QED BY <1>3, <1>4, <1>5, BallotFacts

\* The part of the invariant that a change of v's ballot to b restores, given
\* that the tallies and v's position follow.
LEMMA BallotStep ==
  ASSUME VoteInv, NEW v \in Owners, NEW p \in Proposals, NEW b \in Ballot,
         NEW support \in Nat,
         ballot' = [ballot EXCEPT ![v] = b],
         proposal_vote' = [proposal_vote EXCEPT ![p].support_principal = support],
         support = SupportWithout(v, p) + Backing(b, p),
         total_voted_principal' = TotalWithout(v) + b.voted_principal,
         \A q \in Proposals \ {p} : Backing(ballot[v], q) = Backing(b, q)
  PROVE  /\ proposal_vote' \in [Proposals -> ProposalVote]
         /\ ballot' \in [Owners -> Ballot]
         /\ total_voted_principal' \in Nat
         /\ TalliesCountLiveBallots'
<1>1. proposal_vote' \in [Proposals -> ProposalVote]
  BY DEF VoteInv, VoteTypeOK, ProposalVote
<1>2. ballot' \in [Owners -> Ballot]
  BY DEF VoteInv, VoteTypeOK
<1>3. b.voted_principal \in Nat
  BY DEF Ballot
<1>4. total_voted_principal' \in Nat
  BY <1>3, BackOut
<1>5. total_voted_principal' = Total(VotedPrincipal, Owners)'
  BY <1>3, BackOut, BallotChange, BallotFacts
<1>6. ASSUME NEW q \in Proposals
      PROVE  proposal_vote'[q].support_principal = Total(BackedPrincipal(q), Owners)'
  <2>1. Total(BackedPrincipal(q), Owners)'
          = proposal_vote[q].support_principal - Backing(ballot[v], q) + Backing(b, q)
    BY BallotChange
  <2>2. CASE q = p
    <3>1. proposal_vote'[q].support_principal = support
      BY <2>2 DEF VoteInv, VoteTypeOK, ProposalVote
    <3> QED BY <2>1, <2>2, <3>1, BackOut
  <2>3. CASE q # p
    <3>1. proposal_vote'[q] = proposal_vote[q]
      BY <2>3 DEF VoteInv, VoteTypeOK
    <3>2. Backing(ballot[v], q) = Backing(b, q)
      BY <2>3
    <3>3. Backing(ballot[v], q) \in Nat /\ proposal_vote[q].support_principal \in Nat
      BY BallotFacts DEF Backing
    <3>4. proposal_vote[q].support_principal - Backing(ballot[v], q) + Backing(b, q)
            = proposal_vote[q].support_principal
      BY <3>2, <3>3
    <3>5. Total(BackedPrincipal(q), Owners)' = proposal_vote[q].support_principal
      BY <2>1, <3>4
    <3> QED BY <3>1, <3>5
  <2> QED BY <2>2, <2>3
<1> QED BY <1>1, <1>2, <1>4, <1>5, <1>6 DEF TalliesCountLiveBallots

\* A vote that lands is well formed.
LEMMA LandingVote ==
  ASSUME LedgerInv, VoteInv, NEW v \in Owners,
         NEW a \in FreshBacks(v) \cup FreshRetracts(v) \cup withheld
  PROVE  a \in Authorization
<1>1. position[v].principal \in Nat
  BY PositionFacts
<1>2. ballot[v] \in Ballot /\ ballot[v].vote_nonce \in Nat /\ retractions[v] \in Nat
  BY BallotFacts DEF VoteInv, VoteTypeOK
<1>3. CASE a \in FreshBacks(v)
  <2>1. PICK p \in Proposals : a = SignedBack(v, p)
    BY <1>3 DEF FreshBacks
  <2> QED BY <1>1, <1>2, <2>1 DEF SignedBack, Authorization
<1>4. CASE a \in FreshRetracts(v)
  <2>1. a = SignedRetract(v) /\ ballot[v].voted_proposal \in Proposals
    BY <1>2, <1>4 DEF FreshRetracts, HasLiveBallot, Ballot
  <2> QED BY <1>1, <1>2, <2>1 DEF SignedRetract, Authorization
<1>5. CASE a \in withheld
  BY <1>5 DEF VoteInv, VoteTypeOK
<1> QED BY <1>3, <1>4, <1>5

\* What locking or unlocking v's position leaves alone.
LEMMA LockFacts ==
  ASSUME LedgerInv, NEW v \in Owners, NEW locked \in BOOLEAN, SetVoteLock(v, locked)
  PROVE  /\ position'[v].vote_locked = locked
         /\ position'[v].principal = position[v].principal
         /\ \A w \in Owners : w # v => position'[w] = position[w]
BY DEF LedgerInv, LedgerTypeOK, Position, SetVoteLock

LEMMA BackInv ==
  ASSUME LedgerInv, VoteInv, NEW a \in Authorization, Back(a)
  PROVE  VoteInv'
<1> DEFINE v == a.voter
           p == a.proposal
           n == position[v].principal
           b == [voted_proposal |-> p, voted_principal |-> n,
                 vote_nonce |-> NonceAfterBack(v)]
<1>1. v \in Owners /\ p \in Proposals /\ p # Null
  BY DistributionAssumption DEF Authorization
<1>2. n \in Nat /\ n > 0
  BY <1>1, PositionFacts DEF Back
<1>3. b \in Ballot
  BY <1>1, <1>2, BallotFacts DEF Ballot, NonceAfterBack
<1>4. /\ ballot' = [ballot EXCEPT ![v] = b]
      /\ proposal_vote' = [proposal_vote EXCEPT ![p].support_principal = SupportWithout(v, p) + n]
      /\ total_voted_principal' = TotalWithout(v) + n
      /\ SetVoteLock(v, TRUE)
      /\ HasLiveBallot(v) => ballot[v].voted_proposal = p
  BY DEF Back
<1>5. Backing(b, p) = n /\ b.voted_principal = n /\ b.voted_proposal = p
  BY DEF Backing
<1>6. \A q \in Proposals \ {p} : Backing(ballot[v], q) = Backing(b, q)
  BY <1>4, DistributionAssumption DEF Backing, HasLiveBallot
<1>7. SupportWithout(v, p) + n \in Nat
  BY <1>1, <1>2, BackOut
<1> HIDE DEF b, n, p, v
<1>8. /\ proposal_vote' \in [Proposals -> ProposalVote] /\ ballot' \in [Owners -> Ballot]
      /\ total_voted_principal' \in Nat /\ TalliesCountLiveBallots'
  BY <1>1, <1>3, <1>4, <1>5, <1>6, <1>7, BallotStep
<1>9. VoteTypeOK'
  BY <1>8 DEF VoteInv, VoteTypeOK, Back
<1>10. BallotsAreBackedByCapital'
  <2>1. ASSUME NEW w \in Owners
        PROVE  /\ (position[w].vote_locked <=> HasLiveBallot(w))'
               /\ (ballot[w].voted_principal <= position[w].principal)'
               /\ (HasLiveBallot(w) <=> ballot[w].voted_principal > 0)'
    <3>1. CASE w = v
      <4>1. ballot'[w] = b
        BY <1>4, <3>1 DEF VoteInv, VoteTypeOK
      <4>2. position'[w].vote_locked = TRUE /\ position'[w].principal = n
        BY <1>1, <1>4, <3>1, LockFacts DEF n
      <4> QED BY <1>1, <1>2, <1>5, <4>1, <4>2 DEF HasLiveBallot
    <3>2. CASE w # v
      <4>1. ballot'[w] = ballot[w]
        BY <1>4, <3>2 DEF VoteInv, VoteTypeOK
      <4>2. position'[w] = position[w]
        BY <1>1, <1>4, <3>2, LockFacts
      <4> QED BY <4>1, <4>2 DEF VoteInv, BallotsAreBackedByCapital, HasLiveBallot
    <3> QED BY <3>1, <3>2
  <2> QED BY <2>1 DEF BallotsAreBackedByCapital
<1> QED BY <1>8, <1>9, <1>10 DEF VoteInv

\* The ballots stay backed when v gives its ballot up and is unlocked.
LEMMA GiveUpBallot ==
  ASSUME LedgerInv', VoteInv, NEW v \in Owners,
         NEW nonce \in Nat,
         ballot' = [ballot EXCEPT ![v] = Cleared(nonce)],
         ~position'[v].vote_locked,
         \A w \in Owners : w # v => position'[w] = position[w]
  PROVE  BallotsAreBackedByCapital'
<1>1. ASSUME NEW w \in Owners
      PROVE  /\ (position[w].vote_locked <=> HasLiveBallot(w))'
             /\ (ballot[w].voted_principal <= position[w].principal)'
             /\ (HasLiveBallot(w) <=> ballot[w].voted_principal > 0)'
  <2>1. CASE w = v
    <3>1. ballot'[w].voted_proposal = Null /\ ballot'[w].voted_principal = 0
      BY <2>1 DEF VoteInv, VoteTypeOK, Cleared
    <3>2. position'[w].principal \in Nat
      BY LedgerAssumption DEF LedgerInv, LedgerTypeOK, Position, Amount
    <3> QED BY <2>1, <3>1, <3>2 DEF HasLiveBallot
  <2>2. CASE w # v
    <3>1. ballot'[w] = ballot[w] /\ position'[w] = position[w]
      BY <2>2 DEF VoteInv, VoteTypeOK
    <3> QED BY <3>1 DEF VoteInv, BallotsAreBackedByCapital, HasLiveBallot
  <2> QED BY <2>1, <2>2
<1> QED BY <1>1 DEF BallotsAreBackedByCapital

LEMMA RetractInv ==
  ASSUME LedgerInv, LedgerInv', VoteInv, NEW a \in Authorization, Retract(a)
  PROVE  VoteInv'
<1> DEFINE v == a.voter
           p == a.proposal
           nonce == NonceAfterRetract(v)
           b == Cleared(nonce)
<1>1. v \in Owners /\ p \in Proposals /\ p # Null
  BY DistributionAssumption DEF Authorization
<1>2. nonce \in Nat
  BY <1>1, BallotFacts DEF NonceAfterRetract
<1>3. b \in Ballot /\ b.voted_principal = 0
  BY <1>2 DEF Ballot, Cleared
<1>4. /\ ballot' = [ballot EXCEPT ![v] = b]
      /\ proposal_vote' = [proposal_vote EXCEPT ![p].support_principal = SupportWithout(v, p)]
      /\ total_voted_principal' = TotalWithout(v)
      /\ SetVoteLock(v, FALSE)
      /\ ballot[v].voted_proposal = p
  BY DEF Retract
<1>5. \A q \in Proposals : Backing(b, q) = 0
  BY <1>3 DEF Backing
<1>6. \A q \in Proposals \ {p} : Backing(ballot[v], q) = Backing(b, q)
  BY <1>4, <1>5 DEF Backing
<1>7. /\ SupportWithout(v, p) \in Nat /\ SupportWithout(v, p) = SupportWithout(v, p) + Backing(b, p)
      /\ TotalWithout(v) = TotalWithout(v) + b.voted_principal
  BY <1>1, <1>3, <1>5, BackOut
<1>8. BallotsAreBackedByCapital'
  <2>1. ~position'[v].vote_locked /\ \A w \in Owners : w # v => position'[w] = position[w]
    BY <1>1, <1>4, LockFacts
  <2> HIDE DEF nonce, v
  <2> QED BY <1>1, <1>2, <1>4, <2>1, GiveUpBallot
<1> HIDE DEF b, p, v
<1>9. /\ proposal_vote' \in [Proposals -> ProposalVote] /\ ballot' \in [Owners -> Ballot]
      /\ total_voted_principal' \in Nat /\ TalliesCountLiveBallots'
  BY <1>1, <1>3, <1>4, <1>6, <1>7, BallotStep
<1>10. VoteTypeOK'
  <2>1. retractions' = [retractions EXCEPT ![v] = @ + 1]
    BY DEF Retract, v
  <2>2. retractions' \in [Owners -> Nat]
    BY <1>1, <2>1 DEF VoteInv, VoteTypeOK
  <2> QED BY <1>9, <2>2 DEF VoteInv, VoteTypeOK, Retract
<1> QED BY <1>8, <1>9, <1>10 DEF VoteInv

LEMMA ReturnInv ==
  ASSUME LedgerInv, LedgerInv', VoteInv, NEW v \in Owners, ReturnFinalizedPosition(v)
  PROVE  VoteInv'
<1>1. ~position'[v].vote_locked /\ \A w \in Owners : w # v => position'[w] = position[w]
  BY DEF ReturnFinalizedPosition, TerminalReturn, LedgerInv, LedgerTypeOK
<1>2. PICK nonce \in Nat : nonce = ballot[v].vote_nonce
  BY BallotFacts
<1> DEFINE b == Cleared(nonce)
<1>3. b \in Ballot /\ b.voted_principal = 0 /\ \A q \in Proposals : Backing(b, q) = 0
  BY DEF Ballot, Cleared, Backing
<1>4. distribution_executed' \in BOOLEAN /\ terminal_refunds_started' \in BOOLEAN
  <2>1. distribution_executed' = (distribution_executed
          \/ (HasLiveBallot(v) /\ proposal_vote[ballot[v].voted_proposal].executed))
    BY DEF ReturnFinalizedPosition, RetireTerminalBallot
  <2>2. terminal_refunds_started' =
          (~(HasLiveBallot(v) /\ proposal_vote[ballot[v].voted_proposal].executed)
             /\ RefundsLatch(distribution_executed'))
    BY <2>1 DEF ReturnFinalizedPosition, RetireTerminalBallot
  <2> QED BY <2>1, <2>2
<1>5. CASE HasLiveBallot(v)
  <2>1. PICK p \in Proposals : p = ballot[v].voted_proposal
    BY <1>5, BallotFacts DEF HasLiveBallot, Ballot
  <2>2. PICK k \in Nat : k = SupportWithout(v, p)
    BY BackOut
  <2>3. /\ ballot' = [ballot EXCEPT ![v] = b]
        /\ proposal_vote' = [proposal_vote EXCEPT ![p].support_principal = k]
        /\ total_voted_principal' = TotalWithout(v)
    BY <1>2, <1>5, <2>2, <2>1 DEF ReturnFinalizedPosition, RetireTerminalBallot
  <2>4. \A q \in Proposals \ {p} : Backing(ballot[v], q) = Backing(b, q)
    BY <1>3, <2>1 DEF Backing
  <2>5. /\ k = SupportWithout(v, p) + Backing(b, p)
        /\ total_voted_principal' = TotalWithout(v) + b.voted_principal
    BY <1>3, <2>2, <2>3, BackOut
  <2>6. BallotsAreBackedByCapital'
    BY <1>1, <2>3, GiveUpBallot
  <2> HIDE DEF b
  <2>7. /\ proposal_vote' \in [Proposals -> ProposalVote] /\ ballot' \in [Owners -> Ballot]
        /\ total_voted_principal' \in Nat /\ TalliesCountLiveBallots'
    BY <1>3, <2>3, <2>4, <2>5, BallotStep
  <2>8. VoteTypeOK'
    BY <1>4, <2>7 DEF VoteInv, VoteTypeOK, ReturnFinalizedPosition, RetireTerminalBallot
  <2> QED BY <2>6, <2>7, <2>8 DEF VoteInv
<1>6. CASE ~HasLiveBallot(v)
  <2>1. UNCHANGED <<proposal_vote, total_voted_principal, ballot>>
    BY <1>6 DEF ReturnFinalizedPosition, RetireTerminalBallot
  <2>2. ballot[v].voted_principal = 0 /\ ballot[v].voted_proposal = Null
    BY <1>6, BallotFacts DEF VoteInv, BallotsAreBackedByCapital, HasLiveBallot
  <2>3. ballot[v] = b
    BY <1>2, <2>2, BallotFacts DEF Ballot, Cleared
  <2>4. ballot' = [ballot EXCEPT ![v] = b]
    BY <2>1, <2>3 DEF VoteInv, VoteTypeOK
  <2>5. BallotsAreBackedByCapital'
    BY <1>1, <2>4, GiveUpBallot
  <2>6. VoteTypeOK'
    BY <1>4, <2>1 DEF VoteInv, VoteTypeOK, ReturnFinalizedPosition, RetireTerminalBallot
  <2>7. TalliesCountLiveBallots'
    BY <2>1 DEF VoteInv, TalliesCountLiveBallots, VotedPrincipal, BackedPrincipal
  <2> QED BY <2>5, <2>6, <2>7 DEF VoteInv
<1> QED BY <1>5, <1>6

\* A back or a retract that lands, fresh or withheld, keeps the invariant.
LEMMA CastInv ==
  ASSUME LedgerInv, LedgerInv', VoteInv, NEW v \in Owners, CastBack(v) \/ CastRetract(v)
  PROVE  VoteInv'
<1>1. CASE CastBack(v)
  <2>1. PICK a \in FreshBacks(v) \cup withheld : Back(a)
    BY <1>1 DEF CastBack
  <2>2. a \in Authorization
    BY LandingVote
  <2> QED BY <2>1, <2>2, BackInv
<1>2. CASE CastRetract(v)
  <2>1. PICK a \in FreshRetracts(v) \cup withheld : Retract(a)
    BY <1>2 DEF CastRetract
  <2>2. a \in Authorization
    BY LandingVote
  <2> QED BY <2>1, <2>2, RetractInv
<1> QED BY <1>1, <1>2

LEMMA VoteInvInit == Init => VoteInv
<1> SUFFICES ASSUME Init PROVE VoteInv
  OBVIOUS
<1> USE DistributionAssumption, LedgerAssumption
<1>1. VoteTypeOK
  <2>1. NoProposalVote \in ProposalVote
    BY DEF NoProposalVote, ProposalVote
  <2>2. Cleared(0) \in Ballot
    BY DEF Cleared, Ballot
  <2>3. vote_open \in BOOLEAN /\ distribution_executed \in BOOLEAN
        /\ terminal_refunds_started \in BOOLEAN
    BY DEF Init, VoteInit
  <2>4. proposal_vote \in [Proposals -> ProposalVote] /\ ballot \in [Owners -> Ballot]
    BY <2>1, <2>2 DEF Init, VoteInit
  <2>5. total_voted_principal \in Nat /\ withheld \in SUBSET Authorization
        /\ retractions \in [Owners -> Nat]
    BY DEF Init, VoteInit
  <2> QED BY <2>3, <2>4, <2>5 DEF VoteTypeOK
<1>2. \A v \in Owners : ballot[v].voted_proposal = Null /\ ballot[v].voted_principal = 0
  BY DEF Init, VoteInit, Cleared
<1>3. TalliesCountLiveBallots
  <2>1. Total(VotedPrincipal, Owners) = 0
    BY <1>2, TotalZero DEF VotedPrincipal
  <2>2. ASSUME NEW p \in Proposals PROVE Total(BackedPrincipal(p), Owners) = 0
    BY <1>2, TotalZero DEF BackedPrincipal
  <2>3. \A p \in Proposals : proposal_vote[p].support_principal = 0
    BY DEF Init, VoteInit, NoProposalVote
  <2> QED BY <2>1, <2>2, <2>3 DEF TalliesCountLiveBallots, Init, VoteInit
<1>4. BallotsAreBackedByCapital
  BY <1>2 DEF BallotsAreBackedByCapital, HasLiveBallot, Init, LedgerInit, NoPosition
<1> QED BY <1>1, <1>3, <1>4 DEF VoteInv

\* Deposits and exits leave the ballots backed: an exit needs an unlocked
\* position, which has no live ballot behind it.
LEMMA DepositsVoteInv ==
  ASSUME LedgerInv, LedgerInv', VoteInv, Deposits PROVE VoteInv'
<1>1. VoteTypeOK' /\ TalliesCountLiveBallots'
  BY DEF Deposits, vote_vars, VoteInv, VoteTypeOK, TalliesCountLiveBallots,
         VotedPrincipal, BackedPrincipal
<1>2. UNCHANGED ballot
  BY DEF Deposits, vote_vars
<1>3. ASSUME NEW w \in Owners
      PROVE  /\ position'[w].vote_locked = position[w].vote_locked
             /\ \/ position'[w].principal >= position[w].principal
                \/ ~position[w].vote_locked
             /\ position'[w].principal \in Nat /\ position[w].principal \in Nat
  <2>1. position \in [Owners -> Position] /\ position' \in [Owners -> Position]
    BY DEF LedgerInv, LedgerTypeOK
  <2>2. position'[w].principal \in Nat /\ position[w].principal \in Nat
    BY <2>1, LedgerAssumption DEF Position, Amount
  <2>3. CASE UNCHANGED position
    BY <2>2, <2>3
  <2>4. ASSUME NEW o \in Owners, NEW n \in Amount, Deposit(o, n)
        PROVE  /\ position'[w].vote_locked = position[w].vote_locked
               /\ position'[w].principal >= position[w].principal
    <3>1. n \in Nat
      BY LedgerAssumption DEF Amount
    <3>2. position' = [position EXCEPT ![o].principal = @ + n]
      BY <2>4 DEF Deposit
    <3> QED BY <2>1, <2>2, <3>1, <3>2 DEF Position
  <2>5. ASSUME NEW o \in Owners, NEW n \in Amount, Exit(o, n)
        PROVE  /\ position'[w].vote_locked = position[w].vote_locked
               /\ \/ position'[w] = position[w]
                  \/ ~position[w].vote_locked
    <3>1. position' = [position EXCEPT ![o].principal = @ - n,
                                       ![o].withdrawn = (n = position[o].principal)]
          /\ ~position[o].vote_locked
      BY <2>5 DEF Exit, MayExit
    <3>2. CASE w # o
      BY <2>1, <3>1, <3>2
    <3>3. CASE w = o
      BY <2>1, <3>1, <3>3 DEF Position
    <3> QED BY <3>2, <3>3
  <2>6. DepositNext
    BY DEF Deposits
  <2>7. CASE InitPool \/ Resolve
    BY <2>3, <2>7 DEF InitPool, Resolve
  <2> QED BY <2>2, <2>4, <2>5, <2>6, <2>7 DEF DepositNext
<1>4. ASSUME NEW w \in Owners
      PROVE  /\ (position[w].vote_locked <=> HasLiveBallot(w))'
             /\ (ballot[w].voted_principal <= position[w].principal)'
             /\ (HasLiveBallot(w) <=> ballot[w].voted_principal > 0)'
  <2>1. /\ position[w].vote_locked <=> HasLiveBallot(w)
        /\ ballot[w].voted_principal <= position[w].principal
        /\ HasLiveBallot(w) <=> ballot[w].voted_principal > 0
    BY DEF VoteInv, BallotsAreBackedByCapital
  <2>2. HasLiveBallot(w)' <=> HasLiveBallot(w)
    BY <1>2 DEF HasLiveBallot
  <2>3. ballot'[w].voted_principal <= position'[w].principal
    <3>1. ballot[w].voted_principal \in Nat
      BY BallotFacts
    <3> QED BY <1>2, <1>3, <2>1, <3>1
  <2>4. (position[w].vote_locked <=> HasLiveBallot(w))'
    BY <1>3, <2>1, <2>2, Zenon
  <2>5. (HasLiveBallot(w) <=> ballot[w].voted_principal > 0)'
    BY <1>2, <2>1, <2>2
  <2> QED BY <2>3, <2>4, <2>5
<1> QED BY <1>1, <1>4 DEF VoteInv, BallotsAreBackedByCapital

\* Steps that touch neither ballots nor tallies nor positions.
LEMMA QuietVoteInv ==
  ASSUME VoteInv, VoteTypeOK',
         UNCHANGED <<position, ballot, total_voted_principal>>,
         \A p \in Proposals :
           proposal_vote'[p].support_principal = proposal_vote[p].support_principal
  PROVE  VoteInv'
<1>1. TalliesCountLiveBallots'
  BY DEF VoteInv, TalliesCountLiveBallots, VotedPrincipal, BackedPrincipal
<1>2. BallotsAreBackedByCapital'
  BY DEF VoteInv, BallotsAreBackedByCapital, HasLiveBallot
<1> QED BY <1>1, <1>2 DEF VoteInv

LEMMA RegisterInv ==
  ASSUME DistInv, VoteInv, NEW c \in Creators, NEW p \in Proposals,
         RegisterProposal(c, p), proposal_vote[p].support_principal = 0
  PROVE  VoteInv'
<1>1. EntryCount(p) \in Nat /\ header[p].total_amount \in Nat
  BY DerivedTypes DEF DistInv, DistTypeOK, EntryCount
<1>2. Snapshot(p) \in ProposalVote /\ Snapshot(p).support_principal = 0
  BY <1>1 DEF ProposalVote, Snapshot
<1>3. proposal_vote' = [proposal_vote EXCEPT ![p] = Snapshot(p)]
  BY DEF RegisterProposal
<1>4. proposal_vote' \in [Proposals -> ProposalVote]
  BY <1>2, <1>3 DEF VoteInv, VoteTypeOK
<1>5. VoteTypeOK'
  BY <1>4 DEF VoteInv, VoteTypeOK, RegisterProposal
<1>6. \A q \in Proposals :
        proposal_vote'[q].support_principal = proposal_vote[q].support_principal
  BY <1>2, <1>3 DEF VoteInv, VoteTypeOK
<1> QED BY <1>5, <1>6, QuietVoteInv DEF RegisterProposal, ledger_vars

LEMMA TriggerInv ==
  ASSUME VoteInv, NEW p \in Proposals, Trigger(p) PROVE VoteInv'
<1>1. proposal_vote' = [proposal_vote EXCEPT ![p].executed = TRUE]
  BY DEF Trigger
<1>2. proposal_vote' \in [Proposals -> ProposalVote]
  BY <1>1 DEF VoteInv, VoteTypeOK, ProposalVote
<1>3. VoteTypeOK'
  BY <1>2 DEF VoteInv, VoteTypeOK, Trigger
<1>4. \A q \in Proposals :
        proposal_vote'[q].support_principal = proposal_vote[q].support_principal
  BY <1>1 DEF VoteInv, VoteTypeOK, ProposalVote
<1> QED BY <1>3, <1>4, QuietVoteInv DEF Trigger, ledger_vars

LEMMA WithholdInv ==
  ASSUME LedgerInv, VoteInv, NEW v \in Owners, Withhold(v) PROVE VoteInv'
<1>1. PICK a \in FreshBacks(v) \cup FreshRetracts(v) : withheld' = withheld \cup {a}
  BY DEF Withhold
<1>2. a \in Authorization
  BY LandingVote
<1>3. VoteTypeOK'
  BY <1>1, <1>2 DEF VoteInv, VoteTypeOK, Withhold
<1> QED BY <1>3, QuietVoteInv DEF Withhold, ledger_vars

----------------------------------------------------------------------------
(* The decision.                                                            *)

\* A registered proposal is complete and stays so; another has no support.
RegistrationsHold ==
  \A p \in Proposals :
    IF proposal_vote[p].registered
    THEN /\ Exists(p)
         /\ EntryCount(p) = header[p].capacity
         /\ header[p].total_amount = TotalSupply
    ELSE proposal_vote[p].support_principal = 0 /\ ~proposal_vote[p].executed

\* Refunds without a decision exclude one.
RefundsExclude ==
  terminal_refunds_started => ~IsSealed /\ slot >= RefundStart

GenesisInv ==
  /\ LedgerInv /\ DistInv /\ VoteInv
  /\ RegistrationsHold /\ DecisionsAgree /\ RefundsExclude

\* A step that keeps registrations, support of what is unregistered, and the
\* drafts as they are.
LEMMA RegistrationsKept ==
  ASSUME RegistrationsHold, UNCHANGED <<header, entries>>,
         \A p \in Proposals :
           /\ proposal_vote'[p].registered = proposal_vote[p].registered
           /\ proposal_vote'[p].executed = proposal_vote[p].executed
           /\ proposal_vote[p].registered
                \/ proposal_vote'[p].support_principal = proposal_vote[p].support_principal
  PROVE  RegistrationsHold'
BY DEF RegistrationsHold, Exists, EntryCount

LEMMA DraftsKeepRegistrations ==
  ASSUME GenesisInv, Drafts PROVE RegistrationsHold'
<1> USE DEF GenesisInv
<1>1. UNCHANGED proposal_vote
  BY DEF Drafts, vote_vars
<1>2. ASSUME NEW p \in Proposals, proposal_vote[p].registered
      PROVE  (Exists(p) /\ EntryCount(p) = header[p].capacity
                /\ header[p].total_amount = TotalSupply)'
  <2>0. /\ Exists(p) /\ EntryCount(p) = header[p].capacity
        /\ header[p].total_amount = TotalSupply
    BY <1>2 DEF RegistrationsHold
  <2>1. CASE InitDistribution
    BY <2>0, <2>1 DEF InitDistribution, Exists, EntryCount
  <2>2. ASSUME NEW c \in Creators, NEW q \in Proposals, NEW capacity \in 0 .. MaxEntries,
               CreateProposal(c, q, capacity)
        PROVE  UNCHANGED <<header[p], entries>>
    BY <2>0, <2>2 DEF CreateProposal, DistInv, DistTypeOK
  <2>3. ASSUME NEW c \in Creators, NEW q \in Proposals, NEW batch \in Batches,
               AppendEntries(c, q, batch)
        PROVE  /\ header'[p].capacity = header[p].capacity
               /\ header'[p].total_amount = header[p].total_amount
               /\ Len(entries'[p]) = Len(entries[p])
    <3>1. /\ header \in [Proposals -> Header] /\ entries \in [Proposals -> Seq(Entry)]
          /\ batch \in Seq(Entry)
      BY DistributionAssumption DEF DistInv, DistTypeOK, Batches
    <3>2. CASE q # p
      BY <2>3, <3>1, <3>2 DEF AppendEntries
    <3>3. CASE q = p
      <4>1. Len(batch) = 0
        BY <2>0, <2>3, <3>1, <3>3 DEF AppendEntries, EntryCount
      <4>2. ListTotal(batch) = 0
        <5>1. 1 .. Len(batch) = {}
          BY <4>1
        <5> QED BY <5>1, TotalZero DEF ListTotal
      <4>3. /\ entries'[p] = entries[p] \o batch
            /\ header'[p].capacity = header[p].capacity
            /\ header'[p].total_amount = header[p].total_amount + ListTotal(batch)
        BY <2>3, <3>1, <3>3 DEF AppendEntries, Header
      <4>4. Len(entries[p] \o batch) = Len(entries[p])
        BY <3>1, <4>1
      <4>5. header[p].total_amount \in Nat
        BY DerivedTypes DEF DistInv
      <4> QED BY <4>2, <4>3, <4>4, <4>5
    <3> QED BY <3>2, <3>3
  <2>4. DraftNext
    BY DEF Drafts
  <2> QED BY <2>0, <2>1, <2>2, <2>3, <2>4 DEF DraftNext, Exists, EntryCount
<1> QED BY <1>1, <1>2 DEF RegistrationsHold

LEMMA PayoutsKeepRegistrations ==
  ASSUME GenesisInv, Payouts PROVE RegistrationsHold'
<1> USE DEF GenesisInv
<1>1. UNCHANGED <<proposal_vote, header>>
  BY DEF Payouts, vote_vars, PayoutNext, Claim, BurnUnclaimed, Donate
<1>2. \A p \in Proposals : EntryCount(p)' = EntryCount(p)
  <2>1. ASSUME NEW r \in Recipients, NEW q \in Proposals, NEW i \in 1 .. MaxEntries,
               Claim(r, q, i), NEW p \in Proposals
        PROVE  Len(entries'[p]) = Len(entries[p])
    <3>1. entries[q] \in Seq(Entry) /\ i \in 1 .. Len(entries[q])
      BY <2>1 DEF DistInv, DistTypeOK, Claim, EntryCount
    <3>2. Len(Settled(entries[q], i)) = Len(entries[q])
      BY <3>1, SettleTakesAmount
    <3>3. entries' = [entries EXCEPT ![q] = Settled(entries[q], i)]
      BY <2>1 DEF Claim
    <3> QED BY <3>2, <3>3 DEF DistInv, DistTypeOK
  <2> QED BY <2>1 DEF Payouts, PayoutNext, BurnUnclaimed, Donate, EntryCount
<1> QED BY <1>1, <1>2 DEF RegistrationsHold, Exists

\* A step that decides nothing.
LEMMA DecisionKept ==
  ASSUME GenesisInv, slot' \in Nat, slot' >= slot,
         UNCHANGED <<sealed_proposal, distribution_executed, terminal_refunds_started>>,
         \A p \in Proposals : proposal_vote'[p].executed = proposal_vote[p].executed
  PROVE  DecisionsAgree' /\ RefundsExclude'
<1>1. DecisionsAgree'
  BY DEF GenesisInv, DecisionsAgree, IsSealed
<1>2. RefundStart \in Nat /\ slot \in Nat
  BY LedgerAssumption
     DEF GenesisInv, LedgerInv, LedgerTypeOK, Slots, RefundStart, BootstrapEnd
<1>3. RefundStart' = RefundStart
  BY DEF RefundStart, BootstrapEnd
<1>4. RefundsExclude'
  BY <1>2, <1>3 DEF GenesisInv, RefundsExclude, IsSealed
<1> QED BY <1>1, <1>4

LEMMA TriggerDecides ==
  ASSUME GenesisInv, NEW p \in Proposals, Trigger(p)
  PROVE  DecisionsAgree' /\ RefundsExclude' /\ RegistrationsHold'
<1>1. /\ sealed_proposal' = p /\ ~IsSealed /\ p # Null
      /\ distribution_executed' = TRUE /\ ~terminal_refunds_started'
      /\ proposal_vote[p].registered
  BY DistributionAssumption DEF Trigger, SealWinner, Sealable
<1>2. /\ proposal_vote' = [proposal_vote EXCEPT ![p].executed = TRUE]
      /\ proposal_vote \in [Proposals -> ProposalVote]
  BY DEF Trigger, GenesisInv, VoteInv, VoteTypeOK
<1>3. /\ proposal_vote'[p].executed = TRUE
      /\ proposal_vote'[p].registered = TRUE
      /\ \A q \in Proposals : q # p => proposal_vote'[q] = proposal_vote[q]
  BY <1>1, <1>2 DEF ProposalVote
<1>4. \A q \in Proposals : ~proposal_vote[q].executed
  BY <1>1, DistributionAssumption DEF GenesisInv, DecisionsAgree, IsSealed
<1>5. DecisionsAgree'
  <2>1. \A q \in Proposals : proposal_vote'[q].executed <=> q = p
    BY <1>3, <1>4, Zenon
  <2>2. (distribution_executed <=> IsSealed)'
    BY <1>1 DEF IsSealed
  <2>3. \A q \in Proposals : proposal_vote'[q].executed <=> sealed_proposal' = q
    BY <1>1, <2>1, Zenon
  <2> QED BY <2>2, <2>3 DEF DecisionsAgree
<1>6. RefundsExclude'
  BY <1>1 DEF RefundsExclude
<1>7. RegistrationsHold'
  <2>1. /\ entries' = entries
        /\ \A q \in Proposals : /\ header'[q].capacity = header[q].capacity
                                /\ header'[q].total_amount = header[q].total_amount
    BY DEF Trigger, SealWinner, GenesisInv, DistInv, DistTypeOK, Header
  <2> QED BY <1>1, <1>3, <2>1 DEF GenesisInv, RegistrationsHold, Exists, EntryCount
<1> QED BY <1>5, <1>6, <1>7

LEMMA ReturnDecides ==
  ASSUME GenesisInv, VoteInv', NEW v \in Owners, ReturnFinalizedPosition(v)
  PROVE  /\ DecisionsAgree' /\ RefundsExclude' /\ RegistrationsHold'
         /\ distribution_executed' = distribution_executed
         /\ \/ terminal_refunds_started' = terminal_refunds_started
            \/ /\ ~terminal_refunds_started /\ terminal_refunds_started'
               /\ ~IsSealed /\ slot >= RefundStart
<1> DEFINE p == ballot[v].voted_proposal
           won == HasLiveBallot(v) /\ proposal_vote[p].executed
<1>1. HasLiveBallot(v) => p \in Proposals
  BY BallotFacts DEF GenesisInv, HasLiveBallot, Ballot
<1>2. won => distribution_executed /\ IsSealed /\ ~terminal_refunds_started
  BY <1>1, DistributionAssumption
     DEF GenesisInv, DecisionsAgree, RefundsExclude, IsSealed
<1>3. /\ distribution_executed' = (distribution_executed \/ won)
      /\ RefundsAllowed(distribution_executed')
      /\ terminal_refunds_started' = (~won /\ RefundsLatch(distribution_executed'))
      /\ UNCHANGED <<slot, sealed_proposal, header, entries>>
  BY DEF ReturnFinalizedPosition, RetireTerminalBallot, dist_vars
<1>4. /\ distribution_executed \in BOOLEAN /\ terminal_refunds_started \in BOOLEAN
      /\ distribution_executed' \in BOOLEAN /\ terminal_refunds_started' \in BOOLEAN
      /\ (distribution_executed <=> IsSealed)
  BY DEF GenesisInv, VoteInv, VoteTypeOK, DecisionsAgree
<1>5. distribution_executed' = distribution_executed
  BY <1>2, <1>3, <1>4, Zenon
<1>6. \/ terminal_refunds_started' = terminal_refunds_started
      \/ /\ ~terminal_refunds_started /\ terminal_refunds_started'
         /\ ~IsSealed /\ slot >= RefundStart
  <2>1. CASE won
    BY <1>2, <1>3, <1>4, <2>1
  <2>2. CASE ~won /\ distribution_executed
    BY <1>3, <1>4, <1>5, <2>2 DEF RefundsLatch
  <2>3. CASE ~won /\ ~distribution_executed
    BY <1>3, <1>4, <1>5, <2>3 DEF RefundsLatch, RefundsAllowed
  <2> QED BY <2>1, <2>2, <2>3
<1>7. \A q \in Proposals :
        /\ proposal_vote'[q].registered = proposal_vote[q].registered
        /\ proposal_vote'[q].executed = proposal_vote[q].executed
        /\ proposal_vote[q].registered
             \/ proposal_vote'[q].support_principal = proposal_vote[q].support_principal
  <2>1. CASE HasLiveBallot(v)
    <3>1. proposal_vote' = [proposal_vote EXCEPT ![p].support_principal = SupportWithout(v, p)]
      BY <2>1 DEF ReturnFinalizedPosition, RetireTerminalBallot
    <3>2. ASSUME ~proposal_vote[p].registered
          PROVE  SupportWithout(v, p) = proposal_vote[p].support_principal
      <4>1. proposal_vote[p].support_principal = 0
        BY <1>1, <2>1, <3>2 DEF GenesisInv, RegistrationsHold
      <4>2. PICK q \in Proposals : q = p
        BY <1>1, <2>1
      <4>3. SupportWithout(v, q) \in Nat /\ Backing(ballot[v], q) \in Nat
            /\ SupportWithout(v, q) = proposal_vote[q].support_principal - Backing(ballot[v], q)
        BY BackOut, BallotFacts DEF GenesisInv, Backing
      <4> QED BY <4>1, <4>2, <4>3
    <3> QED BY <1>1, <2>1, <3>1, <3>2 DEF GenesisInv, VoteInv, VoteTypeOK, ProposalVote
  <2>2. CASE ~HasLiveBallot(v)
    BY <2>2 DEF ReturnFinalizedPosition, RetireTerminalBallot
  <2> QED BY <2>1, <2>2
<1>8. RegistrationsHold'
  BY <1>3, <1>7, RegistrationsKept DEF GenesisInv
<1>9. DecisionsAgree'
  BY <1>3, <1>5, <1>7 DEF GenesisInv, DecisionsAgree, IsSealed
<1>10. RefundsExclude'
  <2>1. RefundStart' = RefundStart
    BY DEF RefundStart, BootstrapEnd
  <2> QED BY <1>3, <1>6, <2>1 DEF GenesisInv, RefundsExclude, IsSealed
<1> QED BY <1>5, <1>6, <1>8, <1>9, <1>10

\* A landing vote decides nothing and backs what is registered.
LEMMA CastDecides ==
  ASSUME GenesisInv, NEW v \in Owners, CastBack(v) \/ CastRetract(v)
  PROVE  DecisionsAgree' /\ RefundsExclude' /\ RegistrationsHold'
<1>1. PICK a \in FreshBacks(v) \cup FreshRetracts(v) \cup withheld : Back(a) \/ Retract(a)
  BY DEF CastBack, CastRetract
<1>2. a.proposal \in Proposals
  BY LandingVote DEF GenesisInv, Authorization
<1>3. PICK k : proposal_vote' = [proposal_vote EXCEPT ![a.proposal].support_principal = k]
  BY <1>1 DEF Back, Retract
<1>4. proposal_vote[a.proposal].registered
  BY <1>1 DEF Back, Retract
<1>5. \A q \in Proposals :
        /\ proposal_vote'[q].registered = proposal_vote[q].registered
        /\ proposal_vote'[q].executed = proposal_vote[q].executed
        /\ proposal_vote[q].registered
             \/ proposal_vote'[q].support_principal = proposal_vote[q].support_principal
  BY <1>2, <1>3, <1>4 DEF GenesisInv, VoteInv, VoteTypeOK, ProposalVote
<1>6. UNCHANGED <<slot, sealed_proposal, header, entries, distribution_executed,
                  terminal_refunds_started>>
  BY <1>1 DEF Back, Retract, dist_vars
<1>7. slot \in Nat /\ slot' \in Nat /\ slot' >= slot
  BY <1>6 DEF GenesisInv, LedgerInv, LedgerTypeOK, Slots
<1>8. RegistrationsHold'
  BY <1>5, <1>6, RegistrationsKept DEF GenesisInv
<1> QED BY <1>5, <1>6, <1>7, <1>8, DecisionKept

LEMMA RegisterDecides ==
  ASSUME GenesisInv, NEW c \in Creators, NEW p \in Proposals, RegisterProposal(c, p)
  PROVE  DecisionsAgree' /\ RefundsExclude' /\ RegistrationsHold'
<1>1. /\ proposal_vote' = [proposal_vote EXCEPT ![p] = Snapshot(p)]
      /\ Exists(p) /\ Populated(p) /\ ~proposal_vote[p].registered
      /\ UNCHANGED <<slot, sealed_proposal, header, entries, distribution_executed,
                     terminal_refunds_started>>
  BY DEF RegisterProposal, dist_vars
<1>2. /\ proposal_vote'[p] = Snapshot(p)
      /\ \A q \in Proposals : q # p => proposal_vote'[q] = proposal_vote[q]
  BY <1>1 DEF GenesisInv, VoteInv, VoteTypeOK
<1>3. ~proposal_vote[p].executed
  BY <1>1 DEF GenesisInv, RegistrationsHold
<1>4. proposal_vote[p].executed \in BOOLEAN
  BY DEF GenesisInv, VoteInv, VoteTypeOK, ProposalVote
<1>5. \A q \in Proposals : proposal_vote'[q].executed = proposal_vote[q].executed
  <2>1. proposal_vote'[p].executed = FALSE
    BY <1>2 DEF Snapshot
  <2>2. proposal_vote[p].executed = FALSE
    BY <1>3, <1>4, Zenon
  <2>3. proposal_vote'[p].executed = proposal_vote[p].executed
    BY <2>1, <2>2, Zenon
  <2> QED BY <1>2, <2>3
<1>6. slot \in Nat /\ slot' \in Nat /\ slot' >= slot
  BY <1>1 DEF GenesisInv, LedgerInv, LedgerTypeOK, Slots
<1>7. RegistrationsHold'
  <2>1. ASSUME NEW q \in Proposals, q # p
        PROVE  (IF proposal_vote[q].registered
                THEN /\ Exists(q) /\ EntryCount(q) = header[q].capacity
                     /\ header[q].total_amount = TotalSupply
                ELSE proposal_vote[q].support_principal = 0 /\ ~proposal_vote[q].executed)'
    BY <1>1, <1>2, <2>1 DEF GenesisInv, RegistrationsHold, Exists, EntryCount
  <2>2. (proposal_vote[p].registered /\ Exists(p) /\ EntryCount(p) = header[p].capacity
           /\ header[p].total_amount = TotalSupply)'
    BY <1>1, <1>2 DEF Snapshot, Populated, Exists, EntryCount
  <2> QED BY <2>1, <2>2 DEF RegistrationsHold
<1> QED BY <1>1, <1>5, <1>6, <1>7, DecisionKept

\* Steps that leave the vote's accounts alone.
LEMMA OthersDecide ==
  ASSUME GenesisInv, slot' \in Nat, slot' >= slot, UNCHANGED sealed_proposal,
         UNCHANGED <<proposal_vote, distribution_executed, terminal_refunds_started>>
  PROVE  DecisionsAgree' /\ RefundsExclude'
BY DecisionKept

LEMMA GenesisInvInit == Init => GenesisInv
<1> SUFFICES ASSUME Init PROVE GenesisInv
  OBVIOUS
<1>1. LedgerInv /\ DistInv /\ VoteInv
  BY LedgerInvInit, DistInvInit, VoteInvInit DEF Init, DistStart
<1>2. \A p \in Proposals :
        /\ ~proposal_vote[p].registered /\ ~proposal_vote[p].executed
        /\ proposal_vote[p].support_principal = 0
  BY DEF Init, VoteInit, NoProposalVote
<1>3. RegistrationsHold
  BY <1>2 DEF RegistrationsHold
<1>4. sealed_proposal = Null /\ ~distribution_executed /\ ~terminal_refunds_started
  BY DEF Init, VoteInit, DistInit
<1>5. DecisionsAgree /\ RefundsExclude
  BY <1>2, <1>4, DistributionAssumption DEF DecisionsAgree, RefundsExclude, IsSealed
<1> QED BY <1>1, <1>3, <1>5 DEF GenesisInv

LEMMA GenesisInvStep == GenesisInv /\ [Next]_vars => GenesisInv'
<1> SUFFICES ASSUME GenesisInv, [Next]_vars PROVE GenesisInv'
  OBVIOUS
<1>1. LedgerInv' /\ DistInv'
  BY StepOfLedger, StepOfDistribution, LedgerInvStep, DistInvStep DEF GenesisInv
<1>2. slot \in Nat
  BY DEF GenesisInv, LedgerInv, LedgerTypeOK, Slots
<1> DEFINE Rest == VoteInv' /\ RegistrationsHold' /\ DecisionsAgree' /\ RefundsExclude'
<1>3. CASE UNCHANGED vars
  <2>1. UNCHANGED <<slot, ledger_vars, dist_vars, vote_vars>>
    BY <1>3 DEF vars
  <2>2. VoteTypeOK'
    BY <2>1 DEF GenesisInv, VoteInv, VoteTypeOK, vote_vars
  <2>3. VoteInv'
    BY <2>1, <2>2, QuietVoteInv DEF GenesisInv, vote_vars, ledger_vars
  <2>4. RegistrationsHold'
    BY <2>1, RegistrationsKept DEF GenesisInv, vote_vars, dist_vars
  <2>5. DecisionsAgree' /\ RefundsExclude'
    BY <1>2, <2>1, OthersDecide DEF vote_vars, dist_vars
  <2> QED BY <1>1, <2>3, <2>4, <2>5 DEF GenesisInv
<1>4. CASE Deposits
  <2>1. VoteInv'
    BY <1>1, <1>4, DepositsVoteInv DEF GenesisInv
  <2>2. UNCHANGED <<slot, dist_vars, vote_vars>>
    BY <1>4 DEF Deposits
  <2>3. RegistrationsHold'
    BY <2>2, RegistrationsKept DEF GenesisInv, vote_vars, dist_vars
  <2>4. DecisionsAgree' /\ RefundsExclude'
    BY <1>2, <2>2, OthersDecide DEF vote_vars, dist_vars
  <2> QED BY <1>1, <2>1, <2>3, <2>4 DEF GenesisInv
<1>5. CASE Drafts \/ Payouts
  <2>1. UNCHANGED <<slot, ledger_vars, vote_vars, sealed_proposal>>
    BY <1>5 DEF Drafts, Payouts, DraftNext, PayoutNext, InitDistribution,
                CreateProposal, AppendEntries, Claim, BurnUnclaimed, Donate
  <2>2. VoteTypeOK'
    BY <2>1 DEF GenesisInv, VoteInv, VoteTypeOK, vote_vars
  <2>3. VoteInv'
    BY <2>1, <2>2, QuietVoteInv DEF GenesisInv, vote_vars, ledger_vars
  <2>4. RegistrationsHold'
    BY <1>5, DraftsKeepRegistrations, PayoutsKeepRegistrations
  <2>5. DecisionsAgree' /\ RefundsExclude'
    BY <1>2, <2>1, OthersDecide DEF vote_vars
  <2> QED BY <1>1, <2>3, <2>4, <2>5 DEF GenesisInv
<1>6. CASE Time \/ InitVote \/ (\E v \in Owners : Withhold(v))
  <2>1. UNCHANGED <<ledger_vars, dist_vars, total_voted_principal, proposal_vote, ballot,
                    distribution_executed, terminal_refunds_started>>
    BY <1>6 DEF Time, InitVote, Withhold, vote_vars
  <2>2. slot' \in Nat /\ slot' >= slot
    BY <1>2, <1>6 DEF Time, Tick, InitVote, Withhold
  <2>3. VoteInv'
    <3>1. CASE \E v \in Owners : Withhold(v)
      BY <3>1, WithholdInv DEF GenesisInv
    <3>2. CASE Time \/ InitVote
      <4>1. VoteTypeOK'
        BY <3>2 DEF GenesisInv, VoteInv, VoteTypeOK, Time, InitVote, vote_vars
      <4> QED BY <2>1, <4>1, QuietVoteInv DEF GenesisInv, ledger_vars
    <3> QED BY <1>6, <3>1, <3>2
  <2>4. RegistrationsHold'
    BY <2>1, RegistrationsKept DEF GenesisInv, dist_vars
  <2>5. DecisionsAgree' /\ RefundsExclude'
    BY <2>1, <2>2, OthersDecide DEF dist_vars
  <2> QED BY <1>1, <2>3, <2>4, <2>5 DEF GenesisInv
<1>7. ASSUME NEW c \in Creators, NEW p \in Proposals, RegisterProposal(c, p)
      PROVE  GenesisInv'
  <2>1. proposal_vote[p].support_principal = 0
    BY <1>7 DEF GenesisInv, RegistrationsHold, RegisterProposal
  <2>2. VoteInv'
    BY <1>7, <2>1, RegisterInv DEF GenesisInv
  <2> QED BY <1>1, <1>7, <2>2, RegisterDecides DEF GenesisInv
<1>8. ASSUME NEW v \in Owners, CastBack(v) \/ CastRetract(v)
      PROVE  GenesisInv'
  BY <1>1, <1>8, CastInv, CastDecides DEF GenesisInv
<1>9. ASSUME NEW v \in Owners, ReturnFinalizedPosition(v)
      PROVE  GenesisInv'
  <2>1. VoteInv'
    BY <1>1, <1>9, ReturnInv DEF GenesisInv
  <2> QED BY <1>1, <1>9, <2>1, ReturnDecides DEF GenesisInv
<1>10. ASSUME NEW p \in Proposals, Trigger(p)
       PROVE  GenesisInv'
  BY <1>1, <1>10, TriggerInv, TriggerDecides DEF GenesisInv
<1> QED BY <1>3, <1>4, <1>5, <1>6, <1>7, <1>8, <1>9, <1>10 DEF Next

LEMMA SpecInv == Spec => []GenesisInv
BY GenesisInvInit, GenesisInvStep, PTL DEF Spec

----------------------------------------------------------------------------
(* The theorems.                                                            *)

\* The accounts of the three programs keep their types; no checked subtraction
\* of a tally or of the outstanding principal can fail.
THEOREM TypeCorrect == Spec => []TypeOK
<1>1. GenesisInv => TypeOK
  BY DEF GenesisInv, LedgerInv, DistInv, VoteInv, TypeOK
<1> QED BY <1>1, SpecInv, PTL

\* Whatever is voted, replaced, retracted or retired, by any number of owners,
\* the tallies are the live ballots (vote, retire_terminal_ballot).
THEOREM TalliesAreLive == Spec => []TalliesCountLiveBallots
<1>1. GenesisInv => TalliesCountLiveBallots
  BY DEF GenesisInv, VoteInv
<1> QED BY <1>1, SpecInv, PTL

\* "A vote can never outlive the capital backing it" (vote, set_vote_lock).
THEOREM VotesNeverOutliveCapital == Spec => []BallotsAreBackedByCapital
<1>1. GenesisInv => BallotsAreBackedByCapital
  BY DEF GenesisInv, VoteInv
<1> QED BY <1>1, SpecInv, PTL

\* The vote is executed exactly when the distribution is sealed, on the same
\* proposal (trigger, seal_winner, retire_terminal_ballot).
THEOREM DecisionsAlwaysAgree == Spec => []DecisionsAgree
<1>1. GenesisInv => DecisionsAgree
  BY DEF GenesisInv
<1> QED BY <1>1, SpecInv, PTL

\* What voters registered and backed pays out the whole supply (append_entries,
\* register_proposal).
THEOREM RegistrationIsFinal == Spec => []RegisteredPaysWholeSupply
<1>1. GenesisInv => RegisteredPaysWholeSupply
  BY DEF GenesisInv, DistInv, HeadersAddUp, RegistrationsHold, RegisteredPaysWholeSupply
<1> QED BY <1>1, SpecInv, PTL

\* A winner is sealed only with more than a quarter of all principal then in
\* the pool standing behind it: a majority of a quorum (trigger).
THEOREM CapitalDecides == Spec => SealedByCapital
<1>1. GenesisInv /\ [Next]_vars =>
        [\A p \in Proposals : sealed_proposal' = p /\ sealed_proposal # p =>
           /\ 2 * Total(CapitalBehind(Proposals), Owners) > outstanding
           /\ 4 * Total(CapitalBehind({p}), Owners) > outstanding]_vars
  <2> SUFFICES ASSUME GenesisInv, [Next]_vars, NEW p \in Proposals,
                      sealed_proposal' = p, sealed_proposal # p
               PROVE  /\ 2 * Total(CapitalBehind(Proposals), Owners) > outstanding
                      /\ 4 * Total(CapitalBehind({p}), Owners) > outstanding
    OBVIOUS
  <2>1. PICK q \in Proposals : Trigger(q)
    BY DEF Next, vars, Deposits, Drafts, DraftNext, Payouts, PayoutNext, Time, InitVote,
           RegisterProposal, Withhold, CastBack, CastRetract, Back, Retract,
           ReturnFinalizedPosition, InitDistribution, CreateProposal, AppendEntries,
           Claim, BurnUnclaimed, Donate, dist_vars
  <2>2. p = q
    BY <2>1 DEF Trigger, SealWinner
  <2>3. /\ total_voted_principal * 2 > outstanding
        /\ proposal_vote[p].support_principal * 2 > total_voted_principal
    BY <2>1, <2>2 DEF Trigger, HasQuorum, HasMajority
  <2>4. \A v \in Owners :
          /\ ballot[v].voted_principal \in Nat /\ position[v].principal \in Nat
          /\ ballot[v].voted_principal <= position[v].principal
          /\ ballot[v].voted_proposal \in Proposals \cup {Null}
          /\ ballot[v].voted_proposal # Null <=> ballot[v].voted_principal > 0
    <3> SUFFICES ASSUME NEW v \in Owners
                 PROVE  /\ ballot[v].voted_principal \in Nat /\ position[v].principal \in Nat
                        /\ ballot[v].voted_principal <= position[v].principal
                        /\ ballot[v].voted_proposal \in Proposals \cup {Null}
                        /\ ballot[v].voted_proposal # Null <=> ballot[v].voted_principal > 0
      OBVIOUS
    <3>1. ballot[v].voted_principal \in Nat /\ ballot[v].voted_proposal \in Proposals \cup {Null}
      BY BallotFacts DEF GenesisInv, Ballot
    <3>2. position[v].principal \in Nat
      BY PositionFacts DEF GenesisInv
    <3> QED BY <3>1, <3>2 DEF GenesisInv, VoteInv, BallotsAreBackedByCapital, HasLiveBallot
  <2>5. /\ proposal_vote[p].support_principal <= Total(CapitalBehind({p}), Owners)
        /\ Total(CapitalBehind({p}), Owners) \in Nat
    <3> DEFINE f == BackedPrincipal(p)
               g == CapitalBehind({p})
    <3>1. \A v \in Owners : f[v] \in Nat /\ g[v] \in Nat /\ f[v] <= g[v]
      BY <2>4 DEF BackedPrincipal, CapitalBehind
    <3>2. proposal_vote[p].support_principal = Total(f, Owners)
      BY DEF GenesisInv, VoteInv, TalliesCountLiveBallots
    <3> HIDE DEF f, g
    <3>3. Total(f, Owners) <= Total(g, Owners) /\ Total(g, Owners) \in Nat
      BY <3>1, LedgerAssumption, TotalMonotone, TotalType
    <3> QED BY <3>2, <3>3 DEF g
  <2>6. /\ total_voted_principal <= Total(CapitalBehind(Proposals), Owners)
        /\ Total(CapitalBehind(Proposals), Owners) \in Nat
    <3> DEFINE f == VotedPrincipal
               g == CapitalBehind(Proposals)
    <3>1. \A v \in Owners : f[v] \in Nat /\ g[v] \in Nat /\ f[v] <= g[v]
      BY <2>4 DEF VotedPrincipal, CapitalBehind
    <3>2. total_voted_principal = Total(f, Owners)
      BY DEF GenesisInv, VoteInv, TalliesCountLiveBallots
    <3> HIDE DEF f, g
    <3>3. Total(f, Owners) <= Total(g, Owners) /\ Total(g, Owners) \in Nat
      BY <3>1, LedgerAssumption, TotalMonotone, TotalType
    <3> QED BY <3>2, <3>3 DEF g
  <2>7. /\ proposal_vote[p].support_principal \in Nat /\ total_voted_principal \in Nat
        /\ outstanding \in Nat
    BY LedgerAssumption
       DEF GenesisInv, VoteInv, VoteTypeOK, ProposalVote, LedgerInv, LedgerTypeOK, Amount
  <2> QED BY <2>3, <2>5, <2>6, <2>7
<1>2. SealedByCapital <=>
        [][\A p \in Proposals : sealed_proposal' = p /\ sealed_proposal # p =>
             /\ 2 * Total(CapitalBehind(Proposals), Owners) > outstanding
             /\ 4 * Total(CapitalBehind({p}), Owners) > outstanding]_vars
  BY DEF SealedByCapital
<1>. QED BY <1>1, <1>2, SpecInv, PTL DEF Spec

\* GenesisVote implements GenesisOutcome: at most one proposal is ever chosen,
\* in the decision phase only, and never once refunds without a decision have
\* begun (trigger, retire_terminal_ballot).
THEOREM ImplementsOutcome == Spec => OneOutcome
<1> USE DEF Outcome!outcome, Outcome!Init, Outcome!Next, Outcome!Choose, Outcome!Refund,
            Outcome!Advance
<1>1. Init => Outcome!Init
  BY DEF Init, DistInit, VoteInit
<1>2. GenesisInv /\ [Next]_vars => [Outcome!Next]_(Outcome!outcome)
  <2> SUFFICES ASSUME GenesisInv, [Next]_vars PROVE [Outcome!Next]_(Outcome!outcome)
    OBVIOUS
  <2>1. CASE UNCHANGED <<slot, sealed_proposal, terminal_refunds_started>>
    BY <2>1
  <2>2. CASE UNCHANGED vars \/ Deposits \/ Drafts \/ Payouts \/ InitVote
    <3>1. UNCHANGED <<slot, sealed_proposal, terminal_refunds_started>>
      BY <2>2 DEF vars, vote_vars, dist_vars, Deposits, Drafts, DraftNext, Payouts, PayoutNext,
                  InitVote, InitDistribution, CreateProposal, AppendEntries, Claim,
                  BurnUnclaimed, Donate
    <3> QED BY <2>1, <3>1
  <2>3. CASE Time
    <3>1. slot' = slot + 1 /\ UNCHANGED <<sealed_proposal, terminal_refunds_started>>
      BY <2>3 DEF Time, Tick, dist_vars, vote_vars
    <3> QED BY <3>1
  <2>4. CASE \E c \in Creators, p \in Proposals : RegisterProposal(c, p)
    BY <2>1, <2>4 DEF RegisterProposal, dist_vars
  <2>5. ASSUME NEW v \in Owners, Withhold(v) \/ CastBack(v) \/ CastRetract(v)
        PROVE  UNCHANGED <<slot, sealed_proposal, terminal_refunds_started>>
    BY <2>5 DEF Withhold, CastBack, CastRetract, Back, Retract, dist_vars
  <2>6. ASSUME NEW v \in Owners, ReturnFinalizedPosition(v)
        PROVE  [Outcome!Next]_(Outcome!outcome)
    <3>1. UNCHANGED <<slot, sealed_proposal>>
      BY <2>6 DEF ReturnFinalizedPosition, dist_vars
    <3>2. \/ terminal_refunds_started' = terminal_refunds_started
          \/ /\ ~terminal_refunds_started /\ terminal_refunds_started'
             /\ ~IsSealed /\ slot >= RefundStart
      <4>1. VoteInv'
        BY <2>6, ReturnInv, StepOfLedger, LedgerInvStep DEF GenesisInv
      <4> QED BY <2>6, <4>1, ReturnDecides
    <3>3. CASE terminal_refunds_started' = terminal_refunds_started
      BY <2>1, <3>1, <3>3
    <3>4. CASE /\ ~terminal_refunds_started /\ terminal_refunds_started'
               /\ ~IsSealed /\ slot >= RefundStart
      <4>1. {sealed_proposal} \ {Null} = {} /\ RefundStart <= slot
        BY <3>4, LedgerAssumption
           DEF IsSealed, RefundStart, BootstrapEnd, GenesisInv, LedgerInv, LedgerTypeOK, Slots
      <4>2. terminal_refunds_started \in BOOLEAN /\ terminal_refunds_started' \in BOOLEAN
        BY <2>6, ReturnInv, StepOfLedger, LedgerInvStep DEF GenesisInv, VoteInv, VoteTypeOK
      <4>3. terminal_refunds_started = FALSE /\ terminal_refunds_started' = TRUE
        BY <3>4, <4>2
      <4> QED BY <3>1, <4>1, <4>3
    <3> QED BY <3>2, <3>3, <3>4
  <2>7. ASSUME NEW p \in Proposals, Trigger(p)
        PROVE  [Outcome!Next]_(Outcome!outcome)
    <3>1. /\ ~IsSealed /\ sealed_proposal' = p /\ p # Null
          /\ ~terminal_refunds_started
          /\ UNCHANGED <<slot, terminal_refunds_started>>
          /\ BootstrapEnd <= slot /\ slot < RefundStart
      BY <2>7, DistributionAssumption DEF Trigger, SealWinner, Sealable, TriggerPhase
    <3>2. {sealed_proposal} \ {Null} = {} /\ {sealed_proposal'} \ {Null} = {p}
      BY <3>1 DEF IsSealed
    <3>3. terminal_refunds_started = FALSE
      BY <3>1 DEF GenesisInv, VoteInv, VoteTypeOK
    <3> QED BY <3>1, <3>2, <3>3
  <2> QED BY <2>1, <2>2, <2>3, <2>4, <2>5, <2>6, <2>7 DEF Next
<1> QED BY <1>1, <1>2, SpecInv, PTL DEF Spec, OneOutcome, Outcome!Spec
----------------------------------------------------------------------------
(* Votes that were signed and withheld.                                      *)

\* A withheld vote is of the past or of the ballot its signer saw.  What was
\* seen may be gone without a new nonce, but only once nothing is backed again.
OfItsBallot(a) ==
  LET v == a.voter
  IN  /\ a.vote_nonce <= ballot[v].vote_nonce
      /\ a.vote_nonce = ballot[v].vote_nonce =>
           /\ a.retractions = retractions[v]
           /\ a.kind = "retract" =>
                \/ a.seen = ballot[v]
                \/ ~HasLiveBallot(v) /\ BootstrapEnd <= slot
      /\ a.kind = "retract" => a.seen.voted_proposal # Null

WithheldInv == \A a \in withheld : OfItsBallot(a)

LEMMA WithheldFacts ==
  ASSUME GenesisInv
  PROVE  /\ slot \in Nat /\ BootstrapEnd \in Nat
         /\ ballot \in [Owners -> Ballot] /\ retractions \in [Owners -> Nat]
         /\ \A v \in Owners : ballot[v].vote_nonce \in Nat
         /\ \A a \in withheld :
              a.voter \in Owners /\ a.vote_nonce \in Nat /\ a.kind \in {"back", "retract"}
<1>1. slot \in Nat /\ BootstrapEnd \in Nat
  BY LedgerAssumption, MaxSlotAssumption
     DEF GenesisInv, LedgerInv, LedgerTypeOK, Slots, BootstrapEnd
<1>2. ballot \in [Owners -> Ballot] /\ retractions \in [Owners -> Nat]
  BY DEF GenesisInv, VoteInv, VoteTypeOK
<1>3. \A v \in Owners : ballot[v].vote_nonce \in Nat
  BY <1>2 DEF Ballot
<1>4. ASSUME NEW a \in withheld
      PROVE  a.voter \in Owners /\ a.vote_nonce \in Nat /\ a.kind \in {"back", "retract"}
  <2>1. a \in Authorization
    BY DEF GenesisInv, VoteInv, VoteTypeOK
  <2> QED BY <2>1 DEF Authorization
<1> QED BY <1>1, <1>2, <1>3, <1>4

\* What does not touch ballots leaves what was withheld as it is.
LEMMA QuietWithheld ==
  ASSUME GenesisInv, WithheldInv, UNCHANGED <<ballot, retractions>>,
         withheld' \subseteq withheld, slot' \in {slot, slot + 1}
  PROVE  WithheldInv'
<1> SUFFICES ASSUME NEW a \in withheld' PROVE OfItsBallot(a)'
  BY DEF WithheldInv
<1>1. OfItsBallot(a)
  BY DEF WithheldInv
<1>2. BootstrapEnd <= slot => BootstrapEnd <= slot'
  BY WithheldFacts
<1>3. BootstrapEnd' = BootstrapEnd
  BY DEF BootstrapEnd
<1> QED BY <1>1, <1>2, <1>3 DEF OfItsBallot, HasLiveBallot

LEMMA FreshWithheld ==
  ASSUME GenesisInv, WithheldInv, NEW v \in Owners, Withhold(v)
  PROVE  WithheldInv'
<1>1. PICK b \in FreshBacks(v) \cup FreshRetracts(v) : withheld' = withheld \cup {b}
  BY DEF Withhold
<1>2. UNCHANGED <<slot, ballot, retractions>>
  BY DEF Withhold
<1>3. OfItsBallot(b)
  <2>1. CASE b \in FreshBacks(v)
    <3>1. PICK p \in Proposals : b = SignedBack(v, p)
      BY <2>1 DEF FreshBacks
    <3> QED BY <3>1, WithheldFacts DEF SignedBack, OfItsBallot
  <2>2. CASE b \in FreshRetracts(v)
    <3>1. b = SignedRetract(v) /\ HasLiveBallot(v)
      BY <2>2 DEF FreshRetracts
    <3> QED BY <3>1, WithheldFacts DEF SignedRetract, OfItsBallot, HasLiveBallot
  <2> QED BY <1>1, <2>1, <2>2
<1>4. \A a \in withheld' : OfItsBallot(a)
  BY <1>1, <1>3 DEF WithheldInv
<1>5. BootstrapEnd' = BootstrapEnd
  BY DEF BootstrapEnd
<1> QED BY <1>2, <1>4, <1>5 DEF WithheldInv, OfItsBallot, HasLiveBallot

\* One owner's ballot and retractions move; everybody else's votes stay put.
LEMMA BallotMoves ==
  ASSUME GenesisInv, WithheldInv, NEW v \in Owners, NEW new,
         ballot' = [ballot EXCEPT ![v] = new], new.vote_nonce \in Nat,
         \A o \in Owners \ {v} : retractions'[o] = retractions[o],
         withheld' \subseteq withheld, slot' = slot,
         \/ new.vote_nonce > ballot[v].vote_nonce
         \/ /\ new.vote_nonce = ballot[v].vote_nonce
            /\ retractions' = retractions
            /\ \/ new.voted_proposal = Null /\ BootstrapEnd <= slot
               \/ ~HasLiveBallot(v) /\ slot < BootstrapEnd
  PROVE  WithheldInv'
<1> SUFFICES ASSUME NEW a \in withheld' PROVE OfItsBallot(a)'
  BY DEF WithheldInv
<1>1. OfItsBallot(a) /\ a.voter \in Owners /\ a.vote_nonce \in Nat
  BY WithheldFacts DEF WithheldInv
<1>2. BootstrapEnd' = BootstrapEnd
  BY DEF BootstrapEnd
<1>3. ballot'[v] = new /\ \A o \in Owners \ {v} : ballot'[o] = ballot[o]
  BY WithheldFacts
<1>4. CASE a.voter # v
  BY <1>1, <1>2, <1>3, <1>4 DEF OfItsBallot, HasLiveBallot
<1>5. CASE a.voter = v /\ new.vote_nonce > ballot[v].vote_nonce
  BY <1>1, <1>3, <1>5, WithheldFacts DEF OfItsBallot
<1>6. CASE /\ a.voter = v /\ new.vote_nonce = ballot[v].vote_nonce
           /\ retractions' = retractions
           /\ new.voted_proposal = Null /\ BootstrapEnd <= slot
  BY <1>1, <1>2, <1>3, <1>6 DEF OfItsBallot, HasLiveBallot
<1>7. CASE /\ a.voter = v /\ new.vote_nonce = ballot[v].vote_nonce
           /\ retractions' = retractions
           /\ ~HasLiveBallot(v) /\ slot < BootstrapEnd
  <2>1. ~(BootstrapEnd <= slot)
    BY <1>7, WithheldFacts
  <2>2. a.kind = "retract" => a.vote_nonce # ballot[v].vote_nonce
    BY <1>1, <1>7, <2>1 DEF OfItsBallot, HasLiveBallot
  <2> QED BY <1>1, <1>3, <1>7, <2>2 DEF OfItsBallot
<1> QED BY <1>4, <1>5, <1>6, <1>7

LEMMA BackWithheld ==
  ASSUME GenesisInv, WithheldInv, NEW v \in Owners, NEW a, a.voter = v, Back(a)
  PROVE  WithheldInv'
<1> DEFINE new == [voted_proposal |-> a.proposal, voted_principal |-> position[v].principal,
                   vote_nonce |-> NonceAfterBack(v)]
<1>1. /\ ballot' = [ballot EXCEPT ![v] = new] /\ slot < BootstrapEnd
      /\ withheld' \subseteq withheld /\ UNCHANGED <<slot, retractions>>
  BY DEF Back
<1>2. new.vote_nonce = NonceAfterBack(v)
  OBVIOUS
<1> HIDE DEF new
<1>3. CASE HasLiveBallot(v)
  <2>1. NonceAfterBack(v) = ballot[v].vote_nonce + 1
    BY <1>3 DEF NonceAfterBack
  <2>2. new.vote_nonce \in Nat /\ new.vote_nonce > ballot[v].vote_nonce
    BY <1>2, <2>1, WithheldFacts
  <2> QED BY <1>1, <2>2, BallotMoves
<1>4. CASE ~HasLiveBallot(v)
  <2>1. new.vote_nonce \in Nat /\ new.vote_nonce = ballot[v].vote_nonce
    BY <1>2, <1>4, WithheldFacts DEF NonceAfterBack
  <2> QED BY <1>1, <1>4, <2>1, BallotMoves
<1> QED BY <1>3, <1>4

LEMMA RetractWithheld ==
  ASSUME GenesisInv, WithheldInv, NEW v \in Owners, NEW a, a.voter = v, Retract(a)
  PROVE  WithheldInv'
<1> DEFINE new == Cleared(NonceAfterRetract(v))
<1>1. /\ ballot' = [ballot EXCEPT ![v] = new]
      /\ retractions' = [retractions EXCEPT ![v] = @ + 1]
      /\ withheld' \subseteq withheld /\ UNCHANGED slot
  BY DEF Retract
<1>2. new.vote_nonce \in Nat /\ new.vote_nonce > ballot[v].vote_nonce
  BY WithheldFacts DEF Cleared, NonceAfterRetract
<1> HIDE DEF new
<1>3. \A o \in Owners \ {v} : retractions'[o] = retractions[o]
  BY <1>1, WithheldFacts
<1> QED BY <1>1, <1>2, <1>3, BallotMoves

LEMMA ReturnWithheld ==
  ASSUME GenesisInv, WithheldInv, NEW v \in Owners, ReturnFinalizedPosition(v)
  PROVE  WithheldInv'
<1>1. UNCHANGED <<slot, withheld, retractions>> /\ BootstrapEnd <= slot
  BY DEF ReturnFinalizedPosition, RetireTerminalBallot
<1>2. CASE ~HasLiveBallot(v)
  <2>1. ballot' = ballot
    BY <1>2 DEF ReturnFinalizedPosition, RetireTerminalBallot
  <2> QED BY <1>1, <2>1, QuietWithheld
<1>3. CASE HasLiveBallot(v)
  <2> DEFINE new == Cleared(ballot[v].vote_nonce)
  <2>1. ballot' = [ballot EXCEPT ![v] = new]
    BY <1>3 DEF ReturnFinalizedPosition, RetireTerminalBallot
  <2>2. /\ new.vote_nonce = ballot[v].vote_nonce /\ new.vote_nonce \in Nat
        /\ new.voted_proposal = Null
    BY WithheldFacts DEF Cleared
  <2> HIDE DEF new
  <2> QED BY <1>1, <2>1, <2>2, BallotMoves
<1> QED BY <1>2, <1>3

LEMMA WithheldInvStep == GenesisInv /\ WithheldInv /\ [Next]_vars => WithheldInv'
<1> SUFFICES ASSUME GenesisInv, WithheldInv, [Next]_vars PROVE WithheldInv'
  OBVIOUS
<1>1. CASE \/ UNCHANGED vars \/ Deposits \/ Drafts \/ Payouts \/ Time \/ InitVote
           \/ \E c \in Creators, p \in Proposals : RegisterProposal(c, p)
           \/ \E p \in Proposals : Trigger(p)
  <2>1. UNCHANGED <<ballot, retractions, withheld>> /\ slot' \in {slot, slot + 1}
    BY <1>1 DEF vars, vote_vars, Deposits, Drafts, Payouts, DraftNext, PayoutNext, Time, Tick,
       InitVote, RegisterProposal, Trigger, InitDistribution, CreateProposal, AppendEntries,
       Claim, BurnUnclaimed, Donate
  <2> QED BY <2>1, QuietWithheld
<1>2. ASSUME NEW v \in Owners,
             Withhold(v) \/ CastBack(v) \/ CastRetract(v) \/ ReturnFinalizedPosition(v)
      PROVE  WithheldInv'
  BY <1>2, FreshWithheld, BackWithheld, RetractWithheld, ReturnWithheld
     DEF CastBack, CastRetract
<1> QED BY <1>1, <1>2 DEF Next

\* A signed vote that lands late does what its signer meant, or nothing: every
\* retraction and every replaced ballot takes a nonce (vote).
THEOREM LateVotesAreMeant == Spec => WithheldVotesMatchIntent
<1>1. Init => WithheldInv
  BY DEF Init, VoteInit, WithheldInv
<1>2. GenesisInv /\ WithheldInv /\ [Next]_vars =>
        [\A a \in withheld : a \notin withheld' =>
           IF a.kind = "back"
           THEN /\ a.retractions = retractions[a.voter]
                /\ ballot'[a.voter].voted_principal = a.principal
           ELSE a.seen = ballot[a.voter]]_vars
  <2> SUFFICES ASSUME GenesisInv, WithheldInv, [Next]_vars,
                      NEW a \in withheld, a \notin withheld'
               PROVE  IF a.kind = "back"
                      THEN /\ a.retractions = retractions[a.voter]
                           /\ ballot'[a.voter].voted_principal = a.principal
                      ELSE a.seen = ballot[a.voter]
    OBVIOUS
  <2>1. OfItsBallot(a) /\ a.voter \in Owners
    BY WithheldFacts DEF WithheldInv
  <2>2. Back(a) \/ Retract(a)
    <3>1. ASSUME \/ UNCHANGED vars \/ Deposits \/ Drafts \/ Payouts \/ Time \/ InitVote
                 \/ \E c \in Creators, p \in Proposals : RegisterProposal(c, p)
                 \/ \E p \in Proposals : Trigger(p)
                 \/ \E v \in Owners : Withhold(v) \/ ReturnFinalizedPosition(v)
          PROVE  FALSE
      <4>1. withheld \subseteq withheld'
        BY <3>1 DEF vars, vote_vars, Deposits, Drafts, Payouts, Time, InitVote,
           RegisterProposal, Trigger, Withhold, ReturnFinalizedPosition
      <4> QED BY <4>1
    <3>2. PICK v \in Owners : CastBack(v) \/ CastRetract(v)
      BY <3>1 DEF Next
    <3>3. PICK b : (Back(b) \/ Retract(b)) /\ withheld' = withheld \ {b}
      BY <3>2 DEF CastBack, CastRetract, Back, Retract
    <3>4. a = b
      BY <3>3
    <3> QED BY <3>3, <3>4
  <2>3. CASE Back(a)
    <3>1. a.kind = "back" /\ a.vote_nonce = ballot[a.voter].vote_nonce
          /\ a.principal = position[a.voter].principal
      BY <2>3 DEF Back, BackMatches, NonceMatches
    <3>2. ballot'[a.voter].voted_principal = position[a.voter].principal
      BY <2>1, <2>3, WithheldFacts DEF Back
    <3> QED BY <2>1, <3>1, <3>2 DEF OfItsBallot
  <2>4. CASE Retract(a)
    <3>1. /\ a.kind = "retract" /\ a.vote_nonce = ballot[a.voter].vote_nonce
          /\ HasLiveBallot(a.voter)
      BY <2>4 DEF Retract, NonceMatches
    <3> QED BY <2>1, <3>1 DEF OfItsBallot
  <2> QED BY <2>2, <2>3, <2>4
<1> QED BY <1>1, <1>2, WithheldInvStep, SpecInv, PTL DEF Spec, WithheldVotesMatchIntent
=============================================================================
