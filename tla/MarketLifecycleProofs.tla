------------------------ MODULE MarketLifecycleProofs ------------------------
(***************************************************************************)
(* What governance approved for one life of a market never reaches another:  *)
(* the argument is that a key which left the controller has a marker, that a *)
(* marked key never comes back, and that a pending instruction is therefore   *)
(* of the present slab whenever the controller can sign at all.              *)
(*                                                                         *)
(* Then, whose insurance a market under the controller can hold, and that   *)
(* nobody is paid with somebody else's money: an asset that settled has     *)
(* neither roles nor money, and every other action moves one owner's books  *)
(* by what it moves of that owner's money.                                  *)
(***************************************************************************)
EXTENDS MarketLifecycle, TLAPS

Roles == Outsiders \cup {"controller", "custody", "none"}

AssetProfiles ==
  [status: {"unconfigured", "active", "shutdown", "retired"}, id: Nat,
   admin: Roles, authority: Roles, operator: Roles, backer: Roles,
   insurance: Int, backing: Int, earnings: Int]

Instructions ==
  [kind: AllKinds \cup Kinds, asset: Assets, wire: Int, slab: Nat, id: Nat]

LifeTypeOK ==
  /\ assets \in [Assets -> AssetProfiles]
  /\ next_id \in Nat
  /\ slab \in Nat
  /\ marketauth \in Outsiders \cup {"controller", "none"}
  /\ pending = NoInstruction \/ pending \in Instructions

\* A key whose market was closed never comes under the controller again, by
\* creation or by donation.
RetiredStaysOut ==
  /\ marker => marketauth # "controller"
  /\ stage = "absent" => marketauth = "none"

\* Until the key is retired, what is pending was approved for this very slab.
PendingIsOurs ==
  pending # NoInstruction /\ ~marker => marketauth = "controller" /\ pending.slab = slab

\* An asset-bound instruction names the generation that governance saw.
PendingNamesItsAsset ==
  pending # NoInstruction /\ pending.kind # "resolve" =>
    \/ pending.wire = pending.id
    \/ pending.wire = NoWitness /\ pending.asset = 0 /\ pending.id = 1

LifeInv == LifeTypeOK /\ RetiredStaysOut /\ PendingIsOurs /\ PendingNamesItsAsset

----------------------------------------------------------------------------
LEMMA OutsidersAreOthers ==
  ASSUME NEW k \in Outsiders
  PROVE  k # "controller" /\ k # "none" /\ k # "custody"
BY OutsidersAssumption

\* A profile with its balances or roles replaced is a profile.
LEMMA NewAssetType ==
  ASSUME NEW id \in Nat, NEW admin \in Roles, NEW authority \in Roles,
         NEW operator \in Roles, NEW backer \in Roles
  PROVE  NewAsset(id, admin, authority, operator, backer) \in AssetProfiles
BY DEF NewAsset, AssetProfiles

LEMMA WithRole ==
  ASSUME NEW p \in AssetProfiles, NEW role \in Roles
  PROVE  /\ [p EXCEPT !.admin = role] \in AssetProfiles
         /\ [p EXCEPT !.authority = role] \in AssetProfiles
         /\ [p EXCEPT !.operator = role] \in AssetProfiles
         /\ [p EXCEPT !.backer = role] \in AssetProfiles
BY DEF AssetProfiles

LEMMA WithBalance ==
  ASSUME NEW p \in AssetProfiles, NEW n \in Int
  PROVE  /\ [p EXCEPT !.insurance = n] \in AssetProfiles
         /\ [p EXCEPT !.backing = n] \in AssetProfiles
         /\ [p EXCEPT !.earnings = n] \in AssetProfiles
BY DEF AssetProfiles

LEMMA UnconfiguredType == Unconfigured \in AssetProfiles
BY DEF Unconfigured, AssetProfiles, Roles

LEMMA InitInv == Init => LifeInv
<1> SUFFICES ASSUME Init PROVE LifeInv
  OBVIOUS
<1>1. pending = NoInstruction /\ marker = FALSE /\ slab = 0
  BY DEF Init, StartOf
<1>2. assets \in [Assets -> AssetProfiles] /\ next_id \in Nat
      /\ marketauth \in Outsiders \cup {"controller", "none"}
      /\ (stage = "absent" => marketauth = "none")
  <2>1. CASE /\ stage = "absent" /\ marketauth = "none" /\ next_id = 1
             /\ assets = [a \in Assets |-> Unconfigured]
    BY <2>1, UnconfiguredType
  <2>2. CASE /\ stage = "live" /\ marketauth = "controller" /\ next_id = 3
             /\ \E k \in Outsiders :
                  assets = [a \in Assets |->
                    IF a = 0 THEN NewAsset(1, "controller", "controller", "controller", k)
                    ELSE NewAsset(2, "controller", k, k, k)]
    <3>1. PICK k \in Outsiders :
            assets = [a \in Assets |->
              IF a = 0 THEN NewAsset(1, "controller", "controller", "controller", k)
              ELSE NewAsset(2, "controller", k, k, k)]
      BY <2>2
    <3>2. k \in Roles /\ "controller" \in Roles
      BY DEF Roles
    <3>3. /\ NewAsset(1, "controller", "controller", "controller", k) \in AssetProfiles
          /\ NewAsset(2, "controller", k, k, k) \in AssetProfiles
      BY <3>2, NewAssetType
    <3>. QED  BY <2>2, <3>1, <3>3
  <2>. QED  BY <2>1, <2>2 DEF Init, StartOf
<1>. QED
  BY <1>1, <1>2 DEF LifeInv, LifeTypeOK, RetiredStaysOut, PendingIsOurs, PendingNamesItsAsset

----------------------------------------------------------------------------
(* Creation, donation and closing. *)

\* A new slab: the key was nobody's, so nothing is pending unless it is retired.
LEMMA FreshInv ==
  ASSUME LifeInv, NEW auth \in Outsiders \cup {"controller"}, NEW fee,
         NEW a0 \in AssetProfiles, NEW a1 \in AssetProfiles, NEW id \in Nat,
         auth = "controller" => KeyIsFresh,
         FreshSlab(auth, fee, a0, a1, id)
  PROVE  LifeInv'
<1>1. marketauth = "none" /\ (pending # NoInstruction => marker)
  BY DEF LifeInv, RetiredStaysOut, PendingIsOurs, FreshSlab
<1>2. assets' \in [Assets -> AssetProfiles] /\ next_id' \in Nat /\ slab' \in Nat
  BY DEF FreshSlab, LifeInv, LifeTypeOK
<1>3. marketauth' = auth /\ marker' = marker /\ pending' = pending /\ stage' = "live"
  BY DEF FreshSlab
<1>4. auth = "controller" => ~marker
  BY DEF KeyIsFresh
<1>5. LifeTypeOK'
  BY <1>2, <1>3 DEF LifeInv, LifeTypeOK
<1>6. RetiredStaysOut' /\ PendingIsOurs'
  BY <1>1, <1>3, <1>4 DEF RetiredStaysOut, PendingIsOurs
<1>7. PendingNamesItsAsset'
  BY <1>3 DEF LifeInv, PendingNamesItsAsset
<1>. QED  BY <1>5, <1>6, <1>7 DEF LifeInv

LEMMA InitMarketInv == LifeInv /\ InitMarket => LifeInv'
<1> SUFFICES ASSUME LifeInv, InitMarket PROVE LifeInv'
  OBVIOUS
<1> DEFINE mine == NewAsset(1, "controller", "controller", "controller", "controller")
<1>1. mine \in AssetProfiles
  BY NewAssetType DEF Roles
<1>2. FreshSlab("controller", FALSE, mine, Unconfigured, 2) /\ KeyIsFresh
  BY DEF InitMarket
<1>. QED  BY <1>1, <1>2, FreshInv, UnconfiguredType

LEMMA InitMarketDirectlyInv ==
  ASSUME LifeInv, NEW cur \in Outsiders, InitMarketDirectly(cur)
  PROVE  LifeInv'
<1>1. PICK to \in Outsiders \cup {"custody"}, given \in Delegations,
           fee \in BOOLEAN, second \in BOOLEAN :
        FreshSlab(cur, fee, CreatorsAsset(cur, to, given),
          IF second THEN NewAsset(2, cur, cur, cur, cur) ELSE Unconfigured,
          IF second THEN 3 ELSE 2)
  BY DEF InitMarketDirectly
<1>2. to \in Roles /\ cur \in Roles
  BY DEF Roles
<1>3. CreatorsAsset(cur, to, given) \in AssetProfiles
  BY <1>2, NewAssetType DEF CreatorsAsset
<1>4. (IF second THEN NewAsset(2, cur, cur, cur, cur) ELSE Unconfigured) \in AssetProfiles
  BY <1>2, NewAssetType, UnconfiguredType
<1>5. cur # "controller"
  BY OutsidersAreOthers
<1>. QED  BY <1>1, <1>3, <1>4, <1>5, FreshInv

\* The donation: an outsider held the market, so nothing was pending.
LEMMA AcceptInv ==
  ASSUME LifeInv, NEW cur \in Outsiders, AcceptMarketAuthority(cur)
  PROVE  LifeInv'
<1>1. marketauth = cur /\ cur # "controller" /\ ~marker
  BY OutsidersAreOthers DEF AcceptMarketAuthority, KeyIsFresh
<1>2. pending = NoInstruction
  BY <1>1 DEF LifeInv, PendingIsOurs
<1>3. Migrated(assets[0], cur) \in AssetProfiles
  <2> DEFINE moved(role) == IF role = cur THEN "controller" ELSE role
             p0 == assets[0]
             p1 == [p0 EXCEPT !.admin = moved(p0.admin)]
             p2 == [p1 EXCEPT !.authority = moved(p1.authority)]
             p3 == [p2 EXCEPT !.operator = moved(p2.operator)]
  <2>1. p0 \in AssetProfiles
    BY DEF LifeInv, LifeTypeOK, Assets
  <2>2. \A p \in AssetProfiles :
          moved(p.admin) \in Roles /\ moved(p.authority) \in Roles /\ moved(p.operator) \in Roles
    BY DEF AssetProfiles, Roles
  <2> HIDE DEF moved, p0
  <2>3. p1 \in AssetProfiles
    BY <2>1, <2>2, WithRole
  <2> HIDE DEF p1
  <2>4. p2 \in AssetProfiles
    BY <2>3, <2>2, WithRole
  <2> HIDE DEF p2
  <2>5. p3 \in AssetProfiles
    BY <2>4, <2>2, WithRole
  <2>6. Migrated(assets[0], cur) = p3
    BY DEF Migrated, p0, p1, p2, p3, moved
  <2>. QED  BY <2>5, <2>6
<1>4. assets' \in [Assets -> AssetProfiles]
  BY <1>3 DEF AcceptMarketAuthority, LifeInv, LifeTypeOK, Assets
<1>5. /\ marketauth' = "controller" /\ marker' = marker /\ pending' = pending
      /\ stage' = stage /\ stage # "absent" /\ slab' = slab /\ next_id' = next_id
  BY DEF AcceptMarketAuthority
<1>. QED
  BY <1>1, <1>2, <1>4, <1>5
     DEF LifeInv, LifeTypeOK, RetiredStaysOut, PendingIsOurs, PendingNamesItsAsset

LEMMA CloseInv ==
  ASSUME LifeInv, CloseMarketAndReclaim \/ CloseDirectly
  PROVE  LifeInv'
<1>1. /\ marketauth' = "none" /\ stage' = "absent" /\ next_id' = 1
      /\ slab' = slab /\ pending' = pending
      /\ assets' = [a \in Assets |-> Unconfigured]
  BY DEF CloseMarketAndReclaim, CloseDirectly, SlabGone
<1>2. LifeTypeOK'
  BY <1>1, UnconfiguredType DEF LifeInv, LifeTypeOK
<1>3. pending # NoInstruction => marker'
  <2>1. CASE CloseMarketAndReclaim
    BY <2>1 DEF CloseMarketAndReclaim
  <2>2. CASE CloseDirectly
    BY <2>2, OutsidersAreOthers DEF CloseDirectly, LifeInv, PendingIsOurs
  <2>. QED  BY <2>1, <2>2
<1>. QED
  BY <1>1, <1>2, <1>3 DEF LifeInv, RetiredStaysOut, PendingIsOurs, PendingNamesItsAsset

----------------------------------------------------------------------------
(* Steps that leave the key and the pending instruction alone. *)

LEMMA QuietInv ==
  ASSUME LifeInv, assets' \in [Assets -> AssetProfiles], next_id' \in Nat,
         marketauth' = marketauth, marker' = marker, slab' = slab, pending' = pending,
         stage' = stage \/ (stage = "live" /\ stage' = "resolved")
  PROVE  LifeInv'
BY DEF LifeInv, LifeTypeOK, RetiredStaysOut, PendingIsOurs, PendingNamesItsAsset

LEMMA ActivateType ==
  ASSUME LifeInv, NEW a \in Assets, Activate(a)
  PROVE  assets' \in [Assets -> AssetProfiles] /\ next_id' \in Nat
<1>1. PICK insurer \in ActivationRoles, backer \in Outsiders :
        assets' = [assets EXCEPT ![a] = NewAsset(next_id, "controller", insurer, insurer, backer)]
  BY DEF Activate
<1>2. NewAsset(next_id, "controller", insurer, insurer, backer) \in AssetProfiles
  BY NewAssetType DEF ActivationRoles, Roles, LifeInv, LifeTypeOK
<1>3. next_id' \in Nat
  BY DEF Activate, LifeInv, LifeTypeOK
<1>. QED  BY <1>1, <1>2, <1>3 DEF LifeInv, LifeTypeOK

LEMMA RetireType ==
  ASSUME LifeInv, NEW a \in Assets, Retire(a)
  PROVE  assets' \in [Assets -> AssetProfiles] /\ next_id' \in Nat
<1>1. [Unconfigured EXCEPT !.status = "retired", !.id = assets[a].id] \in AssetProfiles
  BY UnconfiguredType DEF LifeInv, LifeTypeOK, AssetProfiles
<1>. QED  BY <1>1 DEF Retire, LifeInv, LifeTypeOK

LEMMA RestartedType ==
  ASSUME LifeInv, NEW a \in Assets, NEW admin, Restarted(a, admin)
  PROVE  assets' \in [Assets -> AssetProfiles] /\ next_id' \in Nat /\ stage' = stage
<1> DEFINE f == [assets EXCEPT ![a].status = "active"]
<1>1. assets \in [Assets -> AssetProfiles] /\ next_id \in Nat
  BY DEF LifeInv, LifeTypeOK
<1>2. f \in [Assets -> AssetProfiles]
  BY <1>1 DEF AssetProfiles
<1>3. assets' = [f EXCEPT ![a].id = next_id] /\ next_id' = next_id + 1 /\ stage' = stage
  BY DEF Restarted
<1> HIDE DEF f
<1>4. [f EXCEPT ![a].id = next_id] \in [Assets -> AssetProfiles]
  BY <1>1, <1>2 DEF AssetProfiles
<1>. QED  BY <1>1, <1>3, <1>4

\* What the proxy does keeps the profiles well formed and the key where it is.
LEMMA ProxyType ==
  ASSUME LifeInv, NEW kind, NEW a \in Assets, NEW wire, ProxyAdmin(kind, a, wire)
  PROVE  /\ assets' \in [Assets -> AssetProfiles] /\ next_id' \in Nat
         /\ marketauth' = marketauth /\ marker' = marker /\ slab' = slab
         /\ stage' = stage \/ (stage = "live" /\ stage' = "resolved")
<1>1. marketauth' = marketauth /\ marker' = marker /\ slab' = slab /\ stage = "live"
  BY DEF ProxyAdmin
<1>2. CASE kind = "resolve"
  BY <1>1, <1>2 DEF ProxyAdmin, Resolve, LifeInv, LifeTypeOK
<1>3. CASE kind # "resolve"
  <2>1. AssetInstruction(kind, a)
    BY <1>3 DEF ProxyAdmin
  <2>2. CASE Activate(a)
    BY <2>2, <1>1, ActivateType DEF Activate
  <2>3. CASE Retire(a)
    BY <2>3, <1>1, RetireType DEF Retire
  <2>4. CASE Shutdown(a)
    BY <2>4, <1>1 DEF Shutdown, LifeInv, LifeTypeOK, AssetProfiles
  <2>5. CASE Restart(a)
    BY <2>5, <1>1, RestartedType DEF Restart
  <2>6. CASE Configure(a)
    BY <2>6, <1>1 DEF Configure, LifeInv, LifeTypeOK
  <2>. QED  BY <2>1, <2>2, <2>3, <2>4, <2>5, <2>6 DEF AssetInstruction
<1>. QED  BY <1>2, <1>3

LEMMA GovernNowInv ==
  ASSUME LifeInv, NEW kind, NEW a \in Assets, GovernNow(kind, a)
  PROVE  LifeInv'
<1>1. ProxyAdmin(kind, a, assets[a].id) /\ pending' = pending
  BY DEF GovernNow
<1>. QED  BY <1>1, ProxyType, QuietInv

LEMMA ApproveInv ==
  ASSUME LifeInv, NEW kind \in Kinds, NEW a \in Assets, Approve(kind, a)
  PROVE  LifeInv'
<1>1. PICK wire \in {assets[a].id, NoWitness} :
        /\ IF kind = "resolve" THEN wire = NoWitness
           ELSE wire = assets[a].id \/ (a = 0 /\ assets[a].id = 1)
        /\ pending' = [kind |-> kind, asset |-> a, wire |-> wire,
                       slab |-> slab, id |-> assets[a].id]
  BY DEF Approve
<1>2. assets[a].id \in Nat /\ slab \in Nat
  BY DEF LifeInv, LifeTypeOK, AssetProfiles
<1>3. pending' \in Instructions
  BY <1>1, <1>2 DEF Instructions, NoWitness
<1>4. /\ marketauth = "controller" /\ marketauth' = marketauth /\ stage' = stage
      /\ marker' = marker /\ slab' = slab /\ assets' = assets /\ next_id' = next_id
  BY DEF Approve, role_vars, asset_vars
<1>5. LifeTypeOK'
  BY <1>3, <1>4 DEF LifeInv, LifeTypeOK
<1>6. RetiredStaysOut' /\ PendingIsOurs'
  BY <1>1, <1>4 DEF LifeInv, RetiredStaysOut, PendingIsOurs
<1>7. PendingNamesItsAsset'
  BY <1>1, <1>2 DEF PendingNamesItsAsset, NoWitness
<1>. QED  BY <1>5, <1>6, <1>7 DEF LifeInv

LEMMA ExecuteInv == LifeInv /\ ExecuteApproved => LifeInv'
<1> SUFFICES ASSUME LifeInv, ExecuteApproved PROVE LifeInv'
  OBVIOUS
<1>1. pending \in Instructions /\ pending' = NoInstruction
      /\ ProxyAdmin(pending.kind, pending.asset, pending.wire)
  BY DEF ExecuteApproved, LifeInv, LifeTypeOK
<1>2. pending.asset \in Assets
  BY <1>1 DEF Instructions
<1>3. /\ assets' \in [Assets -> AssetProfiles] /\ next_id' \in Nat
      /\ marketauth' = marketauth /\ marker' = marker /\ slab' = slab
      /\ stage' = stage \/ (stage = "live" /\ stage' = "resolved")
  BY <1>1, <1>2, ProxyType
<1>. QED
  BY <1>1, <1>3
     DEF LifeInv, LifeTypeOK, RetiredStaysOut, PendingIsOurs, PendingNamesItsAsset

----------------------------------------------------------------------------
(* Money and roles inside a slab. *)

LEMMA UsersInv == LifeInv /\ Users => LifeInv'
<1> SUFFICES ASSUME LifeInv, Users PROVE LifeInv'
  OBVIOUS
<1> USE DEF role_vars, asset_vars, trade_vars, money_vars
<1>t. assets \in [Assets -> AssetProfiles] /\ next_id \in Nat /\ 0 \in Assets /\ 1 \in Assets
  BY DEF LifeInv, LifeTypeOK, Assets
<1>1. ASSUME NEW k \in Outsiders, DonateInsurance(k) PROVE LifeInv'
  <2>1. assets' \in [Assets -> AssetProfiles]
    BY <1>1, <1>t DEF DonateInsurance, AssetProfiles
  <2>. QED  BY <1>1, <1>t, <2>1, QuietInv DEF DonateInsurance
<1>2. ASSUME NEW k \in Outsiders, SendToTransit(k) PROVE LifeInv'
  BY <1>2, <1>t, QuietInv DEF SendToTransit
<1>3. ASSUME NEW k \in Funders, NEW a \in Assets, Fund(k, a) PROVE LifeInv'
  <2>1. assets' \in [Assets -> AssetProfiles]
    BY <1>3, <1>t DEF Fund, AssetProfiles
  <2>. QED  BY <1>3, <1>t, <2>1, QuietInv DEF Fund
<1>4. ASSUME NEW k \in Funders, NEW a \in Assets, TakeInsurance(k, a) PROVE LifeInv'
  <2>1. assets' \in [Assets -> AssetProfiles]
    BY <1>4, <1>t DEF TakeInsurance, AssetProfiles
  <2>. QED  BY <1>4, <1>t, <2>1, QuietInv DEF TakeInsurance
<1>5. ASSUME NEW k \in Outsiders, InitMarketDirectly(k) PROVE LifeInv'
  BY <1>5, InitMarketDirectlyInv
<1>6. ASSUME NEW k \in Outsiders, AcceptMarketAuthority(k) PROVE LifeInv'
  BY <1>6, AcceptInv
<1>7. ASSUME NEW k \in Outsiders, AppendAsset(k) PROVE LifeInv'
  <2>1. NewAsset(next_id, k, k, k, k) \in AssetProfiles
    BY <1>t, NewAssetType DEF Roles
  <2>2. assets' \in [Assets -> AssetProfiles] /\ next_id' \in Nat
    BY <1>7, <1>t, <2>1 DEF AppendAsset
  <2>. QED  BY <1>7, <2>2, QuietInv DEF AppendAsset
<1>8. ASSUME NEW a \in Assets, OpenPosition(a) PROVE LifeInv'
  BY <1>8, <1>t, QuietInv DEF OpenPosition
<1>9. ASSUME NEW a \in Assets, PayFee(a) PROVE LifeInv'
  <2>1. assets' \in [Assets -> AssetProfiles]
    BY <1>9, <1>t DEF PayFee, AssetProfiles
  <2>. QED  BY <1>9, <1>t, <2>1, QuietInv DEF PayFee
<1>10. ASSUME NEW a \in Assets, ClosePosition(a) PROVE LifeInv'
  BY <1>10, <1>t, QuietInv DEF ClosePosition
<1>11. ASSUME RetireDirectly PROVE LifeInv'
  BY <1>11, <1>t, RetireType, QuietInv DEF RetireDirectly, Retire
<1>12. ASSUME CloseDirectly PROVE LifeInv'
  BY <1>12, CloseInv
<1>13. ASSUME ClosePortfolio PROVE LifeInv'
  BY <1>13, <1>t, QuietInv DEF ClosePortfolio
<1>. QED
  BY <1>1, <1>2, <1>3, <1>4, <1>5, <1>6, <1>7, <1>8, <1>9, <1>10, <1>11, <1>12, <1>13 DEF Users

LEMMA ReturnsInv == LifeInv /\ Returns => LifeInv'
<1> SUFFICES ASSUME LifeInv, Returns PROVE LifeInv'
  OBVIOUS
<1> USE DEF role_vars, trade_vars, ReturnUnchanged
<1>t. assets \in [Assets -> AssetProfiles] /\ next_id \in Nat /\ 0 \in Assets /\ 1 \in Assets
  BY DEF LifeInv, LifeTypeOK, Assets
<1>1. ASSUME NEW a \in Assets, NEW matured \in BOOLEAN, ReturnShutdownBacking(a, matured)
      PROVE LifeInv'
  <2>1. PICK principal \in 0..assets[a].backing, earnings \in 0..assets[a].earnings :
          assets' = [assets EXCEPT ![a].backing = @ - principal, ![a].earnings = @ - earnings]
    BY <1>1 DEF ReturnShutdownBacking
  <2>2. assets' \in [Assets -> AssetProfiles]
    <3> DEFINE f == [assets EXCEPT ![a].backing = @ - principal]
    <3>1. assets[a] \in AssetProfiles
      BY <1>t
    <3>2. assets[a].backing - principal \in Int
      BY <3>1 DEF AssetProfiles
    <3>3. [assets[a] EXCEPT !.backing = @ - principal] \in AssetProfiles
      BY <3>1, <3>2, WithBalance
    <3>4. f \in [Assets -> AssetProfiles]
      BY <1>t, <3>3
    <3>5. f[a].earnings - earnings \in Int
      BY <3>1, <3>4 DEF AssetProfiles
    <3>6. assets' = [f EXCEPT ![a].earnings = @ - earnings]
      BY <2>1
    <3> HIDE DEF f
    <3>7. [f[a] EXCEPT !.earnings = @ - earnings] \in AssetProfiles
      BY <3>4, <3>5, WithBalance
    <3>. QED  BY <3>4, <3>6, <3>7
  <2>. QED  BY <1>1, <1>t, <2>2, QuietInv DEF ReturnShutdownBacking
<1>2. ASSUME NEW a \in Assets, NEW matured \in BOOLEAN, ReturnShutdownInsurance(a, matured)
      PROVE LifeInv'
  <2>1. assets' \in [Assets -> AssetProfiles]
    BY <1>2, <1>t DEF ReturnShutdownInsurance, AssetProfiles
  <2>. QED  BY <1>2, <1>t, <2>1, QuietInv DEF ReturnShutdownInsurance
<1>3. ASSUME NEW a \in Assets, ReturnResolvedAssetInsurance(a) PROVE LifeInv'
  <2>1. assets' \in [Assets -> AssetProfiles]
    <3> DEFINE f == [assets EXCEPT ![a].insurance = 0]
    <3>1. f \in [Assets -> AssetProfiles]
      BY <1>t DEF AssetProfiles
    <3>2. assets' = [f EXCEPT ![a].authority = "controller"]
      BY <1>3 DEF ReturnResolvedAssetInsurance
    <3>3. "controller" \in Roles
      BY DEF Roles
    <3> HIDE DEF f
    <3>. QED  BY <3>1, <3>2, <3>3 DEF AssetProfiles
  <2>. QED  BY <1>3, <1>t, <2>1, QuietInv DEF ReturnResolvedAssetInsurance
<1>4. ASSUME NEW a \in Assets, BackingReturned(a) PROVE LifeInv'
  <2>1. assets' \in [Assets -> AssetProfiles]
    <3> DEFINE f == [assets EXCEPT ![a].backing = 0]
               g == [f EXCEPT ![a].earnings = 0]
    <3>1. f \in [Assets -> AssetProfiles]
      BY <1>t DEF AssetProfiles
    <3>2. assets' = [g EXCEPT ![a].backer = "controller"]
      BY <1>4 DEF BackingReturned
    <3>3. "controller" \in Roles
      BY DEF Roles
    <3> HIDE DEF f
    <3>4. g \in [Assets -> AssetProfiles]
      BY <3>1 DEF AssetProfiles
    <3> HIDE DEF g
    <3>. QED  BY <3>2, <3>3, <3>4 DEF AssetProfiles
  <2>. QED  BY <1>4, <1>t, <2>1, QuietInv DEF BackingReturned
<1>. QED
  BY <1>t, <1>1, <1>2, <1>3, <1>4
     DEF Returns, ReturnResolvedAssetBacking, ReturnResolvedAsset0Backing

LEMMA GovernanceInv == LifeInv /\ Governance => LifeInv'
<1> SUFFICES ASSUME LifeInv, Governance PROVE LifeInv'
  OBVIOUS
<1> USE DEF role_vars, trade_vars
<1>t. assets \in [Assets -> AssetProfiles] /\ next_id \in Nat /\ 0 \in Assets
  BY DEF LifeInv, LifeTypeOK, Assets
<1>1. ASSUME RestartAsset0 PROVE LifeInv'
  <2>1. assets' \in [Assets -> AssetProfiles] /\ next_id' \in Nat /\ stage' = stage
    BY <1>1, <1>t, RestartedType DEF RestartAsset0
  <2>. QED  BY <1>1, <2>1, QuietInv DEF RestartAsset0
<1>2. ASSUME GrantGenesisPool PROVE LifeInv'
  <2>1. assets' \in [Assets -> AssetProfiles]
    <3> DEFINE p0 == assets[0]
               p1 == [p0 EXCEPT !.authority = "custody"]
               p2 == [p1 EXCEPT !.operator = "custody"]
               p3 == [p2 EXCEPT !.admin = "custody"]
    <3>1. assets' = [assets EXCEPT ![0] = p3]
      BY <1>2 DEF GrantGenesisPool
    <3>2. p0 \in AssetProfiles /\ "custody" \in Roles
      BY <1>t DEF Roles
    <3> HIDE DEF p0
    <3>3. p1 \in AssetProfiles
      BY <3>2, WithRole
    <3> HIDE DEF p1
    <3>4. p2 \in AssetProfiles
      BY <3>2, <3>3, WithRole
    <3> HIDE DEF p2
    <3>5. p3 \in AssetProfiles
      BY <3>2, <3>4, WithRole
    <3> HIDE DEF p3
    <3>. QED  BY <1>t, <3>1, <3>5
  <2>. QED  BY <1>2, <1>t, <2>1, QuietInv DEF GrantGenesisPool
<1>. QED
  BY <1>1, <1>2, GovernNowInv, ApproveInv, CloseInv DEF Governance

LEMMA CranksInv == LifeInv /\ Cranks => LifeInv'
<1> SUFFICES ASSUME LifeInv, Cranks PROVE LifeInv'
  OBVIOUS
<1> USE DEF role_vars, asset_vars, trade_vars
<1>t. assets \in [Assets -> AssetProfiles] /\ next_id \in Nat
  BY DEF LifeInv, LifeTypeOK
<1>1. ASSUME CloseResolvedPortfolio PROVE LifeInv'
  BY <1>1, <1>t, QuietInv DEF CloseResolvedPortfolio
<1>2. ASSUME NEW matured \in BOOLEAN, PermissionlessResolve(matured) PROVE LifeInv'
  BY <1>2, <1>t, QuietInv DEF PermissionlessResolve, Resolve
<1>. QED  BY <1>1, <1>2, InitMarketInv, ExecuteInv DEF Cranks

LEMMA StepInv == LifeInv /\ [Next]_vars => LifeInv'
<1> SUFFICES ASSUME LifeInv, [Next]_vars PROVE LifeInv'
  OBVIOUS
<1>1. CASE UNCHANGED vars
  BY <1>1, QuietInv DEF vars, role_vars, asset_vars, trade_vars, money_vars, LifeInv, LifeTypeOK
<1>. QED  BY <1>1, UsersInv, ReturnsInv, GovernanceInv, CranksInv DEF Next

\* The market's key, its slabs and what is pending are in order in every state.
THEOREM LifeIsOrdered == Spec => []LifeInv
<1>1. Init => LifeInv
  BY InitInv
<1>2. LifeInv /\ [Next]_vars => LifeInv'
  BY StepInv
<1>. QED  BY <1>1, <1>2, PTL DEF Spec

\* Only executing it clears what is pending.
LEMMA OnlyExecutionClears ==
  ASSUME LifeInv, [Next]_vars, pending # NoInstruction, pending' = NoInstruction
  PROVE  ExecuteApproved
<1> USE DEF role_vars, asset_vars, trade_vars, money_vars
<1>1. ~UNCHANGED vars
  BY DEF vars
<1>2. ~Users
  BY DEF Users, DonateInsurance, SendToTransit, Fund, TakeInsurance, InitMarketDirectly,
         FreshSlab, AcceptMarketAuthority, AppendAsset, OpenPosition, PayFee, ClosePosition,
         RetireDirectly, CloseDirectly, SlabGone, ClosePortfolio
<1>3. ~Returns
  BY DEF Returns, ReturnShutdownBacking, ReturnShutdownInsurance, ReturnResolvedAssetInsurance,
         ReturnResolvedAssetBacking, ReturnResolvedAsset0Backing, BackingReturned, ReturnUnchanged
<1>4. ~Governance
  BY DEF Governance, GovernNow, Approve, RestartAsset0, GrantGenesisPool,
         CloseMarketAndReclaim, SlabGone
<1>5. CASE Cranks
  BY <1>5 DEF Cranks, InitMarket, FreshSlab, CloseResolvedPortfolio, PermissionlessResolve
<1>. QED  BY <1>1, <1>2, <1>3, <1>4, <1>5 DEF Next

\* An approved instruction that lands late acts on the slab, and on the generation
\* of the asset, that it was approved for.
THEOREM ApprovalsAreKept == Spec => ApprovalsMeetTheirAsset
<1>1. ASSUME LifeInv, [Next]_vars, pending # NoInstruction, pending' = NoInstruction
      PROVE  /\ pending.slab = slab
             /\ pending.kind # "resolve" => pending.id = assets[pending.asset].id
  <2>1. ExecuteApproved
    BY <1>1, OnlyExecutionClears
  <2>2. pending \in Instructions /\ marketauth = "controller"
        /\ ProxyAdmin(pending.kind, pending.asset, pending.wire)
    BY <1>1, <2>1 DEF ExecuteApproved, ProxyAdmin, LifeInv, LifeTypeOK
  <2>3. pending.slab = slab
    BY <1>1, <2>2 DEF LifeInv, RetiredStaysOut, PendingIsOurs
  <2>4. ASSUME pending.kind # "resolve" PROVE pending.id = assets[pending.asset].id
    <3>1. WitnessAccepted(pending.asset, pending.wire)
      BY <2>2, <2>4 DEF ProxyAdmin
    <3>2. assets[pending.asset].id \in Nat /\ pending.id \in Nat
      BY <1>1, <2>2 DEF LifeInv, LifeTypeOK, Instructions, AssetProfiles
    <3>3. \/ pending.wire = pending.id
          \/ pending.wire = NoWitness /\ pending.asset = 0 /\ pending.id = 1
      BY <1>1, <2>4 DEF LifeInv, PendingNamesItsAsset
    <3>. QED  BY <3>1, <3>2, <3>3 DEF WitnessAccepted, NoWitness
  <2>. QED  BY <2>3, <2>4
<1>2. LifeInv /\ [Next]_vars =>
        [pending # NoInstruction /\ pending' = NoInstruction =>
           /\ pending.slab = slab
           /\ pending.kind # "resolve" => pending.id = assets[pending.asset].id]_vars
  BY <1>1
<1>. QED  BY <1>2, LifeIsOrdered, PTL DEF Spec, ApprovalsMeetTheirAsset

----------------------------------------------------------------------------
(* Whose insurance a market of the controller can hold. *)

Settled(p) == p.status \in {"unconfigured", "retired"}

\* The operator is one that a donation left beside the controller.
Survived(a, p) == a = 0 /\ p.authority = "controller" /\ p.operator \in kept

\* Of a market made by or donated to the controller, the roles that the property names;
\* and of any live one, that whoever can withdraw insurance is its provider.
Constrained(a, p) ==
  ~Settled(p) =>
    /\ slab > 0 =>
         /\ p.authority \in {"controller", "custody"} /\ p.admin \in {"controller", "custody"}
         /\ p.operator \in {"controller", "custody"} \/ Survived(a, p)
    /\ stage = "live" => p.operator = p.authority \/ Survived(a, p)

\* The invariant is inductive only with the fee: while strangers can append assets
\* the controller does not hold the market.
ConstrainedInv ==
  marketauth = "controller" =>
    /\ init_fee = FALSE
    /\ \A a \in Assets : Constrained(a, assets[a])

LEMMA ConstrainedIsEnough == ConstrainedInv => InsuranceStaysConstrained
BY DEF ConstrainedInv, InsuranceStaysConstrained, Constrained, Settled, Survived

LEMMA InitConstrained == Init => ConstrainedInv
<1> SUFFICES ASSUME Init PROVE ConstrainedInv
  OBVIOUS
<1>1. CASE stage = "absent" /\ marketauth = "none"
  BY <1>1 DEF ConstrainedInv
<1>2. ASSUME NEW k \in Outsiders,
             assets = [a \in Assets |->
               IF a = 0 THEN NewAsset(1, "controller", "controller", "controller", k)
               ELSE NewAsset(2, "controller", k, k, k)]
      PROVE  ConstrainedInv
  <2>1. \A a \in Assets : assets[a].operator = assets[a].authority
    BY <1>2 DEF NewAsset
  <2>2. init_fee = FALSE /\ slab = 0
    BY DEF Init, StartOf
  <2>. QED  BY <2>1, <2>2 DEF ConstrainedInv, Constrained
<1>. QED  BY <1>1, <1>2 DEF Init, StartOf

\* A step within a slab has to leave every asset with the roles it had, retired,
\* or with roles of the controller and its programs.
LEMMA RolesKept ==
  ASSUME ConstrainedInv, marketauth' = marketauth, init_fee' = init_fee, slab' = slab,
         kept' = kept, stage' = "live" => stage = "live",
         \A a \in Assets : Constrained(a, assets[a]) => Constrained(a, assets'[a])
  PROVE  ConstrainedInv'
BY DEF ConstrainedInv, Constrained, Survived, Settled

\* Replacing one profile is such a step when the new one is constrained.
LEMMA OneProfile ==
  ASSUME LifeInv, NEW a \in Assets, NEW p, assets' = [assets EXCEPT ![a] = p],
         Constrained(a, assets[a]) => Constrained(a, p)
  PROVE  \A b \in Assets : Constrained(b, assets[b]) => Constrained(b, assets'[b])
<1>1. assets \in [Assets -> AssetProfiles]
  BY DEF LifeInv, LifeTypeOK
<1>2. assets'[a] = p /\ \A b \in Assets : b # a => assets'[b] = assets[b]
  BY <1>1
<1>. QED  BY <1>2

LEMMA FreshConstrained ==
  ASSUME NEW auth, NEW fee, NEW a0, NEW a1, NEW id,
         FreshSlab(auth, fee, a0, a1, id), auth = "controller" => fee = FALSE,
         \A p \in {a0, a1} :
           Settled(p) \/ {p.authority, p.admin, p.operator} = {"controller"}
  PROVE  ConstrainedInv'
<1>1. assets'[0] = a0 /\ assets'[1] = a1 /\ marketauth' = auth /\ init_fee' = fee
  BY DEF FreshSlab, Assets
<1>2. \A p \in {a0, a1} :
        Settled(p) \/ (p.authority = "controller" /\ p.admin = "controller"
                       /\ p.operator = "controller")
  OBVIOUS
<1>. QED  BY <1>1, <1>2 DEF ConstrainedInv, Constrained, Settled, Assets

LEMMA CreationConstrained ==
  ASSUME InitMarket \/ \E cur \in Outsiders : InitMarketDirectly(cur)
  PROVE  ConstrainedInv'
<1>1. CASE InitMarket
  <2> DEFINE mine == NewAsset(1, "controller", "controller", "controller", "controller")
  <2>1. /\ {mine.authority, mine.admin, mine.operator} = {"controller"}
        /\ Settled(Unconfigured)
    BY DEF Settled, NewAsset, Unconfigured
  <2>2. FreshSlab("controller", FALSE, mine, Unconfigured, 2)
    BY <1>1 DEF InitMarket
  <2> HIDE DEF mine
  <2>. QED  BY <2>1, <2>2, FreshConstrained
<1>2. ASSUME NEW cur \in Outsiders, InitMarketDirectly(cur)
      PROVE  ConstrainedInv'
  <2>1. marketauth' = cur
    BY <1>2 DEF InitMarketDirectly, FreshSlab
  <2>. QED  BY <2>1, OutsidersAreOthers DEF ConstrainedInv
<1>. QED  BY <1>1, <1>2

\* The donation checks what it does not move.
LEMMA DonationConstrained ==
  ASSUME LifeInv, NEW cur \in Outsiders, AcceptMarketAuthority(cur)
  PROVE  ConstrainedInv'
<1>1. assets \in [Assets -> AssetProfiles] /\ 0 \in Assets /\ 1 \in Assets
  BY DEF LifeInv, LifeTypeOK, Assets
<1>2. assets' = [assets EXCEPT ![0] = Migrated(assets[0], cur)] /\ init_fee' = FALSE
  BY DEF AcceptMarketAuthority, SecondariesSettled
<1> DEFINE a0 == assets[0]
           m == Migrated(a0, cur)
<1>3. /\ m.admin \in {"controller", "custody"} /\ m.authority \in {"controller", "custody"}
      /\ m.operator = m.authority \/ (m.authority = "controller" /\ m.operator \in kept')
  <2>1. a0 \in AssetProfiles /\ InsuranceMayMove(a0, cur) /\ kept' = kept \cup Survivors(a0, cur)
    BY <1>1 DEF AcceptMarketAuthority
  <2> HIDE DEF a0
  <2>2. /\ a0.admin \in {cur, "controller"} => a0.authority \in {cur, "controller"}
        /\ a0.admin \notin {cur, "controller"} => a0.admin = "custody" /\ a0.authority = "custody"
        /\ a0.authority # cur => a0.operator = a0.authority
    BY <2>1 DEF InsuranceMayMove
  <2>3. /\ m.admin = IF a0.admin = cur THEN "controller" ELSE a0.admin
        /\ m.authority = IF a0.authority = cur THEN "controller" ELSE a0.authority
        /\ m.operator = IF a0.operator = cur THEN "controller" ELSE a0.operator
    BY <2>1 DEF Migrated, AssetProfiles
  <2>4. m.admin \in {"controller", "custody"} /\ m.authority \in {"controller", "custody"}
    BY <2>2, <2>3
  <2>5. CASE a0.authority # cur
    BY <2>2, <2>3, <2>5
  <2>6. CASE a0.authority = cur
    <3>1. a0.operator \notin {cur, "controller"} => a0.operator \in kept'
      BY <2>1, <2>6 DEF Survivors
    <3>. QED  BY <2>3, <2>4, <2>6, <3>1
  <2>. QED  BY <2>4, <2>5, <2>6
<1>4. assets'[1] = assets[1] /\ Settled(assets[1])
  BY <1>1, <1>2 DEF AcceptMarketAuthority, SecondariesSettled, AllSecondaryAssetsRetired, Settled
<1>5. assets'[0] = m
  BY <1>1, <1>2
<1> HIDE DEF m
<1>6. (Constrained(0, assets[0]))' /\ (Constrained(1, assets[1]))'
  BY <1>3, <1>4, <1>5 DEF Constrained, Survived, Settled
<1>. QED  BY <1>2, <1>6 DEF ConstrainedInv, Constrained, Survived, Settled, Assets

\* A restart keeps the roles of an asset that is not retired.
LEMMA RestartedRoles ==
  ASSUME LifeInv, NEW a \in Assets, NEW admin, Restarted(a, admin)
  PROVE  \A b \in Assets : Constrained(b, assets[b]) => Constrained(b, assets'[b])
<1>1. assets \in [Assets -> AssetProfiles]
  BY DEF LifeInv, LifeTypeOK
<1> DEFINE f == [assets EXCEPT ![a].status = "active"]
<1>2. f \in [Assets -> AssetProfiles]
  BY <1>1 DEF AssetProfiles
<1>3. \A b \in Assets : Constrained(b, assets[b]) => Constrained(b, f[b])
  BY <1>1 DEF AssetProfiles, Settled, Restarted, Constrained, Survived
<1>4. assets' = [f EXCEPT ![a].id = next_id]
  BY DEF Restarted
<1> HIDE DEF f
<1>5. \A b \in Assets : Constrained(b, f[b]) => Constrained(b, assets'[b])
  BY <1>2, <1>4 DEF AssetProfiles, Settled, Constrained, Survived
<1>. QED  BY <1>3, <1>5

LEMMA ProxyConstrained ==
  ASSUME LifeInv, ConstrainedInv, NEW kind, NEW a \in Assets, NEW wire, ProxyAdmin(kind, a, wire)
  PROVE  ConstrainedInv'
<1>t. assets \in [Assets -> AssetProfiles] /\ assets[a] \in AssetProfiles
  BY DEF LifeInv, LifeTypeOK
<1>1. /\ marketauth' = marketauth /\ init_fee' = init_fee /\ slab' = slab /\ kept' = kept
      /\ stage = "live"
  BY DEF ProxyAdmin
<1>2. CASE assets' = assets
  BY <1>1, <1>2, RolesKept
<1>3. CASE Activate(a)
  <2>1. PICK backer \in Outsiders :
          assets' = [assets EXCEPT ![a] =
                       NewAsset(next_id, "controller", "controller", "controller", backer)]
    BY <1>3 DEF Activate, ActivationRoles
  <2>2. Constrained(a, NewAsset(next_id, "controller", "controller", "controller", backer))
    BY DEF Constrained, NewAsset
  <2>. QED  BY <1>1, <2>1, <2>2, OneProfile, RolesKept
<1>4. CASE Retire(a)
  <2>1. assets' = [assets EXCEPT ![a] =
                     [Unconfigured EXCEPT !.status = "retired", !.id = assets[a].id]]
    BY <1>4 DEF Retire
  <2>2. Constrained(a, [Unconfigured EXCEPT !.status = "retired", !.id = assets[a].id])
    BY DEF Constrained, Settled, Unconfigured
  <2>. QED  BY <1>1, <2>1, <2>2, OneProfile, RolesKept
<1>5. CASE Shutdown(a)
  <2>1. \A b \in Assets : Constrained(b, assets[b]) => Constrained(b, assets'[b])
    BY <1>5, <1>t DEF Shutdown, Constrained, Survived, Settled, AssetProfiles
  <2>. QED  BY <1>1, <2>1, RolesKept
<1>6. CASE Restart(a)
  <2>1. \A b \in Assets : Constrained(b, assets[b]) => Constrained(b, assets'[b])
    BY <1>6, <1>t, RestartedRoles DEF Restart
  <2>. QED  BY <1>1, <2>1, RolesKept
<1>7. kind # "resolve" => AssetInstruction(kind, a)
  BY DEF ProxyAdmin
<1>8. kind = "resolve" => assets' = assets
  BY DEF ProxyAdmin, Resolve
<1>. QED
  BY <1>2, <1>3, <1>4, <1>5, <1>6, <1>7, <1>8 DEF AssetInstruction, Configure

LEMMA UsersConstrained == LifeInv /\ ConstrainedInv /\ Users => ConstrainedInv'
<1> SUFFICES ASSUME LifeInv, ConstrainedInv, Users PROVE ConstrainedInv'
  OBVIOUS
<1> USE DEF role_vars, asset_vars
<1>t. assets \in [Assets -> AssetProfiles] /\ 0 \in Assets /\ 1 \in Assets
  BY DEF LifeInv, LifeTypeOK, Assets
<1>1. ASSUME assets' = assets, UNCHANGED role_vars PROVE ConstrainedInv'
  BY <1>1, RolesKept
<1>2. ASSUME NEW k \in Outsiders, DonateInsurance(k) PROVE ConstrainedInv'
  <2>1. \A a \in Assets : Constrained(a, assets[a]) => Constrained(a, assets'[a])
    BY <1>2, <1>t DEF DonateInsurance, Constrained, Survived, Settled, AssetProfiles
  <2>. QED  BY <1>2, <2>1, RolesKept DEF DonateInsurance
<1>3. ASSUME NEW k \in Funders, NEW b \in Assets, Fund(k, b) PROVE ConstrainedInv'
  <2>1. \A a \in Assets : Constrained(a, assets[a]) => Constrained(a, assets'[a])
    BY <1>3, <1>t DEF Fund, Constrained, Survived, Settled, AssetProfiles
  <2>. QED  BY <1>3, <2>1, RolesKept DEF Fund
<1>4. ASSUME NEW k \in Funders, NEW b \in Assets, TakeInsurance(k, b) PROVE ConstrainedInv'
  <2>1. \A a \in Assets : Constrained(a, assets[a]) => Constrained(a, assets'[a])
    BY <1>4, <1>t DEF TakeInsurance, Constrained, Survived, Settled, AssetProfiles
  <2>. QED  BY <1>4, <2>1, RolesKept DEF TakeInsurance
<1>5. ASSUME NEW k \in Outsiders, AppendAsset(k) PROVE ConstrainedInv'
  <2>1. marketauth' = marketauth /\ init_fee
    BY <1>5 DEF AppendAsset
  <2>. QED  BY <2>1 DEF ConstrainedInv
<1>6. ASSUME NEW b \in Assets, PayFee(b) PROVE ConstrainedInv'
  <2>1. \A a \in Assets : Constrained(a, assets[a]) => Constrained(a, assets'[a])
    BY <1>6, <1>t DEF PayFee, Constrained, Survived, Settled, AssetProfiles
  <2>. QED  BY <1>6, <2>1, RolesKept DEF PayFee
<1>7. ASSUME RetireDirectly PROVE ConstrainedInv'
  <2>1. marketauth' = marketauth /\ init_fee' = init_fee /\ slab' = slab /\ kept' = kept
        /\ stage = "live" /\ assets' = [assets EXCEPT ![1] =
                        [Unconfigured EXCEPT !.status = "retired", !.id = assets[1].id]]
    BY <1>7 DEF RetireDirectly, Retire
  <2>2. Constrained(1, [Unconfigured EXCEPT !.status = "retired", !.id = assets[1].id])
    BY DEF Constrained, Settled, Unconfigured
  <2>. QED  BY <1>t, <2>1, <2>2, OneProfile, RolesKept
<1>8. ASSUME CloseDirectly PROVE ConstrainedInv'
  BY <1>8 DEF CloseDirectly, SlabGone, ConstrainedInv
<1>9. ASSUME NEW k \in Outsiders, SendToTransit(k) PROVE ConstrainedInv'
  BY <1>9, <1>1 DEF SendToTransit
<1>10. ASSUME NEW b \in Assets, OpenPosition(b) \/ ClosePosition(b) PROVE ConstrainedInv'
  BY <1>10, <1>1 DEF OpenPosition, ClosePosition
<1>11. ASSUME ClosePortfolio PROVE ConstrainedInv'
  BY <1>11, <1>1 DEF ClosePortfolio
<1>. QED
  BY <1>2, <1>3, <1>4, <1>5, <1>6, <1>7, <1>8, <1>9, <1>10, <1>11,
     CreationConstrained, DonationConstrained DEF Users

LEMMA ReturnsConstrained == LifeInv /\ ConstrainedInv /\ Returns => ConstrainedInv'
<1> SUFFICES ASSUME LifeInv, ConstrainedInv, Returns PROVE ConstrainedInv'
  OBVIOUS
<1> USE DEF role_vars, ReturnUnchanged
<1>t. assets \in [Assets -> AssetProfiles]
  BY DEF LifeInv, LifeTypeOK
<1>1. ASSUME NEW b \in Assets, NEW matured \in BOOLEAN, ReturnShutdownBacking(b, matured)
      PROVE  ConstrainedInv'
  <2>1. PICK principal, earnings :
          assets' = [assets EXCEPT ![b].backing = @ - principal, ![b].earnings = @ - earnings]
    BY <1>1 DEF ReturnShutdownBacking
  <2>2. \A a \in Assets : Constrained(a, assets[a]) => Constrained(a, assets'[a])
    BY <1>t, <2>1 DEF Constrained, Survived, Settled, AssetProfiles
  <2>. QED  BY <1>1, <2>2, RolesKept DEF ReturnShutdownBacking
<1>2. ASSUME NEW b \in Assets, NEW matured \in BOOLEAN, ReturnShutdownInsurance(b, matured)
      PROVE  ConstrainedInv'
  <2>1. \A a \in Assets : Constrained(a, assets[a]) => Constrained(a, assets'[a])
    BY <1>2, <1>t DEF ReturnShutdownInsurance, Constrained, Survived, Settled, AssetProfiles
  <2>. QED  BY <1>2, <2>1, RolesKept DEF ReturnShutdownInsurance
<1>3. ASSUME NEW b \in Assets, ReturnResolvedAssetInsurance(b) PROVE ConstrainedInv'
  <2>1. \A a \in Assets : Constrained(a, assets[a]) => Constrained(a, assets'[a])
    BY <1>3, <1>t DEF ReturnResolvedAssetInsurance, InsuranceReturnable,
                      ResolvedAndEmpty, Constrained, Survived, Settled, AssetProfiles
  <2>. QED  BY <1>3, <2>1, RolesKept DEF ReturnResolvedAssetInsurance
<1>4. ASSUME NEW b \in Assets, BackingReturned(b) PROVE ConstrainedInv'
  <2>1. \A a \in Assets : Constrained(a, assets[a]) => Constrained(a, assets'[a])
    BY <1>4, <1>t DEF BackingReturned, Constrained, Survived, Settled, AssetProfiles
  <2>. QED  BY <1>4, <2>1, RolesKept DEF BackingReturned
<1>. QED
  BY <1>1, <1>2, <1>3, <1>4
     DEF Returns, ReturnResolvedAssetBacking, ReturnResolvedAsset0Backing, Assets

LEMMA GovernanceConstrained == LifeInv /\ ConstrainedInv /\ Governance => ConstrainedInv'
<1> SUFFICES ASSUME LifeInv, ConstrainedInv, Governance PROVE ConstrainedInv'
  OBVIOUS
<1> USE DEF role_vars, asset_vars
<1>t. assets \in [Assets -> AssetProfiles] /\ 0 \in Assets
  BY DEF LifeInv, LifeTypeOK, Assets
<1>1. ASSUME NEW kind, NEW a \in Assets, GovernNow(kind, a) PROVE ConstrainedInv'
  BY <1>1, ProxyConstrained DEF GovernNow
<1>2. ASSUME NEW kind, NEW a \in Assets, Approve(kind, a) PROVE ConstrainedInv'
  BY <1>2, RolesKept DEF Approve
<1>3. CASE RestartAsset0
  <2>1. \A b \in Assets : Constrained(b, assets[b]) => Constrained(b, assets'[b])
    BY <1>3, <1>t, RestartedRoles DEF RestartAsset0
  <2>. QED  BY <1>3, <2>1, RolesKept DEF RestartAsset0
<1>4. CASE GrantGenesisPool
  <2>1. \A b \in Assets : Constrained(b, assets[b]) => Constrained(b, assets'[b])
    BY <1>4, <1>t DEF GrantGenesisPool, Constrained, Survived, Settled, AssetProfiles
  <2>. QED  BY <1>4, <2>1, RolesKept DEF GrantGenesisPool
<1>5. CASE CloseMarketAndReclaim
  BY <1>5 DEF CloseMarketAndReclaim, SlabGone, ConstrainedInv
<1>. QED  BY <1>1, <1>2, <1>3, <1>4, <1>5 DEF Governance

LEMMA CranksConstrained == LifeInv /\ ConstrainedInv /\ Cranks => ConstrainedInv'
<1> SUFFICES ASSUME LifeInv, ConstrainedInv, Cranks PROVE ConstrainedInv'
  OBVIOUS
<1>1. CASE ExecuteApproved
  <2>1. pending.asset \in Assets /\ ProxyAdmin(pending.kind, pending.asset, pending.wire)
    BY <1>1 DEF ExecuteApproved, LifeInv, LifeTypeOK, Instructions
  <2>. QED  BY <2>1, ProxyConstrained
<1>2. CASE CloseResolvedPortfolio
  BY <1>2, RolesKept DEF CloseResolvedPortfolio, role_vars, asset_vars
<1>3. ASSUME NEW matured \in BOOLEAN, PermissionlessResolve(matured) PROVE ConstrainedInv'
  BY <1>3, RolesKept DEF PermissionlessResolve, Resolve
<1>. QED  BY <1>1, <1>2, <1>3, CreationConstrained DEF Cranks

LEMMA RolesAreConstrained == Spec => []ConstrainedInv
<1>1. LifeInv /\ ConstrainedInv /\ [Next]_vars => ConstrainedInv'
  <2>1. ASSUME UNCHANGED vars, ConstrainedInv PROVE ConstrainedInv'
    BY <2>1, RolesKept DEF vars, role_vars, asset_vars
  <2>. QED
    BY <2>1, UsersConstrained, ReturnsConstrained, GovernanceConstrained, CranksConstrained
       DEF Next
<1>. QED  BY <1>1, InitConstrained, LifeIsOrdered, PTL DEF Spec

\* The provider and the admin of an asset of this controller's markets are the
\* controller or the programs that can give the money back, whatever was donated,
\* activated, restarted, granted or returned.  So is the operator, with one exception
\* that the donation makes: the operator it finds beside the outgoing key on asset 0
\* stays, and can withdraw what the controller is the provider of.
THEOREM InsuranceIsConstrained == Spec => []InsuranceStaysConstrained
BY RolesAreConstrained, ConstrainedIsEnough, PTL

----------------------------------------------------------------------------
(* The books of everybody who has money in or around the market. *)

\* What a profile keeps for k: HeldIn reads it off the profile of the asset.
PartOf(p, k) ==
  (IF OwnerOf(p.authority) = k THEN p.insurance ELSE 0)
  + (IF OwnerOf(p.backer) = k THEN p.backing + p.earnings ELSE 0)

\* An asset that is not there has no roles and no money.
Quiet(p) ==
  Settled(p) =>
    /\ p.authority = "none" /\ p.admin = "none"
    /\ p.insurance = 0 /\ p.backing = 0 /\ p.earnings = 0

\* What an owner is due: what it put in, earned and was given, and what it took as an
\* operator of insurance that is not its own.
due == [k \in Owners |-> entitled[k] + skimmed[k]]

MoneyTypeOK ==
  wallet \in [Owners -> Int] /\ due \in [Owners -> Int] /\ transit \in Int

Balanced == \A k \in Owners : wallet[k] + Held(k) = due[k]

BooksInv ==
  /\ MoneyTypeOK
  /\ \A a \in Assets : Quiet(assets[a])
  /\ stage = "absent" => \A a \in Assets : Settled(assets[a])
  /\ Balanced

LEMMA HeldByParts ==
  /\ \A k : Held(k) = PartOf(assets[0], k) + PartOf(assets[1], k)
                      + (IF k = "governance" THEN transit ELSE 0)
  /\ \A k : Held(k)' = PartOf(assets'[0], k) + PartOf(assets'[1], k)
                       + (IF k = "governance" THEN transit' ELSE 0)
BY DEF Held, HeldIn, PartOf

LEMMA PartType ==
  ASSUME NEW p \in AssetProfiles, NEW k
  PROVE  PartOf(p, k) \in Int
BY DEF AssetProfiles, PartOf

LEMMA Credited ==
  ASSUME NEW f \in [Owners -> Int], NEW k, NEW n \in Int
  PROVE  /\ Credit(f, k, n) \in [Owners -> Int]
         /\ \A j \in Owners : Credit(f, k, n)[j] = f[j] + (IF j = k THEN n ELSE 0)
<1>1. CASE k \in Owners
  <2>1. Credit(f, k, n) = [f EXCEPT ![k] = f[k] + n] /\ f[k] + n \in Int
    BY <1>1 DEF Credit
  <2>. QED  BY <1>1, <2>1
<1>2. CASE k \notin Owners
  <2>1. Credit(f, k, n) = f
    BY <1>2 DEF Credit
  <2>. QED  BY <1>2, <2>1
<1>. QED  BY <1>1, <1>2

LEMMA Given ==
  ASSUME NEW f \in [Owners -> Int], NEW from, NEW to, NEW n \in Int
  PROVE  /\ Moved(f, from, to, n) \in [Owners -> Int]
         /\ \A j \in Owners :
              Moved(f, from, to, n)[j] = f[j] - (IF j = from THEN n ELSE 0)
                                         + (IF j = to THEN n ELSE 0)
<1> DEFINE g == Credit(f, from, 0 - n)
<1>1. /\ g \in [Owners -> Int]
      /\ \A j \in Owners : g[j] = f[j] + (IF j = from THEN 0 - n ELSE 0)
  BY Credited
<1>2. Moved(f, from, to, n) = Credit(g, to, n)
  BY DEF Moved
<1> HIDE DEF g
<1>3. /\ Credit(g, to, n) \in [Owners -> Int]
      /\ \A j \in Owners : Credit(g, to, n)[j] = g[j] + (IF j = to THEN n ELSE 0)
  BY <1>1, Credited
<1>. QED  BY <1>1, <1>2, <1>3

\* The two histories, and who an operator can have taken insurance from.
HistoryInv ==
  /\ entitled \in [Owners -> Int] /\ skimmed \in [Owners -> Int]
  /\ \A k \in Owners : /\ skimmed[k] > 0 => k \in kept
                       /\ skimmed[k] < 0 => k = "governance"

LEMMA DueKept ==
  entitled' = entitled /\ skimmed' = skimmed => due' = due
BY DEF due

LEMMA DueMoved ==
  ASSUME HistoryInv, NEW from, NEW to, NEW n \in Int,
         \/ entitled' = Gives(from, to, n) /\ skimmed' = skimmed
         \/ entitled' = entitled /\ skimmed' = Moved(skimmed, from, to, n)
  PROVE  due' = Moved(due, from, to, n)
<1>1. entitled \in [Owners -> Int] /\ skimmed \in [Owners -> Int]
  BY DEF HistoryInv
<1>2. due \in [Owners -> Int] /\ \A j \in Owners : due[j] = entitled[j] + skimmed[j]
  BY <1>1 DEF due
<1>3. /\ Moved(due, from, to, n) \in [Owners -> Int]
      /\ \A j \in Owners : Moved(due, from, to, n)[j]
           = due[j] - (IF j = from THEN n ELSE 0) + (IF j = to THEN n ELSE 0)
  BY <1>2, Given
<1>4. due' = [j \in Owners |-> entitled'[j] + skimmed'[j]]
  BY DEF due
<1>5. ASSUME NEW j \in Owners
      PROVE  entitled'[j] + skimmed'[j] = Moved(due, from, to, n)[j]
  <2>1. entitled[j] \in Int /\ skimmed[j] \in Int /\ due[j] = entitled[j] + skimmed[j]
    BY <1>1, <1>2
  <2>2. CASE entitled' = Gives(from, to, n) /\ skimmed' = skimmed
    <3>1. entitled'[j] = entitled[j] - (IF j = from THEN n ELSE 0) + (IF j = to THEN n ELSE 0)
      BY <1>1, <2>2, Given DEF Gives
    <3>. QED  BY <1>3, <2>1, <2>2, <3>1
  <2>3. CASE entitled' = entitled /\ skimmed' = Moved(skimmed, from, to, n)
    <3>1. skimmed'[j] = skimmed[j] - (IF j = from THEN n ELSE 0) + (IF j = to THEN n ELSE 0)
      BY <1>1, <2>3, Given
    <3>. QED  BY <1>3, <2>1, <2>3, <3>1
  <2>. QED  BY <2>2, <2>3
<1>. QED  BY <1>3, <1>4, <1>5

\* A step that replaces one profile balances when its parts do.
LEMMA OneBalanced ==
  ASSUME LifeInv, BooksInv, NEW a \in Assets, NEW p \in AssetProfiles,
         assets' = [assets EXCEPT ![a] = p], Quiet(p), transit' = transit,
         stage # "absent", stage' # "absent",
         wallet' \in [Owners -> Int], due' \in [Owners -> Int],
         \A k \in Owners :
           wallet'[k] - due'[k] + PartOf(p, k)
             = wallet[k] - due[k] + PartOf(assets[a], k)
  PROVE  BooksInv'
<1>t. assets \in [Assets -> AssetProfiles] /\ 0 \in Assets /\ 1 \in Assets
      /\ (a = 0 \/ a = 1) /\ MoneyTypeOK
  BY DEF LifeInv, LifeTypeOK, Assets, BooksInv
<1>1. MoneyTypeOK'
  BY <1>t DEF MoneyTypeOK
<1>2. (\A b \in Assets : Quiet(assets[b]))'
  BY <1>t DEF BooksInv, Quiet, Settled
<1>3. ASSUME NEW k \in Owners
      PROVE  wallet'[k] + Held(k)' = due'[k]
  <2>1. /\ PartOf(assets[0], k) \in Int /\ PartOf(assets[1], k) \in Int /\ PartOf(p, k) \in Int
        /\ wallet[k] \in Int /\ due[k] \in Int /\ transit \in Int
        /\ wallet'[k] \in Int /\ due'[k] \in Int
    BY <1>t, PartType DEF MoneyTypeOK
  <2>2. wallet[k] + Held(k) = due[k]
    BY DEF BooksInv, Balanced
  <2> DEFINE g == IF k = "governance" THEN transit ELSE 0
             one == PartOf(assets[0], k)
             two == PartOf(assets[1], k)
             new == PartOf(p, k)
             w == wallet[k]
             e == due[k]
             w1 == wallet'[k]
             e1 == due'[k]
  <2>3. g \in Int /\ Held(k) = one + two + g
    BY <2>1, HeldByParts
  <2>4. Held(k)' = PartOf(assets'[0], k) + PartOf(assets'[1], k) + g
    BY HeldByParts
  <2>5. /\ one \in Int /\ two \in Int /\ new \in Int
        /\ w \in Int /\ e \in Int /\ w1 \in Int /\ e1 \in Int
    BY <2>1
  <2>6. w1 - e1 + new = w - e + PartOf(assets[a], k)
    OBVIOUS
  <2>7. CASE a = 0
    <3>1. PartOf(assets'[0], k) = new /\ PartOf(assets'[1], k) = two /\ PartOf(assets[a], k) = one
      BY <1>t, <2>7
    <3>2. w1 - e1 + new = w - e + one
      BY <2>6, <3>1
    <3>3. w + (one + two + g) = e
      BY <2>2, <2>3
    <3> HIDE DEF g, one, two, new, w, e, w1, e1
    <3>4. w1 + (new + two + g) = e1
      BY <2>3, <2>5, <3>2, <3>3
    <3>5. Held(k)' = new + two + g
      BY <2>4, <3>1, Zenon
    <3>. QED  BY <3>4, <3>5 DEF w1, e1
  <2>8. CASE a = 1
    <3>1. PartOf(assets'[1], k) = new /\ PartOf(assets'[0], k) = one /\ PartOf(assets[a], k) = two
      BY <1>t, <2>8
    <3>2. w1 - e1 + new = w - e + two
      BY <2>6, <3>1
    <3>3. w + (one + two + g) = e
      BY <2>2, <2>3
    <3> HIDE DEF g, one, two, new, w, e, w1, e1
    <3>4. w1 + (new + one + g) = e1
      BY <2>3, <2>5, <3>2, <3>3
    <3>5. Held(k)' = new + one + g
      <4>1. Held(k)' = one + new + g
        BY <2>4, <3>1, Zenon
      <4>. QED  BY <2>3, <2>5, <4>1
    <3>. QED  BY <3>4, <3>5 DEF w1, e1
  <2>. QED  BY <1>t, <2>7, <2>8
<1>4. Balanced'
  BY <1>3 DEF Balanced
<1>. QED  BY <1>1, <1>2, <1>4 DEF BooksInv

\* A step that moves no money.
LEMMA NoneMoved ==
  ASSUME LifeInv, BooksInv, assets' = assets, wallet' = wallet, due' = due,
         transit' = transit, stage' = "absent" => stage = "absent"
  PROVE  BooksInv'
BY HeldByParts DEF BooksInv, MoneyTypeOK, Quiet, Settled, Balanced

\* A step of the roles and the status of one asset: each change of a role finds
\* nothing under it.
LEMMA RolesMoved ==
  ASSUME LifeInv, BooksInv, NEW a \in Assets, NEW p \in AssetProfiles,
         assets' = [assets EXCEPT ![a] = p], Quiet(p),
         stage # "absent", stage' # "absent",
         wallet' = wallet, due' = due, transit' = transit,
         p.insurance = assets[a].insurance, p.backing = assets[a].backing,
         p.earnings = assets[a].earnings,
         p.authority = assets[a].authority \/ p.insurance = 0,
         p.backer = assets[a].backer \/ (p.backing = 0 /\ p.earnings = 0)
  PROVE  BooksInv'
<1>1. \A k \in Owners : PartOf(p, k) = PartOf(assets[a], k)
  BY DEF PartOf
<1>2. wallet' \in [Owners -> Int] /\ due' \in [Owners -> Int]
  BY DEF BooksInv, MoneyTypeOK
<1>. QED  BY <1>1, <1>2, OneBalanced

LEMMA NewIsQuiet ==
  ASSUME NEW id, NEW admin, NEW authority, NEW operator, NEW backer
  PROVE  LET p == NewAsset(id, admin, authority, operator, backer) IN
         Quiet(p) /\ p.insurance = 0 /\ p.backing = 0 /\ p.earnings = 0
BY DEF NewAsset, Quiet, Settled

LEMMA InitBooks == Init => BooksInv
<1> SUFFICES ASSUME Init PROVE BooksInv
  OBVIOUS
<1>1. /\ wallet = [k \in Owners |-> IF k \in Purses THEN 1 ELSE 0]
      /\ transit = 0 /\ due \in [Owners -> Int] /\ \A k \in Owners : due[k] = wallet[k]
  BY DEF Init, StartOf, due
<1>2. MoneyTypeOK
  BY <1>1 DEF MoneyTypeOK
<1>3. /\ \A a \in Assets : Quiet(assets[a]) /\ assets[a].insurance = 0
                           /\ assets[a].backing = 0 /\ assets[a].earnings = 0
      /\ stage = "absent" => \A a \in Assets : Settled(assets[a])
  <2>1. CASE stage = "absent" /\ assets = [a \in Assets |-> Unconfigured]
    BY <2>1 DEF Quiet, Settled, Unconfigured
  <2>2. ASSUME stage = "live", NEW k \in Outsiders,
               assets = [a \in Assets |->
                 IF a = 0 THEN NewAsset(1, "controller", "controller", "controller", k)
                 ELSE NewAsset(2, "controller", k, k, k)]
        PROVE  <1>3
    BY <2>2, NewIsQuiet
  <2>. QED  BY <2>1, <2>2 DEF Init, StartOf
<1>4. \A k : PartOf(assets[0], k) = 0 /\ PartOf(assets[1], k) = 0
  BY <1>3 DEF PartOf, Assets
<1>5. \A k \in Owners : Held(k) = 0
  BY <1>1, <1>4, HeldByParts
<1>. QED  BY <1>1, <1>2, <1>3, <1>5 DEF BooksInv, Balanced, MoneyTypeOK

\* A new slab is empty, and so was the key.
LEMMA FreshBooks ==
  ASSUME LifeInv, BooksInv, NEW auth, NEW fee, NEW a0, NEW a1, NEW id,
         Quiet(a0), a0.insurance = 0, a0.backing = 0, a0.earnings = 0,
         Quiet(a1), a1.insurance = 0, a1.backing = 0, a1.earnings = 0,
         FreshSlab(auth, fee, a0, a1, id)
  PROVE  BooksInv'
<1>1. /\ stage = "absent" /\ stage' = "live"
      /\ wallet' = wallet /\ due' = due /\ transit' = transit
      /\ assets' = [a \in Assets |-> IF a = 0 THEN a0 ELSE a1]
  BY DueKept DEF FreshSlab, money_vars
<1>2. \A a \in Assets : assets[a].insurance = 0 /\ assets[a].backing = 0 /\ assets[a].earnings = 0
  BY <1>1 DEF BooksInv, Quiet
<1>3. assets'[0] = a0 /\ assets'[1] = a1
  BY <1>1 DEF Assets
<1>4. \A k : /\ PartOf(assets[0], k) = 0 /\ PartOf(assets[1], k) = 0
             /\ PartOf(assets'[0], k) = 0 /\ PartOf(assets'[1], k) = 0
  BY <1>2, <1>3 DEF PartOf, Assets
<1>5. \A k : Held(k)' = Held(k)
  BY <1>1, <1>4, HeldByParts
<1>6. (\A a \in Assets : Quiet(assets[a]))'
  BY <1>3 DEF Quiet, Settled, Assets
<1>. QED  BY <1>1, <1>5, <1>6 DEF BooksInv, MoneyTypeOK, Balanced

LEMMA UnconfiguredIsQuiet ==
  Quiet(Unconfigured) /\ Unconfigured.insurance = 0 /\ Unconfigured.backing = 0
  /\ Unconfigured.earnings = 0
BY DEF Quiet, Settled, Unconfigured

LEMMA CreationBooks ==
  ASSUME LifeInv, BooksInv, InitMarket \/ \E cur \in Outsiders : InitMarketDirectly(cur)
  PROVE  BooksInv'
<1>1. CASE InitMarket
  <2> DEFINE mine == NewAsset(1, "controller", "controller", "controller", "controller")
  <2>1. Quiet(mine) /\ mine.insurance = 0 /\ mine.backing = 0 /\ mine.earnings = 0
    BY NewIsQuiet
  <2>2. FreshSlab("controller", FALSE, mine, Unconfigured, 2)
    BY <1>1 DEF InitMarket
  <2> HIDE DEF mine
  <2>. QED  BY <2>1, <2>2, FreshBooks, UnconfiguredIsQuiet
<1>2. ASSUME NEW cur \in Outsiders, InitMarketDirectly(cur)
      PROVE  BooksInv'
  <2>1. PICK to \in Outsiders \cup {"custody"}, given \in Delegations,
             fee \in BOOLEAN, second \in BOOLEAN :
          FreshSlab(cur, fee, CreatorsAsset(cur, to, given),
            IF second THEN NewAsset(2, cur, cur, cur, cur) ELSE Unconfigured,
            IF second THEN 3 ELSE 2)
    BY <1>2 DEF InitMarketDirectly
  <2> DEFINE a0 == CreatorsAsset(cur, to, given)
             a1 == IF second THEN NewAsset(2, cur, cur, cur, cur) ELSE Unconfigured
  <2>2. Quiet(a0) /\ a0.insurance = 0 /\ a0.backing = 0 /\ a0.earnings = 0
    BY NewIsQuiet DEF CreatorsAsset
  <2>3. Quiet(a1) /\ a1.insurance = 0 /\ a1.backing = 0 /\ a1.earnings = 0
    BY NewIsQuiet, UnconfiguredIsQuiet
  <2>4. FreshSlab(cur, fee, a0, a1, IF second THEN 3 ELSE 2)
    BY <2>1
  <2> HIDE DEF a0, a1
  <2>. QED  BY <2>2, <2>3, <2>4, FreshBooks
<1>. QED  BY <1>1, <1>2

\* Replacing a field of a profile leaves the others.
LEMMA WithInsurance ==
  ASSUME NEW p \in AssetProfiles, NEW n \in Int
  PROVE  LET q == [p EXCEPT !.insurance = n] IN
         /\ q \in AssetProfiles /\ q.insurance = n
         /\ q.backing = p.backing /\ q.earnings = p.earnings /\ q.status = p.status
         /\ q.authority = p.authority /\ q.admin = p.admin /\ q.backer = p.backer
BY DEF AssetProfiles

LEMMA WithBacking ==
  ASSUME NEW p \in AssetProfiles, NEW n \in Int
  PROVE  LET q == [p EXCEPT !.backing = n] IN
         /\ q \in AssetProfiles /\ q.backing = n
         /\ q.insurance = p.insurance /\ q.earnings = p.earnings /\ q.status = p.status
         /\ q.authority = p.authority /\ q.admin = p.admin /\ q.backer = p.backer
BY DEF AssetProfiles

LEMMA WithEarnings ==
  ASSUME NEW p \in AssetProfiles, NEW n \in Int
  PROVE  LET q == [p EXCEPT !.earnings = n] IN
         /\ q \in AssetProfiles /\ q.earnings = n
         /\ q.insurance = p.insurance /\ q.backing = p.backing /\ q.status = p.status
         /\ q.authority = p.authority /\ q.admin = p.admin /\ q.backer = p.backer
BY DEF AssetProfiles

LEMMA WithStatus ==
  ASSUME NEW p \in AssetProfiles, NEW st \in {"active", "shutdown"}
  PROVE  LET q == [p EXCEPT !.status = st] IN
         /\ q \in AssetProfiles /\ q.status = st
         /\ q.insurance = p.insurance /\ q.backing = p.backing /\ q.earnings = p.earnings
         /\ q.authority = p.authority /\ q.backer = p.backer
BY DEF AssetProfiles

LEMMA WithId ==
  ASSUME NEW p \in AssetProfiles, NEW id \in Nat
  PROVE  LET q == [p EXCEPT !.id = id] IN
         /\ q \in AssetProfiles /\ q.status = p.status
         /\ q.insurance = p.insurance /\ q.backing = p.backing /\ q.earnings = p.earnings
         /\ q.authority = p.authority /\ q.backer = p.backer
BY DEF AssetProfiles

LEMMA ReplacedTwice ==
  ASSUME NEW f \in [Assets -> AssetProfiles], NEW a \in Assets,
         NEW p \in AssetProfiles, NEW q \in AssetProfiles
  PROVE  [[f EXCEPT ![a] = p] EXCEPT ![a] = q] = [f EXCEPT ![a] = q]
OBVIOUS

\* Money under an asset that enters or leaves with the money outside: i of its
\* insurance, b of its backing and earnings.
MoneyMoves(a, i, b) ==
  /\ transit' = transit /\ stage # "absent" /\ stage' # "absent"
  /\ wallet' \in [Owners -> Int] /\ due' \in [Owners -> Int]
  /\ \A k \in Owners :
       wallet'[k] - due'[k] + (IF OwnerOf(assets[a].authority) = k THEN i ELSE 0)
         + (IF OwnerOf(assets[a].backer) = k THEN b ELSE 0) = wallet[k] - due[k]

\* The profile that the step leaves; a role that changes hands has nothing under it.
ProfileMoves(a, p, i, b) ==
  /\ assets' = [assets EXCEPT ![a] = p]
  /\ p \in AssetProfiles /\ Quiet(p)
  /\ p.insurance = assets[a].insurance + i
  /\ p.backing + p.earnings = assets[a].backing + assets[a].earnings + b
  /\ p.authority = assets[a].authority \/ p.insurance = 0
  /\ p.backer = assets[a].backer \/ p.backing + p.earnings = 0

LEMMA FundsMoved ==
  ASSUME LifeInv, BooksInv, NEW a \in Assets, NEW p, NEW i \in Int, NEW b \in Int,
         ProfileMoves(a, p, i, b), MoneyMoves(a, i, b)
  PROVE  BooksInv'
<1>t. assets[a] \in AssetProfiles /\ p \in AssetProfiles
  BY DEF LifeInv, LifeTypeOK, ProfileMoves
<1>n. /\ assets[a].insurance \in Int /\ assets[a].backing \in Int /\ assets[a].earnings \in Int
      /\ p.insurance \in Int /\ p.backing \in Int /\ p.earnings \in Int
  BY <1>t DEF AssetProfiles
<1>m. /\ p.insurance = assets[a].insurance + i
      /\ p.backing + p.earnings = assets[a].backing + assets[a].earnings + b
      /\ p.authority = assets[a].authority \/ p.insurance = 0
      /\ p.backer = assets[a].backer \/ p.backing + p.earnings = 0
  BY DEF ProfileMoves
<1>1. ASSUME NEW k \in Owners
      PROVE  wallet'[k] - due'[k] + PartOf(p, k)
               = wallet[k] - due[k] + PartOf(assets[a], k)
  <2> DEFINE x == IF OwnerOf(assets[a].authority) = k THEN i ELSE 0
             y == IF OwnerOf(assets[a].backer) = k THEN b ELSE 0
             old == PartOf(assets[a], k)
             d1 == wallet'[k] - due'[k]
             d == wallet[k] - due[k]
  <2>1. x \in Int /\ y \in Int /\ old \in Int /\ d1 \in Int /\ d \in Int
    <3>1. wallet[k] \in Int /\ due[k] \in Int /\ wallet'[k] \in Int /\ due'[k] \in Int
      BY DEF BooksInv, MoneyTypeOK, MoneyMoves
    <3>. QED  BY <1>t, <3>1, PartType
  <2>2. (IF OwnerOf(p.authority) = k THEN p.insurance ELSE 0)
          = (IF OwnerOf(assets[a].authority) = k THEN assets[a].insurance ELSE 0) + x
    BY <1>n, <1>m
  <2>3. (IF OwnerOf(p.backer) = k THEN p.backing + p.earnings ELSE 0)
          = (IF OwnerOf(assets[a].backer) = k THEN assets[a].backing + assets[a].earnings ELSE 0)
            + y
    BY <1>n, <1>m
  <2>4. PartOf(p, k) = old + x + y
    BY <1>n, <2>1, <2>2, <2>3 DEF PartOf
  <2>5. d1 + x + y = d
    BY DEF MoneyMoves
  <2> HIDE DEF x, y, old, d1, d
  <2>6. d1 + PartOf(p, k) = d + old
    BY <2>1, <2>4, <2>5
  <2>. QED  BY <2>6 DEF d1, d, old
<1>. QED  BY <1>1, OneBalanced DEF ProfileMoves, MoneyMoves

\* Insurance alone.
LEMMA InsuranceMoved ==
  ASSUME LifeInv, BooksInv, NEW a \in Assets, NEW n \in Int,
         ~Settled(assets[a]), MoneyMoves(a, n, 0),
         assets' = [assets EXCEPT ![a] =
                      [assets[a] EXCEPT !.insurance = assets[a].insurance + n]]
  PROVE  BooksInv'
<1> DEFINE q == assets[a]
           p == [q EXCEPT !.insurance = q.insurance + n]
<1>1. q \in AssetProfiles /\ q.insurance + n \in Int
  BY DEF LifeInv, LifeTypeOK, AssetProfiles
<1>2. q.backing + q.earnings + 0 = q.backing + q.earnings
  BY <1>1 DEF AssetProfiles
<1> HIDE DEF q
<1>3. /\ p \in AssetProfiles /\ p.insurance = q.insurance + n /\ p.backing = q.backing
      /\ p.earnings = q.earnings /\ p.status = q.status
      /\ p.authority = q.authority /\ p.backer = q.backer
  BY <1>1, WithInsurance
<1>4. Quiet(p)
  BY <1>3 DEF Quiet, Settled, q
<1>5. assets' = [assets EXCEPT ![a] = p]
  BY DEF q
<1> HIDE DEF p
<1>6. ProfileMoves(a, p, n, 0)
  BY <1>2, <1>3, <1>4, <1>5 DEF ProfileMoves, q
<1>. QED  BY <1>6, FundsMoved

\* Backing and earnings alone.
LEMMA BackingMoved ==
  ASSUME LifeInv, BooksInv, NEW a \in Assets, NEW p \in AssetProfiles, NEW n \in Int,
         ~Settled(assets[a]), MoneyMoves(a, 0, n),
         assets' = [assets EXCEPT ![a] = p],
         p.status = assets[a].status, p.authority = assets[a].authority,
         p.backer = assets[a].backer \/ p.backing + p.earnings = 0,
         p.insurance = assets[a].insurance,
         p.backing + p.earnings = assets[a].backing + assets[a].earnings + n
  PROVE  BooksInv'
<1>1. p.insurance = assets[a].insurance + 0
  BY DEF AssetProfiles
<1>2. Quiet(p)
  BY DEF Quiet, Settled
<1>3. ProfileMoves(a, p, 0, n)
  BY <1>1, <1>2 DEF ProfileMoves
<1>. QED  BY <1>3, FundsMoved

\* One owner pays a token from outside.
LEMMA PaysOne ==
  ASSUME MoneyTypeOK, NEW k \in Owners, Pays(k)
  PROVE  /\ wallet' \in [Owners -> Int]
         /\ \A j \in Owners : wallet'[j] = wallet[j] + (IF j = k THEN 0 - 1 ELSE 0)
BY Credited DEF Pays, MoneyTypeOK

\* A payment to the owner of the insurance, or of the backing, by somebody else.
LEMMA PaidTo ==
  ASSUME MoneyTypeOK, NEW k \in Owners, Pays(k), NEW a \in Assets,
         stage # "absent", stage' = stage, transit' = transit
  PROVE  /\ due' = Moved(due, k, OwnerOf(assets[a].authority), 1) => MoneyMoves(a, 1, 0)
         /\ due' = Moved(due, k, OwnerOf(assets[a].backer), 1) => MoneyMoves(a, 0, 1)
<1>1. /\ wallet' \in [Owners -> Int]
      /\ \A j \in Owners : wallet'[j] = wallet[j] + (IF j = k THEN 0 - 1 ELSE 0)
  BY PaysOne
<1>2. \A j \in Owners : wallet[j] \in Int /\ due[j] \in Int
  BY DEF MoneyTypeOK
<1>3. ASSUME NEW to, due' = Moved(due, k, to, 1)
      PROVE  /\ due' \in [Owners -> Int]
             /\ \A j \in Owners :
                  wallet'[j] - due'[j] + (IF to = j THEN 1 ELSE 0) = wallet[j] - due[j]
  <2>1. due' \in [Owners -> Int]
        /\ \A j \in Owners : due'[j] = due[j] - (IF j = k THEN 1 ELSE 0)
                                            + (IF j = to THEN 1 ELSE 0)
    BY <1>3, Given DEF MoneyTypeOK
  <2>. QED  BY <1>1, <1>2, <2>1
<1>4. CASE due' = Moved(due, k, OwnerOf(assets[a].authority), 1)
  BY <1>1, <1>3, <1>4 DEF MoneyMoves
<1>5. CASE due' = Moved(due, k, OwnerOf(assets[a].backer), 1)
  BY <1>1, <1>3, <1>5 DEF MoneyMoves
<1>. QED  BY <1>4, <1>5

\* A payment of its owner, to the insurance or the backing under its own role.
LEMMA PaidIn ==
  ASSUME MoneyTypeOK, NEW k \in Owners, Pays(k), NEW a \in Assets,
         stage # "absent", stage' = stage, transit' = transit, due' = due
  PROVE  /\ OwnerOf(assets[a].authority) = k => MoneyMoves(a, 1, 0)
         /\ OwnerOf(assets[a].backer) = k => MoneyMoves(a, 0, 1)
<1>1. /\ wallet' \in [Owners -> Int]
      /\ \A j \in Owners : wallet'[j] = wallet[j] + (IF j = k THEN 0 - 1 ELSE 0)
  BY PaysOne
<1>2. \A j \in Owners : wallet[j] \in Int /\ due[j] \in Int
  BY DEF MoneyTypeOK
<1>3. \A j \in Owners : wallet'[j] - due[j] + (IF k = j THEN 1 ELSE 0) = wallet[j] - due[j]
  BY <1>1, <1>2
<1>. QED  BY <1>1, <1>3 DEF MoneyMoves, MoneyTypeOK

\* What leaves an asset reaches the owner of it.
LEMMA PaidOut ==
  ASSUME MoneyTypeOK, NEW a \in Assets, NEW n \in Int, NEW to,
         stage # "absent", stage' = stage, transit' = transit, due' = due,
         wallet' = Credit(wallet, to, n)
  PROVE  /\ OwnerOf(assets[a].authority) = to => MoneyMoves(a, 0 - n, 0)
         /\ OwnerOf(assets[a].backer) = to => MoneyMoves(a, 0, 0 - n)
<1>1. wallet' \in [Owners -> Int]
      /\ \A j \in Owners : wallet'[j] = wallet[j] + (IF j = to THEN n ELSE 0)
  BY Credited DEF MoneyTypeOK
<1>2. \A j \in Owners : wallet[j] \in Int /\ due[j] \in Int
  BY DEF MoneyTypeOK
<1>3. \A j \in Owners :
        wallet'[j] - due[j] + (IF to = j THEN 0 - n ELSE 0) = wallet[j] - due[j]
  BY <1>1, <1>2
<1>. QED  BY <1>1, <1>3 DEF MoneyMoves, MoneyTypeOK

\* What an operator takes of the insurance leaves the owner of it.
LEMMA TakenOut ==
  ASSUME MoneyTypeOK, NEW a \in Assets, NEW n \in Int, NEW k \in Owners,
         stage # "absent", stage' = stage, transit' = transit,
         wallet' = Credit(wallet, k, n),
         due' = Moved(due, OwnerOf(assets[a].authority), k, n)
  PROVE  MoneyMoves(a, 0 - n, 0)
<1> DEFINE from == OwnerOf(assets[a].authority)
<1>1. /\ wallet' \in [Owners -> Int]
      /\ \A j \in Owners : wallet'[j] = wallet[j] + (IF j = k THEN n ELSE 0)
  BY Credited DEF MoneyTypeOK
<1>2. \A j \in Owners : wallet[j] \in Int /\ due[j] \in Int
  BY DEF MoneyTypeOK
<1> HIDE DEF from
<1>3. /\ due' \in [Owners -> Int]
      /\ \A j \in Owners : due'[j] = due[j] - (IF j = from THEN n ELSE 0)
                                         + (IF j = k THEN n ELSE 0)
  BY Given DEF MoneyTypeOK, from
<1>4. \A j \in Owners :
        wallet'[j] - due'[j] + (IF from = j THEN 0 - n ELSE 0) + 0 = wallet[j] - due[j]
  BY <1>1, <1>2, <1>3
<1>. QED  BY <1>1, <1>3, <1>4 DEF MoneyMoves, from

LEMMA TypesOfBooks ==
  ASSUME LifeInv, BooksInv
  PROVE  /\ MoneyTypeOK /\ 0 \in Assets /\ 1 \in Assets
         /\ assets \in [Assets -> AssetProfiles]
         /\ \A a \in Assets : assets[a].insurance \in Int /\ assets[a].backing \in Int
                              /\ assets[a].earnings \in Int
BY DEF LifeInv, LifeTypeOK, BooksInv, Assets, AssetProfiles

LEMMA OwnersOfRoles ==
  /\ "governance" \in Owners /\ "traders" \in Owners
  /\ Outsiders \subseteq Owners /\ Funders \subseteq Owners
  /\ \A k \in Funders : OwnerOf(k) = k
  /\ OwnerOf("controller") = "governance"
BY OutsidersAssumption DEF Owners, Funders, OwnerOf

\* Money that users pay in or take out.
LEMMA PaymentBooks ==
  ASSUME LifeInv, BooksInv, HistoryInv,
         \/ \E k \in Outsiders : DonateInsurance(k)
         \/ \E k \in Funders, a \in Assets : Fund(k, a) \/ TakeInsurance(k, a)
         \/ \E a \in Assets : PayFee(a)
  PROVE  BooksInv'
<1> USE TypesOfBooks, OwnersOfRoles DEF role_vars
<1>i. 1 \in Int
  OBVIOUS
<1>1. ASSUME NEW k \in Outsiders, DonateInsurance(k) PROVE BooksInv'
  <2>1. /\ Pays(k) /\ stage = "live" /\ stage' = stage /\ transit' = transit
        /\ assets[0].authority = "controller" /\ due' = Moved(due, k, "governance", 1)
    BY <1>1, <1>i, DueMoved DEF DonateInsurance
  <2>2. MoneyMoves(0, 1, 0)
    BY <2>1, PaidTo
  <2>3. ~Settled(assets[0])
    BY <2>1 DEF BooksInv, Quiet
  <2>4. assets' = [assets EXCEPT ![0] =
                     [assets[0] EXCEPT !.insurance = assets[0].insurance + 1]]
    BY <1>1 DEF DonateInsurance
  <2>. QED  BY <1>i, <2>2, <2>3, <2>4, InsuranceMoved
<1>2. ASSUME NEW k \in Funders, NEW a \in Assets, Fund(k, a) PROVE BooksInv'
  <2>1. /\ Pays(k) /\ stage = "live" /\ stage' = stage /\ transit' = transit
        /\ due' = due /\ assets[a].status = "active"
    BY <1>2, DueKept DEF Fund
  <2>2. ~Settled(assets[a])
    BY <2>1 DEF Settled
  <2>3. CASE assets[a].authority = k /\ assets' = [assets EXCEPT ![a].insurance = @ + 1]
    <3>1. MoneyMoves(a, 1, 0)
      BY <2>1, <2>3, PaidIn
    <3>. QED  BY <1>i, <2>2, <2>3, <3>1, InsuranceMoved
  <2>4. CASE assets[a].backer = k /\ assets' = [assets EXCEPT ![a].backing = @ + 1]
    <3> DEFINE q == assets[a]
               p == [q EXCEPT !.backing = q.backing + 1]
    <3>1. MoneyMoves(a, 0, 1)
      BY <2>1, <2>4, PaidIn
    <3>2. assets' = [assets EXCEPT ![a] = p] /\ q \in AssetProfiles /\ q.backing + 1 \in Int
      BY <2>4
    <3>3. q.backing + 1 + q.earnings = q.backing + q.earnings + 1
      OBVIOUS
    <3> HIDE DEF q
    <3>4. /\ p \in AssetProfiles /\ p.backing = q.backing + 1 /\ p.earnings = q.earnings
          /\ p.insurance = q.insurance /\ p.status = q.status
          /\ p.authority = q.authority /\ p.backer = q.backer
      BY <3>2, WithBacking
    <3> HIDE DEF p
    <3>. QED  BY <1>i, <2>2, <3>1, <3>2, <3>3, <3>4, BackingMoved DEF q
  <2>. QED  BY <1>2, <2>3, <2>4 DEF Fund
<1>3. ASSUME NEW k \in Funders, NEW a \in Assets, TakeInsurance(k, a) PROVE BooksInv'
  <2> DEFINE n == assets[a].insurance
  <2>1. /\ stage # "absent" /\ stage' = stage /\ transit' = transit
        /\ wallet' = Credit(wallet, k, n) /\ n > 0
    BY <1>3 DEF TakeInsurance, InsuranceTakeable
  <2>2. n \in Int /\ 0 - n \in Int /\ n + (0 - n) = 0
    OBVIOUS
  <2>6. due' = Moved(due, OwnerOf(assets[a].authority), k, n)
    BY <1>3, <2>2, DueMoved DEF TakeInsurance
  <2>3. ~Settled(assets[a])
    BY <2>1 DEF BooksInv, Quiet
  <2>4. MoneyMoves(a, 0 - n, 0)
    BY <2>1, <2>2, <2>6, TakenOut
  <2>5. assets' = [assets EXCEPT ![a] = [assets[a] EXCEPT !.insurance = n + (0 - n)]]
    BY <1>3, <2>2 DEF TakeInsurance
  <2>. QED  BY <2>2, <2>3, <2>4, <2>5, InsuranceMoved
<1>4. ASSUME NEW a \in Assets, PayFee(a) PROVE BooksInv'
  <2>1. /\ Pays("traders") /\ stage = "live" /\ stage' = stage /\ transit' = transit
        /\ assets[a].status = "active"
    BY <1>4 DEF PayFee
  <2>2. ~Settled(assets[a])
    BY <2>1 DEF Settled
  <2>5. \A to : entitled' = Gives("traders", to, 1) => due' = Moved(due, "traders", to, 1)
    BY <1>4, <1>i, DueMoved DEF PayFee
  <2>3. CASE /\ assets' = [assets EXCEPT ![a].insurance = @ + 1]
             /\ due' = Moved(due, "traders", OwnerOf(assets[a].authority), 1)
    <3>1. MoneyMoves(a, 1, 0)
      BY <2>1, <2>3, PaidTo
    <3>. QED  BY <1>i, <2>2, <2>3, <3>1, InsuranceMoved
  <2>4. CASE /\ assets' = [assets EXCEPT ![a].earnings = @ + 1]
             /\ due' = Moved(due, "traders", OwnerOf(assets[a].backer), 1)
    <3> DEFINE q == assets[a]
               p == [q EXCEPT !.earnings = q.earnings + 1]
    <3>1. MoneyMoves(a, 0, 1)
      BY <2>1, <2>4, PaidTo
    <3>2. assets' = [assets EXCEPT ![a] = p] /\ q \in AssetProfiles /\ q.earnings + 1 \in Int
      BY <2>4
    <3>3. q.backing + (q.earnings + 1) = q.backing + q.earnings + 1
      OBVIOUS
    <3> HIDE DEF q
    <3>4. /\ p \in AssetProfiles /\ p.earnings = q.earnings + 1 /\ p.backing = q.backing
          /\ p.insurance = q.insurance /\ p.status = q.status
          /\ p.authority = q.authority /\ p.backer = q.backer
      BY <3>2, WithEarnings
    <3> HIDE DEF p
    <3>. QED  BY <1>i, <2>2, <3>1, <3>2, <3>3, <3>4, BackingMoved DEF q
  <2>. QED  BY <1>4, <2>3, <2>4, <2>5 DEF PayFee
<1>. QED  BY <1>1, <1>2, <1>3, <1>4

\* The transit account is governance's.
LEMMA TransitBooks ==
  ASSUME LifeInv, BooksInv, HistoryInv, NEW k \in Outsiders, SendToTransit(k)
  PROVE  BooksInv'
<1>1. /\ Pays(k) /\ transit' = transit + 1 /\ due' = Moved(due, k, "governance", 1)
      /\ stage' = stage /\ assets' = assets
  <2>1. 1 \in Int
    OBVIOUS
  <2>. QED  BY <2>1, DueMoved DEF SendToTransit, role_vars, asset_vars
<1>2. MoneyTypeOK /\ k \in Owners
  BY TypesOfBooks, OwnersOfRoles
<1>3. /\ wallet' \in [Owners -> Int]
      /\ \A j \in Owners : wallet'[j] = wallet[j] + (IF j = k THEN 0 - 1 ELSE 0)
  BY <1>1, <1>2, PaysOne
<1>4. /\ due' \in [Owners -> Int]
      /\ \A j \in Owners : due'[j] = due[j] - (IF j = k THEN 1 ELSE 0)
                                          + (IF j = "governance" THEN 1 ELSE 0)
  BY <1>1, <1>2, Given DEF MoneyTypeOK
<1>5. ASSUME NEW j \in Owners
      PROVE  wallet'[j] + Held(j)' = due'[j]
  <2> DEFINE h == PartOf(assets[0], j) + PartOf(assets[1], j)
  <2>1. h \in Int /\ wallet[j] \in Int /\ due[j] \in Int /\ transit \in Int
    BY <1>2, PartType, TypesOfBooks DEF MoneyTypeOK
  <2>2. Held(j) = h + (IF j = "governance" THEN transit ELSE 0)
    BY HeldByParts
  <2>3. Held(j)' = h + (IF j = "governance" THEN transit + 1 ELSE 0)
    BY <1>1, HeldByParts
  <2>4. wallet[j] + Held(j) = due[j]
    BY DEF BooksInv, Balanced
  <2> HIDE DEF h
  <2>. QED  BY <1>3, <1>4, <2>1, <2>2, <2>3, <2>4
<1>6. MoneyTypeOK'
  BY <1>1, <1>2, <1>3, <1>4 DEF MoneyTypeOK
<1>. QED  BY <1>1, <1>5, <1>6 DEF BooksInv, Balanced, Quiet, Settled

\* The public returns pay the owner of what they take.
LEMMA ReturnsBooks == LifeInv /\ BooksInv /\ Returns => BooksInv'
<1> SUFFICES ASSUME LifeInv, BooksInv, Returns PROVE BooksInv'
  OBVIOUS
<1> USE TypesOfBooks, DueKept DEF role_vars, ReturnUnchanged
<1>1. ASSUME NEW a \in Assets, NEW matured \in BOOLEAN, ReturnShutdownBacking(a, matured)
      PROVE  BooksInv'
  <2>1. PICK principal \in 0..assets[a].backing, earnings \in 0..assets[a].earnings :
          /\ assets' = [assets EXCEPT ![a].backing = @ - principal, ![a].earnings = @ - earnings]
          /\ Forwarded(assets[a].backer, principal + earnings)
    BY <1>1 DEF ReturnShutdownBacking
  <2> DEFINE q == assets[a]
             p1 == [q EXCEPT !.backing = q.backing - principal]
             p == [p1 EXCEPT !.earnings = q.earnings - earnings]
             n == principal + earnings
  <2>2. /\ stage = "live" /\ stage' = stage /\ due' = due /\ transit' = transit
        /\ wallet' = Credit(wallet, q.backer, n) /\ q.status = "shutdown"
        /\ q.backer # "controller"
    BY <1>1, <2>1 DEF ReturnShutdownBacking, ShutdownOpen, Forwarded
  <2>3. principal \in Int /\ earnings \in Int /\ q.backing \in Int /\ q.earnings \in Int
        /\ n \in Int /\ q \in AssetProfiles
    OBVIOUS
  <2>4. MoneyMoves(a, 0, 0 - n)
    BY <2>2, <2>3, PaidOut DEF OwnerOf
  <2>5. assets' = [assets EXCEPT ![a] = p]
    <3>1. p1 \in AssetProfiles /\ p1.earnings = q.earnings
      <4> HIDE DEF q
      <4>. QED  BY <2>3, WithBacking
    <3>2. p \in AssetProfiles
      <4> HIDE DEF q, p1
      <4>. QED  BY <2>3, <3>1, WithEarnings
    <3>3. assets' = [[assets EXCEPT ![a] = p1] EXCEPT ![a] = p]
      BY <2>1, <3>1
    <3> HIDE DEF p, p1
    <3>. QED  BY <3>1, <3>2, <3>3, ReplacedTwice
  <2>6. ~Settled(q)
    BY <2>2 DEF Settled
  <2> HIDE DEF q
  <2>7. /\ p1 \in AssetProfiles /\ p1.backing = q.backing - principal /\ p1.earnings = q.earnings
        /\ p1.insurance = q.insurance /\ p1.status = q.status
        /\ p1.authority = q.authority /\ p1.backer = q.backer
    BY <2>3, WithBacking
  <2> HIDE DEF p1
  <2>8. /\ p \in AssetProfiles /\ p.earnings = q.earnings - earnings /\ p.backing = p1.backing
        /\ p.insurance = p1.insurance /\ p.status = p1.status
        /\ p.authority = p1.authority /\ p.backer = p1.backer
    BY <2>3, <2>7, WithEarnings
  <2> HIDE DEF p
  <2>9. p.backing + p.earnings = q.backing + q.earnings + (0 - n) /\ 0 - n \in Int
    BY <2>3, <2>7, <2>8
  <2> HIDE DEF n
  <2>. QED  BY <2>4, <2>5, <2>6, <2>7, <2>8, <2>9, BackingMoved DEF q
<1>2. ASSUME NEW a \in Assets, NEW matured \in BOOLEAN, ReturnShutdownInsurance(a, matured)
      PROVE  BooksInv'
  <2> DEFINE n == assets[a].insurance
  <2>1. /\ stage = "live" /\ stage' = stage /\ due' = due /\ transit' = transit
        /\ wallet' = Credit(wallet, OwnerOf(assets[a].authority), n)
        /\ assets[a].status = "shutdown"
    BY <1>2 DEF ReturnShutdownInsurance, ShutdownOpen, Forwarded
  <2>2. n \in Int /\ 0 - n \in Int /\ n + (0 - n) = 0
    OBVIOUS
  <2>3. ~Settled(assets[a])
    BY <2>1 DEF Settled
  <2>4. MoneyMoves(a, 0 - n, 0)
    BY <2>1, <2>2, PaidOut
  <2>5. assets' = [assets EXCEPT ![a] = [assets[a] EXCEPT !.insurance = n + (0 - n)]]
    BY <1>2, <2>2 DEF ReturnShutdownInsurance
  <2>. QED  BY <2>2, <2>3, <2>4, <2>5, InsuranceMoved
<1>3. ASSUME NEW a \in Assets, ReturnResolvedAssetInsurance(a) PROVE BooksInv'
  <2> DEFINE q == assets[a]
             p1 == [q EXCEPT !.insurance = 0]
             p == [p1 EXCEPT !.authority = "controller"]
             n == q.insurance
  <2>1. /\ stage # "absent" /\ stage' = stage /\ due' = due /\ transit' = transit
        /\ wallet' = Credit(wallet, OwnerOf(q.authority), n) /\ n # 0
    BY <1>3 DEF ReturnResolvedAssetInsurance, InsuranceReturnable, ResolvedAndEmpty, Forwarded
  <2>2. n \in Int /\ 0 - n \in Int /\ n + (0 - n) = 0 /\ q \in AssetProfiles
    OBVIOUS
  <2>3. MoneyMoves(a, 0 - n, 0)
    BY <2>1, <2>2, PaidOut
  <2>4. ~Settled(q)
    BY <2>1 DEF BooksInv, Quiet
  <2>5. q.backing + q.earnings + 0 = q.backing + q.earnings
    OBVIOUS
  <2>6. assets' = [[assets EXCEPT ![a] = p1] EXCEPT ![a] = p]
    BY <1>3 DEF ReturnResolvedAssetInsurance
  <2> HIDE DEF q
  <2>7. /\ p1 \in AssetProfiles /\ p1.insurance = 0
        /\ p1.backing = q.backing /\ p1.earnings = q.earnings /\ p1.status = q.status
        /\ p1.backer = q.backer
    BY <2>2, WithInsurance
  <2> HIDE DEF p1
  <2>8. /\ p \in AssetProfiles /\ p.insurance = p1.insurance
        /\ p.backing = p1.backing /\ p.earnings = p1.earnings /\ p.status = p1.status
        /\ p.backer = p1.backer
    BY <2>7 DEF AssetProfiles, Roles
  <2> HIDE DEF p
  <2>9. assets' = [assets EXCEPT ![a] = p]
    BY <2>6, <2>7, <2>8, ReplacedTwice
  <2>10. Quiet(p)
    BY <2>4, <2>7, <2>8 DEF Quiet, Settled
  <2>11. ProfileMoves(a, p, 0 - n, 0)
    BY <2>2, <2>5, <2>7, <2>8, <2>9, <2>10 DEF ProfileMoves, q
  <2>. QED  BY <2>2, <2>3, <2>11, FundsMoved
<1>4. ASSUME NEW a \in Assets, BackingReturned(a) PROVE BooksInv'
  <2> DEFINE q == assets[a]
             p1 == [q EXCEPT !.backing = 0]
             p2 == [p1 EXCEPT !.earnings = 0]
             p == [p2 EXCEPT !.backer = "controller"]
             n == q.backing + q.earnings
  <2>1. /\ stage # "absent" /\ stage' = stage /\ due' = due /\ transit' = transit
        /\ wallet' = Credit(wallet, q.backer, n) /\ n # 0 /\ q.backer # "controller"
    BY <1>4 DEF BackingReturned, BackingReturnable, ResolvedAndEmpty, Forwarded
  <2>2. n \in Int /\ 0 - n \in Int /\ 0 + 0 = n + (0 - n) /\ q \in AssetProfiles
    OBVIOUS
  <2>3. MoneyMoves(a, 0, 0 - n)
    BY <2>1, <2>2, PaidOut DEF OwnerOf
  <2>4. ~Settled(q)
    BY <2>1 DEF BooksInv, Quiet
  <2>5. assets' = [[[assets EXCEPT ![a] = p1] EXCEPT ![a] = p2] EXCEPT ![a] = p]
    BY <1>4 DEF BackingReturned
  <2> HIDE DEF q
  <2>6. /\ p1 \in AssetProfiles /\ p1.backing = 0
        /\ p1.insurance = q.insurance /\ p1.status = q.status /\ p1.authority = q.authority
    BY <2>2, WithBacking
  <2> HIDE DEF p1
  <2>7. /\ p2 \in AssetProfiles /\ p2.earnings = 0 /\ p2.backing = p1.backing
        /\ p2.insurance = p1.insurance /\ p2.status = p1.status /\ p2.authority = p1.authority
    BY <2>6, WithEarnings
  <2> HIDE DEF p2
  <2>8. /\ p \in AssetProfiles /\ p.earnings = p2.earnings /\ p.backing = p2.backing
        /\ p.insurance = p2.insurance /\ p.status = p2.status /\ p.authority = p2.authority
    BY <2>7 DEF AssetProfiles, Roles
  <2> HIDE DEF p
  <2>9. assets' = [assets EXCEPT ![a] = p]
    BY <2>5, <2>6, <2>7, <2>8, ReplacedTwice
  <2>10. p.backing + p.earnings = n + (0 - n) /\ p.backing + p.earnings = 0
    BY <2>2, <2>6, <2>7, <2>8
  <2>. QED  BY <2>2, <2>3, <2>4, <2>6, <2>7, <2>8, <2>9, <2>10, BackingMoved DEF q
<1>. QED
  BY <1>1, <1>2, <1>3, <1>4
     DEF Returns, ReturnResolvedAssetBacking, ReturnResolvedAsset0Backing

\* What the proxy does to an asset moves no money: it finds none where it makes or
\* retires one, and keeps the roles otherwise.
LEMMA RetireBooks ==
  ASSUME LifeInv, BooksInv, NEW a \in Assets, Retire(a), stage # "absent",
         wallet' = wallet, due' = due, transit' = transit
  PROVE  BooksInv'
<1> DEFINE p == [Unconfigured EXCEPT !.status = "retired", !.id = assets[a].id]
<1>1. p \in AssetProfiles
  BY TypesOfBooks, UnconfiguredType DEF AssetProfiles
<1>2. Quiet(p) /\ p.insurance = 0 /\ p.backing = 0 /\ p.earnings = 0
  BY DEF Unconfigured, Quiet
<1>3. /\ assets' = [assets EXCEPT ![a] = p] /\ stage' = stage
      /\ assets[a].insurance = 0 /\ assets[a].backing = 0 /\ assets[a].earnings = 0
  BY DEF Retire, AssetEmpty
<1> HIDE DEF p
<1>. QED  BY <1>1, <1>2, <1>3, RolesMoved

LEMMA RestartBooks ==
  ASSUME LifeInv, BooksInv, NEW a \in Assets, NEW admin, Restarted(a, admin), stage # "absent",
         wallet' = wallet, due' = due, transit' = transit
  PROVE  BooksInv'
<1> DEFINE q == assets[a]
           p1 == [q EXCEPT !.status = "active"]
           p == [p1 EXCEPT !.id = next_id]
<1>1. /\ assets' = [[assets EXCEPT ![a] = p1] EXCEPT ![a] = p] /\ stage' = stage
      /\ q \in AssetProfiles /\ next_id \in Nat
  BY TypesOfBooks DEF Restarted, LifeInv, LifeTypeOK
<1> HIDE DEF q
<1>2. /\ p1 \in AssetProfiles /\ p1.status = "active"
      /\ p1.insurance = q.insurance /\ p1.backing = q.backing /\ p1.earnings = q.earnings
      /\ p1.authority = q.authority /\ p1.backer = q.backer
  BY <1>1, WithStatus
<1> HIDE DEF p1
<1>3. /\ p \in AssetProfiles /\ p.status = p1.status
      /\ p.insurance = p1.insurance /\ p.backing = p1.backing /\ p.earnings = p1.earnings
      /\ p.authority = p1.authority /\ p.backer = p1.backer
  BY <1>1, <1>2, WithId
<1> HIDE DEF p
<1>4. assets' = [assets EXCEPT ![a] = p]
  BY <1>1, <1>2, <1>3, TypesOfBooks, ReplacedTwice
<1>5. Quiet(p)
  BY <1>2, <1>3 DEF Quiet, Settled
<1>. QED  BY <1>1, <1>2, <1>3, <1>4, <1>5, RolesMoved DEF q

\* A new asset takes the place of one that is not there.
LEMMA NewAssetBooks ==
  ASSUME LifeInv, BooksInv, NEW a \in Assets, NEW id \in Nat, NEW admin \in Roles,
         NEW authority \in Roles, NEW operator \in Roles, NEW backer \in Roles,
         Settled(assets[a]), stage # "absent", stage' = stage,
         assets' = [assets EXCEPT ![a] = NewAsset(id, admin, authority, operator, backer)],
         wallet' = wallet, due' = due, transit' = transit
  PROVE  BooksInv'
<1> DEFINE p == NewAsset(id, admin, authority, operator, backer)
<1>1. p \in AssetProfiles
  BY NewAssetType
<1>2. Quiet(p) /\ p.insurance = 0 /\ p.backing = 0 /\ p.earnings = 0
  BY NewIsQuiet
<1>3. assets[a].insurance = 0 /\ assets[a].backing = 0 /\ assets[a].earnings = 0
  BY DEF BooksInv, Quiet
<1> HIDE DEF p
<1>4. assets' = [assets EXCEPT ![a] = p]
  BY DEF p
<1>. QED  BY <1>1, <1>2, <1>3, <1>4, RolesMoved

LEMMA ProxyBooks ==
  ASSUME LifeInv, BooksInv, NEW kind, NEW a \in Assets, NEW wire, ProxyAdmin(kind, a, wire)
  PROVE  BooksInv'
<1>1. /\ wallet' = wallet /\ due' = due /\ transit' = transit /\ stage = "live"
      /\ next_id \in Nat
  BY DueKept DEF ProxyAdmin, money_vars, LifeInv, LifeTypeOK
<1>2. CASE kind = "resolve"
  BY <1>1, <1>2, NoneMoved DEF ProxyAdmin, Resolve
<1>3. CASE Activate(a)
  <2>1. PICK backer \in Outsiders :
          assets' = [assets EXCEPT ![a] =
                       NewAsset(next_id, "controller", "controller", "controller", backer)]
    BY <1>3 DEF Activate, ActivationRoles
  <2>2. backer \in Roles /\ "controller" \in Roles
    BY DEF Roles
  <2>3. Settled(assets[a]) /\ stage' = stage
    BY <1>3 DEF Activate, Settled
  <2>. QED  BY <1>1, <2>1, <2>2, <2>3, NewAssetBooks
<1>4. CASE Retire(a)
  BY <1>1, <1>4, RetireBooks
<1>5. CASE Shutdown(a)
  <2> DEFINE q == assets[a]
             p == [q EXCEPT !.status = "shutdown"]
  <2>1. assets' = [assets EXCEPT ![a] = p] /\ stage' = stage /\ q \in AssetProfiles
    BY <1>5, TypesOfBooks DEF Shutdown
  <2> HIDE DEF q
  <2>2. /\ p \in AssetProfiles /\ p.status = "shutdown"
        /\ p.insurance = q.insurance /\ p.backing = q.backing /\ p.earnings = q.earnings
        /\ p.authority = q.authority /\ p.backer = q.backer
    BY <2>1, WithStatus
  <2> HIDE DEF p
  <2>3. Quiet(p)
    BY <2>2 DEF Quiet, Settled
  <2>. QED  BY <1>1, <2>1, <2>2, <2>3, RolesMoved DEF q
<1>6. CASE Restart(a)
  BY <1>1, <1>6, RestartBooks DEF Restart
<1>7. CASE Configure(a)
  BY <1>1, <1>7, NoneMoved DEF Configure
<1>8. kind # "resolve" => AssetInstruction(kind, a)
  BY DEF ProxyAdmin
<1>. QED  BY <1>2, <1>3, <1>4, <1>5, <1>6, <1>7, <1>8 DEF AssetInstruction

\* The donation moves no role that has money under it, but the creator's own.
LEMMA DonationBooks ==
  ASSUME LifeInv, BooksInv, NEW cur \in Outsiders, AcceptMarketAuthority(cur)
  PROVE  BooksInv'
<1> DEFINE q == assets[0]
           p == Migrated(q, cur)
<1>1. /\ assets' = [assets EXCEPT ![0] = p] /\ stage' = stage /\ stage # "absent"
      /\ wallet' = wallet /\ due' = due /\ transit' = transit
      /\ InsuranceMayMove(q, cur)
  BY DueKept DEF AcceptMarketAuthority, money_vars
<1>2. q \in AssetProfiles /\ Quiet(q) /\ 0 \in Assets /\ cur # "none"
  BY TypesOfBooks, OutsidersAreOthers DEF BooksInv
<1>3. p \in AssetProfiles
  <2>1. assets' \in [Assets -> AssetProfiles]
    BY AcceptInv DEF LifeInv, LifeTypeOK
  <2>2. assets'[0] = p
    BY <1>1, <1>2, TypesOfBooks
  <2>. QED  BY <1>2, <2>1, <2>2
<1> HIDE DEF q
<1>4. /\ p.insurance = q.insurance /\ p.backing = q.backing /\ p.earnings = q.earnings
      /\ p.status = q.status /\ p.backer = q.backer
      /\ p.authority = (IF q.authority = cur THEN "controller" ELSE q.authority)
      /\ p.admin = (IF q.admin = cur THEN "controller" ELSE q.admin)
  BY <1>2 DEF Migrated, AssetProfiles
<1> HIDE DEF p
<1>5. Quiet(p)
  BY <1>2, <1>4 DEF Quiet, Settled
<1>6. p.authority = q.authority \/ p.insurance = 0
  BY <1>1, <1>4 DEF InsuranceMayMove
<1>. QED  BY <1>1, <1>2, <1>3, <1>4, <1>5, <1>6, RolesMoved DEF q

\* The grant gives the pool what the controller had under the roles.
LEMMA GrantBooks ==
  ASSUME LifeInv, BooksInv, HistoryInv, GrantGenesisPool
  PROVE  BooksInv'
<1> DEFINE q == assets[0]
           p1 == [q EXCEPT !.authority = "custody"]
           p2 == [p1 EXCEPT !.operator = "custody"]
           p == [p2 EXCEPT !.admin = "custody"]
           n == q.insurance
<1>1. /\ assets' = [assets EXCEPT ![0] = p] /\ stage' = stage /\ stage = "live"
      /\ wallet' = wallet /\ transit' = transit
      /\ q.admin = "controller"
      /\ n # 0 => q.authority = "controller" /\ due' = Moved(due, "governance", "custody", n)
      /\ n = 0 => due' = due
  <2>1. n \in Int
    BY TypesOfBooks
  <2>. QED  BY <2>1, DueKept, DueMoved DEF GrantGenesisPool, role_vars
<1>2. q \in AssetProfiles /\ Quiet(q) /\ 0 \in Assets /\ MoneyTypeOK /\ n \in Int
      /\ "custody" \in Roles
  BY TypesOfBooks DEF BooksInv, Roles
<1> HIDE DEF q
<1>3. p1 \in AssetProfiles
  BY <1>2, WithRole
<1>4. /\ p1.insurance = q.insurance /\ p1.backing = q.backing /\ p1.earnings = q.earnings
      /\ p1.status = q.status /\ p1.backer = q.backer /\ p1.authority = "custody"
  BY <1>2 DEF AssetProfiles
<1> HIDE DEF p1
<1>5. p2 \in AssetProfiles
  BY <1>2, <1>3, WithRole
<1>6. /\ p2.insurance = p1.insurance /\ p2.backing = p1.backing /\ p2.earnings = p1.earnings
      /\ p2.status = p1.status /\ p2.backer = p1.backer /\ p2.authority = p1.authority
  BY <1>3 DEF AssetProfiles
<1> HIDE DEF p2
<1>7. p \in AssetProfiles
  BY <1>2, <1>5, WithRole
<1>8. /\ p.insurance = q.insurance /\ p.backing = q.backing /\ p.earnings = q.earnings
      /\ p.status = q.status /\ p.backer = q.backer /\ p.authority = "custody"
  BY <1>4, <1>5, <1>6 DEF AssetProfiles
<1> HIDE DEF p
<1>9. ~Settled(q) /\ Quiet(p)
  BY <1>1, <1>2, <1>8 DEF Quiet, Settled
<1>10. CASE n = 0
  BY <1>1, <1>2, <1>7, <1>8, <1>9, <1>10, RolesMoved DEF q
<1>11. CASE n # 0
  <2>1. /\ due' \in [Owners -> Int]
        /\ \A j \in Owners : due'[j] = due[j] - (IF j = "governance" THEN n ELSE 0)
                                            + (IF j = "custody" THEN n ELSE 0)
    BY <1>1, <1>2, <1>11, Given DEF MoneyTypeOK
  <2>2. q.authority = "controller" /\ OwnerOf("controller") = "governance"
        /\ OwnerOf("custody") = "custody"
    BY <1>1, <1>11 DEF OwnerOf
  <2>3. ASSUME NEW j \in Owners
        PROVE  wallet'[j] - due'[j] + PartOf(p, j)
                 = wallet[j] - due[j] + PartOf(q, j)
    <3> DEFINE b == IF OwnerOf(q.backer) = j THEN q.backing + q.earnings ELSE 0
               w == wallet[j]
               e == due[j]
               e1 == due'[j]
    <3>1. w \in Int /\ e \in Int /\ b \in Int
      BY <1>2 DEF MoneyTypeOK, AssetProfiles
    <3>2. PartOf(q, j) = (IF j = "governance" THEN n ELSE 0) + b
      BY <2>2 DEF PartOf
    <3>3. PartOf(p, j) = (IF j = "custody" THEN n ELSE 0) + b
      BY <1>8, <2>2 DEF PartOf
    <3>4. e1 = e - (IF j = "governance" THEN n ELSE 0) + (IF j = "custody" THEN n ELSE 0)
      BY <2>1
    <3> HIDE DEF b, w, e, e1, n
    <3>5. w - e1 + PartOf(p, j) = w - e + PartOf(q, j)
      BY <1>2, <3>1, <3>2, <3>3, <3>4
    <3>. QED  BY <1>1, <3>5 DEF w, e, e1
  <2>4. wallet' \in [Owners -> Int]
    BY <1>1, <1>2 DEF MoneyTypeOK
  <2>. QED  BY <1>1, <1>2, <1>7, <1>9, <2>1, <2>3, <2>4, OneBalanced DEF q
<1>. QED  BY <1>10, <1>11

\* A slab is closed empty, and its transit account is governance's.
LEMMA CloseBooks ==
  ASSUME LifeInv, BooksInv, CloseMarketAndReclaim \/ CloseDirectly
  PROVE  BooksInv'
<1>1. /\ stage' = "absent" /\ assets' = [a \in Assets |-> Unconfigured]
      /\ \A a \in Assets : assets[a].insurance = 0 /\ assets[a].backing = 0 /\ assets[a].earnings = 0
  BY DEF CloseMarketAndReclaim, CloseDirectly, SlabGone, AssetEmpty
<1>2. assets'[0] = Unconfigured /\ assets'[1] = Unconfigured
  BY <1>1 DEF Assets
<1>3. \A k : /\ PartOf(assets[0], k) = 0 /\ PartOf(assets[1], k) = 0
             /\ PartOf(assets'[0], k) = 0 /\ PartOf(assets'[1], k) = 0
  BY <1>1, <1>2, UnconfiguredIsQuiet DEF PartOf, Assets
<1>4. \A a \in Assets : Quiet(assets'[a]) /\ Settled(assets'[a])
  BY <1>1, UnconfiguredIsQuiet DEF Settled, Unconfigured
<1>5. MoneyTypeOK /\ \A k \in Owners : wallet[k] + Held(k) = due[k]
  BY DEF BooksInv, Balanced
<1>t. transit' \in Int
  BY <1>5 DEF CloseMarketAndReclaim, CloseDirectly, money_vars, MoneyTypeOK
<1>6. /\ \A k \in Owners : Held(k) = IF k = "governance" THEN transit ELSE 0
      /\ \A k \in Owners : Held(k)' = IF k = "governance" THEN transit' ELSE 0
  BY <1>3, <1>5, <1>t, HeldByParts DEF MoneyTypeOK
<1>7. CASE UNCHANGED money_vars
  <2>1. MoneyTypeOK' /\ Balanced'
    BY <1>5, <1>6, <1>7, DueKept DEF money_vars, MoneyTypeOK, Balanced
  <2>. QED  BY <1>4, <2>1 DEF BooksInv, Quiet, Settled
<1>8. CASE CloseMarketAndReclaim
  <2>1. wallet' = Credit(wallet, "governance", transit) /\ transit' = 0 /\ due' = due
    BY <1>8, DueKept DEF CloseMarketAndReclaim
  <2>2. /\ wallet' \in [Owners -> Int]
        /\ \A j \in Owners : wallet'[j] = wallet[j] + (IF j = "governance" THEN transit ELSE 0)
    BY <1>5, <2>1, Credited DEF MoneyTypeOK
  <2>3. MoneyTypeOK'
    BY <1>5, <2>1, <2>2 DEF MoneyTypeOK
  <2>4. Balanced'
    BY <1>5, <1>6, <2>1, <2>2 DEF Balanced, MoneyTypeOK
  <2>. QED  BY <1>4, <2>3, <2>4 DEF BooksInv, Quiet, Settled
<1>. QED  BY <1>7, <1>8 DEF CloseDirectly

LEMMA UsersBooks == LifeInv /\ BooksInv /\ HistoryInv /\ Users => BooksInv'
<1> SUFFICES ASSUME LifeInv, BooksInv, HistoryInv, Users PROVE BooksInv'
  OBVIOUS
<1> USE DueKept DEF role_vars, asset_vars, money_vars
<1>1. ASSUME NEW k \in Outsiders, AppendAsset(k) PROVE BooksInv'
  <2>1. next_id \in Nat /\ k \in Roles /\ Settled(assets[1]) /\ 1 \in Assets
    BY <1>1, TypesOfBooks DEF AppendAsset, LifeInv, LifeTypeOK, Roles, Settled
  <2>2. /\ assets' = [assets EXCEPT ![1] = NewAsset(next_id, k, k, k, k)]
        /\ stage = "live" /\ stage' = stage
        /\ wallet' = wallet /\ due' = due /\ transit' = transit
    BY <1>1 DEF AppendAsset
  <2>. QED  BY <2>1, <2>2, NewAssetBooks
<1>2. ASSUME NEW a \in Assets, OpenPosition(a) \/ ClosePosition(a) PROVE BooksInv'
  BY <1>2, NoneMoved DEF OpenPosition, ClosePosition
<1>3. ASSUME RetireDirectly PROVE BooksInv'
  BY <1>3, TypesOfBooks, RetireBooks DEF RetireDirectly
<1>4. ASSUME ClosePortfolio PROVE BooksInv'
  BY <1>4, NoneMoved DEF ClosePortfolio
<1>. QED
  BY <1>1, <1>2, <1>3, <1>4, PaymentBooks, TransitBooks, CreationBooks, DonationBooks,
     CloseBooks DEF Users

LEMMA GovernanceBooks == LifeInv /\ BooksInv /\ HistoryInv /\ Governance => BooksInv'
<1> SUFFICES ASSUME LifeInv, BooksInv, HistoryInv, Governance PROVE BooksInv'
  OBVIOUS
<1>1. ASSUME NEW kind, NEW a \in Assets, GovernNow(kind, a) PROVE BooksInv'
  BY <1>1, ProxyBooks DEF GovernNow
<1>2. ASSUME NEW kind, NEW a \in Assets, Approve(kind, a) PROVE BooksInv'
  BY <1>2, NoneMoved, DueKept DEF Approve, role_vars, asset_vars, money_vars
<1>3. CASE RestartAsset0
  <2>1. /\ Restarted(0, "custody") /\ stage = "live" /\ 0 \in Assets
        /\ wallet' = wallet /\ due' = due /\ transit' = transit
    BY <1>3, TypesOfBooks, DueKept DEF RestartAsset0, money_vars
  <2>. QED  BY <2>1, RestartBooks
<1>. QED  BY <1>1, <1>2, <1>3, GrantBooks, CloseBooks DEF Governance

LEMMA CranksBooks == LifeInv /\ BooksInv /\ Cranks => BooksInv'
<1> SUFFICES ASSUME LifeInv, BooksInv, Cranks PROVE BooksInv'
  OBVIOUS
<1>1. CASE ExecuteApproved
  <2>1. pending.asset \in Assets /\ ProxyAdmin(pending.kind, pending.asset, pending.wire)
    BY <1>1 DEF ExecuteApproved, LifeInv, LifeTypeOK, Instructions
  <2>. QED  BY <2>1, ProxyBooks
<1>2. CASE CloseResolvedPortfolio
  BY <1>2, NoneMoved, DueKept DEF CloseResolvedPortfolio, role_vars, asset_vars, money_vars
<1>3. ASSUME NEW matured \in BOOLEAN, PermissionlessResolve(matured) PROVE BooksInv'
  BY <1>3, NoneMoved, DueKept DEF PermissionlessResolve, Resolve, money_vars
<1>. QED  BY <1>1, <1>2, <1>3, CreationBooks DEF Cranks

\* A gift changes who should own what, never what operators took.
LEMMA GiftHistory ==
  ASSUME HistoryInv, NEW from, NEW to, NEW n \in Int,
         entitled' = Gives(from, to, n), skimmed' = skimmed, kept' = kept
  PROVE  HistoryInv'
<1>1. entitled' \in [Owners -> Int]
  BY Given DEF Gives, HistoryInv
<1>. QED  BY <1>1 DEF HistoryInv

LEMMA SameHistory ==
  ASSUME HistoryInv, entitled' = entitled, skimmed' = skimmed, kept \subseteq kept'
  PROVE  HistoryInv'
BY DEF HistoryInv

\* Under the controller an operator takes its own insurance or, where a donation left
\* it there, governance's.
LEMMA TakingHistory ==
  ASSUME LifeInv, ConstrainedInv, BooksInv, HistoryInv,
         NEW k \in Funders, NEW a \in Assets, TakeInsurance(k, a)
  PROVE  HistoryInv'
<1> DEFINE q == assets[a]
           owner == OwnerOf(q.authority)
           n == q.insurance
<1>1. /\ q.operator = k /\ n > 0 /\ kept' = kept
      /\ stage = "live" \/ q.authority = k
  BY DEF TakeInsurance, InsuranceTakeable, role_vars
<1>2. n \in Int /\ k \in Owners /\ OwnerOf(k) = k /\ k # "governance"
  BY TypesOfBooks, OwnersOfRoles, OutsidersAssumption DEF Funders
<1>3. CASE marketauth # "controller"
  BY <1>1, <1>2, <1>3, GiftHistory DEF TakeInsurance
<1>4. CASE marketauth = "controller"
  <2>1. entitled' = entitled /\ skimmed' = Moved(skimmed, owner, k, n)
    BY <1>4 DEF TakeInsurance
  <2>2. entitled \in [Owners -> Int] /\ skimmed \in [Owners -> Int]
    BY DEF HistoryInv
  <2>3. /\ skimmed' \in [Owners -> Int]
        /\ \A j \in Owners : skimmed'[j] = skimmed[j] - (IF j = owner THEN n ELSE 0)
                                                   + (IF j = k THEN n ELSE 0)
    BY <1>2, <2>1, <2>2, Given
  <2>4. owner = k \/ (owner = "governance" /\ k \in kept)
    <3>1. ~Settled(q)
      BY <1>1 DEF BooksInv, Quiet
    <3>2. Constrained(a, q)
      BY <1>4 DEF ConstrainedInv
    <3>3. q.authority = k \/ (q.authority = "controller" /\ k \in kept)
      BY <1>1, <3>1, <3>2 DEF Constrained, Survived
    <3>. QED  BY <1>2, <3>3, OwnersOfRoles
  <2> HIDE DEF owner, n, q
  <2>5. ASSUME NEW j \in Owners
        PROVE  /\ skimmed'[j] > 0 => j \in kept
               /\ skimmed'[j] < 0 => j = "governance"
    <3>1. /\ skimmed[j] \in Int
          /\ skimmed[j] > 0 => j \in kept
          /\ skimmed[j] < 0 => j = "governance"
      BY <2>2 DEF HistoryInv
    <3>2. skimmed'[j] = skimmed[j] - (IF j = owner THEN n ELSE 0) + (IF j = k THEN n ELSE 0)
      BY <2>3
    <3>3. CASE owner = k
      <4>1. skimmed'[j] = skimmed[j]
        BY <1>2, <3>1, <3>2, <3>3
      <4>. QED  BY <3>1, <4>1
    <3>4. CASE owner = "governance" /\ k \in kept
      <4>1. CASE j = k
        <5>1. skimmed'[j] = skimmed[j] + n
          BY <1>2, <3>1, <3>2, <3>4, <4>1
        <5>2. skimmed[j] >= 0
          BY <1>2, <3>1, <4>1
        <5>. QED  BY <1>1, <1>2, <3>1, <3>4, <4>1, <5>1, <5>2
      <4>2. CASE j = "governance"
        <5>1. skimmed'[j] = skimmed[j] - n
          BY <1>2, <3>1, <3>2, <3>4, <4>2
        <5>. QED  BY <1>1, <1>2, <3>1, <4>2, <5>1
      <4>3. CASE j # k /\ j # "governance"
        <5>1. skimmed'[j] = skimmed[j]
          BY <3>1, <3>2, <3>4, <4>3
        <5>. QED  BY <3>1, <5>1
      <4>. QED  BY <4>1, <4>2, <4>3
    <3>. QED  BY <2>4, <3>3, <3>4
  <2>. QED  BY <1>1, <2>1, <2>2, <2>3, <2>5 DEF HistoryInv
<1>. QED  BY <1>3, <1>4

LEMMA InitHistory == Init => HistoryInv
<1> SUFFICES ASSUME Init PROVE HistoryInv
  OBVIOUS
<1>1. /\ entitled = [k \in Owners |-> IF k \in Purses THEN 1 ELSE 0]
      /\ skimmed = [k \in Owners |-> 0]
  BY DEF Init, StartOf
<1>. QED  BY <1>1 DEF HistoryInv

LEMMA HistoryStep ==
  LifeInv /\ ConstrainedInv /\ BooksInv /\ HistoryInv /\ [Next]_vars => HistoryInv'
<1> SUFFICES ASSUME LifeInv, ConstrainedInv, BooksInv, HistoryInv, [Next]_vars
             PROVE  HistoryInv'
  OBVIOUS
<1> USE SameHistory DEF role_vars, money_vars
<1>i. 1 \in Int
  OBVIOUS
<1>1. CASE UNCHANGED vars
  BY <1>1 DEF vars
<1>2. CASE Returns
  BY <1>2 DEF Returns, ReturnShutdownBacking, ReturnShutdownInsurance,
     ReturnResolvedAssetInsurance, ReturnResolvedAssetBacking, ReturnResolvedAsset0Backing,
     BackingReturned, ReturnUnchanged
<1>3. CASE Users
  <2>1. ASSUME NEW k \in Outsiders, DonateInsurance(k) \/ SendToTransit(k) PROVE HistoryInv'
    BY <1>i, <2>1, GiftHistory DEF DonateInsurance, SendToTransit
  <2>2. ASSUME NEW k \in Funders, NEW a \in Assets, Fund(k, a) PROVE HistoryInv'
    BY <2>2 DEF Fund
  <2>3. ASSUME NEW k \in Outsiders,
               InitMarketDirectly(k) \/ AcceptMarketAuthority(k) \/ AppendAsset(k)
        PROVE  HistoryInv'
    BY <2>3 DEF InitMarketDirectly, FreshSlab, AcceptMarketAuthority, AppendAsset
  <2>4. ASSUME NEW a \in Assets, PayFee(a) PROVE HistoryInv'
    BY <1>i, <2>4, GiftHistory DEF PayFee
  <2>5. ASSUME NEW a \in Assets, OpenPosition(a) \/ ClosePosition(a) PROVE HistoryInv'
    BY <2>5 DEF OpenPosition, ClosePosition
  <2>6. CASE RetireDirectly \/ CloseDirectly \/ ClosePortfolio
    BY <2>6 DEF RetireDirectly, CloseDirectly, ClosePortfolio, SlabGone
  <2>. QED  BY <1>3, <2>1, <2>2, <2>3, <2>4, <2>5, <2>6, TakingHistory DEF Users
<1>4. ASSUME NEW kind, NEW a, NEW wire, ProxyAdmin(kind, a, wire) PROVE HistoryInv'
  BY <1>4 DEF ProxyAdmin
<1>5. CASE Governance
  <2>1. CASE GrantGenesisPool
    <3>1. assets[0].insurance \in Int
      BY TypesOfBooks
    <3>. QED  BY <2>1, <3>1, GiftHistory DEF GrantGenesisPool
  <2>2. ASSUME NEW kind, NEW a, GovernNow(kind, a) \/ Approve(kind, a) PROVE HistoryInv'
    BY <1>4, <2>2 DEF GovernNow, Approve
  <2>3. CASE RestartAsset0 \/ CloseMarketAndReclaim
    BY <2>3 DEF RestartAsset0, CloseMarketAndReclaim, SlabGone
  <2>. QED  BY <1>5, <2>1, <2>2, <2>3 DEF Governance
<1>6. CASE Cranks
  <2>1. CASE InitMarket \/ CloseResolvedPortfolio
    BY <2>1 DEF InitMarket, FreshSlab, CloseResolvedPortfolio
  <2>2. CASE ExecuteApproved
    BY <1>4, <2>2 DEF ExecuteApproved
  <2>3. ASSUME NEW matured, PermissionlessResolve(matured) PROVE HistoryInv'
    BY <2>3 DEF PermissionlessResolve
  <2>. QED  BY <1>6, <2>1, <2>2, <2>3 DEF Cranks
<1>. QED  BY <1>1, <1>2, <1>3, <1>5, <1>6 DEF Next

LEMMA BooksStep ==
  LifeInv /\ BooksInv /\ HistoryInv /\ [Next]_vars => BooksInv'
<1>1. ASSUME UNCHANGED vars, LifeInv, BooksInv PROVE BooksInv'
  BY <1>1, NoneMoved, DueKept DEF vars, role_vars, asset_vars, money_vars
<1>. QED  BY <1>1, UsersBooks, ReturnsBooks, GovernanceBooks, CranksBooks DEF Next

LEMMA BooksHold == Spec => [](BooksInv /\ HistoryInv)
BY InitBooks, InitHistory, BooksStep, HistoryStep, LifeIsOrdered, RolesAreConstrained,
   PTL DEF Spec

LEMMA BooksAreEnough == BooksInv /\ HistoryInv => EveryoneGetsTheirs
BY DEF BooksInv, HistoryInv, Balanced, due, EveryoneGetsTheirs

\* Every owner has, outside the market and inside, what it put in and earned: whatever
\* the order of trading, donations, grants, shutdowns, resolutions and returns, for any
\* number of owners.  What an operator that a donation left in place takes comes from
\* governance alone; without one, nobody has an atom that is another's.
THEOREM NobodyIsPaidForAnother == Spec => []EveryoneGetsTheirs
BY BooksHold, BooksAreEnough, PTL
----------------------------------------------------------------------------
(* Why nothing is left behind in an empty resolved market: backing is only ever *)
(* under an outsider or a custody program, and every admin that the controller  *)
(* meets when it takes a market over, or that it appoints later, is one that     *)
(* signs for the return on demand.                                              *)

\* An asset that is there has a provider of insurance, and money of a backer has one.
Housed(p) ==
  /\ ~Settled(p) => p.authority # "none"
  /\ p.insurance >= 0
  /\ p.backer \in {"controller", "none"} => p.backing = 0 /\ p.earnings = 0

\* The controller can rotate the roles of the asset, or the custody program that holds
\* all of them does.
Governed(a, p) ==
  \/ Settled(p) \/ p.admin = "controller"
  \/ a = 0 /\ p.admin = "custody" /\ p.authority = "custody" /\ p.operator = "custody"

LeaveInv ==
  /\ \A a \in Assets : Housed(assets[a])
  /\ marketauth = "controller" => \A a \in Assets : Governed(a, assets[a])

\* The invariant is enough: what the books say of a settled asset, and an empty
\* market's lack of positions, give the guards.
LEMMA LeaveIsEnough ==
  ASSUME LifeInv, BooksInv, LeaveInv
  PROVE  ResolvedMoneyCanLeave
<1> SUFFICES ASSUME marketauth = "controller", ResolvedAndEmpty, NEW a \in Assets
             PROVE  /\ assets[a].insurance # 0 =>
                         InsuranceReturnable(a) \/ InsuranceTakeable("custody", a)
                    /\ assets[a].backing + assets[a].earnings # 0 => BackingReturnable(a)
  BY DEF ResolvedMoneyCanLeave
<1> DEFINE p == assets[a]
<1>1. p \in AssetProfiles /\ Housed(p) /\ Governed(a, p) /\ Quiet(p)
  BY TypesOfBooks DEF LeaveInv, BooksInv
<1>2. stage = "resolved" /\ a \notin exposed
  BY DEF ResolvedAndEmpty
<1>3. ASSUME p.insurance # 0
      PROVE  InsuranceReturnable(a) \/ InsuranceTakeable("custody", a)
  <2>1. ~Settled(p) /\ p.authority # "none" /\ p.insurance > 0
    BY <1>1, <1>3 DEF Quiet, Housed, AssetProfiles
  <2>2. CASE p.admin = "controller"
    BY <1>3, <2>1, <2>2 DEF InsuranceReturnable
  <2>3. CASE p.authority = "custody" /\ p.operator = "custody"
    BY <1>2, <2>1, <2>3 DEF InsuranceTakeable
  <2>. QED  BY <1>1, <2>1, <2>2, <2>3 DEF Governed
<1>4. ASSUME p.backing + p.earnings # 0
      PROVE  BackingReturnable(a)
  <2>1. ~Settled(p) /\ p.backer \notin {"controller", "none"}
    <3> HIDE DEF p
    <3>. QED  BY <1>1, <1>4 DEF Quiet, Housed
  <2>2. p.admin \in IF a = 0 THEN Asset0Admins ELSE {"controller"}
    BY <1>1, <2>1 DEF Governed, Asset0Admins
  <2>. QED  BY <1>4, <2>1, <2>2 DEF BackingReturnable
<1>. QED  BY <1>3, <1>4

\* A step within a slab that keeps each asset as well housed and as well governed.
LEMMA LeaveKept ==
  ASSUME LeaveInv, marketauth' = marketauth,
         \A a \in Assets : Housed(assets[a]) => Housed(assets'[a]),
         marketauth = "controller" =>
           \A a \in Assets : Governed(a, assets[a]) => Governed(a, assets'[a])
  PROVE  LeaveInv'
BY DEF LeaveInv, Housed, Governed, Settled

LEMMA OneLeft ==
  ASSUME LifeInv, LeaveInv, marketauth' = marketauth,
         NEW a \in Assets, NEW p, assets' = [assets EXCEPT ![a] = p],
         Housed(assets[a]) => Housed(p),
         marketauth = "controller" => (Governed(a, assets[a]) => Governed(a, p))
  PROVE  LeaveInv'
<1>1. \A b \in Assets : assets'[b] = IF b = a THEN p ELSE assets[b]
  BY DEF LifeInv, LifeTypeOK
<1>. QED  BY <1>1, LeaveKept

\* Money moves where the roles stay; what comes under a backer comes under one.
LEMMA MoneyLeft ==
  ASSUME LifeInv, LeaveInv, marketauth' = marketauth,
         NEW a \in Assets, NEW p, assets' = [assets EXCEPT ![a] = p],
         Settled(p) <=> Settled(assets[a]),
         p.admin = assets[a].admin, p.authority = assets[a].authority,
         p.operator = assets[a].operator, p.backer = assets[a].backer,
         p.insurance >= 0,
         p.backer \in {"controller", "none"} =>
           p.backing = assets[a].backing /\ p.earnings = assets[a].earnings
  PROVE  LeaveInv'
<1>1. Housed(assets[a]) => Housed(p)
  BY DEF Housed
<1>2. Governed(a, assets[a]) => Governed(a, p)
  BY DEF Governed
<1>. QED  BY <1>1, <1>2, OneLeft

LEMMA NothingLeft ==
  ASSUME LeaveInv, marketauth' = marketauth, assets' = assets
  PROVE  LeaveInv'
BY LeaveKept

\* New and settled profiles.
LEMMA NewIsHoused ==
  ASSUME NEW id, NEW admin, NEW authority, NEW operator, NEW backer, authority # "none"
  PROVE  LET p == NewAsset(id, admin, authority, operator, backer) IN
         Housed(p) /\ \A a : admin = "controller" => Governed(a, p)
BY DEF NewAsset, Housed, Governed, Settled

LEMMA SettledIsHoused ==
  ASSUME NEW id
  PROVE  /\ Housed(Unconfigured) /\ \A a : Governed(a, Unconfigured)
         /\ LET p == [Unconfigured EXCEPT !.status = "retired", !.id = id] IN
            Housed(p) /\ \A a : Governed(a, p)
BY DEF Unconfigured, Housed, Governed, Settled

LEMMA CreationLeaves ==
  ASSUME LifeInv, InitMarket \/ \E cur \in Outsiders : InitMarketDirectly(cur)
  PROVE  LeaveInv'
<1>1. CASE InitMarket
  <2> DEFINE mine == NewAsset(1, "controller", "controller", "controller", "controller")
  <2>1. Housed(mine) /\ \A a : Governed(a, mine)
    BY NewIsHoused
  <2>2. assets' = [a \in Assets |-> IF a = 0 THEN mine ELSE Unconfigured]
    BY <1>1 DEF InitMarket, FreshSlab
  <2> HIDE DEF mine
  <2>. QED  BY <2>1, <2>2, SettledIsHoused DEF LeaveInv
<1>2. ASSUME NEW cur \in Outsiders, InitMarketDirectly(cur)
      PROVE  LeaveInv'
  <2>1. PICK to \in Outsiders \cup {"custody"}, given \in Delegations,
             fee \in BOOLEAN, second \in BOOLEAN :
          FreshSlab(cur, fee, CreatorsAsset(cur, to, given),
            IF second THEN NewAsset(2, cur, cur, cur, cur) ELSE Unconfigured,
            IF second THEN 3 ELSE 2)
    BY <1>2 DEF InitMarketDirectly
  <2> DEFINE a0 == CreatorsAsset(cur, to, given)
             a1 == IF second THEN NewAsset(2, cur, cur, cur, cur) ELSE Unconfigured
  <2>2. to # "none" /\ cur # "none" /\ cur # "controller"
    BY OutsidersAreOthers
  <2>3. Housed(a0)
    BY <2>2, NewIsHoused DEF CreatorsAsset
  <2>4. Housed(a1)
    BY <2>2, NewIsHoused, SettledIsHoused
  <2>5. assets' = [a \in Assets |-> IF a = 0 THEN a0 ELSE a1] /\ marketauth' = cur
    BY <2>1 DEF FreshSlab
  <2> HIDE DEF a0, a1
  <2>. QED  BY <2>2, <2>3, <2>4, <2>5 DEF LeaveInv
<1>. QED  BY <1>1, <1>2

\* The donation is refused unless the admin that stays is a program that signs.
LEMMA DonationLeaves ==
  ASSUME LifeInv, LeaveInv, NEW cur \in Outsiders, AcceptMarketAuthority(cur)
  PROVE  LeaveInv'
<1> DEFINE q == assets[0]
           p == Migrated(q, cur)
<1>1. /\ assets \in [Assets -> AssetProfiles] /\ 0 \in Assets /\ 1 \in Assets
      /\ q \in AssetProfiles /\ Housed(q) /\ Housed(assets[1])
  BY DEF LifeInv, LifeTypeOK, Assets, LeaveInv
<1>2. assets' = [assets EXCEPT ![0] = p] /\ InsuranceMayMove(q, cur) /\ Settled(assets[1])
  BY DEF AcceptMarketAuthority, SecondariesSettled, AllSecondaryAssetsRetired, Settled
<1>3. assets'[0] = p /\ assets'[1] = assets[1]
  BY <1>1, <1>2
<1> HIDE DEF q
<1>4. /\ p.insurance = q.insurance /\ p.backing = q.backing /\ p.earnings = q.earnings
      /\ p.status = q.status /\ p.backer = q.backer
      /\ p.authority = (IF q.authority = cur THEN "controller" ELSE q.authority)
      /\ p.operator = (IF q.operator = cur THEN "controller" ELSE q.operator)
      /\ p.admin = (IF q.admin = cur THEN "controller" ELSE q.admin)
  BY <1>1 DEF Migrated, AssetProfiles
<1> HIDE DEF p
<1>5. Housed(p)
  BY <1>1, <1>4 DEF Housed, Settled
<1>6. Governed(0, p)
  <2>1. CASE q.admin \in {cur, "controller"}
    BY <1>4, <2>1 DEF Governed
  <2>2. CASE q.admin \notin {cur, "controller"}
    BY <1>2, <1>4, <2>2, OutsidersAreOthers DEF Governed, InsuranceMayMove
  <2>. QED  BY <2>1, <2>2
<1>. QED  BY <1>1, <1>2, <1>3, <1>5, <1>6 DEF LeaveInv, Governed, Assets

LEMMA RestartLeaves ==
  ASSUME LifeInv, LeaveInv, NEW a \in Assets, NEW admin, Restarted(a, admin),
         marketauth' = marketauth
  PROVE  LeaveInv'
<1> DEFINE q == assets[a]
           p1 == [q EXCEPT !.status = "active"]
           p == [p1 EXCEPT !.id = next_id]
<1>1. /\ assets \in [Assets -> AssetProfiles] /\ q \in AssetProfiles /\ Housed(q)
      /\ assets' = [[assets EXCEPT ![a] = p1] EXCEPT ![a] = p] /\ q.status = "shutdown"
      /\ next_id \in Nat
  BY DEF LifeInv, LifeTypeOK, LeaveInv, Restarted
<1> HIDE DEF q
<1>2. /\ p1 \in AssetProfiles /\ p1.status = "active" /\ p1.admin = q.admin
      /\ p1.authority = q.authority /\ p1.operator = q.operator /\ p1.backer = q.backer
      /\ p1.insurance = q.insurance /\ p1.backing = q.backing /\ p1.earnings = q.earnings
  BY <1>1 DEF AssetProfiles
<1> HIDE DEF p1
<1>3. /\ p \in AssetProfiles /\ p.status = "active" /\ p.admin = q.admin
      /\ p.authority = q.authority /\ p.operator = q.operator /\ p.backer = q.backer
      /\ p.insurance = q.insurance /\ p.backing = q.backing /\ p.earnings = q.earnings
  BY <1>1, <1>2 DEF AssetProfiles
<1> HIDE DEF p
<1>4. assets' = [assets EXCEPT ![a] = p]
  BY <1>1, <1>2, <1>3, ReplacedTwice
<1>5. p.insurance >= 0 /\ ~Settled(p) /\ ~Settled(q)
  BY <1>1, <1>3 DEF Housed, Settled
<1>. QED  BY <1>3, <1>4, <1>5, MoneyLeft DEF q

LEMMA ProxyLeaves ==
  ASSUME LifeInv, LeaveInv, NEW kind, NEW a \in Assets, NEW wire, ProxyAdmin(kind, a, wire)
  PROVE  LeaveInv'
<1>t. assets \in [Assets -> AssetProfiles] /\ assets[a] \in AssetProfiles /\ Housed(assets[a])
  BY DEF LifeInv, LifeTypeOK, LeaveInv
<1>1. marketauth' = marketauth
  BY DEF ProxyAdmin
<1>2. CASE assets' = assets
  BY <1>1, <1>2, NothingLeft
<1>3. CASE Activate(a)
  <2>1. PICK backer \in Outsiders :
          assets' = [assets EXCEPT ![a] =
                       NewAsset(next_id, "controller", "controller", "controller", backer)]
    BY <1>3 DEF Activate, ActivationRoles
  <2> DEFINE p == NewAsset(next_id, "controller", "controller", "controller", backer)
  <2>2. Housed(p) /\ Governed(a, p)
    BY NewIsHoused
  <2>3. assets' = [assets EXCEPT ![a] = p]
    BY <2>1
  <2> HIDE DEF p
  <2>. QED  BY <1>1, <2>2, <2>3, OneLeft
<1>4. CASE Retire(a)
  <2> DEFINE p == [Unconfigured EXCEPT !.status = "retired", !.id = assets[a].id]
  <2>1. assets' = [assets EXCEPT ![a] = p]
    BY <1>4 DEF Retire
  <2>2. Housed(p) /\ Governed(a, p)
    BY SettledIsHoused
  <2> HIDE DEF p
  <2>. QED  BY <1>1, <2>1, <2>2, OneLeft
<1>5. CASE Shutdown(a)
  <2> DEFINE q == assets[a]
             p == [q EXCEPT !.status = "shutdown"]
  <2>1. assets' = [assets EXCEPT ![a] = p] /\ q.status = "active"
    BY <1>5 DEF Shutdown
  <2>2. /\ p.status = "shutdown" /\ p.admin = q.admin
        /\ p.authority = q.authority /\ p.operator = q.operator /\ p.backer = q.backer
        /\ p.insurance = q.insurance /\ p.backing = q.backing /\ p.earnings = q.earnings
    <3> HIDE DEF q
    <3>. QED  BY <1>t DEF AssetProfiles, q
  <2> HIDE DEF p
  <2>3. p.insurance >= 0 /\ ~Settled(p) /\ ~Settled(q)
    BY <1>t, <2>1, <2>2 DEF Housed, Settled
  <2>. QED  BY <1>1, <2>1, <2>2, <2>3, MoneyLeft
<1>6. CASE Restart(a)
  BY <1>1, <1>6, RestartLeaves DEF Restart
<1>7. kind # "resolve" => AssetInstruction(kind, a)
  BY DEF ProxyAdmin
<1>8. kind = "resolve" => assets' = assets
  BY DEF ProxyAdmin, Resolve
<1>. QED
  BY <1>2, <1>3, <1>4, <1>5, <1>6, <1>7, <1>8 DEF AssetInstruction, Configure

LEMMA UsersLeave == LifeInv /\ ConstrainedInv /\ LeaveInv /\ Users => LeaveInv'
<1> SUFFICES ASSUME LifeInv, ConstrainedInv, LeaveInv, Users PROVE LeaveInv'
  OBVIOUS
<1> USE DEF role_vars, asset_vars
<1>t. /\ assets \in [Assets -> AssetProfiles] /\ 0 \in Assets /\ 1 \in Assets
      /\ \A a \in Assets : assets[a] \in AssetProfiles /\ Housed(assets[a])
  BY DEF LifeInv, LifeTypeOK, Assets, LeaveInv
\* One balance of one asset, for a holder of the role it is under.
<1>i. ASSUME NEW a \in Assets, NEW n \in Nat, marketauth' = marketauth,
             assets' = [assets EXCEPT ![a] = [assets[a] EXCEPT !.insurance = n]]
      PROVE  LeaveInv'
  <2> DEFINE q == assets[a]
             p == [q EXCEPT !.insurance = n]
  <2>1. q \in AssetProfiles /\ assets' = [assets EXCEPT ![a] = p]
    BY <1>t, <1>i
  <2> HIDE DEF q
  <2>2. /\ p.status = q.status /\ p.admin = q.admin /\ p.authority = q.authority
        /\ p.operator = q.operator /\ p.backer = q.backer
        /\ p.insurance = n /\ p.backing = q.backing /\ p.earnings = q.earnings
    BY <2>1 DEF AssetProfiles
  <2> HIDE DEF p
  <2>3. (Settled(p) <=> Settled(q)) /\ p.insurance >= 0
    BY <2>2 DEF Settled
  <2>. QED  BY <1>i, <2>1, <2>2, <2>3, MoneyLeft DEF q
<1>b. ASSUME NEW a \in Assets, NEW n \in Int, NEW m \in Int, marketauth' = marketauth,
             assets[a].backer \notin {"controller", "none"},
             \/ assets' = [assets EXCEPT ![a] = [assets[a] EXCEPT !.backing = n]]
             \/ assets' = [assets EXCEPT ![a] = [assets[a] EXCEPT !.earnings = m]]
      PROVE  LeaveInv'
  <2>1. PICK p : /\ assets' = [assets EXCEPT ![a] = p]
                 /\ \/ p = [assets[a] EXCEPT !.backing = n]
                    \/ p = [assets[a] EXCEPT !.earnings = m]
    BY <1>b
  <2> DEFINE q == assets[a]
  <2>2. q \in AssetProfiles /\ Housed(q)
    BY <1>t
  <2>3. p = [q EXCEPT !.backing = n] \/ p = [q EXCEPT !.earnings = m]
    BY <2>1
  <2> HIDE DEF q
  <2>4. /\ p.status = q.status /\ p.admin = q.admin /\ p.authority = q.authority
        /\ p.operator = q.operator /\ p.backer = q.backer /\ p.insurance = q.insurance
    BY <2>2, <2>3 DEF AssetProfiles
  <2>5. p.insurance >= 0
    BY <2>2, <2>4 DEF Housed
  <2>. QED  BY <1>b, <2>1, <2>4, <2>5, MoneyLeft DEF Settled, q
<1>m. \A a \in Assets : /\ assets[a].insurance \in Nat
                        /\ assets[a].backing \in Int /\ assets[a].earnings \in Int
  BY <1>t DEF AssetProfiles, Housed
<1>1. ASSUME assets' = assets, UNCHANGED role_vars PROVE LeaveInv'
  BY <1>1, NothingLeft
<1>2. ASSUME NEW k \in Outsiders, DonateInsurance(k) PROVE LeaveInv'
  <2>1. assets[0].insurance + 1 \in Nat
    BY <1>t, <1>m
  <2>2. /\ assets' = [assets EXCEPT ![0] = [assets[0] EXCEPT !.insurance = assets[0].insurance + 1]]
        /\ marketauth' = marketauth
    BY <1>2 DEF DonateInsurance
  <2>. QED  BY <1>t, <1>i, <2>1, <2>2
<1>3. ASSUME NEW k \in Funders, NEW a \in Assets, Fund(k, a) PROVE LeaveInv'
  <2>1. /\ assets[a].insurance + 1 \in Nat /\ assets[a].backing + 1 \in Int
        /\ marketauth' = marketauth
    BY <1>m, <1>3 DEF Fund
  <2>2. CASE assets' = [assets EXCEPT ![a].insurance = @ + 1]
    BY <1>i, <2>1, <2>2
  <2>3. CASE assets[a].backer = k /\ assets' = [assets EXCEPT ![a].backing = @ + 1]
    <3>1. k \notin {"controller", "none"}
      BY OutsidersAreOthers DEF Funders
    <3>. QED  BY <1>b, <2>1, <2>3, <3>1
  <2>. QED  BY <1>3, <2>2, <2>3 DEF Fund
<1>4. ASSUME NEW k \in Funders, NEW a \in Assets, TakeInsurance(k, a) PROVE LeaveInv'
  <2>1. /\ assets' = [assets EXCEPT ![a] = [assets[a] EXCEPT !.insurance = 0]]
        /\ marketauth' = marketauth
    BY <1>4 DEF TakeInsurance
  <2>. QED  BY <1>i, <2>1
<1>5. ASSUME NEW k \in Outsiders, AppendAsset(k) PROVE LeaveInv'
  <2> DEFINE p == NewAsset(next_id, k, k, k, k)
  <2>1. marketauth' = marketauth /\ marketauth # "controller"
    BY <1>5 DEF AppendAsset, ConstrainedInv
  <2>2. assets' = [assets EXCEPT ![1] = p] /\ Housed(p)
    BY <1>5, NewIsHoused, OutsidersAreOthers DEF AppendAsset
  <2> HIDE DEF p
  <2>. QED  BY <1>t, <2>1, <2>2, OneLeft
<1>6. ASSUME NEW a \in Assets, PayFee(a) PROVE LeaveInv'
  <2>1. /\ assets[a].insurance + 1 \in Nat /\ assets[a].earnings + 1 \in Int
        /\ marketauth' = marketauth
    BY <1>m, <1>6 DEF PayFee
  <2>2. CASE assets' = [assets EXCEPT ![a].insurance = @ + 1]
    BY <1>i, <2>1, <2>2
  <2>3. CASE assets[a].backing > 0 /\ assets' = [assets EXCEPT ![a].earnings = @ + 1]
    <3>1. assets[a].backer \notin {"controller", "none"}
      BY <1>t, <2>3 DEF Housed
    <3>. QED  BY <1>b, <1>m, <2>1, <2>3, <3>1
  <2>. QED  BY <1>6, <2>2, <2>3 DEF PayFee
<1>7. ASSUME RetireDirectly PROVE LeaveInv'
  <2> DEFINE p == [Unconfigured EXCEPT !.status = "retired", !.id = assets[1].id]
  <2>1. marketauth' = marketauth /\ assets' = [assets EXCEPT ![1] = p]
    BY <1>7 DEF RetireDirectly, Retire
  <2>2. Housed(p) /\ Governed(1, p)
    BY SettledIsHoused
  <2> HIDE DEF p
  <2>. QED  BY <1>t, <2>1, <2>2, OneLeft
<1>8. ASSUME CloseDirectly PROVE LeaveInv'
  BY <1>8, SettledIsHoused DEF CloseDirectly, SlabGone, LeaveInv
<1>9. ASSUME NEW k \in Outsiders, SendToTransit(k) PROVE LeaveInv'
  BY <1>9, <1>1 DEF SendToTransit
<1>10. ASSUME NEW a \in Assets, OpenPosition(a) \/ ClosePosition(a) PROVE LeaveInv'
  BY <1>10, <1>1 DEF OpenPosition, ClosePosition
<1>11. ASSUME ClosePortfolio PROVE LeaveInv'
  BY <1>11, <1>1 DEF ClosePortfolio
<1>. QED
  BY <1>2, <1>3, <1>4, <1>5, <1>6, <1>7, <1>8, <1>9, <1>10, <1>11,
     CreationLeaves, DonationLeaves DEF Users

LEMMA ReturnsLeave == LifeInv /\ LeaveInv /\ Returns => LeaveInv'
<1> SUFFICES ASSUME LifeInv, LeaveInv, Returns PROVE LeaveInv'
  OBVIOUS
<1> USE DEF role_vars, ReturnUnchanged
<1>t. /\ assets \in [Assets -> AssetProfiles]
      /\ \A a \in Assets : assets[a] \in AssetProfiles /\ Housed(assets[a])
  BY DEF LifeInv, LifeTypeOK, LeaveInv
<1>1. ASSUME NEW a \in Assets, NEW matured \in BOOLEAN, ReturnShutdownBacking(a, matured)
      PROVE  LeaveInv'
  <2>1. PICK principal \in 0..assets[a].backing, earnings \in 0..assets[a].earnings :
          assets' = [assets EXCEPT ![a].backing = @ - principal, ![a].earnings = @ - earnings]
    BY <1>1 DEF ReturnShutdownBacking
  <2> DEFINE q == assets[a]
             p1 == [q EXCEPT !.backing = q.backing - principal]
             p == [p1 EXCEPT !.earnings = q.earnings - earnings]
  <2>2. /\ marketauth' = marketauth /\ q.backer \notin {"controller", "none"}
        /\ q \in AssetProfiles /\ Housed(q)
    BY <1>1, <1>t DEF ReturnShutdownBacking
  <2>3. \A b \in Assets : assets'[b] = IF b = a THEN p ELSE assets[b]
    BY <1>t, <2>1, <2>2 DEF AssetProfiles
  <2> HIDE DEF q
  <2>4. /\ p.status = q.status /\ p.admin = q.admin /\ p.authority = q.authority
        /\ p.operator = q.operator /\ p.backer = q.backer /\ p.insurance = q.insurance
    BY <2>2 DEF AssetProfiles
  <2> HIDE DEF p, p1
  <2>5. Housed(p) /\ (Governed(a, q) => Governed(a, p))
    BY <2>2, <2>4 DEF Housed, Governed, Settled
  <2>. QED  BY <2>2, <2>3, <2>5, LeaveKept DEF q
<1>2. ASSUME NEW a \in Assets, NEW matured \in BOOLEAN, ReturnShutdownInsurance(a, matured)
      PROVE  LeaveInv'
  <2> DEFINE q == assets[a]
             p == [q EXCEPT !.insurance = 0]
  <2>1. /\ assets' = [assets EXCEPT ![a] = p] /\ marketauth' = marketauth
        /\ q \in AssetProfiles
    BY <1>2, <1>t DEF ReturnShutdownInsurance
  <2> HIDE DEF q
  <2>2. /\ p.status = q.status /\ p.admin = q.admin /\ p.authority = q.authority
        /\ p.operator = q.operator /\ p.backer = q.backer
        /\ p.insurance = 0 /\ p.backing = q.backing /\ p.earnings = q.earnings
    BY <2>1 DEF AssetProfiles
  <2> HIDE DEF p
  <2>3. (Settled(p) <=> Settled(q)) /\ p.insurance >= 0
    BY <2>2 DEF Settled
  <2>. QED  BY <2>1, <2>2, <2>3, MoneyLeft DEF q
<1>3. ASSUME NEW a \in Assets, ReturnResolvedAssetInsurance(a) PROVE LeaveInv'
  <2> DEFINE q == assets[a]
             p1 == [q EXCEPT !.insurance = 0]
             p == [p1 EXCEPT !.authority = "controller"]
  <2>1. /\ assets' = [[assets EXCEPT ![a] = p1] EXCEPT ![a] = p] /\ marketauth' = marketauth
        /\ q \in AssetProfiles /\ Housed(q)
        /\ q.authority = "controller" \/ q.admin = "controller"
    BY <1>3, <1>t DEF ReturnResolvedAssetInsurance, InsuranceReturnable
  <2> HIDE DEF q
  <2>2. /\ p1 \in AssetProfiles /\ p \in AssetProfiles
        /\ p.status = q.status /\ p.admin = q.admin /\ p.authority = "controller"
        /\ p.operator = q.operator /\ p.backer = q.backer
        /\ p.insurance = 0 /\ p.backing = q.backing /\ p.earnings = q.earnings
    <3>1. /\ p1 \in AssetProfiles /\ p1.status = q.status /\ p1.admin = q.admin
          /\ p1.operator = q.operator /\ p1.backer = q.backer
          /\ p1.insurance = 0 /\ p1.backing = q.backing /\ p1.earnings = q.earnings
      BY <2>1 DEF AssetProfiles
    <3> HIDE DEF p1
    <3>2. /\ p \in AssetProfiles /\ p.status = p1.status /\ p.admin = p1.admin
          /\ p.operator = p1.operator /\ p.backer = p1.backer /\ p.authority = "controller"
          /\ p.insurance = p1.insurance /\ p.backing = p1.backing /\ p.earnings = p1.earnings
      BY <3>1 DEF AssetProfiles, Roles
    <3> HIDE DEF p
    <3>. QED  BY <3>1, <3>2
  <2> HIDE DEF p, p1
  <2>3. assets' = [assets EXCEPT ![a] = p]
    BY <1>t, <2>1, <2>2, ReplacedTwice
  <2>4. Housed(p)
    BY <2>1, <2>2 DEF Housed
  <2>5. Governed(a, q) => Governed(a, p)
    BY <2>1, <2>2 DEF Governed, Settled
  <2>. QED  BY <2>1, <2>3, <2>4, <2>5, OneLeft DEF q
<1>4. ASSUME NEW a \in Assets, BackingReturned(a) PROVE LeaveInv'
  <2> DEFINE q == assets[a]
             p == [q EXCEPT !.backing = 0, !.earnings = 0, !.backer = "controller"]
  <2>1. /\ \A b \in Assets : assets'[b] = IF b = a THEN p ELSE assets[b]
        /\ marketauth' = marketauth /\ q \in AssetProfiles /\ Housed(q)
    BY <1>4, <1>t DEF BackingReturned, AssetProfiles
  <2> HIDE DEF q
  <2>2. /\ p.status = q.status /\ p.admin = q.admin /\ p.authority = q.authority
        /\ p.operator = q.operator /\ p.insurance = q.insurance
        /\ p.backing = 0 /\ p.earnings = 0
    BY <2>1 DEF AssetProfiles
  <2> HIDE DEF p
  <2>3. Housed(p) /\ (Governed(a, q) => Governed(a, p))
    BY <2>1, <2>2 DEF Housed, Governed, Settled
  <2>. QED  BY <2>1, <2>3, LeaveKept DEF q
<1>. QED
  BY <1>1, <1>2, <1>3, <1>4
     DEF Returns, ReturnResolvedAssetBacking, ReturnResolvedAsset0Backing, Assets

LEMMA GovernanceLeaves == LifeInv /\ LeaveInv /\ Governance => LeaveInv'
<1> SUFFICES ASSUME LifeInv, LeaveInv, Governance PROVE LeaveInv'
  OBVIOUS
<1> USE DEF role_vars, asset_vars
<1>t. assets \in [Assets -> AssetProfiles] /\ 0 \in Assets /\ assets[0] \in AssetProfiles
      /\ Housed(assets[0])
  BY DEF LifeInv, LifeTypeOK, Assets, LeaveInv
<1>1. ASSUME NEW kind, NEW a \in Assets, GovernNow(kind, a) PROVE LeaveInv'
  BY <1>1, ProxyLeaves DEF GovernNow
<1>2. ASSUME NEW kind, NEW a \in Assets, Approve(kind, a) PROVE LeaveInv'
  BY <1>2, NothingLeft DEF Approve
<1>3. CASE RestartAsset0
  BY <1>3, <1>t, RestartLeaves DEF RestartAsset0
<1>4. CASE GrantGenesisPool
  <2> DEFINE q == assets[0]
             p == [q EXCEPT !.authority = "custody", !.operator = "custody", !.admin = "custody"]
  <2>1. assets' = [assets EXCEPT ![0] = p] /\ marketauth' = marketauth
    BY <1>4 DEF GrantGenesisPool
  <2>2. q \in AssetProfiles /\ Housed(q)
    BY <1>t
  <2> HIDE DEF q
  <2>3. /\ p.status = q.status /\ p.backer = q.backer /\ p.insurance = q.insurance
        /\ p.backing = q.backing /\ p.earnings = q.earnings
        /\ p.admin = "custody" /\ p.authority = "custody" /\ p.operator = "custody"
    BY <2>2 DEF AssetProfiles
  <2> HIDE DEF p
  <2>4. Housed(p) /\ Governed(0, p)
    BY <2>2, <2>3 DEF Housed, Governed
  <2>. QED  BY <1>t, <2>1, <2>4, OneLeft
<1>5. CASE CloseMarketAndReclaim
  BY <1>5, SettledIsHoused DEF CloseMarketAndReclaim, SlabGone, LeaveInv
<1>. QED  BY <1>1, <1>2, <1>3, <1>4, <1>5 DEF Governance

LEMMA CranksLeave == LifeInv /\ LeaveInv /\ Cranks => LeaveInv'
<1> SUFFICES ASSUME LifeInv, LeaveInv, Cranks PROVE LeaveInv'
  OBVIOUS
<1>1. CASE ExecuteApproved
  <2>1. pending.asset \in Assets /\ ProxyAdmin(pending.kind, pending.asset, pending.wire)
    BY <1>1 DEF ExecuteApproved, LifeInv, LifeTypeOK, Instructions
  <2>. QED  BY <2>1, ProxyLeaves
<1>2. CASE CloseResolvedPortfolio
  BY <1>2, NothingLeft DEF CloseResolvedPortfolio, role_vars, asset_vars
<1>3. ASSUME NEW matured \in BOOLEAN, PermissionlessResolve(matured) PROVE LeaveInv'
  BY <1>3, NothingLeft DEF PermissionlessResolve, Resolve
<1>. QED  BY <1>1, <1>2, <1>3, CreationLeaves DEF Cranks

LEMMA InitLeaves == Init => LeaveInv
<1>1. ASSUME assets = [a \in Assets |-> Unconfigured] PROVE LeaveInv
  BY <1>1, SettledIsHoused DEF LeaveInv
<1>2. ASSUME NEW k \in Outsiders,
             assets = [a \in Assets |->
               IF a = 0 THEN NewAsset(1, "controller", "controller", "controller", k)
               ELSE NewAsset(2, "controller", k, k, k)]
      PROVE  LeaveInv
  <2> DEFINE a0 == NewAsset(1, "controller", "controller", "controller", k)
             a1 == NewAsset(2, "controller", k, k, k)
  <2>1. Housed(a0) /\ Housed(a1) /\ \A a : Governed(a, a0) /\ Governed(a, a1)
    BY NewIsHoused, OutsidersAreOthers
  <2>2. assets = [a \in Assets |-> IF a = 0 THEN a0 ELSE a1]
    BY <1>2
  <2> HIDE DEF a0, a1
  <2>. QED  BY <2>1, <2>2 DEF LeaveInv
<1>. QED  BY <1>1, <1>2 DEF Init, StartOf

\* Every balance of an empty resolved market under the controller has a public step that
\* takes it out, whoever created, donated, funded, granted or restarted what before, and
\* however many outsiders there are.
THEOREM NothingIsLeftBehind == Spec => []ResolvedMoneyCanLeave
<1>1. LifeInv /\ ConstrainedInv /\ LeaveInv /\ [Next]_vars => LeaveInv'
  <2>1. ASSUME UNCHANGED vars, LeaveInv PROVE LeaveInv'
    BY <2>1, NothingLeft DEF vars, role_vars, asset_vars
  <2>. QED  BY <2>1, UsersLeave, ReturnsLeave, GovernanceLeaves, CranksLeave DEF Next
<1>2. LifeInv /\ BooksInv /\ LeaveInv => ResolvedMoneyCanLeave
  BY LeaveIsEnough
<1>. QED
  BY <1>1, <1>2, InitLeaves, LifeIsOrdered, RolesAreConstrained, BooksHold, PTL DEF Spec
=============================================================================
