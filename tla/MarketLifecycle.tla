--------------------------- MODULE MarketLifecycle ---------------------------
(***************************************************************************)
(* One market key under the market controller, a PDA that signs for         *)
(* Percolator's marketauth: the slab is created by the controller or donated *)
(* to it, governance runs the lifecycle of its assets through a proxy that   *)
(* binds every instruction to the asset generation it was approved for, the  *)
(* money of every provider is returned once an asset is shut down or the     *)
(* market is resolved, and closing the empty slab retires the key for good.  *)
(* The functions are those of market-controller/src/lib.rs; what Percolator  *)
(* does with an instruction is modelled from how that file uses it.          *)
(***************************************************************************)
EXTENDS Integers

CONSTANTS
  Outsiders,        \* keys that may create markets, hold roles and provide money
  Purses,           \* the owners that have a token at first
  Kinds,            \* the proxied instructions that governance may leave pending
  MaxId,            \* bound: market ids a slab hands out
  MaxSlab           \* bound: slabs ever created at the key

ASSUME OutsidersAssumption ==
  /\ Outsiders \cap {"controller", "custody", "governance", "traders", "none"} = {}
  /\ MaxId \in Nat /\ MaxSlab \in Nat

Assets == {0, 1}                        \* asset 0, and one secondary asset
Funders == Outsiders \cup {"custody"}   \* custody: the pool's or the TWAP's PDA
Owners == Funders \cup {"governance", "traders"}

VARIABLES
  stage,        \* "absent", "live" or "resolved"
  marketauth,   \* Percolator's market authority
  init_fee,     \* permissionless_market_init_fee # 0: anybody may append assets
  assets,       \* the asset profiles and the balances attributed to them
  next_id,      \* the market id Percolator gives to the next asset generation
  portfolio,    \* a portfolio is materialized
  exposed,      \* the assets with an open position or unrealised loss
  marker,       \* the retired-market marker exists
  transit,      \* stray tokens in the controller's token account
  pending,      \* a proxied instruction approved and not executed yet
  slab,         \* history: how many slabs the key has had
  kept,         \* history: outside operators that a donation left in place
  wallet,       \* tokens outside of the market
  entitled,     \* history: what everybody should own, inside and outside
  skimmed       \* history: what operators took of insurance that is not theirs

asset_vars == <<assets, next_id>>
trade_vars == <<portfolio, exposed>>
role_vars == <<stage, marketauth, init_fee, marker, slab, kept>>
money_vars == <<wallet, entitled, skimmed, transit>>
vars == <<role_vars, asset_vars, trade_vars, money_vars, pending>>

NoInstruction == [kind |-> "none"]
NoWitness == 0 - 1

Unconfigured ==
  [status |-> "unconfigured", id |-> 0, admin |-> "none", authority |-> "none",
   operator |-> "none", backer |-> "none", insurance |-> 0, backing |-> 0, earnings |-> 0]

NewAsset(id, admin, authority, operator, backer) ==
  [status |-> "active", id |-> id, admin |-> admin, authority |-> authority,
   operator |-> operator, backer |-> backer, insurance |-> 0, backing |-> 0, earnings |-> 0]

\* Who the money under a role belongs to: the controller's is governance's.
OwnerOf(role) == IF role = "controller" THEN "governance" ELSE role

HeldIn(a, k) ==
  (IF OwnerOf(assets[a].authority) = k THEN assets[a].insurance ELSE 0)
  + (IF OwnerOf(assets[a].backer) = k THEN assets[a].backing + assets[a].earnings ELSE 0)

\* Everything the market and the controller keep for k.
Held(k) == HeldIn(0, k) + HeldIn(1, k) + (IF k = "governance" THEN transit ELSE 0)

AssetEmpty(a) ==
  assets[a].insurance = 0 /\ assets[a].backing = 0 /\ assets[a].earnings = 0

\* all_secondary_assets_retired
AllSecondaryAssetsRetired == assets[1].status \in {"unconfigured", "retired"}

\* market_is_resolved_and_empty
ResolvedAndEmpty == stage = "resolved" /\ ~portfolio /\ exposed = {}

Credit(f, k, n) == [f EXCEPT ![k] = @ + n]

Moved(f, from, to, n) == Credit(Credit(f, from, 0 - n), to, n)

\* A payment that changes who is entitled to the money.
Gives(from, to, n) == Moved(entitled, from, to, n)

----------------------------------------------------------------------------
(* Creation, donation and retirement of the key. *)

FreshSlab(auth, fee, a0, a1, id) ==
  /\ stage = "absent"
  /\ slab < MaxSlab
  /\ stage' = "live" /\ marketauth' = auth /\ init_fee' = fee
  /\ assets' = [a \in Assets |-> IF a = 0 THEN a0 ELSE a1]
  /\ next_id' = id
  /\ slab' = slab + 1
  /\ UNCHANGED <<marker, kept, trade_vars, money_vars, pending>>

\* Mutant: a retired key is taken back.
KeyIsFresh_Ignored == TRUE

\* retired_market_marker_state must not find the marker.
KeyIsFresh == ~marker

\* init_market: anybody creates a market that the controller owns.
InitMarket ==
  /\ KeyIsFresh
  /\ FreshSlab("controller", FALSE,
       NewAsset(1, "controller", "controller", "controller", "controller"),
       Unconfigured, 2)

\* The roles of asset 0 that a creator gives away.
Delegations ==
  {{}, {"admin"}, {"operator"}, {"authority", "operator"}, {"backer"},
   {"admin", "authority", "operator"}}

CreatorsAsset(cur, to, given) ==
  LET holder(role) == IF role \in given THEN to ELSE cur IN
  NewAsset(1, holder("admin"), holder("authority"), holder("operator"), holder("backer"))

\* A creator makes the market with Percolator itself, gives roles away, and
\* may have a second asset or leave appending open; the key may be a retired one.
InitMarketDirectly(cur) ==
  \E to \in Outsiders \cup {"custody"}, given \in Delegations, fee, second \in BOOLEAN :
    /\ to = "custody" => given = {"admin", "authority", "operator"}
    /\ to = cur <=> given = {}
    /\ ~(fee /\ second)
    /\ slab > 0 => given = {} /\ ~fee /\ ~second      \* bound: later slabs are plain
    /\ FreshSlab(cur, fee, CreatorsAsset(cur, to, given),
         IF second THEN NewAsset(2, cur, cur, cur, cur) ELSE Unconfigured,
         IF second THEN 3 ELSE 2)

\* Mutant: only funded insurance is looked at.
InsuranceMayMove_FundedOnly(a0, cur) ==
  a0.insurance = 0 \/ (a0.authority # cur /\ a0.authority = a0.operator)

\* accept_market_authority on the insurance roles of asset 0: nobody keeps a key
\* to fees paid later but the controller and a custody PDA of this repository
\* (validate_constrained_custody_admin).
InsuranceMayMove(a0, cur) ==
  /\ a0.insurance # 0 \/ a0.authority # cur => a0.authority = a0.operator
  /\ ~(a0.insurance # 0 /\ a0.authority = cur)
  /\ IF a0.admin \notin {cur, "controller"}
     THEN a0.admin = "custody" /\ a0.authority = "custody" /\ a0.operator = "custody"
     ELSE a0.authority \in {cur, "controller"}

\* Mutant: secondary assets are not looked at.
SecondariesSettled_Ignored == ~init_fee

\* No secondary asset keeps an admin of its own, and none can be appended.
SecondariesSettled == AllSecondaryAssetsRetired /\ ~init_fee

\* Mutant: the backing role is left where UpdateAuthority moves it.
Migrated_WithBacking(a0, cur) ==
  LET moved(role) == IF role = cur THEN "controller" ELSE role IN
  [a0 EXCEPT !.admin = moved(@), !.authority = moved(@), !.operator = moved(@),
             !.backer = moved(@)]

\* Percolator's UpdateAuthority moves every asset-0 role of the outgoing key; the
\* backing role is then restored to it.
Migrated(a0, cur) ==
  LET moved(role) == IF role = cur THEN "controller" ELSE role IN
  [a0 EXCEPT !.admin = moved(@), !.authority = moved(@), !.operator = moved(@)]

\* The operator that is left beside an authority that moves: the operator role of
\* empty insurance is not looked at when its authority is the outgoing key.
Survivors(a0, cur) ==
  IF a0.authority = cur THEN {a0.operator} \ {cur, "controller"} ELSE {}

\* accept_market_authority: a creator donates its market to the controller.
AcceptMarketAuthority(cur) ==
  /\ stage # "absent"
  /\ marketauth = cur
  /\ KeyIsFresh
  /\ SecondariesSettled
  /\ InsuranceMayMove(assets[0], cur)
  /\ marketauth' = "controller"
  /\ assets' = [assets EXCEPT ![0] = Migrated(@, cur)]
  /\ kept' = kept \cup Survivors(assets[0], cur)
  /\ UNCHANGED <<stage, init_fee, marker, slab, next_id, trade_vars, money_vars, pending>>

SlabGone ==
  /\ ResolvedAndEmpty
  /\ \A a \in Assets : AssetEmpty(a)
  /\ stage' = "absent" /\ marketauth' = "none" /\ init_fee' = FALSE
  /\ assets' = [a \in Assets |-> Unconfigured]
  /\ next_id' = 1
  /\ UNCHANGED <<trade_vars, slab, kept, pending>>

\* close_market_and_reclaim: governance closes the slab and gets what the
\* controller's token account holds; the marker is written in the same step.
CloseMarketAndReclaim ==
  /\ marketauth = "controller"
  /\ SlabGone
  /\ marker' = TRUE
  /\ wallet' = Credit(wallet, "governance", transit)
  /\ transit' = 0
  /\ UNCHANGED <<entitled, skimmed>>

\* An outsider closes its own market; the key carries no marker.
CloseDirectly ==
  /\ marketauth \in Outsiders
  /\ SlabGone
  /\ UNCHANGED <<marker, money_vars>>

----------------------------------------------------------------------------
(* proxy_admin: what governance may have the controller sign. *)

\* Mutant: the witness is not compared.
WitnessAccepted_Any(a, wire) == TRUE

\* The generation an asset-bound instruction commits to must be the asset's; only
\* the first generation of asset 0 may go without (generation_bound_asset).
WitnessAccepted(a, wire) ==
  wire = assets[a].id \/ (a = 0 /\ assets[a].id = 1 /\ wire = NoWitness)

\* Mutant: governance picks any insurance key.
ActivationRoles_Any == Outsiders \cup {"controller"}

\* validate_admin_instruction_data: insurance of a new asset is the controller's.
ActivationRoles == {"controller"}

Activate(a) ==
  /\ a = 1
  /\ assets[a].status \in {"unconfigured", "retired"}
  /\ next_id <= MaxId
  /\ \E insurer \in ActivationRoles, backer \in Outsiders :
       assets' = [assets EXCEPT ![a] =
                    NewAsset(next_id, "controller", insurer, insurer, backer)]
  /\ next_id' = next_id + 1
  /\ UNCHANGED stage

Retire(a) ==
  /\ a = 1
  /\ assets[a].status \in {"active", "shutdown"}
  /\ AssetEmpty(a) /\ a \notin exposed
  /\ assets' = [assets EXCEPT ![a] = [Unconfigured EXCEPT !.status = "retired", !.id = assets[a].id]]
  /\ UNCHANGED <<stage, next_id>>

Shutdown(a) ==
  /\ assets[a].status = "active"
  /\ assets' = [assets EXCEPT ![a].status = "shutdown"]
  /\ UNCHANGED <<stage, next_id>>

\* RestartAssetOracle: a shut-down asset without backing or positions trades again
\* under a new id and with the roles and the insurance it had.
Restarted(a, admin) ==
  /\ assets[a].status = "shutdown"
  /\ assets[a].admin = admin
  /\ assets[a].backing = 0 /\ assets[a].earnings = 0 /\ a \notin exposed
  /\ next_id <= MaxId
  /\ assets' = [assets EXCEPT ![a].status = "active", ![a].id = next_id]
  /\ next_id' = next_id + 1
  /\ UNCHANGED stage

\* The proxy restarts an asset only while its insurance is the controller's.
Restart(a) ==
  /\ assets[a].authority = "controller" /\ assets[a].operator = "controller"
  /\ Restarted(a, "controller")

\* The oracle and backing-fee instructions, of which only the target matters here.
Configure(a) ==
  /\ assets[a].status = "active" /\ a \notin exposed
  /\ UNCHANGED <<stage, assets, next_id>>

AssetInstruction(kind, a) ==
  \/ kind = "activate" /\ Activate(a)
  \/ kind = "retire" /\ Retire(a)
  \/ kind = "shutdown" /\ Shutdown(a)
  \/ kind = "restart" /\ Restart(a)
  \/ kind = "configure" /\ Configure(a)

\* ResolveMarket names the market only.
Resolve ==
  stage' = "resolved" /\ UNCHANGED <<assets, next_id>>

ProxyAdmin(kind, a, wire) ==
  /\ marketauth = "controller" /\ stage = "live"
  /\ IF kind = "resolve" THEN Resolve
     ELSE WitnessAccepted(a, wire) /\ AssetInstruction(kind, a)
  /\ UNCHANGED <<marketauth, init_fee, marker, slab, kept, trade_vars, money_vars>>

AllKinds == {"activate", "retire", "shutdown", "restart", "configure", "resolve"}

\* Governance approves and executes at once, with the witness of the day.
GovernNow(kind, a) ==
  /\ kind # "configure"
  /\ ProxyAdmin(kind, a, assets[a].id)
  /\ UNCHANGED pending

\* Governance approves an instruction for a market it controls; it may be executed
\* at any later time, by anybody.
Approve(kind, a) ==
  /\ marketauth = "controller" /\ stage = "live"
  /\ pending = NoInstruction
  /\ kind = "resolve" => a = 0
  /\ assets[a].id = 0 => kind = "activate"
  /\ \E wire \in {assets[a].id, NoWitness} :
       /\ IF kind = "resolve" THEN wire = NoWitness
          ELSE wire = assets[a].id \/ (a = 0 /\ assets[a].id = 1)
       /\ pending' = [kind |-> kind, asset |-> a, wire |-> wire,
                      slab |-> slab, id |-> assets[a].id]
  /\ UNCHANGED <<role_vars, asset_vars, trade_vars, money_vars>>

ExecuteApproved ==
  /\ pending # NoInstruction
  /\ ProxyAdmin(pending.kind, pending.asset, pending.wire)
  /\ pending' = NoInstruction

\* twap-program's restart_asset0: governance restarts asset 0 when the custody PDA
\* is its admin, naming the generation it means.
RestartAsset0 ==
  /\ stage = "live"
  /\ Restarted(0, "custody")
  /\ UNCHANGED <<marketauth, init_fee, marker, slab, kept, trade_vars, money_vars, pending>>

\* grant_genesis_pool, with the subledger's accept_operator: the insurance roles
\* and the admin of asset 0 go to the pool, and what the controller had with them.
GrantGenesisPool ==
  LET a0 == assets[0] IN
  /\ marketauth = "controller" /\ stage = "live"
  /\ a0.admin = "controller"
  /\ a0.insurance # 0 => a0.authority = "controller" /\ a0.operator = "controller"
  /\ assets' = [assets EXCEPT ![0] = [@ EXCEPT !.authority = "custody",
                                               !.operator = "custody", !.admin = "custody"]]
  /\ entitled' = IF a0.insurance # 0 THEN Gives("governance", "custody", a0.insurance)
                 ELSE entitled
  /\ UNCHANGED <<role_vars, next_id, trade_vars, wallet, skimmed, transit, pending>>

----------------------------------------------------------------------------
(* What users do with the market, and what anybody may do to it. *)

Pays(k) ==
  /\ wallet[k] > 0
  /\ wallet' = Credit(wallet, k, 0 - 1)

\* donate_insurance: inbound only, while the controller holds every role.
DonateInsurance(k) ==
  /\ marketauth = "controller" /\ stage = "live"
  /\ \A role \in {assets[0].authority, assets[0].operator, assets[0].admin} :
       role = "controller"
  /\ Pays(k)
  /\ assets' = [assets EXCEPT ![0].insurance = @ + 1]
  /\ entitled' = Gives(k, "governance", 1)
  /\ UNCHANGED <<role_vars, next_id, trade_vars, skimmed, transit, pending>>

\* A raw transfer to the controller's token account.
SendToTransit(k) ==
  /\ Pays(k)
  /\ transit' = transit + 1
  /\ entitled' = Gives(k, "governance", 1)
  /\ UNCHANGED <<role_vars, asset_vars, trade_vars, skimmed, pending>>

Fund(k, a) ==
  /\ stage = "live" /\ assets[a].status = "active"
  /\ Pays(k)
  /\ \/ assets[a].authority = k /\ assets' = [assets EXCEPT ![a].insurance = @ + 1]
     \/ assets[a].backer = k /\ assets' = [assets EXCEPT ![a].backing = @ + 1]
  /\ UNCHANGED <<role_vars, next_id, trade_vars, entitled, skimmed, transit, pending>>

\* The operator alone signs a withdrawal from a live market; the pool and the TWAP,
\* which hold both roles, also withdraw for their depositors once it is resolved.
InsuranceTakeable(k, a) ==
  /\ assets[a].operator = k
  /\ stage = "live" \/ (stage = "resolved" /\ k = "custody" /\ assets[a].authority = k)
  /\ assets[a].insurance > 0 /\ a \notin exposed

\* In a market of its own a creator that names another operator gives it the
\* insurance; under the controller nobody gave away what is another's.
TakeInsurance(k, a) ==
  LET owner  == OwnerOf(assets[a].authority)
      amount == assets[a].insurance
  IN  /\ InsuranceTakeable(k, a)
      /\ wallet' = Credit(wallet, k, amount)
      /\ assets' = [assets EXCEPT ![a].insurance = 0]
      /\ \/ /\ marketauth # "controller"
            /\ entitled' = Gives(owner, k, amount) /\ skimmed' = skimmed
         \/ /\ marketauth = "controller"
            /\ skimmed' = Moved(skimmed, owner, k, amount) /\ entitled' = entitled
      /\ UNCHANGED <<role_vars, next_id, trade_vars, transit, pending>>

\* Anybody appends an asset of its own where the market sells them.
AppendAsset(k) ==
  /\ stage = "live" /\ init_fee
  /\ assets[1].status \in {"unconfigured", "retired"} /\ next_id <= MaxId
  /\ assets' = [assets EXCEPT ![1] = NewAsset(next_id, k, k, k, k)]
  /\ next_id' = next_id + 1
  /\ UNCHANGED <<role_vars, trade_vars, money_vars, pending>>

\* The authority of its own market retires its empty second asset.
RetireDirectly ==
  /\ stage = "live" /\ marketauth \in Outsiders
  /\ Retire(1)
  /\ UNCHANGED <<marketauth, init_fee, marker, slab, kept, trade_vars, money_vars, pending>>

\* One position at a time is enough for the guards that look at it.
OpenPosition(a) ==
  /\ stage = "live" /\ assets[a].status = "active" /\ exposed = {}
  /\ portfolio' = TRUE /\ exposed' = {a}
  /\ UNCHANGED <<role_vars, asset_vars, money_vars, pending>>

\* Trading pays fees to the insurance or, where there is backing, to the backer.
PayFee(a) ==
  /\ a \in exposed /\ stage = "live" /\ assets[a].status = "active"
  /\ Pays("traders")
  /\ \/ /\ assets' = [assets EXCEPT ![a].insurance = @ + 1]
        /\ entitled' = Gives("traders", OwnerOf(assets[a].authority), 1)
     \/ /\ assets[a].backing > 0
        /\ assets' = [assets EXCEPT ![a].earnings = @ + 1]
        /\ entitled' = Gives("traders", OwnerOf(assets[a].backer), 1)
  /\ UNCHANGED <<role_vars, next_id, trade_vars, skimmed, transit, pending>>

\* A position is closed by its owner, by a forced close or by the settlement.
ClosePosition(a) ==
  /\ a \in exposed
  /\ exposed' = exposed \ {a}
  /\ UNCHANGED <<role_vars, asset_vars, money_vars, portfolio, pending>>

\* close_resolved_portfolio: anybody has an empty portfolio of the resolved market
\* deregistered (its reward counters go to the archive, see RewardEpoch).
CloseResolvedPortfolio ==
  /\ marketauth = "controller"
  /\ stage = "resolved" /\ portfolio /\ exposed = {}
  /\ portfolio' = FALSE
  /\ UNCHANGED <<role_vars, asset_vars, money_vars, exposed, pending>>

\* The owner of an empty portfolio closes it.
ClosePortfolio ==
  /\ portfolio /\ exposed = {}
  /\ portfolio' = FALSE
  /\ UNCHANGED <<role_vars, asset_vars, money_vars, exposed, pending>>

\* Percolator's permissionless resolution of a market whose oracle has been silent
\* for stale_slots: permissionless_resolution_matured, as it reads at this slot.
PermissionlessResolve(matured) ==
  /\ stage = "live" /\ matured
  /\ Resolve
  /\ UNCHANGED <<marketauth, init_fee, marker, slab, kept, trade_vars, money_vars, pending>>

----------------------------------------------------------------------------
(* The public returns. *)

\* Mutant: the transit account is emptied into the provider's.
Forwarded_Whole(k, amount) ==
  wallet' = Credit(wallet, k, amount + transit) /\ transit' = 0

\* forward_exact_and_close_if_empty: what is withdrawn, and no stray token, goes to
\* an account of the owner.
Forwarded(k, amount) ==
  wallet' = Credit(wallet, k, amount) /\ transit' = transit

ReturnUnchanged == UNCHANGED <<role_vars, next_id, trade_vars, entitled, skimmed, pending>>

\* Percolator lets marketauth withdraw from an empty secondary asset that is shut
\* down; reject_shutdown_return_after_stale_resolution_matures.
ShutdownOpen(a, matured) ==
  /\ stage = "live" /\ ~matured
  /\ marketauth = "controller"
  /\ a # 0 /\ assets[a].status = "shutdown" /\ a \notin exposed

\* return_shutdown_backing: the caller names the amounts; the last principal does
\* not leave before the earnings.
ReturnShutdownBacking(a, matured) ==
  /\ ShutdownOpen(a, matured)
  /\ assets[a].backer \notin {"controller", "none"}
  /\ \E principal \in 0..assets[a].backing, earnings \in 0..assets[a].earnings :
       /\ principal + earnings # 0
       /\ principal # 0 /\ principal = assets[a].backing => earnings = assets[a].earnings
       /\ assets' = [assets EXCEPT ![a].backing = @ - principal,
                                   ![a].earnings = @ - earnings]
       /\ Forwarded(assets[a].backer, principal + earnings)
  /\ ReturnUnchanged

\* return_shutdown_insurance: all the insurance of the asset goes to its provider,
\* or to governance when it is the controller's; the operator role that is lent to
\* the one-shot PDA for the withdrawal is back at the end.
ReturnShutdownInsurance(a, matured) ==
  /\ ShutdownOpen(a, matured)
  /\ assets[a].authority # "none" /\ assets[a].operator # "none"
  /\ assets[a].operator = "controller" <=> assets[a].authority = "controller"
  /\ assets[a].insurance # 0
  /\ assets' = [assets EXCEPT ![a].insurance = 0]
  /\ Forwarded(OwnerOf(assets[a].authority), assets[a].insurance)
  /\ ReturnUnchanged

\* return_resolved_asset_insurance: also for asset 0, while the controller is the
\* provider or can rotate the role to itself.
InsuranceReturnable(a) ==
  /\ marketauth = "controller" /\ ResolvedAndEmpty
  /\ assets[a].authority # "none" /\ assets[a].insurance # 0
  /\ assets[a].authority = "controller" \/ assets[a].admin = "controller"

ReturnResolvedAssetInsurance(a) ==
  /\ InsuranceReturnable(a)
  /\ assets' = [assets EXCEPT ![a].insurance = 0, ![a].authority = "controller"]
  /\ Forwarded(OwnerOf(assets[a].authority), assets[a].insurance)
  /\ ReturnUnchanged

\* Mutant: the custody programs do not sign for the rotation.
Asset0Admins_ControllerOnly == {"controller"}

\* The admins of asset 0 that sign for the rotation of the backing role on anybody's
\* demand: the controller, and the pool or the TWAP through its
\* return_resolved_asset0_backing. Of the secondary asset, the controller alone.
Asset0Admins == {"controller", "custody"}

\* The guards that both resolved backing returns share: Percolator lets the asset's
\* admin rotate the role away from a provider that has money there.
BackingReturnable(a) ==
  /\ marketauth = "controller" /\ ResolvedAndEmpty
  /\ assets[a].backer \notin {"controller", "none"}
  /\ assets[a].backing + assets[a].earnings # 0
  /\ assets[a].admin \in IF a = 0 THEN Asset0Admins ELSE {"controller"}

\* Principal and earnings of both domains leave together, and the role ends at the
\* controller.
BackingReturned(a) ==
  /\ BackingReturnable(a)
  /\ assets' = [assets EXCEPT ![a].backing = 0, ![a].earnings = 0,
                              ![a].backer = "controller"]
  /\ Forwarded(assets[a].backer, assets[a].backing + assets[a].earnings)
  /\ ReturnUnchanged

ReturnResolvedAssetBacking == BackingReturned(1)

ReturnResolvedAsset0Backing == BackingReturned(0)

----------------------------------------------------------------------------
StartOf(entry) ==
  /\ init_fee = FALSE /\ portfolio = FALSE /\ exposed = {}
  /\ marker = FALSE /\ transit = 0 /\ pending = NoInstruction /\ slab = 0
  /\ wallet = [k \in Owners |-> IF k \in Purses THEN 1 ELSE 0]
  /\ entitled = wallet
  /\ skimmed = [k \in Owners |-> 0] /\ kept = {}
  /\ entry

\* Either no slab yet, or a market of an earlier controller version, which let
\* governance activate an asset with insurance roles of an outsider.
Init ==
  StartOf(
    \/ /\ stage = "absent" /\ marketauth = "none" /\ next_id = 1
       /\ assets = [a \in Assets |-> Unconfigured]
    \/ /\ stage = "live" /\ marketauth = "controller" /\ next_id = 3
       /\ \E k \in Outsiders :
            assets = [a \in Assets |->
              IF a = 0 THEN NewAsset(1, "controller", "controller", "controller", k)
              ELSE NewAsset(2, "controller", k, k, k)])

Returns ==
  \/ \E a \in Assets, matured \in BOOLEAN :
       ReturnShutdownBacking(a, matured) \/ ReturnShutdownInsurance(a, matured)
  \/ \E a \in Assets : ReturnResolvedAssetInsurance(a)
  \/ ReturnResolvedAssetBacking \/ ReturnResolvedAsset0Backing

Users ==
  \/ \E k \in Outsiders : DonateInsurance(k) \/ SendToTransit(k)
  \/ \E k \in Funders, a \in Assets : Fund(k, a) \/ TakeInsurance(k, a)
  \/ \E k \in Outsiders : InitMarketDirectly(k) \/ AcceptMarketAuthority(k) \/ AppendAsset(k)
  \/ \E a \in Assets : OpenPosition(a) \/ PayFee(a) \/ ClosePosition(a)
  \/ RetireDirectly \/ CloseDirectly \/ ClosePortfolio

Governance ==
  \/ \E kind \in AllKinds, a \in Assets : GovernNow(kind, a)
  \/ \E kind \in Kinds, a \in Assets : Approve(kind, a)
  \/ RestartAsset0 \/ GrantGenesisPool \/ CloseMarketAndReclaim

Cranks ==
  \/ InitMarket \/ ExecuteApproved \/ CloseResolvedPortfolio
  \/ \E matured \in BOOLEAN : PermissionlessResolve(matured)

Next == Returns \/ Users \/ Governance \/ Cranks

Spec == Init /\ [][Next]_vars

----------------------------------------------------------------------------
\* Whatever the order of trading, shutdown, donation, resolution and returns, what
\* an owner has outside of the market and what is kept for it inside are together
\* what it put in and earned: no return reaches somebody else, leaves with another
\* owner's stray tokens, or changes hands with a role (accept_market_authority,
\* the five return_* instructions, close_market_and_reclaim).  The one exception is
\* an operator that a donation left in place: it takes governance's insurance, and
\* nobody else gains or loses by it.
EveryoneGetsTheirs ==
  \A k \in Owners :
    /\ wallet[k] + Held(k) = entitled[k] + skimmed[k]
    /\ skimmed[k] > 0 => k \in kept
    /\ skimmed[k] < 0 => k = "governance"

\* "Otherwise an unfunded third party could collect later public trade fees without
\* putting capital at risk" (README.md:88-89), which the handoff is said to prevent:
\* no outsider ever has more than it put in, earned or was given.
NobodySkims == \A k \in Outsiders : wallet[k] + Held(k) <= entitled[k]

\* An approved instruction that lands late acts on the slab it was approved for,
\* and one bound to an asset on the very generation of the asset (proxy_admin).
ApprovalsMeetTheirAsset ==
  [][pending # NoInstruction /\ pending' = NoInstruction =>
       /\ pending.slab = slab
       /\ pending.kind # "resolve" => pending.id = assets[pending.asset].id]_vars

\* No asset of a market made by or donated to this controller has insurance that
\* an outsider is the provider of, or an admin outside the programs that can return
\* it; and no outsider can withdraw insurance but an operator of asset 0 that the
\* donation left beside the controller (accept_market_authority,
\* validate_admin_instruction_data).
InsuranceStaysConstrained ==
  marketauth = "controller" /\ slab > 0 =>
    \A a \in Assets : assets[a].status \notin {"unconfigured", "retired"} =>
      /\ {assets[a].authority, assets[a].admin} \subseteq {"controller", "custody"}
      /\ \/ assets[a].operator \in {"controller", "custody"}
         \/ a = 0 /\ assets[a].authority = "controller" /\ assets[a].operator \in kept

\* In an empty resolved market of the controller every balance has a public step
\* that takes it out: nothing waits for governance, for the provider or for a former
\* admin, and closing the slab is only a matter of taking these steps. The steps have
\* no condition beside the guards named here (return_resolved_*,
\* accept_market_authority).
ResolvedMoneyCanLeave ==
  marketauth = "controller" /\ ResolvedAndEmpty =>
    \A a \in Assets :
      /\ assets[a].insurance # 0 => InsuranceReturnable(a) \/ InsuranceTakeable("custody", a)
      /\ assets[a].backing + assets[a].earnings # 0 => BackingReturnable(a)
=============================================================================
