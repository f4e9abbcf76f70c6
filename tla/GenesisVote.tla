----------------------------- MODULE GenesisVote -----------------------------
(***************************************************************************)
(* The genesis vote (genesis-vote/src/lib.rs) between the two programs it   *)
(* ties together: it reads the principal of the subledger (DepositLedger),  *)
(* locks the positions of voters there, and is the only authority that      *)
(* seals a distribution (Distribution).                                     *)
(*                                                                         *)
(* A transaction is signed at one moment and may land at any later one, so  *)
(* a voter may withhold a signed vote: `withheld` holds instructions that   *)
(* are signed and have not landed.  Landing consumes the signature.         *)
(***************************************************************************)
EXTENDS DepositLedger, Distribution

CONSTANTS
  MaxNonce,       \* bound: vote_nonce at which voters stop backing (u64)
  MaxWithheld     \* bound: signed votes in flight at once

ASSUME GenesisAssumption ==
  /\ MaxNonce \in Nat
  /\ MaxWithheld \in Nat

VARIABLES
  vote_open,                  \* the config account exists
  total_voted_principal,      \* config.total_voted_principal
  distribution_executed,      \* config.distribution_executed
  terminal_refunds_started,   \* config.terminal_refunds_started
  proposal_vote,              \* per proposal, the registered ProposalVote
  ballot,                     \* per owner
  withheld,                   \* signed votes that have not landed
  retractions                 \* history: how often each owner retracted

vote_vars == <<vote_open, total_voted_principal, distribution_executed,
               terminal_refunds_started, proposal_vote, ballot, withheld,
               retractions>>

vars == <<slot, ledger_vars, dist_vars, vote_vars>>

ProposalVote == [registered : BOOLEAN, support_principal : Nat, executed : BOOLEAN,
                 snapshot_entry_count : Nat, snapshot_total_amount : Nat]
Ballot == [voted_proposal : Proposals \cup {Null}, voted_principal : Nat,
           vote_nonce : Nat]

\* A signed vote: what the instruction carries, and what its signer saw of its
\* own ballot and retractions when signing.
Authorization == [kind : {"back", "retract"}, voter : Owners, proposal : Proposals,
                  vote_nonce : Nat, principal : Nat,
                  seen : Ballot, retractions : Nat]

NoProposalVote == [registered |-> FALSE, support_principal |-> 0, executed |-> FALSE,
                   snapshot_entry_count |-> 0, snapshot_total_amount |-> 0]

\* A ballot that backs nothing; its nonce lives on.
Cleared(nonce) == [voted_proposal |-> Null, voted_principal |-> 0, vote_nonce |-> nonce]

HasLiveBallot(v) == ballot[v].voted_proposal # Null

\* What v's live ballot contributes to p and to all proposals.
BackedPrincipal(p) ==
  [v \in Owners |-> IF ballot[v].voted_proposal = p THEN ballot[v].voted_principal ELSE 0]
VotedPrincipal == [v \in Owners |-> ballot[v].voted_principal]

\* terminal_refund_start_slot: trigger before it, refunds from it on.
RefundStart == BootstrapEnd + DepositWindow

----------------------------------------------------------------------------
VoteInit ==
  /\ vote_open = FALSE
  /\ total_voted_principal = 0
  /\ distribution_executed = FALSE
  /\ terminal_refunds_started = FALSE
  /\ proposal_vote = [p \in Proposals |-> NoProposalVote]
  /\ ballot = [v \in Owners |-> Cleared(0)]
  /\ withheld = {}
  /\ retractions = [v \in Owners |-> 0]

\* init_config binds an existing pool and an existing distribution config.
InitVote ==
  /\ ~vote_open
  /\ pool_open
  /\ config_initialized
  /\ slot < BootstrapEnd
  /\ vote_open' = TRUE
  /\ UNCHANGED <<slot, ledger_vars, dist_vars, total_voted_principal,
                 distribution_executed, terminal_refunds_started, proposal_vote,
                 ballot, withheld, retractions>>

\* Mutant: a proposal may be registered before it is complete.
Populated_Partly(p) == EntryCount(p) # 0

\* The proposal is full and distributes the whole supply.
Populated(p) ==
  /\ EntryCount(p) # 0
  /\ EntryCount(p) = header[p].capacity
  /\ header[p].total_amount = TotalSupply

\* What registration records of the proposal.
Snapshot(p) == [registered |-> TRUE, support_principal |-> 0, executed |-> FALSE,
                snapshot_entry_count |-> EntryCount(p),
                snapshot_total_amount |-> header[p].total_amount]

RegisterProposal(creator, p) ==
  /\ vote_open
  /\ Exists(p)
  /\ header[p].creator = creator
  /\ Populated(p)
  /\ ~proposal_vote[p].registered
  /\ proposal_vote' = [proposal_vote EXCEPT ![p] = Snapshot(p)]
  /\ UNCHANGED <<slot, ledger_vars, dist_vars, vote_open, total_voted_principal,
                 distribution_executed, terminal_refunds_started, ballot,
                 withheld, retractions>>

----------------------------------------------------------------------------
(* Voting.                                                                  *)

\* The votes v may sign now; it signs what its wallet shows it.
SignedBack(v, p) ==
  [kind |-> "back", voter |-> v, proposal |-> p,
   vote_nonce |-> ballot[v].vote_nonce, principal |-> position[v].principal,
   seen |-> ballot[v], retractions |-> retractions[v]]

SignedRetract(v) ==
  [kind |-> "retract", voter |-> v, proposal |-> ballot[v].voted_proposal,
   vote_nonce |-> ballot[v].vote_nonce, principal |-> position[v].principal,
   seen |-> ballot[v], retractions |-> retractions[v]]

FreshBacks(v) ==
  IF position[v].principal > 0 /\ ballot[v].vote_nonce < MaxNonce
  THEN { SignedBack(v, p) : p \in {q \in Proposals : proposal_vote[q].registered} }
  ELSE {}

FreshRetracts(v) == IF HasLiveBallot(v) THEN { SignedRetract(v) } ELSE {}

Withhold(v) ==
  /\ Cardinality(withheld) < MaxWithheld
  /\ \E a \in FreshBacks(v) \cup FreshRetracts(v) : withheld' = withheld \cup {a}
  /\ UNCHANGED <<slot, ledger_vars, dist_vars, vote_open, total_voted_principal,
                 distribution_executed, terminal_refunds_started, proposal_vote,
                 ballot, retractions>>

\* Mutant: an executed proposal takes no instruction at all.
Accepts_NothingOnceExecuted(p, kind) == ~proposal_vote[p].executed

\* Once executed a proposal takes no new support, but can still be left.
Accepts(p, kind) == kind = "back" => ~proposal_vote[p].executed

NonceMatches(a) == a.vote_nonce = ballot[a.voter].vote_nonce

BackMatches(a) == NonceMatches(a) /\ a.principal = position[a.voter].principal

\* Mutants: what the ballot contributed so far is not backed out first; what the
\* position holds now is backed out instead.
SupportWithout_Nothing(v, p) == proposal_vote[p].support_principal
SupportWithout_Live(v, p) ==
  proposal_vote[p].support_principal
    - (IF HasLiveBallot(v) THEN position[v].principal ELSE 0)

\* The tallies once v's live ballot, if it has one, is backed out.
SupportWithout(v, p) ==
  proposal_vote[p].support_principal
    - (IF HasLiveBallot(v) /\ ballot[v].voted_proposal = p
       THEN ballot[v].voted_principal ELSE 0)

TotalWithout(v) ==
  total_voted_principal - (IF HasLiveBallot(v) THEN ballot[v].voted_principal ELSE 0)

\* Only replacing a live ballot consumes a nonce.
NonceAfterBack(v) ==
  IF HasLiveBallot(v) THEN ballot[v].vote_nonce + 1 ELSE ballot[v].vote_nonce

Back(a) ==
  LET v == a.voter
      p == a.proposal
      n == position[v].principal
  IN  /\ a.kind = "back"
      /\ vote_open
      /\ proposal_vote[p].registered
      /\ Accepts(p, a.kind)
      /\ slot < BootstrapEnd
      /\ BackMatches(a)
      /\ HasLiveBallot(v) => ballot[v].voted_proposal = p
      /\ n > 0
      /\ proposal_vote' =
           [proposal_vote EXCEPT ![p].support_principal = SupportWithout(v, p) + n]
      /\ total_voted_principal' = TotalWithout(v) + n
      /\ ballot' = [ballot EXCEPT ![v] =
                      [voted_proposal |-> p, voted_principal |-> n,
                       vote_nonce |-> NonceAfterBack(v)]]
      /\ SetVoteLock(v, TRUE)
      /\ withheld' = withheld \ {a}
      /\ UNCHANGED <<slot, dist_vars, vote_open, distribution_executed,
                     terminal_refunds_started, retractions>>

\* Mutant: retracting leaves the nonce as it is.
NonceAfterRetract_Same(v) == ballot[v].vote_nonce

NonceAfterRetract(v) == ballot[v].vote_nonce + 1

Retract(a) ==
  LET v == a.voter
      p == a.proposal
  IN  /\ a.kind = "retract"
      /\ vote_open
      /\ proposal_vote[p].registered
      /\ Accepts(p, a.kind)
      /\ HasLiveBallot(v)
      /\ ballot[v].voted_proposal = p
      /\ NonceMatches(a)
      /\ proposal_vote' =
           [proposal_vote EXCEPT ![p].support_principal = SupportWithout(v, p)]
      /\ total_voted_principal' = TotalWithout(v)
      /\ ballot' = [ballot EXCEPT ![v] = Cleared(NonceAfterRetract(v))]
      /\ SetVoteLock(v, FALSE)
      /\ withheld' = withheld \ {a}
      /\ retractions' = [retractions EXCEPT ![v] = @ + 1]
      /\ UNCHANGED <<slot, dist_vars, vote_open, distribution_executed,
                     terminal_refunds_started>>

\* A vote lands: one that was withheld, or one signed just now.
CastBack(v)    == \E a \in FreshBacks(v) \cup withheld : a.voter = v /\ Back(a)
CastRetract(v) == \E a \in FreshRetracts(v) \cup withheld : a.voter = v /\ Retract(a)

----------------------------------------------------------------------------
(* The decision and the refunds.                                            *)

\* Mutant: the quorum is of the principal that voted, not of the pool's.
HasQuorum_OfVoters == total_voted_principal > 0

\* More than half of the principal now in the pool has voted.
HasQuorum == total_voted_principal * 2 > outstanding

HasMajority(p) == proposal_vote[p].support_principal * 2 > total_voted_principal

\* Mutant: trigger has no end.
TriggerPhase_Endless == BootstrapEnd <= slot

TriggerPhase == BootstrapEnd <= slot /\ slot < RefundStart

Trigger(p) ==
  /\ vote_open
  /\ proposal_vote[p].registered
  /\ ~proposal_vote[p].executed
  /\ ~distribution_executed
  /\ ~terminal_refunds_started
  /\ RefundStart <= MaxSlot
  /\ TriggerPhase
  /\ EntryCount(p) = proposal_vote[p].snapshot_entry_count
  /\ header[p].total_amount = proposal_vote[p].snapshot_total_amount
  /\ HasQuorum
  /\ HasMajority(p)
  /\ proposal_vote' = [proposal_vote EXCEPT ![p].executed = TRUE]
  /\ distribution_executed' = TRUE
  /\ SealWinner(p)
  /\ UNCHANGED <<slot, ledger_vars, vote_open, total_voted_principal,
                 terminal_refunds_started, ballot, withheld, retractions>>

\* Mutant: refunds wait for a decision.
RefundsAllowed_DecisionOnly(executed) == executed

\* Without a decision, refunds start with the refund phase ...
RefundsAllowed(executed) == executed \/ slot >= RefundStart

\* ... and the first of them rules a decision out.
RefundsLatch(executed) == terminal_refunds_started \/ ~executed

\* retire_terminal_ballot: called by the pool for the owner it is paying off.
RetireTerminalBallot(v) ==
  LET p        == ballot[v].voted_proposal
      won      == HasLiveBallot(v) /\ proposal_vote[p].executed
      executed == distribution_executed \/ won
  IN  /\ vote_open
      /\ BootstrapEnd <= slot
      /\ RefundStart <= MaxSlot
      /\ RefundsAllowed(executed)
      /\ distribution_executed' = executed
      /\ terminal_refunds_started' = (~won /\ RefundsLatch(executed))
      /\ IF HasLiveBallot(v)
         THEN /\ proposal_vote' =
                   [proposal_vote EXCEPT ![p].support_principal = SupportWithout(v, p)]
              /\ total_voted_principal' = TotalWithout(v)
              /\ ballot' = [ballot EXCEPT ![v] = Cleared(@.vote_nonce)]
         ELSE UNCHANGED <<proposal_vote, total_voted_principal, ballot>>

\* return_finalized_position and the ballot it retires, one transaction.
ReturnFinalizedPosition(v) ==
  /\ TerminalReturn(v)
  /\ RetireTerminalBallot(v)
  /\ UNCHANGED <<slot, dist_vars, vote_open, withheld, retractions>>

----------------------------------------------------------------------------
Init == slot = 0 /\ LedgerInit /\ DistInit /\ VoteInit

Deposits == DepositNext /\ UNCHANGED <<slot, dist_vars, vote_vars>>

\* Mutant: seal_winner does not ask for its authority's signature.
Drafts_AnyoneSeals ==
  /\ DraftNext \/ \E p \in Proposals : SealWinner(p)
  /\ UNCHANGED <<slot, ledger_vars, vote_vars>>

Drafts   == DraftNext /\ UNCHANGED <<slot, ledger_vars, vote_vars>>
Payouts  == PayoutNext /\ UNCHANGED <<slot, ledger_vars, vote_vars>>
Time     == Tick /\ UNCHANGED <<ledger_vars, dist_vars, vote_vars>>

Next ==
  \/ Deposits
  \/ Drafts
  \/ Payouts
  \/ Time
  \/ InitVote
  \/ \E c \in Creators, p \in Proposals : RegisterProposal(c, p)
  \/ \E v \in Owners :
       Withhold(v) \/ CastBack(v) \/ CastRetract(v) \/ ReturnFinalizedPosition(v)
  \/ \E p \in Proposals : Trigger(p)

Spec == Init /\ [][Next]_vars

\* Time passes, whatever the programs' users do.
TimelySpec == Spec /\ WF_vars(Time)

\* Anybody may crank the return of a finalized position.
CrankFairness == \A v \in Owners : WF_vars(ReturnFinalizedPosition(v))

\* Owners who want their capital back retract and exit when they can.
LeaveFairness ==
  \A v \in Owners :
    /\ WF_vars(CastRetract(v))
    /\ WF_vars(Exit(v, position[v].principal) /\ UNCHANGED <<slot, dist_vars, vote_vars>>)

----------------------------------------------------------------------------
\* The vote's own accounts have the types their layouts give them.
VoteTypeOK ==
  /\ vote_open \in BOOLEAN
  /\ total_voted_principal \in Nat
  /\ distribution_executed \in BOOLEAN
  /\ terminal_refunds_started \in BOOLEAN
  /\ proposal_vote \in [Proposals -> ProposalVote]
  /\ ballot \in [Owners -> Ballot]
  /\ withheld \in SUBSET Authorization
  /\ retractions \in [Owners -> Nat]

\* Every account of the three programs has its type.
TypeOK == LedgerTypeOK /\ DistTypeOK /\ VoteTypeOK

\* The tallies, kept by adding and subtracting across vote, retract, re-back and
\* terminal retirement, are exactly the live ballots: trigger's quorum and
\* majority are read from them and nothing recounts.
TalliesCountLiveBallots ==
  /\ total_voted_principal = Total(VotedPrincipal, Owners)
  /\ \A p \in Proposals :
       proposal_vote[p].support_principal = Total(BackedPrincipal(p), Owners)

\* "A vote can never outlive the capital backing it" (vote): a position is
\* locked exactly while its owner has a live ballot, and then still holds all
\* the principal that ballot counts for.
BallotsAreBackedByCapital ==
  \A v \in Owners :
    /\ position[v].vote_locked <=> HasLiveBallot(v)
    /\ ballot[v].voted_principal <= position[v].principal
    /\ HasLiveBallot(v) <=> ballot[v].voted_principal > 0

\* The two programs agree on the decision: the vote is executed iff the
\* distribution is sealed, and on the same, registered proposal (trigger's CPI).
DecisionsAgree ==
  /\ distribution_executed <=> IsSealed
  /\ \A p \in Proposals : proposal_vote[p].executed <=> sealed_proposal = p

\* A registered proposal still pays out the whole supply until it is sealed, so
\* voters decide on, and the winner executes, exactly what they were shown.
RegisteredPaysWholeSupply ==
  \A p \in Proposals :
    proposal_vote[p].registered /\ sealed_proposal # p
      => Unclaimed(p) = TotalSupply

\* The principal each owner has in the pool behind a live ballot for one of S.
CapitalBehind(S) ==
  [v \in Owners |-> IF ballot[v].voted_proposal \in S THEN position[v].principal ELSE 0]

\* When a winner is sealed, most of the capital the pool owes belongs to owners
\* with a live ballot, and more than a quarter to backers of the winner: whoever
\* left, or voted and took the capital out, does not count (trigger).
SealedByCapital ==
  [][\A p \in Proposals :
       sealed_proposal' = p /\ sealed_proposal # p =>
         /\ 2 * Total(CapitalBehind(Proposals), Owners) > outstanding
         /\ 4 * Total(CapitalBehind({p}), Owners) > outstanding]_vars

\* A signed vote that was withheld does what its signer meant or nothing: a
\* back lands only if nothing was retracted and no principal moved since it was
\* signed, a retract only on the very ballot its signer saw (vote_nonce).
WithheldVotesMatchIntent ==
  [][\A a \in withheld : a \notin withheld' =>
       IF a.kind = "back"
       THEN /\ a.retractions = retractions[a.voter]
            /\ ballot'[a.voter].voted_principal = a.principal
       ELSE a.seen = ballot[a.voter]]_vars

\* The genesis has at most one outcome, decided in the phase it belongs to.
Outcome == INSTANCE GenesisOutcome WITH
  Choices       <- Proposals,
  DecisionStart <- BootstrapEnd,
  RefundPhase   <- RefundStart,
  now           <- slot,
  chosen        <- {sealed_proposal} \ {Null},
  refunding     <- terminal_refunds_started

\* GenesisVote implements GenesisOutcome: sealing (trigger) and refunding
\* (retire_terminal_ballot) exclude each other for good.
OneOutcome == Outcome!Spec

\* Once the market is resolved, permissionless cranks alone pay every owner
\* off, whether or not the owner's position is locked by a ballot and whether
\* or not anything was ever decided.
RefundsComplete == CrankFairness => (vote_open /\ resolved ~> outstanding = 0)

\* A vote never traps capital: owners who retract and exit end up with nothing
\* left in the pool, whatever the others do.
OwnersCanLeave == LeaveFairness => <>[](outstanding = 0)
=============================================================================
