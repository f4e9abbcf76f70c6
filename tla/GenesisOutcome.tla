---------------------------- MODULE GenesisOutcome ----------------------------
(***************************************************************************)
(* What the genesis is supposed to end in, without votes, ballots or token   *)
(* accounts: at most one of two irrevocable outcomes, each in its own phase. *)
(* Between the end of the bootstrap and the start of refunds one proposal    *)
(* may be chosen; from the start of refunds on, if none was, refunds may     *)
(* begin, and then none ever is.                                             *)
(***************************************************************************)
EXTENDS Naturals

CONSTANTS Choices,        \* what may be chosen
          DecisionStart,  \* first slot of the decision phase
          RefundPhase     \* first slot of the refund phase

VARIABLES now,            \* the slot
          chosen,         \* {} or the one choice
          refunding       \* refunds without a decision have begun

outcome == <<now, chosen, refunding>>

Init == now = 0 /\ chosen = {} /\ refunding = FALSE

Choose(c) ==
  /\ chosen = {} /\ ~refunding
  /\ DecisionStart <= now /\ now < RefundPhase
  /\ chosen' = {c}
  /\ UNCHANGED <<now, refunding>>

Refund ==
  /\ chosen = {} /\ ~refunding
  /\ RefundPhase <= now
  /\ refunding' = TRUE
  /\ UNCHANGED <<now, chosen>>

Advance == now' = now + 1 /\ UNCHANGED <<chosen, refunding>>

Next == Advance \/ Refund \/ \E c \in Choices : Choose(c)

Spec == Init /\ [][Next]_outcome
=============================================================================
