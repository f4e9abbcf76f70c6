----------------------------- MODULE ShareMath -----------------------------
(***************************************************************************)
(* The share arithmetic of an insurance pool (subledger/src/lib.rs).  A     *)
(* pool prices `basis` shares, the owned ones plus a virtual offset, over   *)
(* `balance + 1` atoms, and rounds every conversion against the position    *)
(* that asks for it.  When minting would overflow the share counter, all    *)
(* shares are halved until it fits: the scale epoch counts the halvings.    *)
(***************************************************************************)
EXTENDS Integers

CONSTANTS
  VirtualShares,    \* VIRTUAL_SHARES, 1_000_000 in the code
  MaxShares,        \* stands for u128::MAX
  MaxRescales       \* bound: halvings tried by one deposit (u128::BITS)

ASSUME ShareAssumption ==
  /\ VirtualShares \in Nat \ {0}
  /\ MaxShares \in Nat
  /\ MaxRescales \in Nat

Least(a, b)   == IF a <= b THEN a ELSE b
CeilDiv(a, b) == (a + b - 1) \div b

\* The virtual offset shrinks with the shares, but never below one.
VirtualSharesAt(epoch) == CeilDiv(VirtualShares, 2 ^ epoch)

\* Mutant: rounded in favour of the position.
Redeem_RoundedUp(shares, balance, basis) == CeilDiv(shares * (balance + 1), basis)

\* What shares are worth.
Redeem(shares, balance, basis) == (shares * (balance + 1)) \div basis

\* Mutant: what others sent is shared with whoever leaves first.
Payout_ProRata(balance, outstanding, principal) == (balance * principal) \div outstanding

\* What an own-vault pool without shares pays for principal: no surplus.
Payout(balance, outstanding, principal) ==
  IF balance >= outstanding THEN principal ELSE (balance * principal) \div outstanding

\* Mutants: all retired shares leave the pricing; none does.
RateSafeBurn_All(retired, before, after, basis) == retired
RateSafeBurn_None(retired, before, after, basis) == 0

\* Of the retired shares, the pool stops pricing no more than keeps the price of
\* a share from rising.
RateSafeBurn(retired, before, after, basis) ==
  Least(retired, basis - CeilDiv((after + 1) * basis, before + 1))

\* The pool's total after k halvings, each rounded up ...
Rescaled(total, k) == CeilDiv(total, 2 ^ k)

\* ... and what is left of one position's shares, rounded down.
LazilyRescaled(shares, k) == shares \div (2 ^ k)

Basis(total, epoch, k) == Rescaled(total, k) + VirtualSharesAt(epoch + k)

\* The first mint after a rescale rounds up.
Minted(amount, balance, total, epoch, k) ==
  IF k = 0 THEN (amount * Basis(total, epoch, 0)) \div (balance + 1)
  ELSE CeilDiv(amount * Basis(total, epoch, k), balance + 1)

\* Minting fits the counter after k halvings, all of which are possible.
Fits(amount, balance, total, epoch, k) ==
  /\ \A j \in 0 .. k - 1 : Rescaled(total, j) > 1
  /\ Basis(total, epoch, k) <= (MaxShares * (balance + 1)) \div (balance + 1 + amount)
  /\ Basis(total, epoch, k) + Minted(amount, balance, total, epoch, k) <= MaxShares

\* The halvings a deposit needs; the deposit fails when there is no such number.
FittingRescales(amount, balance, total, epoch) ==
  { k \in 0 .. MaxRescales :
      /\ Fits(amount, balance, total, epoch, k)
      /\ \A j \in 0 .. k - 1 : ~Fits(amount, balance, total, epoch, j) }

\* Mutant: any price is fair.
FairlyMinted_Always(amount, minted, balance, basis) == TRUE

\* The minted shares are worth the deposit up to one atom, at the price after it.
FairlyMinted(amount, minted, balance, basis) ==
  LET worth == Redeem(minted, balance + amount, basis + minted)
  IN  minted # 0 /\ worth # 0 /\ amount - worth <= 1
=============================================================================
