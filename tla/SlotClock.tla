----------------------------- MODULE SlotClock -----------------------------
(***************************************************************************)
(* The slot clock every program of the repository reads through            *)
(* Clock::get().  Slots are u64 in the code; MaxSlot stands for u64::MAX,   *)
(* so it is both the width of slot arithmetic and the last slot a           *)
(* behaviour reaches.                                                       *)
(***************************************************************************)
EXTENDS Naturals

CONSTANT MaxSlot    \* stands for u64::MAX

ASSUME MaxSlotAssumption == MaxSlot \in Nat

VARIABLE slot       \* Clock::get()?.slot

Slots == 0 .. MaxSlot

\* u64::saturating_add on slots.
SaturatingAdd(a, b) == IF a + b > MaxSlot THEN MaxSlot ELSE a + b

\* The runtime advances the clock; no program does.
Tick ==
  /\ slot < MaxSlot
  /\ slot' = slot + 1
=============================================================================
