------------------------------- MODULE Width -------------------------------
(***************************************************************************)
(* The arithmetic every component shares: unsigned integers of a fixed     *)
(* width (std::uint64_t), ticks, and days converted to ticks.              *)
(*                                                                         *)
(* MaxU64 is the largest value of the type.  In the code it is 2^64 - 1;   *)
(* the configurations give it a small value, so that every overflow guard, *)
(* every saturation and the exhaustion of the ledger's sequence counter    *)
(* are reached.  It is also the only bound the state machines need: no     *)
(* counter of theirs can grow beyond the width of its type.                *)
(***************************************************************************)
EXTENDS Naturals

CONSTANTS
  MaxU64,        (* numeric_limits<uint64_t>::max()                          *)
  TicksPerDay    (* ticks_per_day(), 86400 in the code                       *)

ASSUME WidthAssumption ==
  /\ MaxU64 \in Nat \ {0}
  /\ TicksPerDay \in Nat \ {0}
  /\ TicksPerDay <= MaxU64

U64 == 0 .. MaxU64

(* The guard the code writes before an addition: the sum fits the type.    *)
CanAdd(a, b) == b <= MaxU64 - a

(* A bare + of the code, which wraps around when no guard precedes it.     *)
WrapAdd(a, b) == IF a + b > MaxU64 THEN a + b - (MaxU64 + 1) ELSE a + b

SaturatingAdd(a, b) == IF CanAdd(a, b) THEN a + b ELSE MaxU64

(* can_multiply_ticks / multiply_overflows: the exact product is too wide. *)
MultiplyOverflows(a, b) == a * b > MaxU64

DaysToTicks(days) ==
  IF MultiplyOverflows(days, TicksPerDay) THEN MaxU64 ELSE days * TicksPerDay

(* GameTime::advance: the clock stops at the last tick it can represent.   *)
AdvanceTime(tick, ticks) == SaturatingAdd(tick, ticks)

AtMost(a, b) == IF a <= b THEN a ELSE b
=============================================================================
