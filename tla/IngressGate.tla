---------------------------- MODULE IngressGate ----------------------------
(***************************************************************************)
(* The admission gate of runtime/src/ingress.rs, as operators on a gate.   *)
(*                                                                         *)
(* The gate is ONE machine word.  Its two highest bits hold the phase      *)
(* (0 = Open, 1 = Closing, 2 = Sealed) and all the others the number of    *)
(* granted and unsettled IngressPermits, so that a compare-exchange        *)
(* decides both together.  `word' is the number in that word: granting a   *)
(* permit adds one to it, settling one subtracts one, and nothing but the  *)
(* protocol keeps a carry or a borrow out of the phase bits.  `permits'    *)
(* holds the live permits, named by the thread that holds one.             *)
(*                                                                         *)
(* Every operation is a load / compare-exchange loop that returns either   *)
(* on what it loaded or on the exchange that succeeded, so each is one     *)
(* atomic step from a gate to the next.                                    *)
(***************************************************************************)
EXTENDS Integers, FiniteSets

CONSTANT ReservationMask   \* the largest count: 2^62 - 1 on a 64-bit target

ASSUME ReservationMaskAssumption == ReservationMask \in Nat \ {0}

Unit     == ReservationMask + 1    \* 1usize << PHASE_SHIFT
WordSize == 4 * Unit               \* a word is in 0 .. WordSize - 1

OPEN    == 0
CLOSING == Unit
SEALED  == 2 * Unit

(* value >> PHASE_SHIFT; the phase 3 is the code's unreachable!. *)
PhaseOf(word) ==
  IF word < CLOSING THEN "Open"
  ELSE IF word < SEALED THEN "Closing"
  ELSE IF word < 3 * Unit THEN "Sealed"
  ELSE "Invalid"

(* value & RESERVATION_MASK *)
CountOf(word) ==
  IF word < CLOSING THEN word
  ELSE IF word < SEALED THEN word - CLOSING
  ELSE IF word < 3 * Unit THEN word - SEALED
  ELSE word - 3 * Unit

NewGate == [word |-> OPEN, permits |-> {}]

Phase(gate) == PhaseOf(gate.word)

(* Mutants: reserve() without its limit, and without its phase check. *)
ReservesBeyondLimit(gate) == Phase(gate) = "Open"
ReservesInAnyPhase(gate)  == CountOf(gate.word) # ReservationMask

(* reserve() answers NotOpen or ReservationSpaceExhausted otherwise. *)
CanReserve(gate) == Phase(gate) = "Open" /\ CountOf(gate.word) # ReservationMask

Reserve(gate, h) == [word |-> gate.word + 1, permits |-> gate.permits \cup {h}]

BeginClose(gate) ==
  [gate EXCEPT !.word = IF Phase(gate) = "Open" THEN CLOSING + CountOf(@) ELSE @]

(* try_seal() answers StillOpen or ReservationsRemain otherwise. *)
CanSeal(gate) ==
  Phase(gate) = "Sealed" \/ (Phase(gate) = "Closing" /\ CountOf(gate.word) = 0)

Seal(gate) == [gate EXCEPT !.word = IF Phase(gate) = "Sealed" THEN @ ELSE SEALED]

(* fetch_sub(1), which wraps at 0: a settle without a reservation would    *)
(* borrow from the phase bits, or from beyond the word.                    *)
Settle(gate, h) ==
  [word    |-> IF gate.word = 0 THEN WordSize - 1 ELSE gate.word - 1,
   permits |-> gate.permits \ {h}]

(* What every gate must satisfy: the count bits are the number of live     *)
(* permits, the phase bits are valid, and a sealed gate has no permit.     *)
Exact(gate) ==
  /\ gate = [word |-> gate.word, permits |-> gate.permits]
  /\ gate.word \in 0 .. WordSize - 1
  /\ IsFiniteSet(gate.permits)
  /\ Phase(gate) # "Invalid"
  /\ CountOf(gate.word) = Cardinality(gate.permits)
  /\ Phase(gate) = "Sealed" => gate.permits = {}
============================================================================
