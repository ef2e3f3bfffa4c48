------------------------------- MODULE Millis -------------------------------
(***************************************************************************)
(* The Arduino clock as the firmware uses it: millis() is a uint32_t that  *)
(* counts up and wraps to zero, and every timeout is written as an         *)
(* unsigned difference "t - start" that wraps with it.  ClockMod stands    *)
(* for 2^32.  One unit of the model is one loop() period or longer.        *)
(***************************************************************************)
EXTENDS Integers

CONSTANT ClockMod   \* the number of values of millis(): 2^32 in the firmware

ASSUME ClockAssumption == ClockMod \in Nat \ {0}

\* The values millis() returns.
Clock == 0 .. ClockMod - 1

\* Mutant: a signed difference.
Elapsed_signed(t, start) == t - start

\* The unsigned difference t - start, as in "t - _state_entry_time".
Elapsed(t, start) == IF t >= start THEN t - start ELSE t - start + ClockMod

\* millis() one unit later.
Advance(t) == IF t + 1 = ClockMod THEN 0 ELSE t + 1

\* The unsigned difference t - d for a duration d no longer than the clock.
Before(t, d) == IF t >= d THEN t - d ELSE t - d + ClockMod
=============================================================================
