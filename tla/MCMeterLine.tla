---------------------------- MODULE MCMeterLine ----------------------------
(***************************************************************************)
(* Instances of MeterLine: one key for each handler, with two phases of    *)
(* power, and values in every unit.                                        *)
(***************************************************************************)
EXTENDS MeterLine

Key(handler, phase) == [handler |-> handler, phase |-> phase]
Number(whole, frac, digits, unit) ==
  [whole |-> whole, frac |-> frac, digits |-> digits, unit |-> unit, pairs |-> 0]

MCKeys ==
  {Key("timestamp", 0), Key("power_import", 0), Key("power_export", 1), Key("potential", 0),
   Key("current", 2), Key("energy_import", 0), Key("energy_export", 1)}

\* The time that fails does so behind its last digit; the last value has more
\* decimals than handle_current takes.
MCTexts ==
  {[whole |-> 1, frac |-> 0, digits |-> 0, unit |-> "summer", pairs |-> 6],
   [whole |-> 2, frac |-> 0, digits |-> 0, unit |-> "", pairs |-> 6],
   Number(1, 5, 1, "kWh"), Number(2, 25, 2, "kW"), Number(230, 1, 1, "V"),
   Number(3, 0, 0, "A"), Number(1, 7, 1, "A")}
=============================================================================
