----------------------------- MODULE SmartMeter -----------------------------
(***************************************************************************)
(* SmartMeter.cpp: polls the UART, feeds the parser and reports whether    *)
(* telegrams arrive.  The member variables other than the parser are the   *)
(* fields of "meter"; what the parser makes of the bytes of one poll is    *)
(* its outcome: a complete telegram or none.                               *)
(***************************************************************************)
EXTENDS Integers, Millis

CONSTANT MeterTimeout     \* 1000 * SMART_METER_TIMEOUT_SEC, in units of Millis

VARIABLES
  meter,                  \* the members of the SmartMeter object
  now                     \* millis()

\* What one poll yields: SM_READ_ERROR, nothing that completes a telegram, or
\* the end of one.
Polls == {"error", "nothing", "telegram"}

MeterInit == meter = [is_connected |-> FALSE, last_frame_time |-> 0]

set_connected(m, is_connected) == [m EXCEPT !.is_connected = is_connected]

handle_smart_meter_frame(m) ==
  set_connected([m EXCEPT !.last_frame_time = now], TRUE)

\* Mutant: no timeout.
check_timeout_never(m) == m

check_timeout(m) ==
  IF m.is_connected /\ Elapsed(now, m.last_frame_time) >= MeterTimeout
    THEN set_connected(m, FALSE) ELSE m

loop(poll) ==
  meter' = check_timeout(CASE poll = "error"    -> set_connected(meter, FALSE)
                           [] poll = "telegram" -> handle_smart_meter_frame(meter)
                           [] poll = "nothing"  -> meter)
=============================================================================
