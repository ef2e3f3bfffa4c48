-------------------------- MODULE ChargeController --------------------------
(***************************************************************************)
(* ChargeController.cpp: polls the charger's meter, keeps the charger's    *)
(* failsafe timer alive and writes the charging current that the fuse has  *)
(* left, one Modbus request after the other.  The member variables are the *)
(* fields of "cc" and the private methods are operators on it.             *)
(*                                                                         *)
(* Here the Modbus client is any client: send_request returns any result   *)
(* and an accepted request ends at any time with any outcome.              *)
(* ChargerSystem puts the client's contract in its place.                  *)
(***************************************************************************)
EXTENDS Integers, FiniteSetsExt, Millis

CONSTANTS
  Phase,             \* the phases of the mains: 3
  FuseLimit,         \* _fuse_limit_ma
  MilliPerAmp,       \* 1000
  ActiveThreshold,   \* a phase is in use above 1000 mA
  PollInterval,      \* s_poll_interval_ms, in units of Millis
  SmTimeout,         \* s_smart_meter_timeout_ms, in units of Millis
  MainsCurrents,     \* the currents per phase a smart meter telegram may carry
  ChargerCurrents    \* the currents per phase the charger's registers may hold

VARIABLES
  cc,                \* the members of the ChargeController object
  now                \* millis()

ccvars == <<cc, now>>

Word == 0 .. 65535

ASSUME ControllerAssumption ==
  /\ Phase # {} /\ IsFiniteSet(Phase)
  /\ FuseLimit \in Nat
  /\ MilliPerAmp \in Nat \ {0}
  /\ FuseLimit \div MilliPerAmp \in Word
  /\ ActiveThreshold \in Nat
  /\ PollInterval \in Nat /\ SmTimeout \in Nat
  /\ PollInterval < SmTimeout /\ SmTimeout < ClockMod
  /\ MainsCurrents \subseteq [Phase -> Int]
  /\ ChargerCurrents \subseteq [Phase -> Word]

ControllerStates == {"IDLE", "READ_CHARGER_METER", "SET_CHARGER_KEEP_ALIVE",
                     "SET_CHARGER_LIMIT"}

\* The three requests, named for the registers they address, and none.
Requests == {"charger_meter", "keep_alive", "max_charging_current"}
NoRequest == "none"
RequestOf(state) ==
  CASE state = "READ_CHARGER_METER"     -> "charger_meter"
    [] state = "SET_CHARGER_KEEP_ALIVE" -> "keep_alive"
    [] state = "SET_CHARGER_LIMIT"      -> "max_charging_current"
    [] OTHER -> NoRequest

Results == {"OK", "BUSY", "FATAL"}

----------------------------------------------------------------------------
(* Conversions and the limit.                                              *)

\* Mutant: the shifted value keeps its high byte.
swap_b16_wide(v) == (v \div 256) + 256 * v

\* Registers are big-endian on the wire and little-endian in memory.
swap_b16(v) == (v \div 256) + 256 * (v % 256)

\* The phases that bound the limit: those the charger draws from, or all
\* while it draws from none.
ConsideredPhases(charger) ==
  LET active == {p \in Phase : charger[p] > ActiveThreshold}
  IN  IF active = {} THEN Phase ELSE active

\* Mutant: an overload gives a negative limit.
determine_current_limit_unclamped(mains, charger) ==
  Min({FuseLimit} \cup
      {FuseLimit - mains[p] + charger[p] : p \in ConsideredPhases(charger)})

determine_current_limit(mains, charger) ==
  LET charger_limit_ma(p) == FuseLimit - mains[p] + charger[p]
      min_limit == Min({FuseLimit} \cup
                       {charger_limit_ma(p) : p \in ConsideredPhases(charger)})
  IN  IF min_limit < 0 THEN 0 ELSE min_limit

----------------------------------------------------------------------------
(* Methods.                                                                *)

\* The object at the start of an operation; "sent" is the request the
\* operation passes to send_request.
this == [cc EXCEPT !.sent = NoRequest]

set_charge_limit(c, limit_ma) ==
  IF limit_ma = c.limit_ma
    THEN c
    ELSE [c EXCEPT !.limit_ma = limit_ma,
                   !.max_charging_current_buf =
                      swap_b16((limit_ma \div MilliPerAmp) % 65536)]

FrameAge(c) == Elapsed(now, c.last_smart_meter_frame_time)

\* Mutants: a telegram of exactly PollInterval is not used; the limit outlives
\* the smart meter.
update_limit_strict(c) ==
  IF FrameAge(c) < PollInterval
    THEN set_charge_limit(c, determine_current_limit(c.smart_meter_meas,
                                                     c.charger_meter_meas))
  ELSE IF FrameAge(c) >= SmTimeout
    THEN set_charge_limit(c, 0)
    ELSE c
update_limit_keeps(c) ==
  IF FrameAge(c) <= PollInterval
    THEN set_charge_limit(c, determine_current_limit(c.smart_meter_meas,
                                                     c.charger_meter_meas))
    ELSE c

\* The limit for the next write: from a recent telegram, the last one for a
\* while, nothing once the smart meter is silent.
update_limit(c) ==
  IF FrameAge(c) <= PollInterval
    THEN set_charge_limit(c, determine_current_limit(c.smart_meter_meas,
                                                     c.charger_meter_meas))
  ELSE IF FrameAge(c) >= SmTimeout
    THEN set_charge_limit(c, 0)
    ELSE c

\* Mutant: a request that was not accepted is waited for.
set_state_waits(c, state, rc) ==
  LET d == [c EXCEPT !.state = state]
      e == IF state = "SET_CHARGER_LIMIT" THEN update_limit(d) ELSE d
  IN  IF state = "IDLE"
        THEN d
        ELSE [e EXCEPT !.sent = RequestOf(state),
                       !.modbus_rc = rc,
                       !.is_request_done = FALSE]

\* Entering a state sends its request; rc is what send_request returns.
set_state(c, state, rc) ==
  LET d == [c EXCEPT !.state = state]
      e == IF state = "SET_CHARGER_LIMIT" THEN update_limit(d) ELSE d
  IN  IF state = "IDLE"
        THEN d
        ELSE [e EXCEPT !.sent = RequestOf(state),
                       !.modbus_rc = rc,
                       !.is_request_done = rc # "OK"]

set_is_connected(c, is_connected) == [c EXCEPT !.is_connected = is_connected]

\* The state that follows a request that succeeded.
StateAfter(state) ==
  CASE state = "READ_CHARGER_METER"     -> "SET_CHARGER_KEEP_ALIVE"
    [] state = "SET_CHARGER_KEEP_ALIVE" -> "SET_CHARGER_LIMIT"
    [] state = "SET_CHARGER_LIMIT"      -> "IDLE"

\* Mutants: a failed request is never done; a failed request is a success.
handle_modbus_request_done_forgets(c, exception_code, words) ==
  IF c.state = "IDLE" \/ exception_code # "NONE"
    THEN c
    ELSE [c EXCEPT !.is_request_done = TRUE, !.modbus_rc = "OK"]
handle_modbus_request_done_optimistic(c, exception_code, words) ==
  IF c.state = "IDLE"
    THEN c
    ELSE [c EXCEPT !.is_request_done = TRUE, !.modbus_rc = "OK"]

\* The callback: it looks at the state the controller is in, not at the
\* request it is told about.
handle_modbus_request_done(c, exception_code, words) ==
  LET is_success == exception_code = "NONE"
      d == IF c.state = "READ_CHARGER_METER" /\ is_success
             THEN [c EXCEPT !.charger_meter_meas =
                              [p \in Phase |-> swap_b16(words[p])]]
             ELSE c
  IN  IF c.state = "IDLE"
        THEN c
        ELSE [d EXCEPT !.is_request_done = TRUE,
                       !.modbus_rc = IF is_success THEN "OK" ELSE "FATAL"]

\* What process_response copies to the request's buffer when the charger's
\* registers hold m.
OnTheWire(m) == [p \in Phase |-> swap_b16(m[p])]

----------------------------------------------------------------------------
(* The specification.                                                      *)

\* A static object after its constructor and begin().
ControllerInit ==
  /\ now \in Clock
  /\ cc = [state |-> "IDLE", is_connected |-> FALSE, is_request_done |-> FALSE,
           modbus_rc |-> "OK", limit_ma |-> -1, max_charging_current_buf |-> 0,
           last_poll_time |-> 0,
           last_smart_meter_frame_time |-> Before(now, SmTimeout),
           smart_meter_meas |-> [p \in Phase |-> 0],
           charger_meter_meas |-> [p \in Phase |-> 0],
           sent |-> NoRequest]

LoopIdle(rc) ==
  /\ cc.state = "IDLE"
  /\ cc' = IF Elapsed(now, cc.last_poll_time) >= PollInterval
             THEN set_state([this EXCEPT !.last_poll_time = now],
                            "READ_CHARGER_METER", rc)
             ELSE this

LoopWaiting ==
  /\ cc.state # "IDLE"
  /\ ~cc.is_request_done
  /\ cc' = this

\* Mutants: the result is used before the request is done; a limit the charger
\* already got is not written again.
LoopSucceeded_early(rc) ==
  /\ cc.state # "IDLE"
  /\ cc.modbus_rc = "OK"
  /\ cc' = set_state(IF cc.state = "SET_CHARGER_LIMIT"
                       THEN set_is_connected(this, TRUE) ELSE this,
                     StateAfter(cc.state), rc)

LoopSucceeded_skips(rc) ==
  /\ cc.state # "IDLE"
  /\ cc.is_request_done
  /\ cc.modbus_rc = "OK"
  /\ cc' = IF /\ cc.state = "SET_CHARGER_KEEP_ALIVE" /\ cc.is_connected
              /\ update_limit(this) = this
             THEN set_state(this, "IDLE", rc)
             ELSE set_state(IF cc.state = "SET_CHARGER_LIMIT"
                              THEN set_is_connected(this, TRUE) ELSE this,
                            StateAfter(cc.state), rc)

LoopSucceeded(rc) ==
  /\ cc.state # "IDLE"
  /\ cc.is_request_done
  /\ cc.modbus_rc = "OK"
  /\ cc' = set_state(IF cc.state = "SET_CHARGER_LIMIT"
                       THEN set_is_connected(this, TRUE) ELSE this,
                     StateAfter(cc.state), rc)

\* "try again"
LoopBusy(rc) ==
  /\ cc.state # "IDLE"
  /\ cc.is_request_done
  /\ cc.modbus_rc = "BUSY"
  /\ cc' = set_state(this, cc.state, rc)

\* Mutant: a failure is not reported.
LoopFailed_unreported(rc) ==
  /\ cc.state # "IDLE"
  /\ cc.is_request_done
  /\ cc.modbus_rc = "FATAL"
  /\ cc' = set_state(this, "IDLE", rc)

LoopFailed(rc) ==
  /\ cc.state # "IDLE"
  /\ cc.is_request_done
  /\ cc.modbus_rc = "FATAL"
  /\ cc' = set_state(set_is_connected(this, FALSE), "IDLE", rc)

\* One call of loop(), with rc the result of the send_request it may make.
loop(rc) ==
  \/ LoopIdle(rc) \/ LoopWaiting
  \/ LoopSucceeded(rc) \/ LoopBusy(rc) \/ LoopFailed(rc)

on_smart_meter_frame(m) ==
  cc' = [this EXCEPT !.smart_meter_meas = m,
                     !.last_smart_meter_frame_time = now]

\* Any client: the accepted request ends.
RequestDone(exception_code, m) ==
  /\ cc.state # "IDLE"
  /\ ~cc.is_request_done
  /\ cc' = handle_modbus_request_done(this, exception_code, OnTheWire(m))

Exceptions == {"NONE", "PROTOCOL_VIOLATION", "NOT_CONNECTED", "TIMEOUT"}

ControllerTick == now' = Advance(now) /\ UNCHANGED cc

ControllerNext ==
  \/ (\E rc \in Results : loop(rc)) /\ UNCHANGED now
  \/ (\E m \in MainsCurrents : on_smart_meter_frame(m)) /\ UNCHANGED now
  \/ (\E exception_code \in Exceptions, m \in ChargerCurrents :
        RequestDone(exception_code, m)) /\ UNCHANGED now
  \/ ControllerTick

ControllerSpec == ControllerInit /\ [][ControllerNext]_ccvars

----------------------------------------------------------------------------
(* Properties.                                                             *)

ControllerType ==
  [state : ControllerStates, is_connected : BOOLEAN, is_request_done : BOOLEAN,
   modbus_rc : Results, limit_ma : Int, max_charging_current_buf : Word,
   last_poll_time : Clock, last_smart_meter_frame_time : Clock,
   smart_meter_meas : [Phase -> Int], charger_meter_meas : [Phase -> Word],
   sent : Requests \cup {NoRequest}]

\* Every member variable has its type.
ControllerTypeOK == cc \in ControllerType /\ now \in Clock

\* What the charger reads from the register word in the request's buffer.
LimitOnWire == swap_b16(cc.max_charging_current_buf)

\* The buffer that set_charge_limit skips updating when the limit is the
\* cached one always holds, in the charger's byte order, the whole amperes of
\* the cached limit, and never more than the fuse; before the first limit it
\* holds 0 A.
LimitEncoded ==
  /\ cc.limit_ma <= FuseLimit
  /\ LimitOnWire = IF cc.limit_ma < 0 THEN 0 ELSE cc.limit_ma \div MilliPerAmp

\* On every phase that counts, what the rest of the house draws (mains minus
\* charger, as measured) plus the limit fits the fuse, unless the limit is 0.
SharesFuse(c) ==
  \A p \in ConsideredPhases(c.charger_meter_meas) :
    \/ c.limit_ma = 0
    \/ c.smart_meter_meas[p] - c.charger_meter_meas[p] + c.limit_ma <= FuseLimit

\* Whenever the controller sends a limit and the last telegram is recent, the
\* limit leaves room for the rest of the house on every phase the charger
\* draws from, by the measurements the controller has at that moment
\* (set_state, determine_current_limit).
LimitSharesFuse ==
  [][ cc'.sent = "max_charging_current" /\ cc' # cc
        /\ Elapsed(now, cc'.last_smart_meter_frame_time) <= PollInterval
      => SharesFuse(cc') ]_ccvars
=============================================================================
