--------------------------- MODULE ChargerSystem ---------------------------
(***************************************************************************)
(* The charge controller, the Modbus client it shares the main loop with   *)
(* (by its contract, RequestService) and the charger.  One pass of loop()  *)
(* in smartmeterreader.ino runs, in this order, the smart meter, the       *)
(* client, the controller and the delay; a telegram and the end of a       *)
(* request reach the controller as callbacks.  The charger is the          *)
(* environment: it handles a request that is on the wire at any time, also *)
(* after the client has given up on it, and may refuse a limit.  The       *)
(* client gives up with a plain close(fd): lwip goes on retransmitting     *)
(* what was not acknowledged, so that a limit written on a closed          *)
(* connection may reach the charger after any number of later requests.    *)
(***************************************************************************)
EXTENDS ChargeController, SequencesExt

CONSTANT MaxLate            \* bound: limits of closed connections under way at once

ASSUME LateAssumption == MaxLate \in Nat

VARIABLES
  status, pending, calls,   \* the client, as RequestService shows it
  turn,                     \* who runs next in this pass of loop()
  wire,                     \* the request the charger has not handled yet
  late,                     \* limits sent on connections closed since
  answered,                 \* the charger has handled the pending request
  applied,                  \* the charging current in force at the charger, in A
  refused,                  \* the charger refused the last limit it handled
  overtaken,                \* ghost: a late limit was applied after the last one
                            \* of the latest connection
  silence                   \* ghost: time since the last telegram

service == <<status, pending, calls>>
charger == <<wire, late, answered, applied, refused, overtaken>>
vars == <<cc, now, service, turn, charger, silence>>

Client == INSTANCE RequestService WITH Request <- Requests

NoWire == [request |-> NoRequest, value |-> 0]

\* Bound: the ghost saturates when the clock has wrapped once.
MaxSilence == ClockMod

Init ==
  /\ ControllerInit
  /\ Client!Init
  /\ turn = "meter"
  /\ wire = NoWire
  /\ late = <<>>
  /\ answered = FALSE
  /\ applied = 0
  /\ refused = FALSE
  /\ overtaken = FALSE
  /\ silence = SmTimeout

\* s_meter.loop(): a complete telegram goes to the controller.
MeterTurn ==
  /\ turn = "meter"
  /\ turn' = "modbus"
  /\ \/ /\ \E m \in MainsCurrents : on_smart_meter_frame(m)
        /\ silence' = 0
     \/ /\ cc' = this
        /\ UNCHANGED silence
  /\ UNCHANGED <<now, service, charger>>

\* A limit that is still in flight on the connection the client gave up is
\* lost or becomes late; of another request nothing follows.
ClientConnects ==
  /\ Client!Connect
  /\ cc' = this
  /\ wire' = NoWire
  /\ \/ UNCHANGED late
     \/ /\ wire.request = "max_charging_current" /\ Len(late) < MaxLate
        /\ late' = Append(late, wire.value)
  /\ UNCHANGED <<answered, applied, refused, overtaken>>

\* A request that leaves the connection up was handled by the charger.  The
\* client reports NONE for a refusal too (see ModbusTcpClient).
ClientCompletes ==
  /\ \E exception_code \in Exceptions, m \in ChargerCurrents :
       /\ Client!Complete(exception_code)
       /\ status' = "idle" => answered
       /\ cc' = handle_modbus_request_done(this, exception_code, OnTheWire(m))
  /\ UNCHANGED charger

ClientWaits ==
  /\ Client!Quiet
  /\ cc' = this
  /\ UNCHANGED charger

\* s_charger_modbus.loop()
ModbusTurn ==
  /\ turn = "modbus"
  /\ turn' = "charger"
  /\ ClientConnects \/ ClientCompletes \/ ClientWaits
  /\ UNCHANGED <<now, silence>>

\* What send_request returns in the client's present state.
SendResult ==
  CASE status = "down" -> "FATAL"
    [] status = "busy" -> "BUSY"
    [] status = "idle" -> "OK"

\* s_ev_charger.loop(), with the send_request it may make.  The request is
\* serialised by send_request: the charger gets the buffer of that moment.
ChargerTurn ==
  /\ turn = "charger"
  /\ turn' = "delay"
  /\ loop(SendResult)
  /\ \/ /\ status = "idle" /\ cc'.sent # NoRequest
        /\ Client!Submit(cc'.sent)
        /\ wire' = [request |-> cc'.sent,
                    value   |-> cc'.max_charging_current_buf]
        /\ answered' = FALSE
        /\ UNCHANGED <<late, applied, refused, overtaken>>
     \/ /\ status # "idle" \/ cc'.sent = NoRequest
        /\ Client!Quiet
        /\ UNCHANGED charger
  /\ UNCHANGED <<now, silence>>

\* delay(5): time may pass.
TimePasses ==
  /\ turn = "delay"
  /\ turn' = "meter"
  /\ now' = Advance(now)
  /\ silence' = IF silence < MaxSilence THEN silence + 1 ELSE silence
  /\ UNCHANGED <<cc, service, charger>>

NoTimePasses ==
  /\ turn = "delay"
  /\ turn' = "meter"
  /\ UNCHANGED <<cc, now, service, charger, silence>>

\* The charger handles what is on the wire.
ChargerHandles ==
  /\ wire # NoWire
  /\ wire' = NoWire
  /\ answered' = TRUE
  /\ IF wire.request = "max_charging_current"
       THEN /\ \/ applied' = swap_b16(wire.value) /\ refused' = FALSE
               \/ refused' = TRUE /\ UNCHANGED applied
            /\ overtaken' = FALSE
       ELSE UNCHANGED <<applied, refused, overtaken>>
  /\ UNCHANGED <<cc, now, service, turn, late, silence>>

\* A limit of a closed connection arrives; its answer reaches nobody.
ChargerHandlesLate ==
  /\ \E i \in DOMAIN late :
       /\ late' = RemoveAt(late, i)
       /\ \/ applied' = swap_b16(late[i]) /\ overtaken' = TRUE
          \/ UNCHANGED <<applied, overtaken>>
  /\ UNCHANGED <<cc, now, service, turn, wire, answered, refused, silence>>

Next ==
  \/ MeterTurn \/ ModbusTurn \/ ChargerTurn
  \/ TimePasses \/ NoTimePasses
  \/ ChargerHandles \/ ChargerHandlesLate

Spec == Init /\ [][Next]_vars

\* The main loop keeps running, time passes, and the client answers every
\* request (ModbusTcpClient!ImplementsService).
FairSpec ==
  /\ Spec
  /\ WF_vars(MeterTurn) /\ WF_vars(ModbusTurn) /\ WF_vars(ChargerTurn)
  /\ SF_vars(TimePasses) /\ WF_vars(NoTimePasses)
  /\ SF_vars(ModbusTurn /\ ClientCompletes)

----------------------------------------------------------------------------
(* Properties.                                                             *)

\* The client works on a request exactly while the controller waits for one,
\* and on the request of the controller's state: the callback, which looks at
\* the state only, is never about another request, and none is dropped in
\* STATE_IDLE.
PendingIsAwaited ==
  /\ status = "busy" <=> cc.state # "IDLE" /\ ~cc.is_request_done
  /\ status = "busy" => pending = RequestOf(cc.state)

\* The controller is the only user of the client, and send_request never
\* finds it busy: the "try again" branches are not taken.
NeverBusy == cc.modbus_rc # "BUSY"

\* A limit written when no telegram has arrived for SmTimeout is 0, as long as
\* the silence is shorter than one round of millis(): after that the unsigned
\* age of the telegram starts again at 0 and the telegram counts as recent.
StaleMeterStopsCharging ==
  turn = "delay" /\ cc.sent = "max_charging_current"
      /\ silence >= SmTimeout /\ silence < ClockMod =>
    cc.limit_ma = 0

\* While the controller reports the charger as connected and is not writing a
\* new limit, the charger has the limit the controller believes in, unless it
\* refused it or a limit of an earlier connection has arrived since: a write
\* that failed or timed out is always reported, also when the charger handles
\* it after all.
ConnectedMeansApplied ==
  cc.is_connected /\ cc.state # "SET_CHARGER_LIMIT" =>
    refused \/ overtaken \/ applied = LimitOnWire

\* A limit that overtook a later one does not stay in force: the controller
\* writes the limit in every cycle, also when it has not changed, so the next
\* one replaces it or the charger is reported as disconnected.
OvertakenLimitRepaired == overtaken ~> ~overtaken \/ ~cc.is_connected

\* Every cycle of requests ends: the controller gets back to polling.
CycleEnds == cc.state # "IDLE" ~> cc.state = "IDLE"

\* If the client never gets a connection again, the charger is in the end
\* reported as disconnected and stays so.
OutageReported == <>[](status = "down") => <>[](~cc.is_connected)
=============================================================================
