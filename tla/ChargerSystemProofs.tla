------------------------- MODULE ChargerSystemProofs -------------------------
(***************************************************************************)
(* Proofs about ChargerSystem for any clock, any timeouts that fit it, any *)
(* fuse and any currents.                                                  *)
(***************************************************************************)
EXTENDS ChargerSystem, ChargeControllerProofs

----------------------------------------------------------------------------
(* The inductive invariant.                                                *)

StatusType == status \in {"down", "idle", "busy"}

\* The charger has what the controller believes in, refused it, or has got a
\* limit of an earlier connection since.
Applied == refused \/ overtaken \/ applied = LimitOnWire

\* Nothing the charger has handled is on the wire any more; a connection with
\* no request pending has nothing on the wire; and while a request is pending,
\* the wire has that request, with the buffer as it still is.
WireInv ==
  /\ answered => wire = NoWire
  /\ status = "idle" => wire = NoWire
  /\ (status = "busy" /\ wire # NoWire) =>
       wire.request = pending /\ wire.value = cc.max_charging_current_buf

\* How ConnectedMeansApplied comes about: the charger handles the pending
\* limit, the callback reports success, the controller reports the charger as
\* connected; and no limit is under way after that.
AppliedInv ==
  /\ (status = "busy" /\ answered /\ pending = "max_charging_current") => Applied
  /\ (cc.state = "SET_CHARGER_LIMIT" /\ cc.is_request_done /\ cc.modbus_rc = "OK")
       => status = "idle" /\ Applied
  /\ (cc.is_connected /\ cc.state # "SET_CHARGER_LIMIT")
       => wire.request # "max_charging_current" /\ Applied

LinkInv == StatusType /\ PendingIsAwaited /\ NeverBusy /\ WireInv /\ AppliedInv

\* The unsigned age of the last telegram is its real age until the clock has
\* gone round once.
AgeInv ==
  /\ silence \in 0 .. ClockMod
  /\ silence < ClockMod => FrameAge(cc) = silence

SystemInv == ControllerInv /\ LinkInv /\ AgeInv /\ StaleMeterStopsCharging

\* The controller does nothing but clear "sent".
ControllerRests ==
  Rests(cc, cc') /\ SameLimit(cc, cc') /\ cc'.is_connected = cc.is_connected

LEMMA SystemInit == Init => SystemInv
<1> SUFFICES ASSUME Init PROVE SystemInv
  OBVIOUS
<1>1. ControllerInv
  BY InitFacts DEF Init
<1>2. /\ cc.state = "IDLE" /\ cc.modbus_rc = "OK" /\ cc.is_connected = FALSE
      /\ cc.last_smart_meter_frame_time = Before(now, SmTimeout)
      /\ cc.sent = NoRequest /\ now \in Clock
  BY DEF Init, ControllerInit
<1>3. LinkInv
  BY <1>2 DEF Init, Client!Init, LinkInv, StatusType, PendingIsAwaited, NeverBusy,
              WireInv, AppliedInv
<1>4. Elapsed(now, Before(now, SmTimeout)) = SmTimeout
  BY <1>2, ControllerAssumption, ClockAssumption DEF Elapsed, Before, Clock
<1>5. AgeInv
  BY <1>2, <1>4, ControllerAssumption, ClockAssumption DEF Init, AgeInv, FrameAge
<1>6. StaleMeterStopsCharging
  BY <1>2 DEF StaleMeterStopsCharging, NoRequest
<1> QED BY <1>1, <1>3, <1>5, <1>6 DEF SystemInv

----------------------------------------------------------------------------
(* The controller, the client and the charger.                             *)

\* Nobody does anything.
LEMMA RestKeepsLink ==
  ASSUME LinkInv, ControllerRests,
         UNCHANGED <<status, pending, wire, answered, applied, refused, overtaken>>
  PROVE  LinkInv'
<1> USE DEF ControllerRests, Rests, SameLimit
<1>1. StatusType' /\ PendingIsAwaited' /\ NeverBusy'
  BY Zenon DEF LinkInv, StatusType, PendingIsAwaited, NeverBusy
<1>2. WireInv'
  BY Zenon DEF LinkInv, WireInv, NoWire
<1>3. Applied <=> Applied'
  BY Zenon DEF Applied, LimitOnWire
<1>4. AppliedInv'
  BY <1>3, Zenon DEF LinkInv, AppliedInv
<1> QED BY <1>1, <1>2, <1>4, Zenon DEF LinkInv

\* A new connection has an empty wire.
LEMMA ConnectKeepsLink ==
  ASSUME LinkInv, ControllerRests, status = "down", status' = "idle",
         wire' = NoWire, UNCHANGED <<pending, answered, applied, refused, overtaken>>
  PROVE  LinkInv'
<1> USE DEF ControllerRests, Rests, SameLimit
<1>0. "idle" # "busy" /\ "down" # "busy" /\ "down" # "idle"
      /\ NoWire.request # "max_charging_current"
  BY DEF NoWire, NoRequest
<1>1. StatusType' /\ PendingIsAwaited' /\ NeverBusy'
  BY <1>0, Zenon DEF LinkInv, StatusType, PendingIsAwaited, NeverBusy
<1>2. WireInv'
  BY <1>0, Zenon DEF LinkInv, WireInv, NoWire
<1>3. Applied <=> Applied'
  BY Zenon DEF Applied, LimitOnWire
<1>4. AppliedInv'
  BY <1>0, <1>3, Zenon DEF LinkInv, AppliedInv
<1> QED BY <1>1, <1>2, <1>4, Zenon DEF LinkInv

\* A request ends; if the connection is still up, the charger has handled it.
LEMMA CompleteKeepsLink ==
  ASSUME ControllerInv, LinkInv, NEW exception_code \in Exceptions,
         NEW m \in ChargerCurrents,
         Client!Complete(exception_code), status' = "idle" => answered,
         cc' = handle_modbus_request_done(this, exception_code, OnTheWire(m)),
         UNCHANGED charger
  PROVE  /\ LinkInv' /\ cc' \in ControllerType /\ Encoded(cc')
         /\ cc'.last_smart_meter_frame_time = cc.last_smart_meter_frame_time
<1>1. /\ status = "busy" /\ status' \in {"idle", "down"}
      /\ exception_code = "NONE" => status' = "idle"
  BY DEF Client!Complete, Client!StatusAfter, Exceptions
<1>2. cc.state # "IDLE" /\ ~cc.is_request_done /\ pending = RequestOf(cc.state)
  BY <1>1 DEF LinkInv, PendingIsAwaited
<1>3. /\ cc' \in ControllerType /\ Encoded(cc')
      /\ cc'.state = cc.state /\ SameLimit(cc, cc')
      /\ cc'.is_connected = cc.is_connected
      /\ cc'.last_smart_meter_frame_time = cc.last_smart_meter_frame_time
      /\ cc'.is_request_done
      /\ cc'.modbus_rc = IF exception_code = "NONE" THEN "OK" ELSE "FATAL"
  BY <1>2, CallbackFacts, Zenon
<1>4. UNCHANGED <<wire, answered, applied, refused, overtaken>>
  BY DEF charger
<1>5. StatusType' /\ PendingIsAwaited' /\ NeverBusy'
  BY <1>1, <1>3 DEF StatusType, PendingIsAwaited, NeverBusy
<1>6. WireInv'
  BY <1>1, <1>4 DEF LinkInv, WireInv, NoWire
<1>7. Applied <=> Applied'
  BY <1>3, <1>4, Zenon DEF Applied, LimitOnWire, SameLimit
<1>8. ASSUME cc'.state = "SET_CHARGER_LIMIT", cc'.modbus_rc = "OK"
      PROVE  status' = "idle" /\ Applied'
  <2>1. exception_code = "NONE"
    BY <1>3, <1>8
  <2>2. pending = "max_charging_current"
    BY <1>2, <1>3, <1>8 DEF RequestOf
  <2> QED BY <1>1, <1>7, <2>1, <2>2 DEF LinkInv, AppliedInv
<1>9. AppliedInv'
  <2>1. ~(status' = "busy")
    BY <1>1
  <2> QED BY <1>3, <1>4, <1>7, <1>8, <2>1, Zenon DEF LinkInv, AppliedInv
<1> QED BY <1>3, <1>5, <1>6, <1>9, Zenon DEF LinkInv

\* The charger handles the request on the wire.
LEMMA HandleKeepsLink ==
  ASSUME LinkInv, ChargerHandles
  PROVE  LinkInv'
<1> USE DEF ChargerHandles
<1>1. UNCHANGED <<cc, status, pending>>
  BY DEF service
<1>2. wire # NoWire /\ wire' = NoWire /\ NoWire.request # "max_charging_current"
  BY DEF NoWire, NoRequest
<1>3. StatusType' /\ PendingIsAwaited' /\ NeverBusy'
  BY <1>1 DEF LinkInv, StatusType, PendingIsAwaited, NeverBusy
<1>4. WireInv'
  BY <1>2 DEF WireInv, NoWire
<1>5. ~answered /\ status # "idle"
  BY <1>2 DEF LinkInv, WireInv
<1>6. wire.request # "max_charging_current" => (Applied <=> Applied')
  BY <1>1 DEF Applied, LimitOnWire
<1>7. ASSUME status = "busy", pending = "max_charging_current"
      PROVE  Applied'
  <2>1. wire.request = "max_charging_current"
          /\ wire.value = cc.max_charging_current_buf
    BY <1>2, <1>7 DEF LinkInv, WireInv
  <2> QED BY <1>1, <2>1 DEF Applied, LimitOnWire
<1>8. AppliedInv'
  BY <1>1, <1>2, <1>5, <1>6, <1>7, Zenon DEF LinkInv, AppliedInv
<1> QED BY <1>3, <1>4, <1>8, Zenon DEF LinkInv

\* A limit of a closed connection disturbs nothing that is not marked as
\* overtaken.
LEMMA LateKeepsLink ==
  ASSUME LinkInv, ChargerHandlesLate
  PROVE  LinkInv'
<1>1. UNCHANGED <<cc, status, pending, wire, answered, refused>>
  BY DEF ChargerHandlesLate, service
<1>2. overtaken' \/ UNCHANGED <<applied, overtaken>>
  BY DEF ChargerHandlesLate
<1>3. Applied => Applied'
  BY <1>1, <1>2 DEF Applied, LimitOnWire
<1>4. StatusType' /\ PendingIsAwaited' /\ NeverBusy' /\ WireInv'
  BY <1>1 DEF LinkInv, StatusType, PendingIsAwaited, NeverBusy, WireInv, NoWire
<1>5. AppliedInv'
  BY <1>1, <1>3, Zenon DEF LinkInv, AppliedInv
<1> QED BY <1>4, <1>5, Zenon DEF LinkInv

\* What one call of the controller's loop() does to the client: nothing, or
\* one request while no other is pending.
LEMMA LoopMoves ==
  ASSUME ControllerInv, LinkInv, loop(SendResult)
  PROVE  /\ SendResult \in Results
         /\ \/ ControllerRests
            \/ /\ status # "busy"
               /\ \/ Sends(cc', "READ_CHARGER_METER", SendResult)
                  \/ Sends(cc', "SET_CHARGER_KEEP_ALIVE", SendResult)
               /\ cc.state # "SET_CHARGER_LIMIT"
               /\ SameLimit(cc, cc') /\ cc'.is_connected = cc.is_connected
            \/ /\ status # "busy"
               /\ Sends(cc', "SET_CHARGER_LIMIT", SendResult)
            \/ /\ cc.state = "SET_CHARGER_LIMIT" /\ cc.is_request_done
               /\ cc.modbus_rc = "OK"
               /\ cc'.state = "IDLE" /\ cc'.sent = NoRequest
               /\ cc'.modbus_rc = "OK" /\ SameLimit(cc, cc')
            \/ /\ status # "busy"
               /\ cc'.state = "IDLE" /\ cc'.sent = NoRequest
               /\ cc'.modbus_rc = "FATAL" /\ ~cc'.is_connected
<1>1. SendResult \in Results
  BY DEF SendResult, Results, LinkInv, StatusType
<1>2. cc.state = "IDLE" \/ cc.is_request_done => status # "busy"
  BY DEF LinkInv, PendingIsAwaited
<1>3. CASE LoopIdle(SendResult)
  <2>1. /\ Rests(cc, cc') \/ Sends(cc', "READ_CHARGER_METER", SendResult)
        /\ SameLimit(cc, cc') /\ cc'.is_connected = cc.is_connected
    BY <1>1, <1>3, LoopIdleFacts, Zenon
  <2>2. cc.state = "IDLE" /\ cc.state # "SET_CHARGER_LIMIT"
    BY <1>3 DEF LoopIdle
  <2> QED BY <1>1, <1>2, <2>1, <2>2, Zenon DEF ControllerRests
<1>4. CASE LoopWaiting
  BY <1>1, <1>4, LoopWaitingFacts, Zenon DEF ControllerRests
<1>5. CASE LoopSucceeded(SendResult)
  <2>1. cc.is_request_done /\ cc.modbus_rc = "OK"
    BY <1>5 DEF LoopSucceeded
  <2>2. \/ /\ cc.state = "READ_CHARGER_METER"
           /\ Sends(cc', "SET_CHARGER_KEEP_ALIVE", SendResult)
           /\ SameLimit(cc, cc') /\ cc'.is_connected = cc.is_connected
        \/ Sends(cc', "SET_CHARGER_LIMIT", SendResult)
        \/ /\ cc.state = "SET_CHARGER_LIMIT"
           /\ cc'.state = "IDLE" /\ cc'.sent = NoRequest
           /\ cc'.modbus_rc = "OK" /\ SameLimit(cc, cc')
    BY <1>1, <1>5, LoopSucceededFacts, Zenon DEF LimitSent
  <2>3. cc.state = "READ_CHARGER_METER" => cc.state # "SET_CHARGER_LIMIT"
    OBVIOUS
  <2> QED BY <1>1, <1>2, <2>1, <2>2, <2>3, Zenon
<1>6. CASE LoopBusy(SendResult)
  BY <1>6, Zenon DEF LoopBusy, LinkInv, NeverBusy
<1>7. CASE LoopFailed(SendResult)
  <2>1. cc.is_request_done
    BY <1>7 DEF LoopFailed
  <2> QED BY <1>1, <1>2, <1>7, <2>1, LoopFailedFacts, Zenon
<1> QED BY <1>3, <1>4, <1>5, <1>6, <1>7, Zenon DEF loop

\* A request of a state goes to the client, or is refused while the
\* connection is down.
LEMMA SendKeepsLink ==
  ASSUME LinkInv, status # "busy",
         NEW state \in ControllerStates \ {"IDLE"},
         Sends(cc', state, SendResult),
         state # "SET_CHARGER_LIMIT" =>
           /\ cc.state # "SET_CHARGER_LIMIT" /\ SameLimit(cc, cc')
           /\ cc'.is_connected = cc.is_connected,
         ChargerTurn
  PROVE  LinkInv'
<1>1. cc'.state = state /\ cc'.state # "IDLE" /\ cc'.sent = RequestOf(state)
  BY DEF Sends
<1>2. RequestOf(state) # NoRequest
  BY RequestOfFacts
<1>3. ASSUME state # "SET_CHARGER_LIMIT", cc'.is_connected,
             UNCHANGED <<applied, refused, overtaken>>
      PROVE  Applied'
  <2>1. Applied
    BY <1>3 DEF LinkInv, AppliedInv
  <2> QED BY <1>3, <2>1 DEF Applied, LimitOnWire, SameLimit
<1>4. CASE status = "idle"
  <2>1. /\ status' = "busy" /\ pending' = cc'.sent /\ ~answered'
        /\ wire' = [request |-> cc'.sent, value |-> cc'.max_charging_current_buf]
        /\ UNCHANGED <<applied, refused, overtaken>>
    BY <1>1, <1>2, <1>4 DEF ChargerTurn, Client!Submit
  <2>2. cc'.modbus_rc = "OK" /\ ~cc'.is_request_done
    BY <1>4 DEF Sends, SendResult
  <2>3. StatusType' /\ PendingIsAwaited' /\ NeverBusy'
    BY <1>1, <2>1, <2>2 DEF StatusType, PendingIsAwaited, NeverBusy
  <2>4. wire'.request = cc'.sent /\ wire'.value = cc'.max_charging_current_buf
    BY <2>1
  <2>5. WireInv'
    BY <2>1, <2>4 DEF WireInv
  <2>6. state # "SET_CHARGER_LIMIT" => wire'.request # "max_charging_current"
    BY <1>1, <2>4, RequestOfFacts
  <2>7. AppliedInv'
    BY <1>1, <1>3, <2>1, <2>2, <2>6, Zenon DEF AppliedInv
  <2> QED BY <2>3, <2>5, <2>7, Zenon DEF LinkInv
<1>5. CASE status = "down"
  <2>1. UNCHANGED <<status, pending, wire, answered, applied, refused, overtaken>>
    BY <1>5 DEF ChargerTurn, Client!Quiet, charger
  <2>2. cc'.modbus_rc = "FATAL" /\ cc'.is_request_done
    BY <1>5 DEF Sends, SendResult
  <2>3. StatusType' /\ PendingIsAwaited' /\ NeverBusy'
    BY <1>5, <2>1, <2>2 DEF StatusType, PendingIsAwaited, NeverBusy
  <2>4. WireInv'
    BY <1>5, <2>1 DEF LinkInv, WireInv, NoWire
  <2>5. cc'.modbus_rc # "OK" /\ status' # "busy"
    BY <1>5, <2>1, <2>2
  <2>6. (cc'.is_connected /\ cc'.state # "SET_CHARGER_LIMIT")
          => wire'.request # "max_charging_current"
    BY <1>1, <2>1, Zenon DEF LinkInv, AppliedInv
  <2>7. AppliedInv'
    BY <1>1, <1>3, <2>1, <2>5, <2>6, Zenon DEF AppliedInv
  <2> QED BY <2>3, <2>4, <2>7, Zenon DEF LinkInv
<1> QED BY <1>4, <1>5 DEF LinkInv, StatusType

LEMMA TurnKeepsLink ==
  ASSUME ControllerInv, LinkInv, ChargerTurn
  PROVE  LinkInv'
<1>1. loop(SendResult)
  BY DEF ChargerTurn
<1>2. ASSUME cc'.sent = NoRequest
      PROVE  UNCHANGED <<status, pending, wire, answered, applied, refused, overtaken>>
  BY <1>2 DEF ChargerTurn, Client!Quiet, charger
<1>3. CASE ControllerRests
  BY <1>2, <1>3, RestKeepsLink DEF ControllerRests, Rests
<1>4. CASE /\ status # "busy"
           /\ \/ Sends(cc', "READ_CHARGER_METER", SendResult)
              \/ Sends(cc', "SET_CHARGER_KEEP_ALIVE", SendResult)
           /\ cc.state # "SET_CHARGER_LIMIT"
           /\ SameLimit(cc, cc') /\ cc'.is_connected = cc.is_connected
  BY <1>4, SendKeepsLink DEF ControllerStates
<1>5. CASE status # "busy" /\ Sends(cc', "SET_CHARGER_LIMIT", SendResult)
  BY <1>5, SendKeepsLink DEF ControllerStates
<1>6. CASE /\ cc.state = "SET_CHARGER_LIMIT" /\ cc.is_request_done
           /\ cc.modbus_rc = "OK"
           /\ cc'.state = "IDLE" /\ cc'.sent = NoRequest
           /\ cc'.modbus_rc = "OK" /\ SameLimit(cc, cc')
  <2>1. UNCHANGED <<status, pending, wire, answered, applied, refused, overtaken>>
    BY <1>2, <1>6
  <2>2. status = "idle" /\ Applied /\ wire = NoWire
    BY <1>6 DEF LinkInv, AppliedInv, WireInv
  <2>3. Applied' /\ wire'.request # "max_charging_current"
    BY <1>6, <2>1, <2>2 DEF Applied, LimitOnWire, SameLimit, NoWire, NoRequest
  <2>4. StatusType' /\ PendingIsAwaited' /\ NeverBusy'
    BY <1>6, <2>1, <2>2 DEF StatusType, PendingIsAwaited, NeverBusy
  <2>5. WireInv'
    BY <2>1, <2>2 DEF WireInv, NoWire
  <2>6. AppliedInv'
    BY <1>6, <2>1, <2>2, <2>3 DEF AppliedInv
  <2> QED BY <2>4, <2>5, <2>6, Zenon DEF LinkInv
<1>7. CASE /\ status # "busy"
           /\ cc'.state = "IDLE" /\ cc'.sent = NoRequest
           /\ cc'.modbus_rc = "FATAL" /\ ~cc'.is_connected
  <2>1. UNCHANGED <<status, pending, wire, answered, applied, refused, overtaken>>
    BY <1>2, <1>7
  <2>2. StatusType' /\ PendingIsAwaited' /\ NeverBusy'
    BY <1>7, <2>1 DEF LinkInv, StatusType, PendingIsAwaited, NeverBusy
  <2>3. WireInv'
    BY <1>7, <2>1 DEF LinkInv, WireInv, NoWire
  <2>4. AppliedInv'
    BY <1>7, <2>1 DEF AppliedInv
  <2> QED BY <2>2, <2>3, <2>4, Zenon DEF LinkInv
<1> QED BY <1>1, <1>3, <1>4, <1>5, <1>6, <1>7, LoopMoves, Zenon

----------------------------------------------------------------------------
(* The age of the telegram.                                                *)

\* One unit later an age that the clock can still tell is one more.
LEMMA AgeAdvances ==
  ASSUME NEW t \in Clock, NEW start \in Clock, Elapsed(t, start) + 1 < ClockMod
  PROVE  Elapsed(Advance(t), start) = Elapsed(t, start) + 1
BY ClockAssumption DEF Elapsed, Advance, Clock

\* Steps that leave the clock, the ghost and the telegram's time alone.
LEMMA AgeKept ==
  ASSUME AgeInv, UNCHANGED <<now, silence>>,
         cc'.last_smart_meter_frame_time = cc.last_smart_meter_frame_time
  PROVE  AgeInv'
BY DEF AgeInv, FrameAge

LEMMA TimeKeepsAge ==
  ASSUME ControllerInv, AgeInv, TimePasses
  PROVE  AgeInv'
<1>1. /\ now \in Clock /\ cc.last_smart_meter_frame_time \in Clock
  BY DEF ControllerInv, ControllerTypeOK, ControllerType
<1>2. /\ now' = Advance(now) /\ cc' = cc
      /\ silence' = IF silence < ClockMod THEN silence + 1 ELSE silence
  BY DEF TimePasses, MaxSilence
<1>3. silence \in Int /\ 0 <= silence /\ silence <= ClockMod /\ ClockMod \in Int
  BY ClockAssumption DEF AgeInv
<1>4. silence' \in 0 .. ClockMod
  BY <1>2, <1>3
<1>5. ASSUME silence' < ClockMod
      PROVE  Elapsed(now', cc.last_smart_meter_frame_time) = silence'
  <2>1. silence + 1 < ClockMod /\ silence' = silence + 1
    BY <1>2, <1>3, <1>5
  <2>2. Elapsed(now, cc.last_smart_meter_frame_time) = silence
    BY <1>3, <2>1 DEF AgeInv, FrameAge
  <2> QED BY <1>1, <1>2, <2>1, <2>2, AgeAdvances
<1> QED BY <1>2, <1>4, <1>5 DEF AgeInv, FrameAge

----------------------------------------------------------------------------
(* The steps of the system.                                                *)

LEMMA RestKeepsSystem ==
  ASSUME SystemInv, cc' = this, turn' # "delay",
         UNCHANGED <<now, silence>>
  PROVE  /\ ControllerRests
         /\ ControllerInv' /\ AgeInv' /\ StaleMeterStopsCharging'
<1>1. /\ this \in ControllerType /\ Encoded(this)
      /\ Rests(cc, this) /\ SameLimit(cc, this) /\ SameMeasurements(cc, this)
      /\ this.is_connected = cc.is_connected
  BY ThisFacts DEF SystemInv, ControllerInv, ControllerTypeOK
<1>2. ControllerRests
  BY <1>1 DEF ControllerRests
<1>3. ControllerInv'
  BY <1>1 DEF SystemInv, ControllerInv, ControllerTypeOK, Encoded
<1>4. AgeInv'
  BY <1>1, AgeKept DEF SystemInv, SameMeasurements
<1>5. StaleMeterStopsCharging'
  BY DEF StaleMeterStopsCharging
<1> QED BY <1>2, <1>3, <1>4, <1>5

LEMMA MeterStep == ASSUME SystemInv, MeterTurn PROVE SystemInv'
<1>1. UNCHANGED <<status, pending, wire, answered, applied, refused, overtaken, now>>
      /\ turn' # "delay"
  BY DEF MeterTurn, service, charger
<1>2. CASE cc' = this /\ UNCHANGED silence
  <2>1. /\ ControllerRests
        /\ ControllerInv' /\ AgeInv' /\ StaleMeterStopsCharging'
    BY <1>1, <1>2, RestKeepsSystem
  <2> QED BY <1>1, <2>1, RestKeepsLink DEF SystemInv
<1>3. ASSUME NEW m \in MainsCurrents, on_smart_meter_frame(m), silence' = 0
      PROVE  SystemInv'
  <2>1. /\ cc' \in ControllerType /\ Encoded(cc') /\ ControllerRests
        /\ cc'.last_smart_meter_frame_time = now
    BY <1>3, FrameFacts DEF SystemInv, ControllerRests
  <2>2. ControllerInv'
    BY <1>1, <2>1 DEF SystemInv, ControllerInv, ControllerTypeOK, Encoded
  <2>3. now \in Clock
    BY DEF SystemInv, ControllerInv, ControllerTypeOK
  <2>4. AgeInv'
    BY <1>1, <1>3, <2>1, <2>3, ClockAssumption DEF AgeInv, FrameAge, Elapsed, Clock
  <2>5. StaleMeterStopsCharging'
    BY <1>1 DEF StaleMeterStopsCharging
  <2> QED BY <1>1, <2>1, <2>2, <2>4, <2>5, RestKeepsLink DEF SystemInv
<1> QED BY <1>2, <1>3 DEF MeterTurn

LEMMA ModbusStep == ASSUME SystemInv, ModbusTurn PROVE SystemInv'
<1>1. UNCHANGED <<now, silence>> /\ turn' # "delay"
  BY DEF ModbusTurn
<1>2. CASE ClientConnects
  <2>1. cc' = this /\ status = "down" /\ status' = "idle" /\ wire' = NoWire
        /\ UNCHANGED <<pending, answered, applied, refused, overtaken>>
    BY <1>2 DEF ClientConnects, Client!Connect
  <2>2. /\ ControllerRests
        /\ ControllerInv' /\ AgeInv' /\ StaleMeterStopsCharging'
    BY <1>1, <2>1, RestKeepsSystem
  <2> QED BY <2>1, <2>2, ConnectKeepsLink DEF SystemInv
<1>3. CASE ClientCompletes
  <2>1. PICK exception_code \in Exceptions, m \in ChargerCurrents :
          /\ Client!Complete(exception_code)
          /\ status' = "idle" => answered
          /\ cc' = handle_modbus_request_done(this, exception_code, OnTheWire(m))
    BY <1>3 DEF ClientCompletes
  <2>2. UNCHANGED charger
    BY <1>3 DEF ClientCompletes
  <2>3. /\ LinkInv' /\ cc' \in ControllerType /\ Encoded(cc')
        /\ cc'.last_smart_meter_frame_time = cc.last_smart_meter_frame_time
    BY <2>1, <2>2, CompleteKeepsLink DEF SystemInv
  <2>4. ControllerInv'
    BY <1>1, <2>3 DEF SystemInv, ControllerInv, ControllerTypeOK, Encoded
  <2>5. AgeInv'
    BY <1>1, <2>3, AgeKept DEF SystemInv
  <2>6. StaleMeterStopsCharging'
    BY <1>1 DEF StaleMeterStopsCharging
  <2> QED BY <2>3, <2>4, <2>5, <2>6 DEF SystemInv
<1>4. CASE ClientWaits
  <2>1. cc' = this
        /\ UNCHANGED <<status, pending, wire, answered, applied, refused, overtaken>>
    BY <1>4 DEF ClientWaits, Client!Quiet, charger
  <2>2. /\ ControllerRests
        /\ ControllerInv' /\ AgeInv' /\ StaleMeterStopsCharging'
    BY <1>1, <2>1, RestKeepsSystem
  <2> QED BY <2>1, <2>2, RestKeepsLink DEF SystemInv
<1> QED BY <1>2, <1>3, <1>4 DEF ModbusTurn

LEMMA ChargerStep == ASSUME SystemInv, ChargerTurn PROVE SystemInv'
<1>1. UNCHANGED <<now, silence>> /\ loop(SendResult)
  BY DEF ChargerTurn
<1>2. SendResult \in Results
  BY <1>1, LoopMoves DEF SystemInv
<1>3. /\ cc' \in ControllerType /\ Encoded(cc') /\ SameMeasurements(cc, cc')
      /\ cc'.sent = "max_charging_current" => LimitSent(SendResult)
  BY <1>1, <1>2, LoopFacts DEF SystemInv
<1>4. ControllerInv'
  BY <1>1, <1>3 DEF SystemInv, ControllerInv, ControllerTypeOK, Encoded
<1>5. AgeInv'
  BY <1>1, <1>3, AgeKept DEF SystemInv, SameMeasurements
<1>6. ASSUME cc'.sent = "max_charging_current",
             silence' >= SmTimeout, silence' < ClockMod
      PROVE  cc'.limit_ma = 0
  <2>1. FrameAge(cc) = silence /\ silence \in Int
    BY <1>1, <1>6, ClockAssumption DEF SystemInv, AgeInv
  <2>2. FrameAge(cc) >= SmTimeout /\ ~(FrameAge(cc) <= PollInterval)
    BY <1>1, <1>6, <2>1, ControllerAssumption
  <2> QED BY <1>3, <1>6, <2>2 DEF LimitSent
<1>7. StaleMeterStopsCharging'
  BY <1>6 DEF StaleMeterStopsCharging
<1>8. LinkInv'
  BY TurnKeepsLink DEF SystemInv
<1> QED BY <1>4, <1>5, <1>7, <1>8 DEF SystemInv

\* The delay of the main loop, and the charger's own steps.
LEMMA OtherStep ==
  ASSUME SystemInv,
         TimePasses \/ NoTimePasses \/ ChargerHandles \/ ChargerHandlesLate
           \/ UNCHANGED vars
  PROVE  SystemInv'
<1>1. cc' = cc
  BY DEF TimePasses, NoTimePasses, ChargerHandles, ChargerHandlesLate, vars
<1>2. now' \in Clock
  BY ClockAssumption DEF TimePasses, NoTimePasses, ChargerHandles,
     ChargerHandlesLate, vars, Advance, Clock, SystemInv, ControllerInv, ControllerTypeOK
<1>3. ControllerInv'
  BY <1>1, <1>2 DEF SystemInv, ControllerInv, ControllerTypeOK, Encoded
<1>4. ASSUME UNCHANGED <<status, pending, wire, answered, applied, refused, overtaken>>
      PROVE  LinkInv'
  BY <1>1, <1>4 DEF SystemInv, LinkInv, StatusType, PendingIsAwaited, NeverBusy,
     WireInv, AppliedInv, Applied, LimitOnWire
<1>5. CASE TimePasses
  <2>1. AgeInv'
    BY <1>5, TimeKeepsAge DEF SystemInv
  <2>2. LinkInv'
    BY <1>4, <1>5 DEF TimePasses, service, charger
  <2>3. StaleMeterStopsCharging'
    BY <1>5 DEF TimePasses, StaleMeterStopsCharging
  <2> QED BY <1>3, <2>1, <2>2, <2>3 DEF SystemInv
<1>6. CASE NoTimePasses
  <2>1. AgeInv'
    BY <1>1, <1>6, AgeKept DEF SystemInv, NoTimePasses
  <2>2. LinkInv'
    BY <1>4, <1>6 DEF NoTimePasses, service, charger
  <2>3. StaleMeterStopsCharging'
    BY <1>6 DEF NoTimePasses, StaleMeterStopsCharging
  <2> QED BY <1>3, <2>1, <2>2, <2>3 DEF SystemInv
<1>7. CASE ChargerHandles
  <2>1. AgeInv'
    BY <1>1, <1>7, AgeKept DEF SystemInv, ChargerHandles
  <2>2. LinkInv'
    BY <1>7, HandleKeepsLink DEF SystemInv
  <2>3. StaleMeterStopsCharging'
    BY <1>7 DEF SystemInv, ChargerHandles, StaleMeterStopsCharging
  <2> QED BY <1>3, <2>1, <2>2, <2>3 DEF SystemInv
<1>8. CASE UNCHANGED vars
  <2>1. AgeInv'
    BY <1>1, <1>8, AgeKept DEF SystemInv, vars
  <2>2. LinkInv'
    BY <1>4, <1>8 DEF vars, service, charger
  <2>3. StaleMeterStopsCharging'
    BY <1>8 DEF SystemInv, vars, StaleMeterStopsCharging
  <2> QED BY <1>3, <2>1, <2>2, <2>3 DEF SystemInv
<1>9. CASE ChargerHandlesLate
  <2>1. AgeInv'
    BY <1>1, <1>9, AgeKept DEF SystemInv, ChargerHandlesLate
  <2>2. LinkInv'
    BY <1>9, LateKeepsLink DEF SystemInv
  <2>3. StaleMeterStopsCharging'
    BY <1>9 DEF SystemInv, ChargerHandlesLate, StaleMeterStopsCharging
  <2> QED BY <1>3, <2>1, <2>2, <2>3 DEF SystemInv
<1> QED BY <1>5, <1>6, <1>7, <1>8, <1>9

----------------------------------------------------------------------------
(* Theorems.                                                               *)

LEMMA SystemInvariant == Spec => []SystemInv
<1>1. Init => SystemInv
  BY SystemInit
<1>2. SystemInv /\ [Next]_vars => SystemInv'
  BY MeterStep, ModbusStep, ChargerStep, OtherStep DEF Next
<1> QED BY <1>1, <1>2, PTL DEF Spec

\* For all clocks and timeouts, the client works on a request exactly while
\* the controller waits for that request: handle_modbus_request_done, which
\* looks at the controller's state only, is never about another request.
THEOREM CallbackIsExpected == Spec => []PendingIsAwaited
<1>1. SystemInv => PendingIsAwaited
  BY DEF SystemInv, LinkInv
<1> QED BY <1>1, SystemInvariant, PTL

\* send_request never finds the client busy: the "try again" branches of
\* ChargeController::loop() are not taken.
THEOREM ClientIsFree == Spec => []NeverBusy
<1>1. SystemInv => NeverBusy
  BY DEF SystemInv, LinkInv
<1> QED BY <1>1, SystemInvariant, PTL

\* For all timeouts shorter than one round of millis(), a limit that is
\* written when the smart meter has been silent for SmTimeout, but less than
\* one round, is 0 (update_limit).
THEOREM SilenceStopsCharging == Spec => []StaleMeterStopsCharging
<1>1. SystemInv => StaleMeterStopsCharging
  BY DEF SystemInv
<1> QED BY <1>1, SystemInvariant, PTL

\* While the controller reports the charger as connected and is not writing,
\* the charger has the limit in the controller's buffer, refused it, or has
\* applied a limit of a connection closed earlier after it: a write that fails
\* or times out is always reported, for any number of limits still under way.
THEOREM ConnectedIsApplied == Spec => []ConnectedMeansApplied
<1>1. SystemInv => ConnectedMeansApplied
  BY DEF SystemInv, LinkInv, AppliedInv, Applied, ConnectedMeansApplied
<1> QED BY <1>1, SystemInvariant, PTL
=============================================================================
