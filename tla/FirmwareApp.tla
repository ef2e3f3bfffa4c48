---------------------------- MODULE FirmwareApp ----------------------------
(***************************************************************************)
(* smartmeterreader.ino: the WiFi, the smart meter and the charger report  *)
(* to the application, which keeps the errors the LED shows and the log's  *)
(* output in step with them.  One pass of loop() runs the network, the     *)
(* meter and the charger and then the delay; the network is started late.  *)
(* The LED (Hmi) only reads the errors and is left out of the pass; of the *)
(* charge controller only its reports matter here.                         *)
(***************************************************************************)
EXTENDS ConnectionManager

CONSTANTS
  MeterTimeout,           \* see SmartMeter
  StartDelay              \* the network is started after 1000 ms

VARIABLES
  meter,                  \* the SmartMeter object
  charger_connected,      \* ChargeController::_is_connected
  active_errors,          \* Hmi::_active_errors
  log_enabled,            \* NetworkLog::_is_enabled
  start_network,          \* s_start_network
  turn,                   \* who runs next in this pass of loop()
  silence,                \* ghost: time since the last telegram
  read_failed             \* ghost: SM_READ_ERROR since the last telegram

status == <<active_errors, log_enabled>>
ghosts == <<silence, read_failed>>
vars == <<net, wifi, now, meter, charger_connected, status, start_network,
          turn, ghosts>>

Meter == INSTANCE SmartMeter

ASSUME AppAssumption == MeterTimeout \in Nat \ {0} /\ StartDelay \in Nat
                        /\ ClockMod > MeterTimeout /\ ClockMod > StartDelay + 1

Errors == {"NO_WIFI_CONNECTION", "NO_SM_CONNECTION", "NO_CHARGER_CONNECTION"}

\* Mutant: clearing an error keeps its bit and clears the others.
set_error_masked(errors, error, is_error_active) ==
  IF is_error_active THEN errors \cup {error} ELSE errors \cap {error}

set_error(errors, error, is_error_active) ==
  IF is_error_active THEN errors \cup {error} ELSE errors \ {error}

\* A component calls back when its flag changes; the callback sets or clears
\* the error.
Report(error, was_connected, is_connected) ==
  active_errors' = IF was_connected = is_connected THEN active_errors
                   ELSE set_error(active_errors, error, ~is_connected)

\* After setup(); s_start_time is the time of the start, 0.
Init ==
  /\ now = 0
  /\ NetInit
  /\ Meter!MeterInit
  /\ charger_connected = FALSE
  /\ active_errors = Errors
  /\ log_enabled = FALSE
  /\ start_network = FALSE
  /\ turn = "network"
  /\ silence = MeterTimeout
  /\ read_failed = FALSE

on_wifi_connected ==
  /\ Report("NO_WIFI_CONNECTION", net.is_connected, net'.is_connected)
  /\ log_enabled' = IF net'.is_connected = net.is_connected THEN log_enabled
                    ELSE net'.is_connected

NetworkStart ==
  /\ ~start_network
  /\ IF Elapsed(now, 0) > StartDelay
       THEN begin /\ start_network' = TRUE
       ELSE UNCHANGED <<net, wifi, start_network>>

NetworkLoop ==
  /\ start_network
  /\ loop
  /\ UNCHANGED start_network

NetworkTurn ==
  /\ turn = "network"
  /\ turn' = "meter"
  /\ NetworkStart \/ NetworkLoop
  /\ on_wifi_connected
  /\ UNCHANGED <<now, meter, charger_connected, ghosts>>

MeterTurn ==
  /\ turn = "meter"
  /\ turn' = "charger"
  /\ \E poll \in Meter!Polls :
       /\ Meter!loop(poll)
       /\ silence' = IF poll = "telegram" THEN 0 ELSE silence
       /\ read_failed' = CASE poll = "error" -> TRUE
                           [] poll = "telegram" -> FALSE
                           [] poll = "nothing" -> read_failed
  /\ Report("NO_SM_CONNECTION", meter.is_connected, meter'.is_connected)
  /\ UNCHANGED <<net, wifi, now, charger_connected, log_enabled, start_network>>

ChargerTurn ==
  /\ turn = "charger"
  /\ turn' = "delay"
  /\ charger_connected' \in BOOLEAN
  /\ Report("NO_CHARGER_CONNECTION", charger_connected, charger_connected')
  /\ UNCHANGED <<net, wifi, now, meter, log_enabled, start_network, ghosts>>

\* delay(5): time may pass.  The ghost saturates at the timeout.
TimePasses ==
  /\ turn = "delay"
  /\ turn' = "network"
  /\ now' = Advance(now)
  /\ silence' = IF silence < MeterTimeout THEN silence + 1 ELSE silence
  /\ UNCHANGED <<net, wifi, meter, charger_connected, status, start_network,
                 read_failed>>

NoTimePasses ==
  /\ turn = "delay"
  /\ turn' = "network"
  /\ UNCHANGED <<net, wifi, now, meter, charger_connected, status, start_network,
                 ghosts>>

\* The driver's task runs at any time.
DriverStep ==
  /\ Driver
  /\ UNCHANGED <<net, now, meter, charger_connected, status, start_network, turn,
                 ghosts>>

Next ==
  \/ NetworkTurn \/ MeterTurn \/ ChargerTurn \/ TimePasses \/ NoTimePasses
  \/ DriverStep

Spec == Init /\ [][Next]_vars

\* The main loop keeps running, time passes, and the driver carries out what
\* disconnectAsync asked for.  Nothing is assumed of the access point.
FairSpec ==
  /\ Spec
  /\ WF_vars(NetworkTurn) /\ WF_vars(MeterTurn) /\ WF_vars(ChargerTurn)
  /\ SF_vars(TimePasses) /\ WF_vars(NoTimePasses)
  /\ WF_vars(DriverStep /\ AsyncDisconnect)

----------------------------------------------------------------------------
(* Properties.                                                             *)

\* The LED's errors and the log's output agree with what the components know:
\* although they are only told about changes, no change is missed, from the
\* time before the network is started.
StatusAgrees ==
  /\ active_errors = (IF net.is_connected THEN {} ELSE {"NO_WIFI_CONNECTION"})
              \cup (IF meter.is_connected THEN {} ELSE {"NO_SM_CONNECTION"})
              \cup (IF charger_connected THEN {} ELSE {"NO_CHARGER_CONNECTION"})
  /\ log_enabled = net.is_connected

\* After SmartMeter::loop the meter counts as connected exactly if a telegram
\* arrived within the timeout and the UART has worked since, also when millis()
\* has wrapped any number of times since the last telegram.
MeterFlagExact ==
  turn = "charger" =>
    (meter.is_connected <=> silence < MeterTimeout /\ ~read_failed)

\* The network never ends up disconnected for good, whatever the access point
\* does: in STATE_DISCONNECTED the code waits for the link to be down, which is
\* not so when the link comes up late.
KeepsTrying == []<>(net.state # "DISCONNECTED")

\* A link that stays up is used and the error is cleared for good.
WifiRecovers == <>[](wifi.link) => <>[]("NO_WIFI_CONNECTION" \notin active_errors)

\* A link that stays down is reported for good.
WifiLossReported ==
  <>[](~wifi.link) => <>[]("NO_WIFI_CONNECTION" \in active_errors)
=============================================================================
