------------------------- MODULE FirmwareAppProofs -------------------------
(***************************************************************************)
(* Proofs about FirmwareApp for all timeouts and every clock they fit.     *)
(***************************************************************************)
EXTENDS FirmwareApp, TLAPS

NetType == [state : NetStates, state_entry_time : Clock, is_connected : BOOLEAN,
            status : BOOLEAN]

WifiType == [link : BOOLEAN, wanted : BOOLEAN, leaving : BOOLEAN]

MeterType == [is_connected : BOOLEAN, last_frame_time : Clock]

AppType ==
  /\ net \in NetType /\ wifi \in WifiType /\ meter \in MeterType
  /\ charger_connected \in BOOLEAN /\ log_enabled \in BOOLEAN
  /\ now \in Clock
  /\ silence \in 0 .. MeterTimeout /\ read_failed \in BOOLEAN

\* While the meter counts as connected the age of the last telegram is what the
\* clock says it is: check_timeout has run since it could have been otherwise.
MeterInv ==
  /\ meter.is_connected =>
       /\ ~read_failed
       /\ Elapsed(now, meter.last_frame_time) = silence
       /\ turn \in {"charger", "delay"} => silence < MeterTimeout
  /\ ~read_failed /\ silence < MeterTimeout => meter.is_connected

AppInv == AppType /\ StatusAgrees /\ MeterInv

\* Unsigned differences between two values of millis().
LEMMA ElapsedFacts ==
  ASSUME NEW t \in Clock, NEW u \in Clock
  PROVE  /\ Advance(t) \in Clock
         /\ Elapsed(t, u) \in Nat
         /\ Elapsed(t, t) = 0
         /\ Elapsed(t, u) + 1 < ClockMod =>
              Elapsed(Advance(t), u) = Elapsed(t, u) + 1
BY ClockAssumption DEF Clock, Elapsed, Advance

----------------------------------------------------------------------------
(* The network.                                                            *)

\* The driver's task keeps its types.
LEMMA DriverType ==
  ASSUME wifi \in WifiType, Driver
  PROVE  wifi' \in WifiType
<1>1. CASE LinkUp
  BY <1>1 DEF LinkUp, WifiType
<1>2. CASE LinkDown
  BY <1>2 DEF LinkDown, WifiType
<1>3. CASE AsyncDisconnect
  <2>1. PICK wanted \in {FALSE, wifi.wanted} :
          wifi' = [link |-> FALSE, wanted |-> wanted, leaving |-> FALSE]
    BY <1>3 DEF AsyncDisconnect
  <2>2. wanted \in BOOLEAN
    BY DEF WifiType
  <2> QED BY <2>1, <2>2 DEF WifiType
<1> QED BY <1>1, <1>2, <1>3 DEF Driver

\* Entering a state keeps the types.
LEMMA EnterType ==
  ASSUME NEW n \in NetType, wifi \in WifiType, now \in Clock, NEW state \in NetStates,
         Enter(n, state)
  PROVE  net' \in NetType /\ wifi' \in WifiType
<1>1. (state = "CONNECTED") \in BOOLEAN
  OBVIOUS
<1>2. net' \in NetType
  BY <1>1 DEF Enter, set_state, update_connected_state, NetType
<1>3. WifiCalls(wifi, state) \in WifiType
  <2>1. CASE state = "DISCONNECTED"
    BY <2>1 DEF WifiCalls, WifiType
  <2>2. CASE state = "CONNECTING"
    BY <2>2 DEF WifiCalls, WifiType
  <2>3. CASE state = "CONNECTED"
    BY <2>3 DEF WifiCalls, WifiType
  <2> QED BY <2>1, <2>2, <2>3 DEF NetStates
<1> QED BY <1>2, <1>3 DEF Enter

\* ConnectionManager::loop keeps the types.
LEMMA NetworkType ==
  ASSUME net \in NetType, wifi \in WifiType, now \in Clock, loop
  PROVE  net' \in NetType /\ wifi' \in WifiType
<1> DEFINE n == [net EXCEPT !.status = wifi.link]
<1>1. n \in NetType
  BY DEF NetType, WifiType
<1>2. LoopDisconnected(n) \/ LoopConnecting(n) \/ LoopConnected(n)
  BY DEF loop
<1> HIDE DEF n
<1>3. \A s \in NetStates : Enter(n, s) => net' \in NetType /\ wifi' \in WifiType
  BY <1>1, EnterType
<1>4. Stay(n) => net' \in NetType /\ wifi' \in WifiType
  BY <1>1 DEF Stay
<1>5. Stay(n) \/ \E s \in NetStates : Enter(n, s)
  BY <1>2 DEF LoopDisconnected, LoopConnecting, LoopConnected, NetStates
<1> QED BY <1>3, <1>4, <1>5

----------------------------------------------------------------------------
(* The steps.                                                              *)

\* What StatusAgrees says of a single error.
LEMMA StatusByError ==
  StatusAgrees <=>
    /\ active_errors \subseteq Errors
    /\ "NO_WIFI_CONNECTION" \in active_errors <=> ~net.is_connected
    /\ "NO_SM_CONNECTION" \in active_errors <=> ~meter.is_connected
    /\ "NO_CHARGER_CONNECTION" \in active_errors <=> ~charger_connected
    /\ log_enabled = net.is_connected
BY DEF StatusAgrees, Errors

\* The same after a step.
LEMMA StatusByErrorNext ==
  StatusAgrees' <=>
    /\ active_errors' \subseteq Errors
    /\ "NO_WIFI_CONNECTION" \in active_errors' <=> ~net'.is_connected
    /\ "NO_SM_CONNECTION" \in active_errors' <=> ~meter'.is_connected
    /\ "NO_CHARGER_CONNECTION" \in active_errors' <=> ~charger_connected'
    /\ log_enabled' = net'.is_connected
BY DEF StatusAgrees, Errors

\* A report changes the reported error alone, to what the flag now says.
LEMMA ReportFacts ==
  ASSUME NEW error \in Errors, NEW was \in BOOLEAN, NEW is \in BOOLEAN,
         active_errors \subseteq Errors, error \in active_errors <=> ~was,
         Report(error, was, is)
  PROVE  /\ active_errors' \subseteq Errors
         /\ error \in active_errors' <=> ~is
         /\ \A e \in Errors \ {error} : e \in active_errors' <=> e \in active_errors
<1>1. CASE was = is
  BY <1>1 DEF Report
<1>2. CASE was # is
  BY <1>2 DEF Report, set_error
<1> QED BY <1>1, <1>2

LEMMA InitApp == Init => AppInv
<1> SUFFICES ASSUME Init PROVE AppInv
  OBVIOUS
<1>1. ClockMod \in Nat \ {0} /\ MeterTimeout \in Nat \ {0}
  BY ClockAssumption, AppAssumption
<1>2. 0 \in Clock /\ MeterTimeout \in 0 .. MeterTimeout
  BY <1>1 DEF Clock
<1>3. net \in NetType /\ wifi \in WifiType /\ ~net.is_connected
  BY <1>2 DEF Init, NetInit, NetType, WifiType, NetStates
<1>4. meter \in MeterType /\ ~meter.is_connected
  BY <1>2 DEF Init, Meter!MeterInit, MeterType
<1>5. AppType
  BY <1>2, <1>3, <1>4 DEF Init, AppType
<1>6. net.is_connected = FALSE
  BY DEF Init, NetInit
<1>7. StatusAgrees
  BY <1>3, <1>4, <1>6, StatusByError DEF Init, Errors
<1>8. MeterInv
  BY <1>1, <1>4 DEF Init, MeterInv
<1> QED BY <1>5, <1>7, <1>8 DEF AppInv

\* The network's turn: the callback follows the flag.
LEMMA NetworkApp ==
  ASSUME AppInv, NetworkTurn
  PROVE  AppInv'
<1>1. /\ net \in NetType /\ wifi \in WifiType /\ now \in Clock
      /\ net.is_connected \in BOOLEAN
  BY DEF AppInv, AppType, NetType
<1>2. /\ turn' = "meter" /\ now' = now /\ meter' = meter
      /\ charger_connected' = charger_connected /\ silence' = silence
      /\ read_failed' = read_failed
  BY DEF NetworkTurn, ghosts
<1>3. net' \in NetType /\ wifi' \in WifiType
  <2>1. CASE NetworkStart
    <3>1. begin \/ UNCHANGED <<net, wifi>>
      BY <2>1 DEF NetworkStart
    <3>2. CASE begin
      BY <1>1, <3>2, EnterType DEF begin, NetStates
    <3> QED BY <1>1, <3>1, <3>2
  <2>2. CASE NetworkLoop
    BY <1>1, <2>2, NetworkType DEF NetworkLoop
  <2> QED BY <2>1, <2>2 DEF NetworkTurn
<1>4. net'.is_connected \in BOOLEAN
  BY <1>3 DEF NetType
<1>5. /\ Report("NO_WIFI_CONNECTION", net.is_connected, net'.is_connected)
      /\ log_enabled' = IF net'.is_connected = net.is_connected THEN log_enabled
                        ELSE net'.is_connected
  BY DEF NetworkTurn, on_wifi_connected
<1>6. StatusAgrees
  BY DEF AppInv
<1>7. /\ active_errors' \subseteq Errors
      /\ "NO_WIFI_CONNECTION" \in active_errors' <=> ~net'.is_connected
      /\ \A e \in Errors \ {"NO_WIFI_CONNECTION"} : e \in active_errors' <=> e \in active_errors
  BY <1>1, <1>4, <1>5, <1>6, StatusByError, ReportFacts DEF Errors
<1>8. log_enabled' = net'.is_connected
  BY <1>5, <1>6, StatusByError
<1>9. StatusAgrees'
  BY <1>2, <1>6, <1>7, <1>8, StatusByError, StatusByErrorNext DEF Errors
<1>10. AppType'
  BY <1>2, <1>3, <1>4, <1>8 DEF AppInv, AppType
<1>11. MeterInv'
  BY <1>2 DEF AppInv, MeterInv
<1> QED BY <1>9, <1>10, <1>11 DEF AppInv

\* The meter's turn: exact after it, whatever the poll yields.
LEMMA MeterApp ==
  ASSUME AppInv, MeterTurn
  PROVE  AppInv'
<1>1. /\ meter \in MeterType /\ meter.is_connected \in BOOLEAN /\ now \in Clock
      /\ meter.last_frame_time \in Clock /\ MeterTimeout \in Nat \ {0}
      /\ silence \in 0 .. MeterTimeout
  BY AppAssumption DEF AppInv, AppType, MeterType
<1>2. PICK poll \in Meter!Polls :
        /\ Meter!loop(poll)
        /\ silence' = IF poll = "telegram" THEN 0 ELSE silence
        /\ read_failed' = CASE poll = "error" -> TRUE
                            [] poll = "telegram" -> FALSE
                            [] poll = "nothing" -> read_failed
  BY DEF MeterTurn
<1>3. /\ turn' = "charger" /\ net' = net /\ wifi' = wifi /\ now' = now
      /\ charger_connected' = charger_connected /\ log_enabled' = log_enabled
      /\ Report("NO_SM_CONNECTION", meter.is_connected, meter'.is_connected)
  BY DEF MeterTurn
<1> DEFINE Good == /\ meter' \in MeterType /\ silence' \in 0 .. MeterTimeout
                   /\ read_failed' \in BOOLEAN /\ MeterInv'
<1>4. ASSUME poll = "error" PROVE Good
  <2>1. meter' = [meter EXCEPT !.is_connected = FALSE]
    BY <1>1, <1>2, <1>4 DEF Meter!loop, Meter!check_timeout, Meter!set_connected, MeterType
  <2>2. meter' \in MeterType /\ ~meter'.is_connected
    BY <1>1, <2>1 DEF MeterType
  <2>3. silence' = silence /\ read_failed' = TRUE
    BY <1>2, <1>4
  <2> QED BY <1>1, <2>2, <2>3 DEF MeterInv
<1>5. ASSUME poll = "telegram" PROVE Good
  <2> DEFINE m == [meter EXCEPT !.last_frame_time = now, !.is_connected = TRUE]
  <2>1. m \in MeterType /\ m.is_connected /\ m.last_frame_time = now
    BY <1>1 DEF MeterType
  <2>2. Meter!handle_smart_meter_frame(meter) = m
    BY <1>1 DEF Meter!handle_smart_meter_frame, Meter!set_connected, MeterType
  <2>3. meter' = Meter!check_timeout(m)
    BY <1>2, <1>5, <2>2 DEF Meter!loop
  <2> HIDE DEF m
  <2>4. Elapsed(now, m.last_frame_time) = 0 /\ Meter!Elapsed(now, m.last_frame_time) = 0
    <3>1. Elapsed(now, now) = 0
      BY <1>1, ElapsedFacts
    <3>2. Meter!Elapsed(now, now) = Elapsed(now, now)
      BY DEF Meter!Elapsed, Elapsed
    <3> QED BY <2>1, <3>1, <3>2
  <2>5. ~(Meter!Elapsed(now, m.last_frame_time) >= MeterTimeout)
    BY <1>1, <2>4
  <2>6. meter' = m
    BY <2>3, <2>5 DEF Meter!check_timeout
  <2>7. silence' = 0 /\ read_failed' = FALSE
    BY <1>2, <1>5
  <2>8. meter'.is_connected /\ Elapsed(now', meter'.last_frame_time) = 0
    BY <1>3, <2>1, <2>4, <2>6
  <2>9. MeterInv'
    BY <1>1, <2>7, <2>8 DEF MeterInv
  <2>10. meter' \in MeterType /\ read_failed' \in BOOLEAN
    BY <2>1, <2>6, <2>7, Zenon
  <2>11. silence' \in 0 .. MeterTimeout
    BY <1>1, <2>7
  <2> QED BY <2>9, <2>10, <2>11
<1>6. ASSUME poll = "nothing" PROVE Good
  <2>1. silence' = silence /\ read_failed' = read_failed
    BY <1>2, <1>6
  <2>2. meter' = IF meter.is_connected /\ Elapsed(now, meter.last_frame_time) >= MeterTimeout
                   THEN [meter EXCEPT !.is_connected = FALSE] ELSE meter
    BY <1>2, <1>6 DEF Meter!loop, Meter!check_timeout, Meter!set_connected, Meter!Elapsed, Elapsed
  <2>3. CASE meter.is_connected /\ Elapsed(now, meter.last_frame_time) >= MeterTimeout
    <3>1. meter' \in MeterType /\ ~meter'.is_connected
      BY <1>1, <2>2, <2>3 DEF MeterType
    <3>2. silence = MeterTimeout
      BY <1>1, <2>3 DEF AppInv, MeterInv
    <3> QED BY <1>1, <2>1, <3>1, <3>2 DEF MeterInv, AppInv, AppType
  <2>4. CASE ~(meter.is_connected /\ Elapsed(now, meter.last_frame_time) >= MeterTimeout)
    <3>1. meter' = meter
      BY <2>2, <2>4
    <3>2. meter.is_connected => silence < MeterTimeout
      BY <1>1, <2>4 DEF AppInv, MeterInv
    <3> QED BY <1>1, <1>3, <2>1, <3>1, <3>2 DEF MeterInv, AppInv, AppType
  <2> QED BY <2>3, <2>4
<1>7. Good
  BY <1>4, <1>5, <1>6 DEF Meter!Polls
<1>8. meter'.is_connected \in BOOLEAN
  BY <1>7 DEF MeterType
<1>9. StatusAgrees
  BY DEF AppInv
<1>10. /\ active_errors' \subseteq Errors
       /\ "NO_SM_CONNECTION" \in active_errors' <=> ~meter'.is_connected
       /\ \A e \in Errors \ {"NO_SM_CONNECTION"} : e \in active_errors' <=> e \in active_errors
  BY <1>1, <1>3, <1>8, <1>9, StatusByError, ReportFacts DEF Errors
<1>11. StatusAgrees'
  BY <1>3, <1>9, <1>10, StatusByError, StatusByErrorNext DEF Errors
<1>12. AppType'
  BY <1>3, <1>7 DEF AppInv, AppType
<1> QED BY <1>7, <1>11, <1>12 DEF AppInv

LEMMA ChargerApp ==
  ASSUME AppInv, ChargerTurn
  PROVE  AppInv'
<1>1. /\ turn = "charger" /\ turn' = "delay" /\ charger_connected' \in BOOLEAN
      /\ Report("NO_CHARGER_CONNECTION", charger_connected, charger_connected')
      /\ net' = net /\ wifi' = wifi /\ now' = now /\ meter' = meter
      /\ log_enabled' = log_enabled /\ silence' = silence /\ read_failed' = read_failed
  BY DEF ChargerTurn, ghosts
<1>2. StatusAgrees /\ charger_connected \in BOOLEAN
  BY DEF AppInv, AppType
<1>3. /\ active_errors' \subseteq Errors
      /\ "NO_CHARGER_CONNECTION" \in active_errors' <=> ~charger_connected'
      /\ \A e \in Errors \ {"NO_CHARGER_CONNECTION"} :
           e \in active_errors' <=> e \in active_errors
  BY <1>1, <1>2, StatusByError, ReportFacts DEF Errors
<1>4. StatusAgrees'
  BY <1>1, <1>2, <1>3, StatusByError, StatusByErrorNext DEF Errors
<1>5. AppType' /\ MeterInv'
  BY <1>1 DEF AppInv, AppType, MeterInv
<1> QED BY <1>4, <1>5 DEF AppInv

LEMMA NextApp == AppInv /\ [Next]_vars => AppInv'
<1> SUFFICES ASSUME AppInv, [Next]_vars PROVE AppInv'
  OBVIOUS
<1>1. CASE TimePasses
  <2>1. /\ turn = "delay" /\ turn' = "network" /\ now' = Advance(now)
        /\ silence' = IF silence < MeterTimeout THEN silence + 1 ELSE silence
        /\ net' = net /\ wifi' = wifi /\ meter' = meter
        /\ charger_connected' = charger_connected /\ active_errors' = active_errors
        /\ log_enabled' = log_enabled /\ read_failed' = read_failed
    BY <1>1 DEF TimePasses, status
  <2>2. /\ now \in Clock /\ meter.last_frame_time \in Clock
        /\ silence \in 0 .. MeterTimeout
        /\ MeterTimeout \in Nat /\ ClockMod \in Nat /\ ClockMod > MeterTimeout
    BY AppAssumption, ClockAssumption DEF AppInv, AppType, MeterType
  <2>3. now' \in Clock /\ silence' \in 0 .. MeterTimeout
    BY <2>1, <2>2, ElapsedFacts
  <2>4. AppType' /\ StatusAgrees'
    BY <2>1, <2>3 DEF AppInv, AppType, StatusAgrees
  <2>5. meter.is_connected => Elapsed(now', meter.last_frame_time) = silence'
    <3> SUFFICES ASSUME meter.is_connected
                 PROVE  Elapsed(now', meter.last_frame_time) = silence'
      OBVIOUS
    <3>1. Elapsed(now, meter.last_frame_time) = silence /\ silence < MeterTimeout
      BY <2>1 DEF AppInv, MeterInv
    <3>2. silence + 1 < ClockMod /\ silence' = silence + 1
      BY <2>1, <2>2, <3>1
    <3> QED BY <2>1, <2>2, <3>1, <3>2, ElapsedFacts
  <2>6. MeterInv'
    BY <2>1, <2>2, <2>5 DEF AppInv, MeterInv
  <2> QED BY <2>4, <2>6 DEF AppInv
<1>2. CASE NoTimePasses
  BY <1>2 DEF NoTimePasses, status, ghosts, AppInv, AppType, StatusAgrees, MeterInv
<1>3. CASE DriverStep
  <2>1. wifi' \in WifiType
    BY <1>3, DriverType DEF DriverStep, AppInv, AppType
  <2> QED BY <1>3, <2>1 DEF DriverStep, status, ghosts, AppInv, AppType, StatusAgrees, MeterInv
<1>4. CASE UNCHANGED vars
  BY <1>4 DEF vars, status, ghosts, AppInv, AppType, StatusAgrees, MeterInv
<1> QED BY <1>1, <1>2, <1>3, <1>4, NetworkApp, MeterApp, ChargerApp DEF Next

\* AppInv is an invariant: types, agreement of errors and flags, and the age of
\* the last telegram.
THEOREM AppInvariance == Spec => []AppInv
BY InitApp, NextApp, PTL DEF Spec

\* The LED's errors and the log's output agree with the components' flags
\* (StatusAgrees): set_error follows every report.
THEOREM StatusCorrect == Spec => []StatusAgrees
<1>1. AppInv => StatusAgrees
  BY DEF AppInv
<1> QED BY <1>1, AppInvariance, PTL

\* SmartMeter's flag is exact after its loop (MeterFlagExact), for every timeout
\* that is shorter than the clock's round.
THEOREM MeterFlagCorrect == Spec => []MeterFlagExact
<1>1. AppInv => MeterFlagExact
  BY DEF AppInv, MeterInv, MeterFlagExact
<1> QED BY <1>1, AppInvariance, PTL
=============================================================================
