------------------------- MODULE ConnectionManager -------------------------
(***************************************************************************)
(* ConnectionManager.cpp: keeps the WiFi connection up and reports it.     *)
(* The member variables are the fields of "net".                           *)
(*                                                                         *)
(* The WiFi driver runs in a task of its own and is the environment: after *)
(* WiFi.begin the link may come up at any time, it may drop at any time,   *)
(* and WiFi.disconnectAsync takes effect some time after the call.         *)
(***************************************************************************)
EXTENDS Integers, Millis

CONSTANT WifiTimeout      \* 10000 ms, in units of Millis

VARIABLES
  net,                    \* the members of the ConnectionManager object
  wifi,                   \* the driver: link, wanted (begin), leaving (async)
  now                     \* millis()

ASSUME WifiAssumption == WifiTimeout \in Nat /\ ClockMod > WifiTimeout + 1

NetStates == {"DISCONNECTED", "CONNECTING", "CONNECTED"}

\* Mutant: the driver is not told to disconnect.
WifiCalls_no_disconnect(w, state) ==
  IF state = "CONNECTING" THEN [w EXCEPT !.wanted = TRUE] ELSE w

\* The driver's part of a call of set_state.
WifiCalls(w, state) ==
  CASE state = "DISCONNECTED" -> [w EXCEPT !.wanted = FALSE, !.leaving = TRUE]
    [] state = "CONNECTING"   -> [w EXCEPT !.wanted = TRUE]
    [] OTHER -> w

update_connected_state(n, is_connected) == [n EXCEPT !.is_connected = is_connected]

\* Mutant: the connection is not reported.
set_state_unreported(n, state) ==
  [n EXCEPT !.state = state, !.state_entry_time = now]

set_state(n, state) ==
  update_connected_state([n EXCEPT !.state = state, !.state_entry_time = now],
                         state = "CONNECTED")

Enter(n, state) ==
  /\ net' = set_state(n, state)
  /\ wifi' = WifiCalls(wifi, state)

Stay(n) == net' = n /\ UNCHANGED wifi

InState == Elapsed(now, net.state_entry_time)

\* The constructor; begin() comes later.
NetInit ==
  /\ net = [state |-> "DISCONNECTED", state_entry_time |-> 0,
            is_connected |-> FALSE, status |-> FALSE]
  /\ wifi = [link |-> FALSE, wanted |-> FALSE, leaving |-> FALSE]

begin == Enter(net, "CONNECTING")

\* What WiFi.isConnected() returns after WiFi.status() has been read in the
\* same call: the driver may have moved on.
LinkLater ==
  {FALSE, wifi.link} \cup (IF wifi.wanted \/ wifi.leaving THEN {TRUE} ELSE {})

\* loop() reads the status first; n is the object with _status updated.
LoopDisconnected(n) ==
  /\ n.state = "DISCONNECTED"
  /\ \E linked \in LinkLater :
       IF ~linked THEN Enter(n, "CONNECTING") ELSE Stay(n)

LoopConnecting(n) ==
  /\ n.state = "CONNECTING"
  /\ IF InState > WifiTimeout THEN Enter(n, "DISCONNECTED")
     ELSE IF n.status THEN Enter(n, "CONNECTED")
     ELSE Stay(n)

\* Mutant: a lost connection is not noticed.
LoopConnected_blind(n) ==
  /\ n.state = "CONNECTED"
  /\ Stay(n)

LoopConnected(n) ==
  /\ n.state = "CONNECTED"
  /\ IF ~n.status THEN Enter(n, "DISCONNECTED") ELSE Stay(n)

\* WL_CONNECTED is the only status that matters.
loop ==
  LET n == [net EXCEPT !.status = wifi.link]
  IN  LoopDisconnected(n) \/ LoopConnecting(n) \/ LoopConnected(n)

----------------------------------------------------------------------------
(* The driver.                                                             *)

\* An attempt that was under way at disconnectAsync may still succeed.
LinkUp ==
  /\ wifi.wanted \/ wifi.leaving
  /\ ~wifi.link
  /\ wifi' = [wifi EXCEPT !.link = TRUE]

LinkDown ==
  /\ wifi.link
  /\ wifi' = [wifi EXCEPT !.link = FALSE]

\* The radio is switched off; a WiFi.begin issued meanwhile may be lost too.
AsyncDisconnect ==
  /\ wifi.leaving
  /\ \E wanted \in {FALSE, wifi.wanted} :
       wifi' = [link |-> FALSE, wanted |-> wanted, leaving |-> FALSE]

Driver == LinkUp \/ LinkDown \/ AsyncDisconnect
=============================================================================
