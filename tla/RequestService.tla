--------------------------- MODULE RequestService ---------------------------
(***************************************************************************)
(* What ModbusTcpClient promises its user, without sockets, frames or      *)
(* timers: at most one request is accepted at a time; every accepted       *)
(* request is answered by exactly one callback, and by then the service is *)
(* free again or the connection is gone.  While no request is pending the  *)
(* service never loses its connection (a dead peer is noticed by the next  *)
(* request only).                                                          *)
(***************************************************************************)
EXTENDS Sequences

CONSTANTS Request,      \* the requests a user may pass to send_request
          NoRequest     \* the null pointer: no request is pending

VARIABLES status,       \* "down", "idle" (connected) or "busy"
          pending,      \* the accepted request, or NoRequest
          calls         \* the callbacks made by the last step

vars == <<status, pending, calls>>

\* How a request may end, and what that says about the connection.
StatusAfter(exception_code) ==
  CASE exception_code = "NONE"               -> {"idle"}
    [] exception_code = "PROTOCOL_VIOLATION" -> {"idle", "down"}
    [] exception_code \in {"NOT_CONNECTED", "TIMEOUT"} -> {"down"}

Exceptions == {"NONE", "PROTOCOL_VIOLATION", "NOT_CONNECTED", "TIMEOUT"}

Init ==
  /\ status = "down"
  /\ pending = NoRequest
  /\ calls = <<>>

Connect ==
  /\ status = "down"
  /\ status' = "idle"
  /\ calls' = <<>>
  /\ UNCHANGED pending

\* send_request returned MODBUS_OK.
Submit(r) ==
  /\ status = "idle"
  /\ status' = "busy"
  /\ pending' = r
  /\ calls' = <<>>

Complete(exception_code) ==
  /\ status = "busy"
  /\ status' \in StatusAfter(exception_code)
  /\ pending' = NoRequest
  /\ calls' = <<[request |-> pending, exception_code |-> exception_code]>>

\* A step that makes no callback and that the user cannot observe.
Quiet ==
  /\ calls' = <<>>
  /\ UNCHANGED <<status, pending>>

Next ==
  \/ Connect
  \/ \E r \in Request : Submit(r)
  \/ \E exception_code \in Exceptions : Complete(exception_code)
  \/ Quiet

Spec == Init /\ [][Next]_vars

\* Every accepted request is answered.
Answers == \E exception_code \in Exceptions : Complete(exception_code)
FairSpec == Spec /\ WF_vars(Answers)
=============================================================================
