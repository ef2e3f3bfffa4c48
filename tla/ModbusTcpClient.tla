-------------------------- MODULE ModbusTcpClient --------------------------
(***************************************************************************)
(* ModbusTcpClient.cpp: the non-blocking Modbus/TCP client.  A user hands  *)
(* it one request at a time; loop() is called once per pass of the main    *)
(* loop and advances a state machine over one socket; the request ends     *)
(* with one callback.  The member variables are the fields of "client",    *)
(* and every private method is an operator from the client before the call *)
(* to the client after it, so that nested calls compose as in the code.    *)
(*                                                                         *)
(* lwip and the charger are the environment: a transfer moves any number   *)
(* of the bytes asked for, fails, or would block; the server answers the   *)
(* last request it received, late, more than once, or never, with any of   *)
(* the replies in Reply.                                                   *)
(***************************************************************************)
EXTENDS Integers, Sequences, FiniteSets, Millis

CONSTANTS
  Request,          \* the modbus_request_s values users pass to send_request
  NoRequest,        \* _active_request = NULL
  Reply,            \* what a server may put behind the header of a reply
  Fd,               \* the socket descriptors lwip hands out
  IdMod,            \* the number of values of _frame_id: 2^16
  BufSize,          \* sizeof(_frame_buffer): 272
  MaxPayload,       \* the largest value of the payload size byte: 255
  ConnectTimeout,   \* 5000 ms, in units of Millis
  RequestTimeout,   \* 1000 ms, in units of Millis
  MaxRx             \* bound: replies waiting in the socket

VARIABLES
  client,           \* the members of the ModbusTcpClient object
  now,              \* millis()
  looped,           \* loop() has run since the clock last advanced
  rx,               \* replies sent by the server and not yet read
  srv,              \* the last request the server received on this connection
  waited            \* ghost: how long the active request has been pending

vars == <<client, now, looped, rx, srv, waited>>

TcpHeaderSize == 6
PduHeaderSize == 6

States == {"DISCONNECTED", "CONNECTING", "CONNECTED",
           "WRITE_REQUEST", "READ_RESPONSE_HEADER", "READ_RESPONSE"}

\* send_request compares _state with STATE_CONNECTED.
BeforeConnected == {"DISCONNECTED", "CONNECTING"}
AfterConnected  == {"WRITE_REQUEST", "READ_RESPONSE_HEADER", "READ_RESPONSE"}

Exceptions == {"NONE", "PROTOCOL_VIOLATION", "NOT_CONNECTED", "TIMEOUT"}

RegisterTypes == {"DISCRETE_INPUT", "COIL", "INPUT_REGISTER", "HOLDING_REGISTER"}

Byte == 0 .. 255       \* uint8_t
Word == 0 .. 65535     \* uint16_t

RequestType == [count : Nat, type : RegisterTypes, register_no : Word,
                unit_id : Byte, is_write_request : BOOLEAN]

\* The header's pdu_size and the first three bytes behind the header: the
\* unit, the function code and the byte process_response takes as payload size.
ReplyType == [pdu_size : Word, unit_id : Byte,
              function : Byte, payload_size : 0 .. MaxPayload]

ASSUME RequestAssumption ==
  /\ Request \subseteq RequestType
  /\ \A r \in Request :
       ~r.is_write_request => r.register_no \div 256 <= MaxPayload
  /\ NoRequest \notin Request

ASSUME BoundAssumption ==
  /\ Reply \subseteq ReplyType
  /\ Fd \subseteq Nat \ {0}
  /\ IdMod \in Nat /\ IdMod >= 2
  /\ MaxPayload \in Byte
  /\ BufSize \in Nat /\ BufSize >= TcpHeaderSize + 3 + MaxPayload
  /\ ConnectTimeout \in Nat
  /\ RequestTimeout \in Nat
  /\ MaxRx \in Nat
  /\ ClockMod > ConnectTimeout + 1
  /\ ClockMod > RequestTimeout + 1

Ids == 0 .. IdMod - 1

----------------------------------------------------------------------------
(* Serialisation.                                                          *)

\* 0 is MODBUS_FUNC_INVALID.
get_function_code(req) ==
  CASE req.type = "DISCRETE_INPUT"   -> IF req.is_write_request THEN 0 ELSE 2
    [] req.type = "COIL"             -> IF req.is_write_request THEN 15 ELSE 1
    [] req.type = "INPUT_REGISTER"   -> IF req.is_write_request THEN 0 ELSE 4
    [] req.type = "HOLDING_REGISTER" -> IF req.is_write_request THEN 16 ELSE 3

\* The size of the frame put in the buffer, 0 when the request has none.
serialize_request(req) ==
  LET payload_size == IF req.is_write_request THEN 2 * req.count ELSE 0
      packet_size  == TcpHeaderSize + PduHeaderSize
                        + (IF payload_size # 0 THEN 1 + payload_size ELSE 0)
  IN  IF get_function_code(req) = 0 \/ packet_size > BufSize
        THEN 0
        ELSE packet_size

----------------------------------------------------------------------------
(* Methods: the client before the call to the client after it.             *)

\* The object at the start of an operation of the public interface: "calls"
\* lists the callbacks made by the operation and is empty at its start.
this == [client EXCEPT !.calls = <<>>]

\* Mutants: the pointer is not cleared; only success is reported.
complete_request_keeps(c, exception_code) ==
  IF c.active_request = NoRequest
    THEN c
    ELSE [c EXCEPT !.calls = Append(@, [request |-> c.active_request,
                                        exception_code |-> exception_code])]
complete_request_silent(c, exception_code) ==
  [c EXCEPT !.active_request = NoRequest,
            !.calls = IF c.active_request # NoRequest /\ exception_code = "NONE"
                        THEN Append(@, [request |-> c.active_request,
                                        exception_code |-> exception_code])
                        ELSE @]

complete_request(c, exception_code) ==
  IF c.active_request = NoRequest
    THEN c
    ELSE [c EXCEPT !.active_request = NoRequest,
                   !.calls = Append(@, [request |-> c.active_request,
                                        exception_code |-> exception_code])]

\* Mutant: the member is wider than the field of the header.
NextId_wide(id) == id + 1

\* The ids are uint16_t and ++_frame_id wraps.
NextId(id) == IF id + 1 = IdMod THEN 0 ELSE id + 1

tcp_close(c) == [c EXCEPT !.sockets = @ \ {c.fd}]

\* Mutant: the socket is not closed when connect() fails.
tcp_open_leaks(c) ==
  {[c EXCEPT !.fd = -1, !.sockets = @ \cup {fd}] : fd \in Fd \ c.sockets} \cup
  {[c EXCEPT !.fd = fd, !.sockets = @ \cup {fd}] : fd \in Fd \ c.sockets}

\* socket() or connect() fails (-1, and a socket that was opened is closed
\* again) or yields a descriptor that is not in use.
tcp_open(c) ==
  {[c EXCEPT !.fd = -1]} \cup
  {[c EXCEPT !.fd = fd, !.sockets = @ \cup {fd}] : fd \in Fd \ c.sockets}

\* The buffer holds no part of a reply: it is zero, or it holds a request.
NoFrame == [id |-> 0, fresh |-> FALSE,
            reply |-> [pdu_size |-> 0, unit_id |-> 0, function |-> 0,
                       payload_size |-> 0]]

\* Entry of STATE_CONNECTING assigns a result of tcp_open: see LoopDisconnected.
set_state(c, state) ==
  LET d == [c EXCEPT !.state = state, !.state_entry_time = now]
  IN  CASE state = "DISCONNECTED" ->
             complete_request([tcp_close(d) EXCEPT !.fd = -1], "NOT_CONNECTED")
        [] state = "WRITE_REQUEST" ->
             LET size == serialize_request(d.active_request)
             IN  [d EXCEPT !.frame_id = NextId(@), !.frame_size = size,
                           !.write_idx = size, !.read_idx = 0,
                           !.frame = NoFrame]
        [] state = "READ_RESPONSE_HEADER" ->
             [d EXCEPT !.frame_size = TcpHeaderSize,
                       !.write_idx = 0, !.read_idx = 0]
        [] OTHER -> d

\* What read() and write() may do with "length" bytes: nothing is asked of
\* the socket for an empty transfer; otherwise it fails, would block, or
\* moves some of the bytes, if the other side is ready for that.
Transfer(length, ready) ==
  IF length = 0
    THEN {[rc |-> "OK", bytes |-> 0]}
    ELSE {[rc |-> "FATAL", bytes |-> 0], [rc |-> "BUSY", bytes |-> 0]} \cup
         {[rc |-> "OK", bytes |-> n] : n \in IF ready THEN 1 .. length ELSE {}}

\* MODBUS_OK only when the whole frame has been moved.
Progress(rc, idx, size) ==
  IF rc = "FATAL" THEN "FATAL" ELSE IF idx >= size THEN "OK" ELSE "BUSY"

tcp_write(c) == Transfer(c.write_idx - c.read_idx, TRUE)
tcp_read(c, ready) == Transfer(c.frame_size - c.write_idx, ready)

write_data(c, io) == [c EXCEPT !.read_idx = @ + io.bytes]
write_result(c, io) == Progress(io.rc, c.read_idx + io.bytes, c.write_idx)

\* Mutant: every byte that arrives restarts the timeout.
read_data_restarts(c, io) ==
  [c EXCEPT !.write_idx = @ + io.bytes,
            !.state_entry_time = IF io.bytes > 0 THEN now ELSE @]

read_data(c, io) == [c EXCEPT !.write_idx = @ + io.bytes]
read_result(c, io) == Progress(io.rc, c.write_idx + io.bytes, c.frame_size)

\* poll() on a connecting socket; a refused connection is writable too.
tcp_connect(c) == IF c.fd = -1 THEN {"FATAL"} ELSE {"OK", "BUSY", "FATAL"}

\* A request that ends because of an error takes the connection with it.
Abort(c, exception_code) ==
  set_state(complete_request(c, exception_code), "DISCONNECTED")

\* The first bytes behind the header.  A reply too short to carry one leaves
\* in the buffer the byte serialize_request put there for this request.
RxUnit(c) ==
  IF c.frame.reply.pdu_size >= 1 THEN c.frame.reply.unit_id
  ELSE c.active_request.unit_id
RxFunction(c) ==
  IF c.frame.reply.pdu_size >= 2 THEN c.frame.reply.function
  ELSE get_function_code(c.active_request)
RxPayloadSize(c) ==
  IF c.frame.reply.pdu_size >= 3 THEN c.frame.reply.payload_size
  ELSE c.active_request.register_no \div 256

\* function_code has lost its high bit when is_exception tests it.  The
\* payload that is copied to the user starts at read_idx.
process_response(c) ==
  LET req           == c.active_request
      function_code == RxFunction(c) % 128
      is_exception  == function_code \div 128 = 1
      buf_size      == 2 * req.count
      payload_size  == RxPayloadSize(c)
      two           == [c EXCEPT !.read_idx = @ + 2]
      three         == [c EXCEPT !.read_idx = @ + 3]
  IN  IF RxUnit(c) # req.unit_id \/ get_function_code(req) # function_code
        THEN complete_request(two, "PROTOCOL_VIOLATION")
      ELSE IF is_exception
        THEN complete_request(three, "PROTOCOL_VIOLATION")
      ELSE IF req.is_write_request
        THEN complete_request(two, "NONE")
        ELSE complete_request(
               [three EXCEPT !.copied = IF payload_size < buf_size
                                          THEN payload_size ELSE buf_size],
               "NONE")

\* Mutants: the size is not checked; the id is not checked.
process_header_any_size(c, frame) ==
  LET d == [c EXCEPT !.frame = frame,
                     !.read_idx = c.frame_size,
                     !.frame_size = @ + frame.reply.pdu_size]
  IN  IF frame.id # d.frame_id
        THEN Abort(d, "PROTOCOL_VIOLATION")
        ELSE set_state(d, "READ_RESPONSE")
process_header_any_id(c, frame) ==
  LET d == [c EXCEPT !.frame = frame,
                     !.read_idx = c.frame_size,
                     !.frame_size = @ + frame.reply.pdu_size]
  IN  IF d.frame_size >= BufSize
        THEN Abort(d, "PROTOCOL_VIOLATION")
        ELSE set_state(d, "READ_RESPONSE")

\* The header is complete: the frame grows by pdu_size and is checked.
process_header(c, frame) ==
  LET d == [c EXCEPT !.frame = frame,
                     !.read_idx = c.frame_size,
                     !.frame_size = @ + frame.reply.pdu_size]
  IN  IF frame.id # d.frame_id \/ d.frame_size >= BufSize
        THEN Abort(d, "PROTOCOL_VIOLATION")
        ELSE set_state(d, "READ_RESPONSE")
----------------------------------------------------------------------------
(* The specification.                                                      *)

NoSrv == [id |-> -1, current |-> FALSE]

\* Closing the socket discards what is in flight on the connection.
Link(c, replies, server) ==
  /\ rx'  = IF c.state = "DISCONNECTED" THEN <<>> ELSE replies
  /\ srv' = IF c.state = "DISCONNECTED" THEN NoSrv ELSE server

\* The object is static (all members zero, _state = STATE_DISCONNECTED) and
\* begin() takes the time.
Init ==
  /\ now \in Clock
  /\ client = [state |-> "DISCONNECTED", state_entry_time |-> now,
               active_request |-> NoRequest, calls |-> <<>>,
               frame_id |-> 0, frame_size |-> 0, read_idx |-> 0, write_idx |-> 0,
               frame |-> NoFrame,
               copied |-> 0, fd |-> 0, sockets |-> {}]
  /\ looped = FALSE
  /\ rx = <<>>
  /\ srv = NoSrv
  /\ waited = 0

\* The call that is accepted; it returns MODBUS_OK.  In any other state it
\* returns MODBUS_FATAL or MODBUS_BUSY and changes nothing (send_result).
send_request(req) ==
  /\ client.state = "CONNECTED"
  /\ client' = set_state([this EXCEPT !.active_request = req], "WRITE_REQUEST")
  /\ rx' = [i \in DOMAIN rx |-> [rx[i] EXCEPT !.fresh = FALSE]]
  /\ srv' = [srv EXCEPT !.current = FALSE]
  /\ waited' = 0
  /\ UNCHANGED <<now, looped>>

send_result(state) ==
  CASE state \in BeforeConnected -> "FATAL"
    [] state \in AfterConnected  -> "BUSY"
    [] state = "CONNECTED"       -> "OK"

InState == Elapsed(now, client.state_entry_time)

LoopDisconnected ==
  /\ client.state = "DISCONNECTED"
  /\ IF InState > ConnectTimeout
       THEN client' \in tcp_open(set_state(this, "CONNECTING"))
       ELSE client' = this
  /\ UNCHANGED <<rx, srv>>

LoopConnecting ==
  /\ client.state = "CONNECTING"
  /\ \E rc \in tcp_connect(client) :
       client' = CASE rc = "FATAL" -> set_state(this, "DISCONNECTED")
                   [] rc = "OK"    -> set_state(this, "CONNECTED")
                   [] rc = "BUSY"  -> IF InState >= ConnectTimeout
                                        THEN set_state(this, "DISCONNECTED")
                                        ELSE this
  /\ UNCHANGED <<rx, srv>>

LoopConnected ==
  /\ client.state = "CONNECTED"
  /\ client' = this
  /\ UNCHANGED <<rx, srv>>

\* The server has the request once all of its bytes are written.
LoopWriteRequest ==
  /\ client.state = "WRITE_REQUEST"
  /\ \E io \in tcp_write(client) :
       LET c  == write_data(this, io)
           rc == write_result(client, io)
       IN  /\ client' = CASE rc = "FATAL" -> set_state(c, "DISCONNECTED")
                          [] rc = "OK"    -> set_state(c, "READ_RESPONSE_HEADER")
                          [] rc = "BUSY"  -> IF InState > RequestTimeout
                                               THEN Abort(c, "TIMEOUT") ELSE c
           /\ Link(client', rx,
                   IF rc = "OK" /\ client.write_idx > 0
                     THEN [id |-> client.frame_id, current |-> TRUE]
                     ELSE srv)

\* The header of the first waiting reply; with its last byte the client
\* starts on the body.
LoopReadHeader ==
  /\ client.state = "READ_RESPONSE_HEADER"
  /\ \E io \in tcp_read(client, rx # <<>>) :
       LET c  == read_data(this, io)
           rc == read_result(client, io)
       IN  /\ client' = CASE rc = "FATAL" -> set_state(c, "DISCONNECTED")
                          [] rc = "OK"    -> process_header(c, Head(rx))
                          [] rc = "BUSY"  -> IF InState > RequestTimeout
                                               THEN Abort(c, "TIMEOUT") ELSE c
           /\ Link(client', IF rc = "OK" THEN Tail(rx) ELSE rx, srv)

LoopReadResponse ==
  /\ client.state = "READ_RESPONSE"
  /\ \E io \in tcp_read(client, TRUE) :
       LET c  == read_data(this, io)
           rc == read_result(client, io)
       IN  /\ client' = CASE rc = "FATAL" -> set_state(c, "DISCONNECTED")
                          [] rc = "OK"    -> set_state(process_response(c), "CONNECTED")
                          [] rc = "BUSY"  -> IF InState > RequestTimeout
                                               THEN Abort(c, "TIMEOUT") ELSE c
           /\ Link(client', rx, srv)

loop ==
  /\ \/ LoopDisconnected \/ LoopConnecting \/ LoopConnected
     \/ LoopWriteRequest \/ LoopReadHeader \/ LoopReadResponse
  /\ looped' = TRUE
  /\ UNCHANGED <<now, waited>>

\* Every phase of a request is timed anew; each may last RequestTimeout and
\* the unit in which that is noticed.
Deadline == 3 * (RequestTimeout + 1)

\* The main loop calls loop() at least once per unit of time.  The ghost
\* saturates above Deadline.
Tick ==
  /\ looped
  /\ now' = Advance(now)
  /\ looped' = FALSE
  /\ waited' = IF client.state \in AfterConnected /\ waited <= Deadline
                 THEN waited + 1 ELSE waited
  /\ UNCHANGED <<client, rx, srv>>

\* The server answers the last request it received, again or for the first
\* time, and echoes its id.
ServerSend(reply) ==
  /\ srv # NoSrv
  /\ Len(rx) < MaxRx
  /\ rx' = Append(rx, [id |-> srv.id, fresh |-> srv.current, reply |-> reply])
  /\ UNCHANGED <<client, now, looped, srv, waited>>

Next ==
  \/ \E req \in Request : send_request(req)
  \/ loop
  \/ Tick
  \/ \E reply \in Reply : ServerSend(reply)

Spec == Init /\ [][Next]_vars

\* The main loop keeps calling loop() and time passes.
FairSpec == Spec /\ WF_vars(loop) /\ WF_vars(Tick)

----------------------------------------------------------------------------
(* Properties.                                                             *)

FrameType == [id : Ids, fresh : BOOLEAN, reply : ReplyType]

ClientType ==
  [state : States, state_entry_time : Clock,
   active_request : Request \cup {NoRequest},
   calls : Seq([request : Request, exception_code : Exceptions]),
   frame_id : Ids, frame_size : Nat, read_idx : Nat, write_idx : Nat,
   frame : FrameType, copied : Nat,
   fd : Fd \cup {-1, 0}, sockets : SUBSET Fd]

\* Every member variable and every part of the environment has its type.
TypeOK ==
  /\ client \in ClientType
  /\ now \in Clock
  /\ looped \in BOOLEAN
  /\ rx \in Seq(FrameType)
  /\ srv \in [id : Ids, current : BOOLEAN] \cup {NoSrv}
  /\ waited \in Nat

\* _active_request is set exactly while the state machine works on a request:
\* write_data, read_data and process_response never run without one, and no
\* request is forgotten when the machine returns to CONNECTED or DISCONNECTED
\* (loop, set_state and complete_request agree on who clears it).
PendingWhileBusy ==
  client.active_request # NoRequest <=> client.state \in AfterConnected

\* No read, write or memcpy leaves _frame_buffer: the part still to be
\* written, the part still to be read (whose size comes from the server's
\* header) and the payload copied to the user (whose size comes from the
\* server's body) all lie within BufSize.
BufferBounds ==
  /\ client.state = "WRITE_REQUEST" =>
       client.read_idx <= client.write_idx /\ client.write_idx <= BufSize
  /\ client.state \in {"READ_RESPONSE_HEADER", "READ_RESPONSE"} =>
       client.write_idx <= client.frame_size /\ client.frame_size <= BufSize
  /\ client.state = "READ_RESPONSE" => client.read_idx = TcpHeaderSize
  /\ client.calls # <<>> /\ client.calls[1].exception_code = "NONE"
        /\ ~client.calls[1].request.is_write_request =>
       /\ client.read_idx + client.copied <= BufSize
       /\ client.copied <= 2 * client.calls[1].request.count

\* Every socket that is open is the one in _fd, and none is open while
\* disconnected: no path through set_state and tcp_open leaks a descriptor,
\* however often the connection is lost.
OneSocket ==
  /\ client.sockets \subseteq {client.fd}
  /\ client.state = "DISCONNECTED" => client.sockets = {}
  /\ client.state \in {"CONNECTED"} \cup AfterConnected => client.sockets # {}

\* A request succeeds only on a reply the server sent after it had received
\* that very request.  Replies that were late or duplicated, and still wait
\* in the socket when the next request goes out, are told apart by the id in
\* the header, although ids wrap.
AcceptedReplyIsFresh ==
  \A i \in DOMAIN client.calls :
    client.calls[i].exception_code = "NONE" => client.frame.fresh

\* However slowly the bytes trickle, no request is pending longer than the
\* three phases of loop() allow.
RequestDeadline == waited <= Deadline

\* After a failure the client keeps trying: it is never stuck disconnected.
KeepsReconnecting == []<>(client.state # "DISCONNECTED")

\* An exception reply (function code with the high bit set) must not be
\* reported to the user as success: process_response has a branch for it.
ExceptionReplyFails ==
  \A i \in DOMAIN client.calls :
    client.calls[i].exception_code = "NONE" =>
      (client.frame.reply.pdu_size >= 2 => client.frame.reply.function < 128)

----------------------------------------------------------------------------
(* The client implements the service its user sees.                        *)

ServiceStatus ==
  CASE client.state \in BeforeConnected -> "down"
    [] client.state = "CONNECTED"       -> "idle"
    [] client.state \in AfterConnected  -> "busy"

Service == INSTANCE RequestService
             WITH status  <- ServiceStatus,
                  pending <- client.active_request,
                  calls   <- client.calls

\* send_request and loop() together implement RequestService: one callback
\* per accepted request, never none and never two (a timeout completes the
\* request and then disconnects, which completes it again), NONE only with
\* the connection still up, and an answer for every request in the end.
ImplementsService == Service!FairSpec
=============================================================================
