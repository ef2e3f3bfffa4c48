----------------------- MODULE ModbusTcpClientProofs -----------------------
(***************************************************************************)
(* Proofs about ModbusTcpClient for every set of requests and replies,     *)
(* every buffer size and every timeout the assumptions allow.              *)
(***************************************************************************)
EXTENDS ModbusTcpClient, SequenceTheorems, TLAPS

\* The uint16_t values are numbers.
LEMMA WordIsNat == \A w \in Word : w \in Nat
BY DEF Word

----------------------------------------------------------------------------
(* What the methods do to the object.                                      *)

\* The members no step of "finishing a request" touches.
SameFrame(c, d) ==
  /\ d.frame_id = c.frame_id /\ d.frame_size = c.frame_size
  /\ d.read_idx = c.read_idx /\ d.write_idx = c.write_idx
  /\ d.frame = c.frame /\ d.copied = c.copied

\* The callbacks made when the request of c, if any, ends with e.
CallsAfter(c, e) ==
  IF c.active_request = NoRequest
    THEN c.calls
    ELSE Append(c.calls, [request |-> c.active_request, exception_code |-> e])

\* complete_request clears the request, makes its callback if there is one
\* and leaves the rest alone.
LEMMA CompleteFacts ==
  ASSUME NEW c \in ClientType, NEW e \in Exceptions
  PROVE  /\ complete_request(c, e) \in ClientType
         /\ complete_request(c, e).active_request = NoRequest
         /\ complete_request(c, e).calls = CallsAfter(c, e)
         /\ complete_request(c, e).state = c.state
         /\ complete_request(c, e).state_entry_time = c.state_entry_time
         /\ complete_request(c, e).fd = c.fd
         /\ complete_request(c, e).sockets = c.sockets
         /\ SameFrame(c, complete_request(c, e))
<1>1. CASE c.active_request = NoRequest
  BY <1>1 DEF complete_request, CallsAfter, SameFrame
<1>2. CASE c.active_request # NoRequest
  <2>1. [request |-> c.active_request, exception_code |-> e]
          \in [request : Request, exception_code : Exceptions]
    BY <1>2 DEF ClientType
  <2>2. Append(c.calls, [request |-> c.active_request, exception_code |-> e])
          \in Seq([request : Request, exception_code : Exceptions])
    BY <2>1 DEF ClientType
  <2>3. complete_request(c, e) =
          [c EXCEPT !.active_request = NoRequest,
                    !.calls = Append(c.calls, [request |-> c.active_request,
                                               exception_code |-> e])]
    BY <1>2 DEF complete_request, ClientType
  <2>4. CallsAfter(c, e) =
          Append(c.calls, [request |-> c.active_request, exception_code |-> e])
    BY <1>2 DEF CallsAfter
  <2>5. complete_request(c, e) \in ClientType
    BY <2>2, <2>3 DEF ClientType
  <2> QED BY <2>3, <2>4, <2>5 DEF ClientType, SameFrame
<1> QED BY <1>1, <1>2

\* d is c after the connection was dropped and its request, if any, had ended
\* with e.
Dropped(c, d, e) ==
  /\ d \in ClientType
  /\ d.state = "DISCONNECTED"
  /\ d.state_entry_time = now
  /\ d.active_request = NoRequest
  /\ d.calls = CallsAfter(c, e)
  /\ d.fd = -1
  /\ d.sockets = c.sockets \ {c.fd}
  /\ SameFrame(c, d)

\* Entering DISCONNECTED closes the socket and ends the request.
LEMMA DisconnectFacts ==
  ASSUME NEW c \in ClientType, now \in Clock
  PROVE  Dropped(c, set_state(c, "DISCONNECTED"), "NOT_CONNECTED")
<1> DEFINE d == [c EXCEPT !.state = "DISCONNECTED", !.state_entry_time = now]
           f == [tcp_close(d) EXCEPT !.fd = -1]
<1>1. /\ d \in ClientType /\ d.state = "DISCONNECTED" /\ d.state_entry_time = now
      /\ d.fd = c.fd /\ d.sockets = c.sockets /\ SameFrame(c, d)
      /\ d.active_request = c.active_request /\ d.calls = c.calls
  BY DEF ClientType, SameFrame, States
<1> HIDE DEF d
<1>2. /\ f \in ClientType /\ f.state = "DISCONNECTED" /\ f.state_entry_time = now
      /\ f.fd = -1 /\ f.sockets = d.sockets \ {d.fd} /\ SameFrame(d, f)
      /\ f.active_request = d.active_request /\ f.calls = d.calls
  BY <1>1 DEF tcp_close, ClientType, SameFrame
<1>3. set_state(c, "DISCONNECTED") = complete_request(f, "NOT_CONNECTED")
  BY DEF set_state, d
<1>4. CallsAfter(f, "NOT_CONNECTED") = CallsAfter(c, "NOT_CONNECTED")
  BY <1>1, <1>2 DEF CallsAfter
<1> HIDE DEF f
<1> QED
  BY <1>1, <1>2, <1>3, <1>4, CompleteFacts DEF Dropped, SameFrame, Exceptions

\* Completing a request and then disconnecting makes one callback.
LEMMA AbortFacts ==
  ASSUME NEW c \in ClientType, NEW e \in Exceptions, now \in Clock
  PROVE  Dropped(c, Abort(c, e), e)
<1> DEFINE d == complete_request(c, e)
<1>1. /\ d \in ClientType /\ d.active_request = NoRequest
      /\ d.calls = CallsAfter(c, e) /\ d.fd = c.fd /\ d.sockets = c.sockets
      /\ SameFrame(c, d)
  BY CompleteFacts
<1> HIDE DEF d
<1>2. Dropped(d, set_state(d, "DISCONNECTED"), "NOT_CONNECTED")
  BY <1>1, DisconnectFacts
<1>3. CallsAfter(d, "NOT_CONNECTED") = d.calls
  BY <1>1 DEF CallsAfter
<1>4. Abort(c, e) = set_state(d, "DISCONNECTED")
  BY DEF Abort, d
<1> QED BY <1>1, <1>2, <1>3, <1>4 DEF Dropped, SameFrame

\* Entering WRITE_REQUEST puts the request in the buffer under the next id.
LEMMA WriteFacts ==
  ASSUME NEW c \in ClientType, now \in Clock, c.active_request \in Request
  PROVE  /\ set_state(c, "WRITE_REQUEST") \in ClientType
         /\ set_state(c, "WRITE_REQUEST").state = "WRITE_REQUEST"
         /\ set_state(c, "WRITE_REQUEST").state_entry_time = now
         /\ set_state(c, "WRITE_REQUEST").active_request = c.active_request
         /\ set_state(c, "WRITE_REQUEST").calls = c.calls
         /\ set_state(c, "WRITE_REQUEST").fd = c.fd
         /\ set_state(c, "WRITE_REQUEST").sockets = c.sockets
         /\ set_state(c, "WRITE_REQUEST").frame_id = NextId(c.frame_id)
         /\ set_state(c, "WRITE_REQUEST").read_idx = 0
         /\ set_state(c, "WRITE_REQUEST").write_idx <= BufSize
<1> DEFINE size == serialize_request(c.active_request)
           d == [c EXCEPT !.state = "WRITE_REQUEST", !.state_entry_time = now]
<1>1. size \in Nat /\ size <= BufSize
  <2>1. c.active_request.count \in Nat /\ BufSize \in Nat
    BY RequestAssumption, BoundAssumption DEF RequestType
  <2> QED BY <2>1 DEF serialize_request, TcpHeaderSize, PduHeaderSize
<1>2. NextId(c.frame_id) \in Ids
  BY BoundAssumption DEF NextId, Ids, ClientType
<1>3. NoFrame \in FrameType
  <2>1. 0 \in Ids /\ 0 \in Byte /\ 0 \in Word /\ 0 \in 0 .. MaxPayload
    BY BoundAssumption DEF Ids, Byte, Word
  <2> QED BY <2>1 DEF NoFrame, FrameType, ReplyType
<1>4. /\ d \in ClientType /\ d.active_request = c.active_request
      /\ d.calls = c.calls /\ d.fd = c.fd /\ d.sockets = c.sockets
      /\ d.frame_id = c.frame_id /\ d.state = "WRITE_REQUEST"
      /\ d.state_entry_time = now
  BY DEF ClientType, States
<1>5. set_state(c, "WRITE_REQUEST") =
        [d EXCEPT !.frame_id = NextId(c.frame_id), !.frame_size = size,
                  !.write_idx = size, !.read_idx = 0, !.frame = NoFrame]
  BY <1>4 DEF set_state
<1> DEFINE f == [d EXCEPT !.frame_id = NextId(c.frame_id), !.frame_size = size,
                          !.write_idx = size, !.read_idx = 0, !.frame = NoFrame]
<1> HIDE DEF size, d
<1>6. f \in ClientType
  BY <1>1, <1>2, <1>3, <1>4 DEF ClientType
<1>7. /\ f.active_request = d.active_request /\ f.calls = d.calls
      /\ f.fd = d.fd /\ f.sockets = d.sockets
      /\ f.frame_id = NextId(c.frame_id) /\ f.state = d.state
      /\ f.state_entry_time = d.state_entry_time
      /\ f.read_idx = 0 /\ f.write_idx = size
  BY <1>4 DEF ClientType
<1> HIDE DEF f
<1>8. set_state(c, "WRITE_REQUEST") = f
  BY <1>5 DEF f
<1> QED BY <1>1, <1>4, <1>6, <1>7, <1>8

\* Entering a state without an entry action sets the state and the time.
LEMMA PlainFacts ==
  ASSUME NEW c \in ClientType, now \in Clock,
         NEW s \in {"CONNECTING", "CONNECTED", "READ_RESPONSE"}
  PROVE  /\ set_state(c, s) \in ClientType
         /\ set_state(c, s) = [c EXCEPT !.state = s, !.state_entry_time = now]
         /\ set_state(c, s).state = s
         /\ set_state(c, s).state_entry_time = now
         /\ set_state(c, s).active_request = c.active_request
         /\ set_state(c, s).calls = c.calls
         /\ set_state(c, s).fd = c.fd
         /\ set_state(c, s).sockets = c.sockets
         /\ SameFrame(c, set_state(c, s))
<1>1. set_state(c, s) = [c EXCEPT !.state = s, !.state_entry_time = now]
  BY DEF set_state
<1> QED BY <1>1 DEF ClientType, States, SameFrame

\* Entering READ_RESPONSE_HEADER expects a header at the start of the buffer.
LEMMA HeaderFacts ==
  ASSUME NEW c \in ClientType, now \in Clock
  PROVE  /\ set_state(c, "READ_RESPONSE_HEADER") \in ClientType
         /\ set_state(c, "READ_RESPONSE_HEADER").state = "READ_RESPONSE_HEADER"
         /\ set_state(c, "READ_RESPONSE_HEADER").state_entry_time = now
         /\ set_state(c, "READ_RESPONSE_HEADER").active_request = c.active_request
         /\ set_state(c, "READ_RESPONSE_HEADER").calls = c.calls
         /\ set_state(c, "READ_RESPONSE_HEADER").fd = c.fd
         /\ set_state(c, "READ_RESPONSE_HEADER").sockets = c.sockets
         /\ set_state(c, "READ_RESPONSE_HEADER").frame_id = c.frame_id
         /\ set_state(c, "READ_RESPONSE_HEADER").frame_size = TcpHeaderSize
         /\ set_state(c, "READ_RESPONSE_HEADER").read_idx = 0
         /\ set_state(c, "READ_RESPONSE_HEADER").write_idx = 0
<1> DEFINE d == [c EXCEPT !.state = "READ_RESPONSE_HEADER",
                          !.state_entry_time = now]
<1>1. set_state(c, "READ_RESPONSE_HEADER") =
        [d EXCEPT !.frame_size = TcpHeaderSize, !.write_idx = 0, !.read_idx = 0]
  BY DEF set_state
<1>2. /\ d \in ClientType /\ d.active_request = c.active_request
      /\ d.calls = c.calls /\ d.fd = c.fd /\ d.sockets = c.sockets
      /\ d.frame_id = c.frame_id /\ d.state = "READ_RESPONSE_HEADER"
      /\ d.state_entry_time = now
  BY DEF ClientType, States
<1> DEFINE f == [d EXCEPT !.frame_size = TcpHeaderSize,
                          !.write_idx = 0, !.read_idx = 0]
<1> HIDE DEF d
<1>3. f \in ClientType
  BY <1>2 DEF ClientType, TcpHeaderSize
<1>4. /\ f.active_request = d.active_request /\ f.calls = d.calls
      /\ f.fd = d.fd /\ f.sockets = d.sockets /\ f.frame_id = d.frame_id
      /\ f.state = d.state /\ f.state_entry_time = d.state_entry_time
      /\ f.frame_size = TcpHeaderSize /\ f.read_idx = 0 /\ f.write_idx = 0
  BY <1>2 DEF ClientType
<1> HIDE DEF f
<1>5. set_state(c, "READ_RESPONSE_HEADER") = f
  BY <1>1 DEF f
<1> QED BY <1>2, <1>3, <1>4, <1>5

\* A transfer never moves more than is asked for, and nothing when the other
\* side is not ready.
LEMMA TransferFacts ==
  ASSUME NEW length \in Nat, NEW ready \in BOOLEAN,
         NEW io \in Transfer(length, ready)
  PROVE  /\ io.bytes \in Nat
         /\ io.bytes <= length
         /\ ~ready => io.bytes = 0
<1>1. CASE length = 0
  BY <1>1 DEF Transfer
<1>2. CASE length # 0
  BY <1>2 DEF Transfer
<1> QED BY <1>1, <1>2

\* write_data moves read_idx towards write_idx and is done when they meet.
LEMMA WriteDataFacts ==
  ASSUME NEW c \in ClientType, c.read_idx <= c.write_idx,
         NEW io \in tcp_write(c)
  PROVE  /\ write_data(c, io) \in ClientType
         /\ write_data(c, io) = [c EXCEPT !.read_idx = c.read_idx + io.bytes]
         /\ c.read_idx + io.bytes <= c.write_idx
         /\ write_result(c, io) \in {"OK", "BUSY", "FATAL"}
<1>1. /\ c.read_idx \in Nat /\ c.write_idx \in Nat
      /\ c.write_idx - c.read_idx \in Nat
  BY DEF ClientType
<1>2. io.bytes \in Nat /\ io.bytes <= c.write_idx - c.read_idx
  BY <1>1, TransferFacts DEF tcp_write
<1>3. write_data(c, io) = [c EXCEPT !.read_idx = c.read_idx + io.bytes]
  BY DEF write_data
<1>4. write_data(c, io) \in ClientType
  <2> DEFINE k == c.read_idx + io.bytes
  <2>1. k \in Nat
    BY <1>1, <1>2
  <2> HIDE DEF k
  <2>2. [c EXCEPT !.read_idx = k] \in ClientType
    BY <2>1 DEF ClientType
  <2> QED BY <1>3, <2>2 DEF k
<1> QED BY <1>1, <1>2, <1>3, <1>4 DEF write_result, Progress

\* read_data moves write_idx towards frame_size; it can only finish a frame
\* of which bytes are missing when there is something to read.
LEMMA ReadDataFacts ==
  ASSUME NEW c \in ClientType, c.write_idx <= c.frame_size,
         NEW ready \in BOOLEAN, NEW io \in tcp_read(c, ready)
  PROVE  /\ read_data(c, io) \in ClientType
         /\ read_data(c, io) = [c EXCEPT !.write_idx = c.write_idx + io.bytes]
         /\ c.write_idx + io.bytes <= c.frame_size
         /\ read_result(c, io) \in {"OK", "BUSY", "FATAL"}
         /\ read_result(c, io) = "OK" /\ c.write_idx < c.frame_size => ready
         /\ read_result(c, io) = "BUSY" => c.write_idx + io.bytes < c.frame_size
<1>1. /\ c.write_idx \in Nat /\ c.frame_size \in Nat
      /\ c.frame_size - c.write_idx \in Nat
  BY DEF ClientType
<1>2. /\ io.bytes \in Nat /\ io.bytes <= c.frame_size - c.write_idx
      /\ ~ready => io.bytes = 0
  BY <1>1, TransferFacts DEF tcp_read
<1>3. read_data(c, io) = [c EXCEPT !.write_idx = c.write_idx + io.bytes]
  BY DEF read_data
<1>4. read_data(c, io) \in ClientType
  <2> DEFINE k == c.write_idx + io.bytes
  <2>1. k \in Nat
    BY <1>1, <1>2
  <2> HIDE DEF k
  <2>2. [c EXCEPT !.write_idx = k] \in ClientType
    BY <2>1 DEF ClientType
  <2> QED BY <1>3, <2>2 DEF k
<1> QED BY <1>1, <1>2, <1>3, <1>4 DEF read_result, Progress

\* process_response ends the request with NONE or PROTOCOL_VIOLATION; the
\* payload it copies fits the buffer it is read from and the user's.
LEMMA ResponseFacts ==
  ASSUME NEW c \in ClientType, c.active_request \in Request,
         c.read_idx = TcpHeaderSize
  PROVE  LET d == process_response(c) IN
         /\ d \in ClientType
         /\ d.state = c.state
         /\ d.active_request = NoRequest
         /\ d.fd = c.fd
         /\ d.sockets = c.sockets
         /\ d.frame = c.frame
         /\ d.frame_id = c.frame_id
         /\ \E e \in {"NONE", "PROTOCOL_VIOLATION"} :
              /\ d.calls = CallsAfter(c, e)
              /\ e = "NONE" /\ ~c.active_request.is_write_request =>
                   /\ d.read_idx + d.copied <= BufSize
                   /\ d.copied <= 2 * c.active_request.count
<1> DEFINE two == [c EXCEPT !.read_idx = @ + 2]
           three == [c EXCEPT !.read_idx = @ + 3]
           n == IF RxPayloadSize(c) < 2 * c.active_request.count
                  THEN RxPayloadSize(c) ELSE 2 * c.active_request.count
           copy == [three EXCEPT !.copied = n]
<1>1. /\ c.active_request.count \in Nat
      /\ c.active_request.register_no \in Nat
      /\ ~c.active_request.is_write_request =>
           c.active_request.register_no \div 256 <= MaxPayload
      /\ c.active_request.register_no \div 256 \in Nat
  <2>1. c.active_request \in RequestType
    BY RequestAssumption
  <2>2. c.active_request.count \in Nat /\ c.active_request.register_no \in Word
    BY <2>1 DEF RequestType
  <2>3. \A k \in Nat : k \div 256 \in Nat
    OBVIOUS
  <2> QED BY <2>2, <2>3, WordIsNat, RequestAssumption
<1>2. ~c.active_request.is_write_request =>
        RxPayloadSize(c) \in Nat /\ RxPayloadSize(c) <= MaxPayload
  <2>1. c.frame.reply \in ReplyType
    BY DEF ClientType, FrameType
  <2>2. /\ c.frame.reply.payload_size \in Nat
        /\ c.frame.reply.payload_size <= MaxPayload
    BY <2>1, BoundAssumption DEF ReplyType, Byte
  <2> QED BY <1>1, <2>2 DEF RxPayloadSize
<1>3. /\ two \in ClientType /\ two.active_request = c.active_request
      /\ two.calls = c.calls /\ two.state = c.state /\ two.fd = c.fd
      /\ two.sockets = c.sockets /\ two.frame = c.frame
      /\ two.frame_id = c.frame_id
  <2>1. c.read_idx + 2 \in Nat
    BY DEF ClientType
  <2>2. two \in ClientType
    BY <2>1 DEF ClientType
  <2>3. /\ two.active_request = c.active_request
        /\ two.calls = c.calls /\ two.state = c.state /\ two.fd = c.fd
        /\ two.sockets = c.sockets /\ two.frame = c.frame
        /\ two.frame_id = c.frame_id
    BY DEF ClientType
  <2> QED BY <2>2, <2>3
<1>4. /\ three \in ClientType /\ three.active_request = c.active_request
      /\ three.calls = c.calls /\ three.state = c.state /\ three.fd = c.fd
      /\ three.sockets = c.sockets /\ three.frame = c.frame
      /\ three.frame_id = c.frame_id /\ three.read_idx = TcpHeaderSize + 3
  <2>1. c.read_idx + 3 \in Nat
    BY DEF ClientType
  <2>2. three \in ClientType
    BY <2>1 DEF ClientType
  <2>3. /\ three.active_request = c.active_request
        /\ three.calls = c.calls /\ three.state = c.state /\ three.fd = c.fd
        /\ three.sockets = c.sockets /\ three.frame = c.frame
        /\ three.frame_id = c.frame_id /\ three.read_idx = c.read_idx + 3
    BY DEF ClientType
  <2> QED BY <2>2, <2>3
<1> HIDE DEF two, three
<1>5. ASSUME ~c.active_request.is_write_request
      PROVE  /\ copy \in ClientType /\ copy.active_request = c.active_request
             /\ copy.calls = c.calls /\ copy.state = c.state /\ copy.fd = c.fd
             /\ copy.sockets = c.sockets /\ copy.frame = c.frame
             /\ copy.frame_id = c.frame_id
             /\ copy.read_idx + copy.copied <= BufSize
             /\ copy.copied <= 2 * c.active_request.count
  <2>1. n \in Nat /\ n <= MaxPayload /\ n <= 2 * c.active_request.count
    BY <1>1, <1>2, <1>5, BoundAssumption DEF Byte
  <2> HIDE DEF n
  <2>2. copy \in ClientType
    BY <1>4, <2>1 DEF ClientType
  <2>3. /\ copy.active_request = three.active_request
        /\ copy.calls = three.calls /\ copy.state = three.state
        /\ copy.fd = three.fd /\ copy.sockets = three.sockets
        /\ copy.frame = three.frame /\ copy.frame_id = three.frame_id
        /\ copy.read_idx = three.read_idx /\ copy.copied = n
    BY <1>4 DEF ClientType
  <2> QED BY <1>4, <2>1, <2>2, <2>3, BoundAssumption DEF TcpHeaderSize, Byte
<1> HIDE DEF copy
<1>6. \/ process_response(c) = complete_request(two, "PROTOCOL_VIOLATION")
      \/ process_response(c) = complete_request(three, "PROTOCOL_VIOLATION")
      \/ /\ c.active_request.is_write_request
         /\ process_response(c) = complete_request(two, "NONE")
      \/ /\ ~c.active_request.is_write_request
         /\ process_response(c) = complete_request(copy, "NONE")
  BY DEF process_response, two, three, copy, n
<1>7. ASSUME NEW b \in ClientType, NEW e \in Exceptions,
             b.active_request = c.active_request, b.calls = c.calls,
             b.state = c.state, b.fd = c.fd, b.sockets = c.sockets,
             b.frame = c.frame, b.frame_id = c.frame_id
      PROVE  LET d == complete_request(b, e) IN
             /\ d \in ClientType /\ d.state = c.state
             /\ d.active_request = NoRequest /\ d.fd = c.fd
             /\ d.sockets = c.sockets /\ d.frame = c.frame
             /\ d.frame_id = c.frame_id /\ d.calls = CallsAfter(c, e)
             /\ d.read_idx = b.read_idx /\ d.copied = b.copied
  <2>1. CallsAfter(b, e) = CallsAfter(c, e)
    BY <1>7 DEF CallsAfter
  <2> QED BY <1>7, <2>1, CompleteFacts DEF SameFrame
<1> DEFINE Ends(d, e) ==
      /\ d \in ClientType /\ d.state = c.state
      /\ d.active_request = NoRequest /\ d.fd = c.fd
      /\ d.sockets = c.sockets /\ d.frame = c.frame
      /\ d.frame_id = c.frame_id /\ d.calls = CallsAfter(c, e)
<1>8. /\ Ends(complete_request(two, "PROTOCOL_VIOLATION"), "PROTOCOL_VIOLATION")
      /\ Ends(complete_request(two, "NONE"), "NONE")
  BY <1>3, <1>7 DEF Exceptions
<1>9. Ends(complete_request(three, "PROTOCOL_VIOLATION"), "PROTOCOL_VIOLATION")
  BY <1>4, <1>7 DEF Exceptions
<1>10. ASSUME ~c.active_request.is_write_request
       PROVE  /\ Ends(complete_request(copy, "NONE"), "NONE")
              /\ complete_request(copy, "NONE").read_idx = copy.read_idx
              /\ complete_request(copy, "NONE").copied = copy.copied
  BY <1>5, <1>7, <1>10 DEF Exceptions
<1> QED BY <1>5, <1>6, <1>8, <1>9, <1>10

\* process_header either drops the connection with PROTOCOL_VIOLATION or goes
\* on to a body that fits the buffer and carries the id of the request.
LEMMA ProcessHeaderFacts ==
  ASSUME NEW c \in ClientType, NEW frame \in FrameType, now \in Clock,
         c.frame_size = TcpHeaderSize, c.write_idx <= c.frame_size
  PROVE  LET d == process_header(c, frame) IN
         /\ d \in ClientType
         /\ d.state_entry_time = now
         /\ d.frame = frame
         /\ d.frame_id = c.frame_id
         /\ \/ /\ d.state = "DISCONNECTED"
               /\ d.active_request = NoRequest
               /\ d.calls = CallsAfter(c, "PROTOCOL_VIOLATION")
               /\ d.fd = -1 /\ d.sockets = c.sockets \ {c.fd}
            \/ /\ d.state = "READ_RESPONSE"
               /\ d.active_request = c.active_request
               /\ d.calls = c.calls
               /\ d.fd = c.fd /\ d.sockets = c.sockets
               /\ frame.id = c.frame_id
               /\ d.read_idx = TcpHeaderSize
               /\ d.write_idx <= d.frame_size /\ d.frame_size <= BufSize
<1> DEFINE f == [c EXCEPT !.frame = frame,
                          !.read_idx = c.frame_size,
                          !.frame_size = c.frame_size + frame.reply.pdu_size]
<1>1. frame.reply.pdu_size \in Nat
  <2>1. frame.reply \in ReplyType
    BY DEF FrameType
  <2>2. frame.reply.pdu_size \in Word
    BY <2>1 DEF ReplyType
  <2> QED BY <2>2, WordIsNat
<1>2. c.frame_size + frame.reply.pdu_size \in Nat /\ c.frame_size \in Nat
  BY <1>1 DEF TcpHeaderSize
<1>3. f \in ClientType
  <2> DEFINE n == c.frame_size + frame.reply.pdu_size
  <2>1. n \in Nat BY <1>2
  <2> HIDE DEF n
  <2>2. [c EXCEPT !.frame = frame, !.read_idx = c.frame_size, !.frame_size = n]
          \in ClientType
    BY <1>2, <2>1 DEF ClientType
  <2> QED BY <2>2 DEF n
<1>4. /\ f.frame = frame /\ f.frame_id = c.frame_id /\ f.fd = c.fd
      /\ f.active_request = c.active_request /\ f.calls = c.calls
      /\ f.sockets = c.sockets /\ f.read_idx = TcpHeaderSize
      /\ f.write_idx = c.write_idx
      /\ f.frame_size = c.frame_size + frame.reply.pdu_size
  BY DEF ClientType
<1>5. process_header(c, frame) =
        IF frame.id # f.frame_id \/ f.frame_size >= BufSize
          THEN Abort(f, "PROTOCOL_VIOLATION")
          ELSE set_state(f, "READ_RESPONSE")
  BY DEF process_header
<1> HIDE DEF f
<1>6. CASE frame.id # f.frame_id \/ f.frame_size >= BufSize
  <2>1. Dropped(f, Abort(f, "PROTOCOL_VIOLATION"), "PROTOCOL_VIOLATION")
    BY <1>3, AbortFacts DEF Exceptions
  <2>2. CallsAfter(f, "PROTOCOL_VIOLATION") = CallsAfter(c, "PROTOCOL_VIOLATION")
    BY <1>4 DEF CallsAfter
  <2> QED BY <1>4, <1>5, <1>6, <2>1, <2>2 DEF Dropped, SameFrame
<1>7. CASE ~(frame.id # f.frame_id \/ f.frame_size >= BufSize)
  <2>1. f.frame_size <= BufSize /\ c.write_idx <= f.frame_size
    <3>1. f.frame_size \in Nat /\ c.write_idx \in Nat /\ c.frame_size \in Nat
      BY <1>3 DEF ClientType
    <3> QED BY <1>1, <1>4, <1>7, <3>1, BoundAssumption
  <2>2. process_header(c, frame) = set_state(f, "READ_RESPONSE")
    BY <1>5, <1>7
  <2> DEFINE d == set_state(f, "READ_RESPONSE")
  <2>3. /\ d \in ClientType /\ d.state = "READ_RESPONSE"
        /\ d.state_entry_time = now /\ d.active_request = f.active_request
        /\ d.calls = f.calls /\ d.fd = f.fd /\ d.sockets = f.sockets
        /\ SameFrame(f, d)
    BY <1>3, PlainFacts
  <2> HIDE DEF d
  <2>4. process_header(c, frame) = d
    BY <2>2 DEF d
  <2> QED BY <1>4, <1>7, <2>1, <2>3, <2>4 DEF SameFrame
<1> QED BY <1>6, <1>7

----------------------------------------------------------------------------
(* The inductive invariant.  Beside the properties it needs to know what   *)
(* the next phase of a request starts from: a header of the right size,    *)
(* and a socket behind the descriptor that is polled.                      *)

ClientInv ==
  /\ TypeOK
  /\ PendingWhileBusy
  /\ BufferBounds
  /\ OneSocket
  /\ client.state = "READ_RESPONSE_HEADER" =>
       client.frame_size = TcpHeaderSize /\ client.write_idx < TcpHeaderSize
  /\ client.state = "CONNECTING" =>
       client.fd = -1 \/ client.fd \in client.sockets

\* The object at the start of a step differs in its callbacks only.
LEMMA ThisFacts ==
  ASSUME client \in ClientType
  PROVE  /\ this \in ClientType
         /\ this = [client EXCEPT !.calls = <<>>]
         /\ this.calls = <<>>
         /\ this.state = client.state
         /\ this.state_entry_time = client.state_entry_time
         /\ this.active_request = client.active_request
         /\ this.fd = client.fd
         /\ this.sockets = client.sockets
         /\ SameFrame(client, this)
<1>1. <<>> \in Seq([request : Request, exception_code : Exceptions])
  OBVIOUS
<1> QED BY <1>1 DEF this, ClientType, SameFrame

\* Marking the waiting replies as stale keeps them replies.
LEMMA StaleSeq ==
  ASSUME NEW q \in Seq(FrameType)
  PROVE  [i \in DOMAIN q |-> [q[i] EXCEPT !.fresh = FALSE]] \in Seq(FrameType)
<1> DEFINE g == [i \in DOMAIN q |-> [q[i] EXCEPT !.fresh = FALSE]]
<1>1. DOMAIN q = 1 .. Len(q) /\ Len(q) \in Nat
  BY LenProperties
<1>2. \A i \in 1 .. Len(q) : q[i] \in FrameType
  BY ElementOfSeq
<1>3. \A f \in FrameType : [f EXCEPT !.fresh = FALSE] \in FrameType
  BY DEF FrameType
<1>4. g \in [1 .. Len(q) -> FrameType]
  BY <1>1, <1>2, <1>3
<1> QED BY <1>1, <1>4, SeqDef

\* The invariant after the connection was dropped.
LEMMA DroppedInv ==
  ASSUME client' \in ClientType,
         NEW c, NEW e \in Exceptions \ {"NONE"},
         c.calls = <<>>, c.sockets \subseteq {c.fd},
         client'.state = "DISCONNECTED",
         client'.active_request = NoRequest,
         client'.calls = CallsAfter(c, e),
         client'.sockets = c.sockets \ {c.fd}
  PROVE  /\ PendingWhileBusy' /\ BufferBounds' /\ OneSocket'
         /\ client'.state # "READ_RESPONSE_HEADER"
         /\ client'.state # "CONNECTING"
<1>1. PendingWhileBusy'
  BY DEF PendingWhileBusy, AfterConnected
<1>2. OneSocket'
  BY DEF OneSocket, AfterConnected
<1>3. client'.calls = <<>> \/ client'.calls[1].exception_code = e
  BY DEF CallsAfter
<1>4. BufferBounds'
  BY <1>3 DEF BufferBounds
<1> QED BY <1>1, <1>2, <1>4

\* The initial state satisfies the invariant.
LEMMA InitInv == Init => ClientInv
<1> SUFFICES ASSUME Init PROVE ClientInv
  OBVIOUS
<1>1. NoFrame \in FrameType
  <2>1. 0 \in Ids /\ 0 \in Byte /\ 0 \in Word /\ 0 \in 0 .. MaxPayload
    BY BoundAssumption DEF Ids, Byte, Word
  <2> QED BY <2>1 DEF NoFrame, FrameType, ReplyType
<1>2. 0 \in Ids
  BY BoundAssumption DEF Ids
<1>3. client \in ClientType
  BY <1>1, <1>2 DEF Init, ClientType, States
<1>4. TypeOK
  <2>1. looped \in BOOLEAN /\ srv \in {NoSrv}
    BY Zenon DEF Init
  <2>2. now \in Clock /\ waited \in Nat /\ rx \in Seq(FrameType)
    BY EmptySeq DEF Init
  <2> QED BY <1>3, <2>1, <2>2 DEF TypeOK
<1> QED
  BY <1>4 DEF Init, ClientInv, PendingWhileBusy, BufferBounds, OneSocket,
              AfterConnected

\* send_request preserves the invariant.
LEMMA SendInv ==
  ASSUME ClientInv, NEW req \in Request, send_request(req)
  PROVE  /\ ClientInv'
         /\ client'.state = "WRITE_REQUEST" /\ client'.state_entry_time = now
         /\ client'.active_request = req /\ client'.calls = <<>>
         /\ client'.frame_id = NextId(client.frame_id)
<1> DEFINE c == [this EXCEPT !.active_request = req]
<1>1. client \in ClientType /\ now \in Clock
  BY DEF ClientInv, TypeOK
<1>2. /\ c \in ClientType /\ c.active_request = req /\ c.calls = <<>>
      /\ c.fd = client.fd /\ c.sockets = client.sockets
      /\ c.frame_id = client.frame_id
  BY <1>1, ThisFacts DEF ClientType, SameFrame
<1>3. client' = set_state(c, "WRITE_REQUEST")
  BY DEF send_request
<1> HIDE DEF c
<1>4. /\ client' \in ClientType /\ client'.state = "WRITE_REQUEST"
      /\ client'.active_request = req /\ client'.calls = <<>>
      /\ client'.fd = client.fd /\ client'.sockets = client.sockets
      /\ client'.read_idx = 0 /\ client'.write_idx <= BufSize
      /\ client'.state_entry_time = now
      /\ client'.frame_id = NextId(client.frame_id)
  BY <1>1, <1>2, <1>3, WriteFacts
<1>5. client'.read_idx <= client'.write_idx
  BY <1>4 DEF ClientType
<1>6. TypeOK'
  <2>1. rx' \in Seq(FrameType)
    BY StaleSeq DEF send_request, ClientInv, TypeOK
  <2>2. srv' \in [id : Ids, current : BOOLEAN] \cup {NoSrv}
    <3>1. CASE srv = NoSrv
      <4>1. srv' = NoSrv
        BY <3>1 DEF send_request, NoSrv
      <4> QED BY <4>1
    <3>2. CASE srv \in [id : Ids, current : BOOLEAN]
      BY <3>2 DEF send_request
    <3> QED BY <3>1, <3>2 DEF ClientInv, TypeOK
  <2>3. now' \in Clock /\ looped' \in BOOLEAN /\ waited' \in Nat
    BY DEF send_request, ClientInv, TypeOK
  <2> QED BY <1>4, <2>1, <2>2, <2>3 DEF TypeOK
<1>7. PendingWhileBusy' /\ BufferBounds' /\ OneSocket'
  <2>1. req # NoRequest
    BY RequestAssumption
  <2> QED BY <1>4, <1>5, <2>1
          DEF PendingWhileBusy, BufferBounds, OneSocket, AfterConnected,
              ClientInv, send_request
<1> QED BY <1>4, <1>6, <1>7 DEF ClientInv

\* Nothing but a step of the client touches the client.
LEMMA EnvironmentInv ==
  ASSUME ClientInv,
         Tick \/ (\E reply \in Reply : ServerSend(reply)) \/ UNCHANGED vars
  PROVE  ClientInv'
<1>1. client' = client
  BY DEF Tick, ServerSend, vars
<1>2. TypeOK'
  <2>1. CASE Tick
    <3>1. now' \in Clock
      BY <2>1, ClockAssumption DEF Tick, ClientInv, TypeOK, Clock, Advance
    <3>2. waited' \in Nat
      BY <2>1 DEF Tick, ClientInv, TypeOK
    <3>3. looped' \in BOOLEAN
      BY <2>1, Zenon DEF Tick
    <3> QED BY <1>1, <2>1, <3>1, <3>2, <3>3 DEF Tick, ClientInv, TypeOK
  <2>2. ASSUME NEW reply \in Reply, ServerSend(reply)
        PROVE  TypeOK'
    <3> DEFINE f == [id |-> srv.id, fresh |-> srv.current, reply |-> reply]
    <3>1. srv \in [id : Ids, current : BOOLEAN]
      BY <2>2 DEF ServerSend, ClientInv, TypeOK
    <3>2. f \in FrameType
      BY <3>1, BoundAssumption DEF FrameType
    <3>3. rx' = Append(rx, f)
      BY <2>2 DEF ServerSend
    <3> HIDE DEF f
    <3>4. rx' \in Seq(FrameType)
      BY <3>2, <3>3, AppendProperties DEF ClientInv, TypeOK
    <3> QED BY <1>1, <2>2, <3>4 DEF ServerSend, ClientInv, TypeOK
  <2>3. CASE UNCHANGED vars
    BY <2>3 DEF vars, ClientInv, TypeOK
  <2> QED BY <2>1, <2>2, <2>3
<1> QED
  BY <1>1, <1>2 DEF ClientInv, PendingWhileBusy, BufferBounds, OneSocket

SrvType == [id : Ids, current : BOOLEAN] \cup {NoSrv}

\* What is left on the connection after a step of loop() has its type.
LEMMA LinkType ==
  ASSUME TypeOK, client' \in ClientType, looped' = TRUE, UNCHANGED <<now, waited>>,
         NEW replies \in Seq(FrameType), NEW server \in SrvType,
         \/ rx' = replies /\ srv' = server
         \/ Link(client', replies, server)
  PROVE  TypeOK'
<1>1. rx' \in Seq(FrameType)
  BY EmptySeq DEF Link
<1>2. srv' \in SrvType
  BY DEF Link, SrvType
<1>3. looped' \in BOOLEAN
  BY Zenon
<1> QED BY <1>1, <1>2, <1>3 DEF TypeOK, SrvType

\* A step without a request makes no callback and takes no request.
QuietOutcome ==
  /\ client'.active_request = client.active_request
  /\ client'.calls = <<>>
  /\ \/ client.state \in BeforeConnected /\ client'.state \in BeforeConnected
     \/ client.state \in BeforeConnected /\ client'.state = "CONNECTED"
     \/ client.state = "CONNECTED" /\ client'.state = "CONNECTED"

\* loop() without a request: waiting to reconnect, connecting, connected.
LEMMA LoopQuietInv ==
  ASSUME ClientInv, LoopDisconnected \/ LoopConnecting \/ LoopConnected,
         looped' = TRUE, UNCHANGED <<now, waited>>
  PROVE  ClientInv' /\ QuietOutcome
<1>1. /\ TypeOK /\ client \in ClientType /\ now \in Clock
      /\ rx \in Seq(FrameType) /\ srv \in SrvType
  BY DEF ClientInv, TypeOK, SrvType
<1>2. rx' = rx /\ srv' = srv
  BY DEF LoopDisconnected, LoopConnecting, LoopConnected
<1>3. client.active_request = NoRequest
  BY DEF ClientInv, PendingWhileBusy, AfterConnected, LoopDisconnected,
         LoopConnecting, LoopConnected
<1>4. CASE client' = this
  <2>1. client' \in ClientType
    BY <1>1, <1>4, ThisFacts
  <2>2. TypeOK'
    BY <1>1, <1>2, <2>1, LinkType
  <2>3. QuietOutcome
    BY <1>1, <1>4, ThisFacts
       DEF QuietOutcome, BeforeConnected, LoopDisconnected, LoopConnecting,
           LoopConnected
  <2> QED
    BY <1>1, <1>4, <2>2, <2>3, ThisFacts
       DEF ClientInv, PendingWhileBusy, BufferBounds, OneSocket, SameFrame
<1>5. CASE /\ client.state = "CONNECTING"
           /\ client' = set_state(this, "DISCONNECTED")
  <2>1. Dropped(this, client', "NOT_CONNECTED")
    BY <1>1, <1>5, ThisFacts, DisconnectFacts
  <2>2. TypeOK'
    BY <1>1, <1>2, <2>1, LinkType DEF Dropped
  <2>3. this.calls = <<>> /\ this.sockets \subseteq {this.fd}
    BY <1>1, ThisFacts DEF ClientInv, OneSocket
  <2>4. /\ PendingWhileBusy' /\ BufferBounds' /\ OneSocket'
        /\ client'.state # "READ_RESPONSE_HEADER" /\ client'.state # "CONNECTING"
    BY <2>1, <2>3, DroppedInv DEF Dropped, Exceptions
  <2>5. QuietOutcome
    BY <1>1, <1>3, <1>5, <2>1, ThisFacts
       DEF QuietOutcome, Dropped, CallsAfter, BeforeConnected
  <2> QED BY <2>2, <2>4, <2>5 DEF ClientInv
<1>6. CASE /\ client.state = "CONNECTING" /\ client.fd # -1
           /\ client' = set_state(this, "CONNECTED")
  <2>1. /\ client' \in ClientType /\ client'.state = "CONNECTED"
        /\ client'.active_request = NoRequest /\ client'.calls = <<>>
        /\ client'.fd = client.fd /\ client'.sockets = client.sockets
    BY <1>1, <1>3, <1>6, ThisFacts, PlainFacts
  <2>2. TypeOK'
    BY <1>1, <1>2, <2>1, LinkType
  <2>3. client.sockets # {} /\ client.sockets \subseteq {client.fd}
    BY <1>6 DEF ClientInv, OneSocket
  <2> QED
    BY <1>3, <1>6, <2>1, <2>2, <2>3
       DEF ClientInv, PendingWhileBusy, BufferBounds, OneSocket, AfterConnected,
           QuietOutcome, BeforeConnected
<1>7. CASE /\ client.state = "DISCONNECTED"
           /\ client' \in tcp_open(set_state(this, "CONNECTING"))
  <2> DEFINE d == set_state(this, "CONNECTING")
  <2>1. /\ d \in ClientType /\ d.state = "CONNECTING"
        /\ d.active_request = NoRequest /\ d.calls = <<>> /\ d.sockets = {}
    BY <1>1, <1>3, <1>7, ThisFacts, PlainFacts DEF ClientInv, OneSocket
  <2> HIDE DEF d
  <2>2. \/ client' = [d EXCEPT !.fd = -1]
        \/ \E fd \in Fd : client' = [d EXCEPT !.fd = fd, !.sockets = {fd}]
    <3>1. client' \in tcp_open(d)
      BY <1>7 DEF d
    <3>2. \/ client' = [d EXCEPT !.fd = -1]
          \/ \E fd \in Fd :
               client' = [d EXCEPT !.fd = fd, !.sockets = d.sockets \cup {fd}]
      BY <3>1, Zenon DEF tcp_open
    <3>3. \A fd : d.sockets \cup {fd} = {fd}
      BY <2>1
    <3> QED BY <3>2, <3>3
  <2> DEFINE Opened ==
        /\ client' \in ClientType /\ client'.state = "CONNECTING"
        /\ client'.active_request = NoRequest /\ client'.calls = <<>>
        /\ \/ client'.fd = -1 /\ client'.sockets = {}
           \/ client'.fd \in Fd /\ client'.sockets = {client'.fd}
  <2>3. Opened
    <3>1. CASE client' = [d EXCEPT !.fd = -1]
      BY <2>1, <3>1 DEF ClientType
    <3>2. ASSUME NEW fd \in Fd, client' = [d EXCEPT !.fd = fd, !.sockets = {fd}]
          PROVE  Opened
      BY <2>1, <3>2 DEF ClientType
    <3> QED BY <2>2, <3>1, <3>2
  <2>4. TypeOK'
    BY <1>1, <1>2, <2>3, LinkType
  <2> QED
    BY <1>3, <1>7, <2>3, <2>4
       DEF ClientInv, PendingWhileBusy, BufferBounds, OneSocket, AfterConnected,
           QuietOutcome, BeforeConnected
<1> QED
  BY <1>4, <1>5, <1>6, <1>7
     DEF LoopDisconnected, LoopConnecting, LoopConnected, tcp_connect

\* The parts of the invariant other than the types.
Rest ==
  /\ PendingWhileBusy /\ BufferBounds /\ OneSocket
  /\ client.state = "READ_RESPONSE_HEADER" =>
       client.frame_size = TcpHeaderSize /\ client.write_idx < TcpHeaderSize
  /\ client.state = "CONNECTING" =>
       client.fd = -1 \/ client.fd \in client.sockets

\* What a step on a pending request may do: go on with it silently, or end it
\* with one callback, and with NONE only if the connection survives.
Ends(e, states) ==
  /\ client'.state \in states
  /\ client'.active_request = NoRequest
  /\ client'.calls = <<[request |-> client.active_request, exception_code |-> e]>>

\* The phases of a request in the order in which they follow each other.
PhaseNo(state) ==
  CASE state = "WRITE_REQUEST"        -> 1
    [] state = "READ_RESPONSE_HEADER" -> 2
    [] state = "READ_RESPONSE"        -> 3

BusyOutcome ==
  \/ /\ client'.state \in AfterConnected
     /\ client'.active_request = client.active_request
     /\ client'.calls = <<>>
     /\ \/ /\ client'.state = client.state
           /\ client'.state_entry_time = client.state_entry_time
           /\ ~(InState > RequestTimeout)
        \/ /\ PhaseNo(client'.state) = PhaseNo(client.state) + 1
           /\ client'.state_entry_time = now
  \/ Ends("NONE", {"CONNECTED"})
  \/ Ends("PROTOCOL_VIOLATION", {"CONNECTED", "DISCONNECTED"})
  \/ Ends("NOT_CONNECTED", {"DISCONNECTED"})
  \/ Ends("TIMEOUT", {"DISCONNECTED"})

\* A transfer that fails or times out.
LEMMA FailInv ==
  ASSUME ClientInv, NEW c \in ClientType, client.active_request # NoRequest,
         c.calls = <<>>, c.fd = client.fd, c.sockets = client.sockets,
         c.active_request = client.active_request,
         client' = set_state(c, "DISCONNECTED") \/ client' = Abort(c, "TIMEOUT")
  PROVE  /\ client' \in ClientType /\ Rest' /\ BusyOutcome
         /\ client'.state = "DISCONNECTED"
<1>1. now \in Clock /\ c.sockets \subseteq {c.fd}
  BY DEF ClientInv, TypeOK, OneSocket
<1>2. PICK e \in {"NOT_CONNECTED", "TIMEOUT"} : Dropped(c, client', e)
  BY <1>1, DisconnectFacts, AbortFacts DEF Exceptions
<1>3. client'.calls = <<[request |-> client.active_request, exception_code |-> e]>>
  BY <1>2 DEF Dropped, CallsAfter
<1>4. BusyOutcome
  BY <1>2, <1>3 DEF BusyOutcome, Ends, Dropped
<1>5. client' \in ClientType /\ Rest'
  BY <1>1, <1>2, DroppedInv DEF Dropped, Rest, Exceptions
<1> QED BY <1>2, <1>4, <1>5 DEF Dropped

\* What is on the connection after a step of a phase: nothing once it is
\* dropped; otherwise the replies and the server's last request as before,
\* up to what the phase itself does to them.
LinkDropped == client'.state = "DISCONNECTED" /\ rx' = <<>> /\ srv' = NoSrv

WriteLink ==
  \/ LinkDropped
  \/ /\ client'.state \in {"WRITE_REQUEST", "READ_RESPONSE_HEADER"}
     /\ client'.frame_id = client.frame_id
     /\ rx' = rx
     /\ srv' = srv \/ srv' = [id |-> client.frame_id, current |-> TRUE]

HeaderLink ==
  \/ LinkDropped
  \/ /\ client'.state = "READ_RESPONSE_HEADER"
     /\ client'.frame_id = client.frame_id
     /\ rx' = rx /\ srv' = srv
  \/ /\ client'.state = "READ_RESPONSE"
     /\ client'.frame_id = client.frame_id
     /\ rx # <<>> /\ rx' = Tail(rx) /\ srv' = srv
     /\ client'.frame = Head(rx) /\ Head(rx).id = client.frame_id

ResponseLink ==
  \/ LinkDropped
  \/ /\ client'.state \in {"READ_RESPONSE", "CONNECTED"}
     /\ client'.frame_id = client.frame_id
     /\ client'.frame = client.frame
     /\ rx' = rx /\ srv' = srv

\* loop() in STATE_WRITE_REQUEST.
LEMMA LoopWriteInv ==
  ASSUME ClientInv, LoopWriteRequest, looped' = TRUE, UNCHANGED <<now, waited>>
  PROVE  ClientInv' /\ BusyOutcome /\ WriteLink
<1>1. /\ TypeOK /\ client \in ClientType /\ now \in Clock
      /\ rx \in Seq(FrameType) /\ srv \in SrvType
      /\ client.state = "WRITE_REQUEST" /\ client.active_request # NoRequest
      /\ client.read_idx <= client.write_idx /\ client.write_idx <= BufSize
      /\ OneSocket
  BY DEF ClientInv, TypeOK, SrvType, LoopWriteRequest, PendingWhileBusy,
         AfterConnected, BufferBounds
<1>2. PICK io \in tcp_write(client) :
        LET c  == write_data(this, io)
            rc == write_result(client, io)
        IN  /\ client' = CASE rc = "FATAL" -> set_state(c, "DISCONNECTED")
                           [] rc = "OK"    -> set_state(c, "READ_RESPONSE_HEADER")
                           [] rc = "BUSY"  -> IF InState > RequestTimeout
                                                THEN Abort(c, "TIMEOUT") ELSE c
            /\ Link(client', rx,
                    IF rc = "OK" /\ client.write_idx > 0
                      THEN [id |-> client.frame_id, current |-> TRUE]
                      ELSE srv)
  BY DEF LoopWriteRequest
<1> DEFINE c == write_data(this, io)
           server == IF write_result(client, io) = "OK" /\ client.write_idx > 0
                       THEN [id |-> client.frame_id, current |-> TRUE]
                       ELSE srv
<1>3. /\ this \in ClientType /\ io \in tcp_write(this)
      /\ this.read_idx = client.read_idx /\ this.write_idx = client.write_idx
  BY <1>1, ThisFacts DEF SameFrame, tcp_write
<1>4. /\ c \in ClientType
      /\ c = [this EXCEPT !.read_idx = client.read_idx + io.bytes]
      /\ client.read_idx + io.bytes <= client.write_idx
  BY <1>1, <1>3, WriteDataFacts
<1>5. write_result(client, io) \in {"OK", "BUSY", "FATAL"}
  BY <1>1, WriteDataFacts
<1>6. /\ c.calls = <<>> /\ c.fd = client.fd /\ c.sockets = client.sockets
      /\ c.state = "WRITE_REQUEST" /\ c.active_request = client.active_request
      /\ c.write_idx = client.write_idx
      /\ c.read_idx = client.read_idx + io.bytes
      /\ c.state_entry_time = client.state_entry_time
      /\ c.frame_id = client.frame_id
  BY <1>1, <1>4, ThisFacts DEF ClientType, SameFrame
<1>7. server \in SrvType
  BY <1>1 DEF SrvType, ClientType
<1>8. \/ client' = set_state(c, "DISCONNECTED") \/ client' = Abort(c, "TIMEOUT")
      \/ client' = set_state(c, "READ_RESPONSE_HEADER")
      \/ ~(InState > RequestTimeout) /\ client' = c
  BY <1>2, <1>5
<1>9. Link(client', rx, server)
  BY <1>2
<1> HIDE DEF c, server
<1>10. client' \in ClientType /\ Rest' /\ BusyOutcome
  <2>1. CASE client' = set_state(c, "DISCONNECTED") \/ client' = Abort(c, "TIMEOUT")
    BY <1>1, <1>4, <1>6, <2>1, FailInv
  <2>2. CASE ~(InState > RequestTimeout) /\ client' = c
    BY <1>1, <1>4, <1>6, <2>2
       DEF Rest, PendingWhileBusy, BufferBounds, OneSocket, AfterConnected,
           BusyOutcome
  <2>3. CASE client' = set_state(c, "READ_RESPONSE_HEADER")
    <3>1. /\ client' \in ClientType /\ client'.state = "READ_RESPONSE_HEADER"
          /\ client'.active_request = client.active_request
          /\ client'.calls = <<>> /\ client'.fd = client.fd
          /\ client'.sockets = client.sockets
          /\ client'.frame_size = TcpHeaderSize /\ client'.write_idx = 0
          /\ client'.state_entry_time = now
      BY <1>1, <1>4, <1>6, <2>3, HeaderFacts
    <3>2. 0 < TcpHeaderSize /\ 0 <= TcpHeaderSize /\ TcpHeaderSize <= BufSize
      BY BoundAssumption DEF TcpHeaderSize, Byte
    <3> QED BY <1>1, <3>1, <3>2
            DEF Rest, PendingWhileBusy, BufferBounds, OneSocket, AfterConnected,
                BusyOutcome, PhaseNo
  <2> QED BY <1>8, <2>1, <2>2, <2>3
<1>11. TypeOK'
  BY <1>1, <1>7, <1>9, <1>10, LinkType
<1>12. WriteLink
  <2>0. server = srv \/ server = [id |-> client.frame_id, current |-> TRUE]
    BY DEF server
  <2>1. CASE client' = set_state(c, "DISCONNECTED") \/ client' = Abort(c, "TIMEOUT")
    <3>1. client'.state = "DISCONNECTED"
      BY <1>1, <1>4, <1>6, <2>1, FailInv
    <3> QED BY <1>9, <3>1 DEF Link, WriteLink, LinkDropped
  <2>2. CASE client' = c
    BY <1>6, <1>9, <2>0, <2>2 DEF Link, WriteLink
  <2>3. CASE client' = set_state(c, "READ_RESPONSE_HEADER")
    <3>1. /\ client'.state = "READ_RESPONSE_HEADER"
          /\ client'.frame_id = client.frame_id
      BY <1>1, <1>4, <1>6, <2>3, HeaderFacts
    <3> QED BY <1>9, <2>0, <3>1 DEF Link, WriteLink
  <2> QED BY <1>8, <2>1, <2>2, <2>3
<1> QED BY <1>10, <1>11, <1>12 DEF ClientInv, Rest

\* loop() in STATE_READ_RESPONSE_HEADER.
LEMMA LoopHeaderInv ==
  ASSUME ClientInv, LoopReadHeader, looped' = TRUE, UNCHANGED <<now, waited>>
  PROVE  ClientInv' /\ BusyOutcome /\ HeaderLink
<1>1. /\ TypeOK /\ client \in ClientType /\ now \in Clock
      /\ rx \in Seq(FrameType) /\ srv \in SrvType
      /\ client.state = "READ_RESPONSE_HEADER"
      /\ client.active_request # NoRequest
      /\ client.frame_size = TcpHeaderSize /\ client.frame_size <= BufSize
      /\ client.write_idx < client.frame_size
      /\ client.write_idx <= client.frame_size
      /\ OneSocket
  BY DEF ClientInv, TypeOK, SrvType, LoopReadHeader, PendingWhileBusy,
         AfterConnected, BufferBounds
<1>2. PICK io \in tcp_read(client, rx # <<>>) :
        LET c  == read_data(this, io)
            rc == read_result(client, io)
        IN  /\ client' = CASE rc = "FATAL" -> set_state(c, "DISCONNECTED")
                           [] rc = "OK"    -> process_header(c, Head(rx))
                           [] rc = "BUSY"  -> IF InState > RequestTimeout
                                                THEN Abort(c, "TIMEOUT") ELSE c
            /\ Link(client', IF rc = "OK" THEN Tail(rx) ELSE rx, srv)
  BY DEF LoopReadHeader
<1> DEFINE c == read_data(this, io)
           rc == read_result(client, io)
           replies == IF rc = "OK" THEN Tail(rx) ELSE rx
<1>3. /\ this \in ClientType /\ io \in tcp_read(this, rx # <<>>)
      /\ this.write_idx = client.write_idx /\ this.frame_size = client.frame_size
  BY <1>1, ThisFacts DEF SameFrame, tcp_read
<1>4. /\ c \in ClientType
      /\ c = [this EXCEPT !.write_idx = client.write_idx + io.bytes]
      /\ client.write_idx + io.bytes <= client.frame_size
  BY <1>1, <1>3, ReadDataFacts
<1>5. /\ rc \in {"OK", "BUSY", "FATAL"}
      /\ rc = "OK" => rx # <<>>
      /\ rc = "BUSY" => client.write_idx + io.bytes < client.frame_size
  BY <1>1, ReadDataFacts
<1>6. /\ c.calls = <<>> /\ c.fd = client.fd /\ c.sockets = client.sockets
      /\ c.state = "READ_RESPONSE_HEADER"
      /\ c.active_request = client.active_request
      /\ c.frame_size = client.frame_size
      /\ c.write_idx = client.write_idx + io.bytes
      /\ c.state_entry_time = client.state_entry_time
      /\ c.frame_id = client.frame_id
  BY <1>1, <1>4, ThisFacts DEF ClientType, SameFrame
<1>7. replies \in Seq(FrameType)
  BY <1>1, <1>5, HeadTailProperties
<1>8. \/ client' = set_state(c, "DISCONNECTED") \/ client' = Abort(c, "TIMEOUT")
      \/ rc = "OK" /\ client' = process_header(c, Head(rx))
      \/ rc = "BUSY" /\ ~(InState > RequestTimeout) /\ client' = c
  BY <1>2, <1>5
<1>9. Link(client', replies, srv)
  BY <1>2
<1> HIDE DEF c, replies, rc
<1>10. client' \in ClientType /\ Rest' /\ BusyOutcome
  <2>1. CASE client' = set_state(c, "DISCONNECTED") \/ client' = Abort(c, "TIMEOUT")
    BY <1>1, <1>4, <1>6, <2>1, FailInv
  <2>2. CASE rc = "BUSY" /\ ~(InState > RequestTimeout) /\ client' = c
    <3>1. client'.write_idx < client'.frame_size
      BY <1>5, <1>6, <2>2
    <3> QED BY <1>1, <1>4, <1>6, <2>2, <3>1
            DEF Rest, PendingWhileBusy, BufferBounds, OneSocket, AfterConnected,
                BusyOutcome
  <2>3. CASE rc = "OK" /\ client' = process_header(c, Head(rx))
    <3>1. Head(rx) \in FrameType
      BY <1>1, <1>5, <2>3, HeadTailProperties
    <3>2. c.frame_size = TcpHeaderSize /\ c.write_idx <= c.frame_size
      BY <1>1, <1>4, <1>6
    <3>3. client' \in ClientType /\ client'.state_entry_time = now
      BY <1>1, <1>4, <2>3, <3>1, <3>2, ProcessHeaderFacts
    <3>4. CASE /\ client'.state = "DISCONNECTED"
               /\ client'.active_request = NoRequest
               /\ client'.calls = CallsAfter(c, "PROTOCOL_VIOLATION")
               /\ client'.fd = -1 /\ client'.sockets = c.sockets \ {c.fd}
      <4>1. Rest'
        BY <1>1, <1>6, <3>3, <3>4, DroppedInv DEF Rest, OneSocket, Exceptions
      <4>2. client'.calls = <<[request |-> client.active_request,
                               exception_code |-> "PROTOCOL_VIOLATION"]>>
        BY <1>1, <1>6, <3>4 DEF CallsAfter
      <4> QED BY <3>3, <3>4, <4>1, <4>2 DEF BusyOutcome, Ends
    <3>5. CASE /\ client'.state = "READ_RESPONSE"
               /\ client'.active_request = c.active_request
               /\ client'.calls = c.calls
               /\ client'.fd = c.fd /\ client'.sockets = c.sockets
               /\ client'.read_idx = TcpHeaderSize
               /\ client'.write_idx <= client'.frame_size
               /\ client'.frame_size <= BufSize
      BY <1>1, <1>6, <3>3, <3>5
         DEF Rest, PendingWhileBusy, BufferBounds, OneSocket, AfterConnected,
             BusyOutcome, PhaseNo
    <3>6. \/ /\ client'.state = "DISCONNECTED"
             /\ client'.active_request = NoRequest
             /\ client'.calls = CallsAfter(c, "PROTOCOL_VIOLATION")
             /\ client'.fd = -1 /\ client'.sockets = c.sockets \ {c.fd}
          \/ /\ client'.state = "READ_RESPONSE"
             /\ client'.active_request = c.active_request
             /\ client'.calls = c.calls
             /\ client'.fd = c.fd /\ client'.sockets = c.sockets
             /\ client'.read_idx = TcpHeaderSize
             /\ client'.write_idx <= client'.frame_size
             /\ client'.frame_size <= BufSize
      <4> DEFINE d == process_header(c, Head(rx))
      <4>1. \/ /\ d.state = "DISCONNECTED"
               /\ d.active_request = NoRequest
               /\ d.calls = CallsAfter(c, "PROTOCOL_VIOLATION")
               /\ d.fd = -1 /\ d.sockets = c.sockets \ {c.fd}
            \/ /\ d.state = "READ_RESPONSE"
               /\ d.active_request = c.active_request
               /\ d.calls = c.calls
               /\ d.fd = c.fd /\ d.sockets = c.sockets
               /\ d.read_idx = TcpHeaderSize
               /\ d.write_idx <= d.frame_size
               /\ d.frame_size <= BufSize
        BY <1>1, <1>4, <3>1, <3>2, ProcessHeaderFacts
      <4> HIDE DEF d
      <4>2. client' = d
        BY <2>3 DEF d
      <4> QED BY <4>1, <4>2
    <3> QED BY <3>4, <3>5, <3>6
  <2> QED BY <1>8, <2>1, <2>2, <2>3
<1>11. TypeOK'
  BY <1>1, <1>7, <1>9, <1>10, LinkType
<1>12. HeaderLink
  <2>1. CASE client' = set_state(c, "DISCONNECTED") \/ client' = Abort(c, "TIMEOUT")
    <3>1. client'.state = "DISCONNECTED"
      BY <1>1, <1>4, <1>6, <2>1, FailInv
    <3> QED BY <1>9, <3>1 DEF Link, HeaderLink, LinkDropped
  <2>2. CASE rc = "BUSY" /\ client' = c
    <3>1. replies = rx
      BY <2>2 DEF replies
    <3> QED BY <1>6, <1>9, <2>2, <3>1 DEF Link, HeaderLink
  <2>3. CASE rc = "OK" /\ client' = process_header(c, Head(rx))
    <3>1. rx # <<>> /\ replies = Tail(rx)
      BY <1>5, <2>3 DEF replies
    <3>2. Head(rx) \in FrameType
      BY <1>1, <3>1, HeadTailProperties
    <3>3. c.frame_size = TcpHeaderSize /\ c.write_idx <= c.frame_size
      BY <1>1, <1>4, <1>6
    <3> DEFINE d == process_header(c, Head(rx))
    <3>4. /\ d.frame = Head(rx) /\ d.frame_id = c.frame_id
          /\ \/ d.state = "DISCONNECTED"
             \/ d.state = "READ_RESPONSE" /\ Head(rx).id = c.frame_id
      BY <1>1, <1>4, <3>2, <3>3, ProcessHeaderFacts
    <3>5. client' = d
      BY <2>3
    <3> HIDE DEF d
    <3>6. CASE d.state = "DISCONNECTED"
      BY <1>9, <3>5, <3>6 DEF Link, HeaderLink, LinkDropped
    <3>7. CASE d.state = "READ_RESPONSE" /\ Head(rx).id = c.frame_id
      <4>1. rx' = Tail(rx) /\ srv' = srv
        BY <1>9, <3>1, <3>5, <3>7 DEF Link
      <4> QED BY <1>6, <3>1, <3>4, <3>5, <3>7, <4>1 DEF HeaderLink
    <3> QED BY <3>4, <3>6, <3>7
  <2> QED BY <1>8, <2>1, <2>2, <2>3
<1> QED BY <1>10, <1>11, <1>12 DEF ClientInv, Rest

\* loop() in STATE_READ_RESPONSE.
LEMMA LoopResponseInv ==
  ASSUME ClientInv, LoopReadResponse, looped' = TRUE, UNCHANGED <<now, waited>>
  PROVE  ClientInv' /\ BusyOutcome /\ ResponseLink
<1>1. /\ TypeOK /\ client \in ClientType /\ now \in Clock
      /\ rx \in Seq(FrameType) /\ srv \in SrvType
      /\ client.state = "READ_RESPONSE"
      /\ client.active_request # NoRequest
      /\ client.active_request \in Request
      /\ client.frame_size <= BufSize
      /\ client.write_idx <= client.frame_size
      /\ client.read_idx = TcpHeaderSize
      /\ OneSocket
  BY DEF ClientInv, TypeOK, SrvType, LoopReadResponse, PendingWhileBusy,
         AfterConnected, BufferBounds, ClientType
<1>2. PICK io \in tcp_read(client, TRUE) :
        LET c  == read_data(this, io)
            rc == read_result(client, io)
        IN  /\ client' = CASE rc = "FATAL" -> set_state(c, "DISCONNECTED")
                           [] rc = "OK"    -> set_state(process_response(c), "CONNECTED")
                           [] rc = "BUSY"  -> IF InState > RequestTimeout
                                                THEN Abort(c, "TIMEOUT") ELSE c
            /\ Link(client', rx, srv)
  BY DEF LoopReadResponse
<1> DEFINE c == read_data(this, io)
           rc == read_result(client, io)
<1>3. /\ this \in ClientType /\ io \in tcp_read(this, TRUE)
      /\ this.write_idx = client.write_idx /\ this.frame_size = client.frame_size
  BY <1>1, ThisFacts DEF SameFrame, tcp_read
<1>4. /\ c \in ClientType
      /\ c = [this EXCEPT !.write_idx = client.write_idx + io.bytes]
      /\ client.write_idx + io.bytes <= client.frame_size
  BY <1>1, <1>3, ReadDataFacts
<1>5. rc \in {"OK", "BUSY", "FATAL"}
  BY <1>1, ReadDataFacts
<1>6. /\ c.calls = <<>> /\ c.fd = client.fd /\ c.sockets = client.sockets
      /\ c.state = "READ_RESPONSE" /\ c.active_request = client.active_request
      /\ c.frame_size = client.frame_size /\ c.read_idx = client.read_idx
      /\ c.write_idx = client.write_idx + io.bytes
      /\ c.state_entry_time = client.state_entry_time
      /\ c.frame_id = client.frame_id /\ c.frame = client.frame
  BY <1>1, <1>4, ThisFacts DEF ClientType, SameFrame
<1>7. \/ client' = set_state(c, "DISCONNECTED") \/ client' = Abort(c, "TIMEOUT")
      \/ client' = set_state(process_response(c), "CONNECTED")
      \/ ~(InState > RequestTimeout) /\ client' = c
  BY <1>2, <1>5
<1>8. Link(client', rx, srv)
  BY <1>2
<1> HIDE DEF c, rc
<1>9. client' \in ClientType /\ Rest' /\ BusyOutcome
  <2>1. CASE client' = set_state(c, "DISCONNECTED") \/ client' = Abort(c, "TIMEOUT")
    BY <1>1, <1>4, <1>6, <2>1, FailInv
  <2>2. CASE ~(InState > RequestTimeout) /\ client' = c
    BY <1>1, <1>4, <1>6, <2>2
       DEF Rest, PendingWhileBusy, BufferBounds, OneSocket, AfterConnected,
           BusyOutcome
  <2>3. CASE client' = set_state(process_response(c), "CONNECTED")
    <3> DEFINE d == process_response(c)
    <3>1. /\ d \in ClientType /\ d.active_request = NoRequest
          /\ d.fd = client.fd /\ d.sockets = client.sockets
      BY <1>1, <1>4, <1>6, ResponseFacts
    <3>2. PICK e \in {"NONE", "PROTOCOL_VIOLATION"} :
            /\ d.calls = CallsAfter(c, e)
            /\ e = "NONE" /\ ~c.active_request.is_write_request =>
                 /\ d.read_idx + d.copied <= BufSize
                 /\ d.copied <= 2 * c.active_request.count
      BY <1>1, <1>4, <1>6, ResponseFacts
    <3> HIDE DEF d
    <3>3. d.calls = <<[request |-> client.active_request, exception_code |-> e]>>
      BY <1>1, <1>6, <3>2 DEF CallsAfter
    <3>4. /\ client' \in ClientType /\ client'.state = "CONNECTED"
          /\ client'.active_request = NoRequest /\ client'.calls = d.calls
          /\ client'.fd = client.fd /\ client'.sockets = client.sockets
          /\ client'.read_idx = d.read_idx /\ client'.copied = d.copied
      BY <1>1, <2>3, <3>1, PlainFacts DEF SameFrame, d
    <3>5. BusyOutcome
      BY <3>2, <3>3, <3>4 DEF BusyOutcome, Ends
    <3>6. BufferBounds'
      BY <1>6, <3>2, <3>3, <3>4 DEF BufferBounds
    <3> QED BY <1>1, <3>4, <3>5, <3>6
            DEF Rest, PendingWhileBusy, OneSocket, AfterConnected
  <2> QED BY <1>7, <2>1, <2>2, <2>3
<1>10. TypeOK'
  BY <1>1, <1>8, <1>9, LinkType
<1>11. ResponseLink
  <2>1. CASE client' = set_state(c, "DISCONNECTED") \/ client' = Abort(c, "TIMEOUT")
    <3>1. client'.state = "DISCONNECTED"
      BY <1>1, <1>4, <1>6, <2>1, FailInv
    <3> QED BY <1>8, <3>1 DEF Link, ResponseLink, LinkDropped
  <2>2. CASE client' = c
    BY <1>6, <1>8, <2>2 DEF Link, ResponseLink
  <2>3. CASE client' = set_state(process_response(c), "CONNECTED")
    <3> DEFINE d == process_response(c)
    <3>1. d \in ClientType /\ d.frame = c.frame /\ d.frame_id = c.frame_id
      BY <1>1, <1>4, <1>6, ResponseFacts
    <3> HIDE DEF d
    <3>2. /\ client'.state = "CONNECTED"
          /\ client'.frame_id = d.frame_id /\ client'.frame = d.frame
      BY <1>1, <2>3, <3>1, PlainFacts DEF SameFrame, d
    <3> QED BY <1>6, <1>8, <3>1, <3>2 DEF Link, ResponseLink
  <2> QED BY <1>7, <2>1, <2>2, <2>3
<1> QED BY <1>9, <1>10, <1>11 DEF ClientInv, Rest

\* The invariant is inductive.
LEMMA NextInv == ClientInv /\ [Next]_vars => ClientInv'
<1> SUFFICES ASSUME ClientInv, [Next]_vars PROVE ClientInv'
  OBVIOUS
<1>1. ASSUME NEW req \in Request, send_request(req) PROVE ClientInv'
  BY <1>1, SendInv
<1>2. CASE loop
  BY <1>2, LoopQuietInv, LoopWriteInv, LoopHeaderInv, LoopResponseInv DEF loop
<1>3. CASE Tick \/ (\E reply \in Reply : ServerSend(reply)) \/ UNCHANGED vars
  BY <1>3, EnvironmentInv
<1> QED BY <1>1, <1>2, <1>3 DEF Next

----------------------------------------------------------------------------
(* Theorems.                                                               *)

\* The inductive invariant holds in every state of every behaviour.
THEOREM Invariance == Spec => []ClientInv
<1>1. Init => ClientInv
  BY InitInv
<1>2. ClientInv /\ [Next]_vars => ClientInv'
  BY NextInv
<1> QED BY <1>1, <1>2, PTL DEF Spec

\* Every member variable of the client keeps its type.
THEOREM TypeCorrect == Spec => []TypeOK
<1>1. ClientInv => TypeOK
  BY DEF ClientInv
<1> QED BY <1>1, Invariance, PTL

\* A request is active exactly while the state machine works on one.
THEOREM Pending == Spec => []PendingWhileBusy
<1>1. ClientInv => PendingWhileBusy
  BY DEF ClientInv
<1> QED BY <1>1, Invariance, PTL

\* No transfer and no copy leaves the frame buffer, whatever the server sends.
THEOREM Bounds == Spec => []BufferBounds
<1>1. ClientInv => BufferBounds
  BY DEF ClientInv
<1> QED BY <1>1, Invariance, PTL

\* No descriptor is leaked, however often the connection is lost.
THEOREM Sockets == Spec => []OneSocket
<1>1. ClientInv => OneSocket
  BY DEF ClientInv
<1> QED BY <1>1, Invariance, PTL

----------------------------------------------------------------------------
(* The deadline of a request.                                              *)

\* The latest time after send_request at which a phase starts.
PhaseStart(state) ==
  CASE state = "WRITE_REQUEST"        -> 0
    [] state = "READ_RESPONSE_HEADER" -> RequestTimeout + 1
    [] state = "READ_RESPONSE"        -> 2 * (RequestTimeout + 1)

\* A phase is left in the first call of loop() after its timeout, and loop()
\* is called before time goes on.
TimeInv ==
  /\ waited <= Deadline
  /\ client.state \in AfterConnected =>
       /\ waited <= PhaseStart(client.state) + InState
       /\ InState <= RequestTimeout + 1
       /\ looped => InState <= RequestTimeout

\* Time since an instant grows by one with every unit, until it wraps.
LEMMA ElapsedFacts ==
  ASSUME NEW t \in Clock, NEW u \in Clock
  PROVE  /\ Elapsed(t, u) \in Nat
         /\ Elapsed(t, t) = 0
         /\ Elapsed(t, u) + 1 < ClockMod =>
              Elapsed(Advance(t), u) = Elapsed(t, u) + 1
BY ClockAssumption DEF Clock, Elapsed, Advance

\* loop() never lets a phase outlive its timeout.
LEMMA LoopTime ==
  ASSUME ClientInv, TimeInv, loop
  PROVE  TimeInv'
<1>1. /\ RequestTimeout \in Nat /\ waited \in Nat /\ now \in Clock
      /\ client.state_entry_time \in Clock /\ now' = now /\ waited' = waited
      /\ InState \in Nat
  BY BoundAssumption, ElapsedFacts DEF ClientInv, TypeOK, ClientType, loop, InState
<1>2. CASE LoopDisconnected \/ LoopConnecting \/ LoopConnected
  <2>1. client'.state \notin AfterConnected
    BY <1>2, LoopQuietInv DEF loop, QuietOutcome, BeforeConnected, AfterConnected
  <2> QED BY <1>1, <2>1 DEF TimeInv, Deadline
<1>3. CASE LoopWriteRequest \/ LoopReadHeader \/ LoopReadResponse
  <2>1. BusyOutcome /\ client.state \in AfterConnected
    BY <1>3, LoopWriteInv, LoopHeaderInv, LoopResponseInv
       DEF loop, LoopWriteRequest, LoopReadHeader, LoopReadResponse, AfterConnected
  <2>2. CASE client'.state \notin AfterConnected
    BY <1>1, <2>2 DEF TimeInv, Deadline
  <2>3. CASE /\ client'.state = client.state
             /\ client'.state_entry_time = client.state_entry_time
             /\ ~(InState > RequestTimeout)
    BY <1>1, <2>1, <2>3 DEF TimeInv, InState, Deadline
  <2>4. CASE /\ client'.state \in AfterConnected
             /\ PhaseNo(client'.state) = PhaseNo(client.state) + 1
             /\ client'.state_entry_time = now
    <3>1. PhaseStart(client'.state) = PhaseStart(client.state) + RequestTimeout + 1
      BY <1>1, <2>1, <2>4 DEF AfterConnected, PhaseNo, PhaseStart
    <3>2. InState' = 0
      BY <1>1, <2>4, ElapsedFacts DEF InState
    <3>3. PhaseStart(client.state) \in Nat
      BY <1>1, <2>1 DEF AfterConnected, PhaseStart
    <3> QED BY <1>1, <2>1, <3>1, <3>2, <3>3 DEF TimeInv, Deadline
  <2> QED BY <2>1, <2>2, <2>3, <2>4 DEF BusyOutcome, Ends, AfterConnected
<1> QED BY <1>2, <1>3 DEF loop

\* The passing of time is bounded by the calls of loop().
LEMMA TickTime ==
  ASSUME ClientInv, TimeInv, Tick
  PROVE  TimeInv'
<1>1. /\ RequestTimeout \in Nat /\ waited \in Nat /\ now \in Clock
      /\ client.state_entry_time \in Clock /\ client' = client
      /\ now' = Advance(now) /\ ClockMod > RequestTimeout + 1 /\ looped
      /\ ClockMod \in Nat
  BY BoundAssumption, ClockAssumption DEF ClientInv, TypeOK, ClientType, Tick
<1>2. CASE client.state \notin AfterConnected
  BY <1>1, <1>2 DEF TimeInv, Tick, Deadline
<1>3. CASE client.state \in AfterConnected
  <2>1. InState \in Nat /\ InState <= RequestTimeout
    BY <1>1, <1>3, ElapsedFacts DEF TimeInv, InState
  <2>2. InState' = InState + 1
    BY <1>1, <2>1, ElapsedFacts DEF InState
  <2>3. /\ PhaseStart(client.state) \in Nat
        /\ PhaseStart(client.state) <= 2 * (RequestTimeout + 1)
    BY <1>1, <1>3 DEF AfterConnected, PhaseStart
  <2>4. waited' <= waited + 1 /\ waited' \in Nat
    BY <1>1 DEF Tick
  <2>5. waited' <= PhaseStart(client.state) + InState'
    BY <1>1, <1>3, <2>1, <2>2, <2>3, <2>4 DEF TimeInv
  <2>6. ~looped'
    BY DEF Tick
  <2> QED BY <1>1, <2>1, <2>2, <2>3, <2>4, <2>5, <2>6 DEF TimeInv, Deadline
<1> QED BY <1>2, <1>3

\* A request is never pending longer than the three timeouts together.
THEOREM Deadlines == Spec => []RequestDeadline
<1>1. Init => TimeInv
  BY BoundAssumption DEF Init, TimeInv, Deadline, AfterConnected
<1>2. ClientInv /\ TimeInv /\ [Next]_vars => TimeInv'
  <2> SUFFICES ASSUME ClientInv, TimeInv, [Next]_vars PROVE TimeInv'
    OBVIOUS
  <2>1. ASSUME NEW req \in Request, send_request(req) PROVE TimeInv'
    <3>1. /\ client'.state = "WRITE_REQUEST" /\ client'.state_entry_time = now
          /\ now' = now /\ waited' = 0 /\ now \in Clock /\ RequestTimeout \in Nat
      BY <2>1, SendInv, BoundAssumption DEF send_request, ClientInv, TypeOK
    <3>2. InState' = 0
      BY <3>1, ElapsedFacts DEF InState
    <3> QED BY <3>1, <3>2 DEF TimeInv, PhaseStart, Deadline
  <2>2. CASE loop
    BY <2>2, LoopTime
  <2>3. CASE Tick
    BY <2>3, TickTime
  <2>4. CASE (\E reply \in Reply : ServerSend(reply)) \/ UNCHANGED vars
    <3>1. /\ client' = client /\ now' = now /\ looped' = looped /\ waited' = waited
      BY <2>4 DEF ServerSend, vars
    <3>2. InState' = InState
      BY <3>1 DEF InState
    <3> QED BY <3>1, <3>2 DEF TimeInv
  <2> QED BY <2>1, <2>2, <2>3, <2>4 DEF Next
<1>3. TimeInv => RequestDeadline
  BY DEF TimeInv, RequestDeadline
<1> QED BY <1>1, <1>2, <1>3, Invariance, PTL DEF Spec

----------------------------------------------------------------------------
(* The client implements the service.                                      *)

\* Every step of the client is a step of the service or invisible.
LEMMA StepRefines ==
  ASSUME ClientInv, [Next]_vars
  PROVE  [Service!Next]_(Service!vars)
<1>1. ASSUME NEW req \in Request, send_request(req)
      PROVE  Service!Submit(req)
  <2>1. /\ client.state = "CONNECTED" /\ client'.state = "WRITE_REQUEST"
        /\ client'.active_request = req /\ client'.calls = <<>>
    BY <1>1, SendInv DEF send_request
  <2> QED
    BY <2>1 DEF Service!Submit, ServiceStatus, BeforeConnected, AfterConnected
<1>2. CASE /\ loop
           /\ LoopDisconnected \/ LoopConnecting \/ LoopConnected
  <2>1. QuietOutcome
    BY <1>2, LoopQuietInv DEF loop
  <2>2. Service!Quiet \/ Service!Connect
    BY <2>1 DEF QuietOutcome, Service!Quiet, Service!Connect, ServiceStatus,
                BeforeConnected, AfterConnected
  <2> QED BY <2>2 DEF Service!Next
<1>3. CASE /\ loop
           /\ LoopWriteRequest \/ LoopReadHeader \/ LoopReadResponse
  <2>1. BusyOutcome /\ client.state \in AfterConnected
    BY <1>3, LoopWriteInv, LoopHeaderInv, LoopResponseInv
       DEF loop, LoopWriteRequest, LoopReadHeader, LoopReadResponse, AfterConnected
  <2>2. ServiceStatus = "busy"
    BY <2>1 DEF ServiceStatus, AfterConnected, BeforeConnected
  <2>3. CASE /\ client'.state \in AfterConnected
             /\ client'.active_request = client.active_request
             /\ client'.calls = <<>>
    <3>1. Service!Quiet
      BY <2>2, <2>3 DEF Service!Quiet, ServiceStatus, AfterConnected, BeforeConnected
    <3> QED BY <3>1 DEF Service!Next
  <2>4. ASSUME NEW e \in Exceptions, NEW states \in SUBSET {"CONNECTED", "DISCONNECTED"},
               Ends(e, states),
               e = "NONE" => states = {"CONNECTED"},
               e \in {"NOT_CONNECTED", "TIMEOUT"} => states = {"DISCONNECTED"}
        PROVE  Service!Complete(e)
    <3>1. \/ client'.state = "CONNECTED" /\ ServiceStatus' = "idle"
          \/ client'.state = "DISCONNECTED" /\ ServiceStatus' = "down"
      BY <2>4 DEF Ends, ServiceStatus, AfterConnected, BeforeConnected
    <3>2. ServiceStatus' \in Service!StatusAfter(e)
      BY <2>4, <3>1 DEF Ends, Service!StatusAfter, Exceptions
    <3> QED BY <2>2, <2>4, <3>2 DEF Service!Complete, Ends
  <2>5. CASE \E e \in Exceptions : Service!Complete(e)
    BY <2>5 DEF Service!Next, Exceptions, Service!Exceptions
  <2>6. \/ /\ client'.state \in AfterConnected
           /\ client'.active_request = client.active_request
           /\ client'.calls = <<>>
        \/ \E e \in Exceptions : Service!Complete(e)
    <3>1. CASE Ends("NONE", {"CONNECTED"})
      BY <2>4, <3>1 DEF Exceptions
    <3>2. CASE Ends("PROTOCOL_VIOLATION", {"CONNECTED", "DISCONNECTED"})
      BY <2>4, <3>2 DEF Exceptions
    <3>3. CASE Ends("NOT_CONNECTED", {"DISCONNECTED"})
      BY <2>4, <3>3 DEF Exceptions
    <3>4. CASE Ends("TIMEOUT", {"DISCONNECTED"})
      BY <2>4, <3>4 DEF Exceptions
    <3> QED BY <2>1, <3>1, <3>2, <3>3, <3>4 DEF BusyOutcome
  <2> QED BY <2>3, <2>5, <2>6
<1>4. CASE Tick \/ (\E reply \in Reply : ServerSend(reply)) \/ UNCHANGED vars
  BY <1>4 DEF Tick, ServerSend, vars, Service!vars, ServiceStatus
<1>5. ASSUME NEW req \in Request, send_request(req)
      PROVE  Service!Next
  BY <1>1, <1>5 DEF Service!Next
<1> QED BY <1>2, <1>3, <1>4, <1>5 DEF Next, loop

\* Whatever the network and the server do, the user of the client sees the
\* service: each accepted request answered at most once, and by one callback.
THEOREM Refinement == Spec => Service!Spec
<1>1. Init => Service!Init
  <2>1. Init => /\ client.state = "DISCONNECTED"
                /\ client.active_request = NoRequest
                /\ client.calls = <<>>
    BY DEF Init
  <2>2. Init => ServiceStatus = "down"
    BY <2>1 DEF ServiceStatus, BeforeConnected, AfterConnected
  <2> QED BY <2>1, <2>2 DEF Service!Init
<1>2. ClientInv /\ [Next]_vars => [Service!Next]_(Service!vars)
  BY StepRefines
<1> QED BY <1>1, <1>2, Invariance, PTL DEF Spec, Service!Spec

----------------------------------------------------------------------------
(* Late and duplicated replies.  Two requests of one connection may leave  *)
(* replies in the socket, and ids wrap, so that AcceptedReplyIsFresh rests *)
(* on an order: the stale replies are in front of the fresh ones, and all  *)
(* that is in the socket when a request goes out answers the request       *)
(* before it, under the id before its own.                                 *)

\* The replies q, the server's last request and the id of the client's last
\* request: the ids tell the fresh replies from the stale ones, the fresh
\* ones are behind the stale ones, and the server sends no stale reply after
\* a fresh one.
InOrder(q, server, id) ==
  /\ \A i \in 1 .. Len(q) : q[i].fresh <=> (q[i].id = id)
  /\ server # NoSrv => (server.current <=> (server.id = id))
  /\ \A i \in 1 .. Len(q) : q[i].fresh => server.current
  /\ \A i, j \in 1 .. Len(q) : (i < j /\ q[i].fresh) => q[j].fresh

\* Nothing stale is left.
AllFresh(q, server) ==
  /\ \A i \in 1 .. Len(q) : q[i].fresh
  /\ server # NoSrv => server.current

FreshInv ==
  /\ InOrder(rx, srv, client.frame_id)
  /\ client.state \in {"CONNECTED", "READ_RESPONSE"} => AllFresh(rx, srv)
  /\ client.state = "READ_RESPONSE" => client.frame.fresh
  /\ client.state \in BeforeConnected => rx = <<>> /\ srv = NoSrv
  /\ AcceptedReplyIsFresh

LEMMA EmptyInOrder ==
  ASSUME NEW id
  PROVE  InOrder(<<>>, NoSrv, id) /\ AllFresh(<<>>, NoSrv)
<1>1. Len(<<>>) = 0 /\ 1 .. 0 = {}
  OBVIOUS
<1> QED BY <1>1 DEF InOrder, AllFresh

\* The first reply has been read: what is behind a fresh one is fresh.
LEMMA TailInOrder ==
  ASSUME NEW q \in Seq(FrameType), q # <<>>, NEW server, NEW id,
         InOrder(q, server, id)
  PROVE  /\ InOrder(Tail(q), server, id)
         /\ Head(q).id = id => Head(q).fresh /\ AllFresh(Tail(q), server)
<1>1. /\ Len(q) \in Nat /\ Len(q) >= 1 /\ Len(Tail(q)) = Len(q) - 1
      /\ Head(q) = q[1]
      /\ \A i \in 1 .. Len(Tail(q)) : Tail(q)[i] = q[i + 1]
  BY HeadTailProperties, EmptySeq
<1> DEFINE n == Len(q)
           t == Tail(q)
<1> HIDE DEF n, t
<1>2. /\ n \in Nat /\ n >= 1 /\ Len(t) = n - 1
      /\ \A i \in 1 .. n - 1 : t[i] = q[i + 1] /\ i + 1 \in 1 .. n
  BY <1>1 DEF n, t
<1>3. /\ \A i \in 1 .. n : q[i].fresh <=> (q[i].id = id)
      /\ server # NoSrv => (server.current <=> (server.id = id))
      /\ \A i \in 1 .. n : q[i].fresh => server.current
      /\ \A i, j \in 1 .. n : (i < j /\ q[i].fresh) => q[j].fresh
  BY DEF InOrder, n
<1>4. InOrder(t, server, id)
  <2>1. \A i \in 1 .. Len(t) : t[i].fresh <=> (t[i].id = id)
    BY <1>2, <1>3
  <2>2. \A i \in 1 .. Len(t) : t[i].fresh => server.current
    BY <1>2, <1>3
  <2>3. ASSUME NEW i \in 1 .. Len(t), NEW j \in 1 .. Len(t), i < j, t[i].fresh
        PROVE  t[j].fresh
    <3>1. /\ i + 1 \in 1 .. n /\ j + 1 \in 1 .. n /\ i + 1 < j + 1
          /\ t[i] = q[i + 1] /\ t[j] = q[j + 1]
      BY <1>2, <2>3
    <3> QED BY <1>3, <2>3, <3>1
  <2> QED BY <1>3, <2>1, <2>2, <2>3 DEF InOrder
<1>5. ASSUME Head(q).id = id
      PROVE  Head(q).fresh /\ AllFresh(t, server)
  <2>1. 1 \in 1 .. n /\ Head(q) = q[1]
    BY <1>1, <1>2
  <2>2. q[1].fresh /\ server.current
    BY <1>3, <1>5, <2>1
  <2>3. ASSUME NEW i \in 1 .. Len(t) PROVE t[i].fresh
    <3>1. i + 1 \in 1 .. n /\ 1 < i + 1 /\ t[i] = q[i + 1]
      BY <1>2
    <3> QED BY <1>3, <2>1, <2>2, <3>1
  <2> QED BY <2>1, <2>2, <2>3 DEF AllFresh
<1> QED BY <1>4, <1>5 DEF t

\* The server replies to the last request it received.
LEMMA AppendInOrder ==
  ASSUME NEW q \in Seq(FrameType), NEW server \in SrvType, server # NoSrv, NEW id,
         NEW f \in FrameType, f.id = server.id, f.fresh = server.current,
         InOrder(q, server, id)
  PROVE  /\ InOrder(Append(q, f), server, id)
         /\ AllFresh(q, server) => AllFresh(Append(q, f), server)
<1> DEFINE a == Append(q, f)
           n == Len(q)
<1>1. /\ n \in Nat /\ Len(a) = n + 1 /\ a[n + 1] = f
      /\ \A i \in 1 .. n : a[i] = q[i]
  BY AppendProperties, LenProperties
<1> HIDE DEF a, n
<1>2. \A i \in 1 .. n + 1 : i \in 1 .. n \/ i = n + 1
  BY <1>1
<1>3. /\ \A i \in 1 .. n : q[i].fresh <=> (q[i].id = id)
      /\ server.current <=> (server.id = id)
      /\ \A i \in 1 .. n : q[i].fresh => server.current
      /\ \A i, j \in 1 .. n : (i < j /\ q[i].fresh) => q[j].fresh
  BY DEF InOrder, n
<1>4. \A i \in 1 .. Len(a) : a[i].fresh <=> (a[i].id = id)
  BY <1>1, <1>2, <1>3
<1>5. \A i \in 1 .. Len(a) : a[i].fresh => server.current
  BY <1>1, <1>2, <1>3
<1>6. ASSUME NEW i \in 1 .. Len(a), NEW j \in 1 .. Len(a), i < j, a[i].fresh
      PROVE  a[j].fresh
  <2>1. CASE j = n + 1
    BY <1>1, <1>5, <1>6, <2>1
  <2>2. CASE j \in 1 .. n
    <3>1. i \in 1 .. n
      BY <1>1, <1>6, <2>2
    <3> QED BY <1>1, <1>3, <1>6, <2>2, <3>1
  <2> QED BY <1>1, <1>2, <2>1, <2>2
<1>7. InOrder(a, server, id)
  BY <1>3, <1>4, <1>5, <1>6 DEF InOrder
<1>8. AllFresh(q, server) => AllFresh(a, server)
  <2> SUFFICES ASSUME AllFresh(q, server) PROVE AllFresh(a, server)
    OBVIOUS
  <2>1. server.current /\ \A i \in 1 .. n : q[i].fresh
    BY DEF AllFresh, n
  <2>2. \A i \in 1 .. Len(a) : a[i].fresh
    BY <1>1, <1>2, <2>1
  <2> QED BY <2>1, <2>2 DEF AllFresh
<1> QED BY <1>7, <1>8 DEF a

LEMMA NoSrvStale ==
  ASSUME NEW server, server = NoSrv,
         NEW s, s = [server EXCEPT !.current = FALSE]
  PROVE  s = NoSrv
BY DEF NoSrv

\* A new request: what was fresh is stale, and the next id is another one.
LEMMA SendInOrder ==
  ASSUME NEW q \in Seq(FrameType), NEW server \in SrvType, NEW id \in Ids,
         InOrder(q, server, id), AllFresh(q, server)
  PROVE  InOrder([i \in DOMAIN q |-> [q[i] EXCEPT !.fresh = FALSE]],
                 [server EXCEPT !.current = FALSE], NextId(id))
<1> DEFINE g == [i \in DOMAIN q |-> [q[i] EXCEPT !.fresh = FALSE]]
           s == [server EXCEPT !.current = FALSE]
           n == Len(q)
<1>1. DOMAIN q = 1 .. n /\ n \in Nat /\ \A i \in 1 .. n : q[i] \in FrameType
  BY LenProperties, ElementOfSeq
<1>2. g \in Seq(FrameType)
  BY StaleSeq
<1>3. Len(g) = n
  <2>1. DOMAIN g = 1 .. n
    BY <1>1
  <2>2. DOMAIN g = 1 .. Len(g) /\ Len(g) \in Nat
    BY <1>2, LenProperties
  <2> HIDE DEF g, n
  <2> QED BY <1>1, <2>1, <2>2
<1>4. \A i \in 1 .. n : g[i].id = q[i].id /\ ~g[i].fresh
  BY <1>1 DEF FrameType
<1>5. NextId(id) # id
  BY BoundAssumption DEF NextId, Ids
<1>6. \A i \in 1 .. n : q[i].id = id
  BY DEF InOrder, AllFresh
<1>7. /\ ~s.current
      /\ s # NoSrv => s.id # NextId(id)
  <2>1. CASE server = NoSrv
    <3>1. s = NoSrv
      BY <2>1, NoSrvStale, Zenon
    <3> QED BY <3>1 DEF NoSrv
  <2>2. CASE server # NoSrv
    <3>1. server.id = id /\ server \in [id : Ids, current : BOOLEAN]
      BY <2>2 DEF InOrder, AllFresh, SrvType
    <3> QED BY <1>5, <3>1
  <2> QED BY <2>1, <2>2
<1> HIDE DEF g, s, n
<1>8. \A i \in 1 .. n : g[i].id # NextId(id)
  BY <1>4, <1>5, <1>6
<1>9. InOrder(g, s, NextId(id))
  BY <1>3, <1>4, <1>7, <1>8 DEF InOrder
<1> QED BY <1>9 DEF g, s

\* The server receives the last request of the client.
LEMMA ReceiveInOrder ==
  ASSUME NEW q \in Seq(FrameType), NEW server, NEW id \in Ids,
         InOrder(q, server, id)
  PROVE  InOrder(q, [id |-> id, current |-> TRUE], id)
BY DEF InOrder

\* The initial state.
LEMMA InitFresh == Init => FreshInv
<1> SUFFICES ASSUME Init PROVE FreshInv
  OBVIOUS
<1>1. rx = <<>> /\ srv = NoSrv /\ client.state = "DISCONNECTED" /\ client.calls = <<>>
  BY DEF Init
<1>2. InOrder(rx, srv, client.frame_id)
  BY <1>1, EmptyInOrder
<1> QED BY <1>1, <1>2 DEF FreshInv, AcceptedReplyIsFresh

\* send_request: the socket and the server hold replies to the request before.
LEMMA SendFresh ==
  ASSUME ClientInv, FreshInv, NEW req \in Request, send_request(req)
  PROVE  FreshInv'
<1>1. /\ client'.state = "WRITE_REQUEST" /\ client'.calls = <<>>
      /\ client'.frame_id = NextId(client.frame_id)
  BY SendInv
<1>2. /\ rx \in Seq(FrameType) /\ srv \in SrvType /\ client.frame_id \in Ids
      /\ InOrder(rx, srv, client.frame_id) /\ AllFresh(rx, srv)
  BY DEF ClientInv, TypeOK, SrvType, ClientType, FreshInv, send_request
<1>3. /\ rx' = [i \in DOMAIN rx |-> [rx[i] EXCEPT !.fresh = FALSE]]
      /\ srv' = [srv EXCEPT !.current = FALSE]
  BY DEF send_request
<1>4. InOrder(rx', srv', client'.frame_id)
  BY <1>1, <1>2, <1>3, SendInOrder
<1> QED BY <1>1, <1>4 DEF FreshInv, AcceptedReplyIsFresh, BeforeConnected

\* The connection is gone, and a request that ended with it has failed.
LEMMA DroppedFresh ==
  ASSUME LinkDropped, BusyOutcome PROVE FreshInv'
<1>1. InOrder(rx', srv', client'.frame_id)
  BY EmptyInOrder DEF LinkDropped
<1>2. AcceptedReplyIsFresh'
  BY DEF LinkDropped, BusyOutcome, Ends, AcceptedReplyIsFresh
<1> QED BY <1>1, <1>2 DEF FreshInv, LinkDropped

\* loop(), phase by phase.
LEMMA LoopFresh ==
  ASSUME ClientInv, FreshInv, loop
  PROVE  FreshInv'
<1>1. rx \in Seq(FrameType) /\ client.frame_id \in Ids /\ client \in ClientType
  BY DEF ClientInv, TypeOK, ClientType
<1>2. InOrder(rx, srv, client.frame_id)
  BY DEF FreshInv
<1>3. looped' = TRUE /\ UNCHANGED <<now, waited>>
  BY DEF loop
<1>4. CASE LoopDisconnected \/ LoopConnecting
  <2>1. QuietOutcome /\ rx' = rx /\ srv' = srv /\ client.state \in BeforeConnected
    BY <1>3, <1>4, LoopQuietInv DEF LoopDisconnected, LoopConnecting, BeforeConnected
  <2>2. rx' = <<>> /\ srv' = NoSrv
    BY <2>1 DEF FreshInv
  <2>3. client'.calls = <<>> /\ client'.state # "READ_RESPONSE"
    BY <2>1 DEF QuietOutcome, BeforeConnected
  <2>4. InOrder(rx', srv', client'.frame_id) /\ AllFresh(rx', srv')
    BY <2>2, EmptyInOrder
  <2> QED BY <2>2, <2>3, <2>4 DEF FreshInv, AcceptedReplyIsFresh
<1>5. CASE LoopConnected
  <2>1. /\ rx' = rx /\ srv' = srv /\ client'.state = "CONNECTED"
        /\ client'.calls = <<>> /\ client'.frame_id = client.frame_id
    BY <1>1, <1>5, ThisFacts DEF LoopConnected, SameFrame
  <2>2. AllFresh(rx, srv)
    BY <1>5 DEF FreshInv, LoopConnected
  <2> QED BY <1>2, <2>1, <2>2 DEF FreshInv, AcceptedReplyIsFresh, BeforeConnected
<1>6. CASE LoopWriteRequest
  <2>1. BusyOutcome /\ WriteLink
    BY <1>3, <1>6, LoopWriteInv
  <2>2. ASSUME /\ client'.state \in {"WRITE_REQUEST", "READ_RESPONSE_HEADER"}
               /\ client'.frame_id = client.frame_id
               /\ rx' = rx
               /\ srv' = srv \/ srv' = [id |-> client.frame_id, current |-> TRUE]
        PROVE  FreshInv'
    <3>1. InOrder(rx', srv', client'.frame_id)
      BY <1>1, <1>2, <2>2, ReceiveInOrder
    <3>2. client'.calls = <<>>
      BY <2>1, <2>2 DEF BusyOutcome, Ends
    <3> QED BY <2>2, <3>1, <3>2 DEF FreshInv, AcceptedReplyIsFresh, BeforeConnected
  <2> QED BY <2>1, <2>2, DroppedFresh DEF WriteLink
<1>7. CASE LoopReadHeader
  <2>1. BusyOutcome /\ HeaderLink
    BY <1>3, <1>7, LoopHeaderInv
  <2>2. ASSUME /\ client'.state = "READ_RESPONSE_HEADER"
               /\ client'.frame_id = client.frame_id
               /\ rx' = rx /\ srv' = srv
        PROVE  FreshInv'
    <3>1. client'.calls = <<>>
      BY <2>1, <2>2 DEF BusyOutcome, Ends
    <3> QED BY <1>2, <2>2, <3>1 DEF FreshInv, AcceptedReplyIsFresh, BeforeConnected
  <2>3. ASSUME /\ client'.state = "READ_RESPONSE"
               /\ client'.frame_id = client.frame_id
               /\ rx # <<>> /\ rx' = Tail(rx) /\ srv' = srv
               /\ client'.frame = Head(rx) /\ Head(rx).id = client.frame_id
        PROVE  FreshInv'
    <3>1. /\ InOrder(rx', srv', client'.frame_id) /\ AllFresh(rx', srv')
          /\ client'.frame.fresh
      BY <1>1, <1>2, <2>3, TailInOrder
    <3>2. client'.calls = <<>>
      BY <2>1, <2>3 DEF BusyOutcome, Ends
    <3> QED BY <2>3, <3>1, <3>2 DEF FreshInv, AcceptedReplyIsFresh, BeforeConnected
  <2> QED BY <2>1, <2>2, <2>3, DroppedFresh DEF HeaderLink
<1>8. CASE LoopReadResponse
  <2>1. BusyOutcome /\ ResponseLink
    BY <1>3, <1>8, LoopResponseInv
  <2>2. AllFresh(rx, srv) /\ client.frame.fresh
    BY <1>8 DEF FreshInv, LoopReadResponse
  <2>3. ASSUME /\ client'.state \in {"READ_RESPONSE", "CONNECTED"}
               /\ client'.frame_id = client.frame_id
               /\ client'.frame = client.frame
               /\ rx' = rx /\ srv' = srv
        PROVE  FreshInv'
    <3>1. client'.frame.fresh /\ AllFresh(rx', srv')
      BY <2>2, <2>3
    <3> QED BY <1>2, <2>3, <3>1 DEF FreshInv, AcceptedReplyIsFresh, BeforeConnected
  <2> QED BY <2>1, <2>3, DroppedFresh DEF ResponseLink
<1> QED BY <1>4, <1>5, <1>6, <1>7, <1>8 DEF loop

\* The clock and the server.
LEMMA EnvironmentFresh ==
  ASSUME ClientInv, FreshInv,
         Tick \/ (\E reply \in Reply : ServerSend(reply)) \/ UNCHANGED vars
  PROVE  FreshInv'
<1>1. CASE Tick \/ UNCHANGED vars
  <2>1. UNCHANGED <<client, rx, srv>>
    BY <1>1 DEF Tick, vars
  <2> QED BY <2>1 DEF FreshInv, AcceptedReplyIsFresh
<1>2. ASSUME NEW reply \in Reply, ServerSend(reply)
      PROVE  FreshInv'
  <2> DEFINE f == [id |-> srv.id, fresh |-> srv.current, reply |-> reply]
  <2>1. /\ srv # NoSrv /\ rx' = Append(rx, f) /\ srv' = srv /\ client' = client
    BY <1>2 DEF ServerSend
  <2>2. rx \in Seq(FrameType) /\ srv \in [id : Ids, current : BOOLEAN]
    BY <2>1 DEF ClientInv, TypeOK
  <2>3. f \in FrameType /\ srv \in SrvType
    BY <2>2, BoundAssumption DEF FrameType, SrvType
  <2>4. f.id = srv.id /\ f.fresh = srv.current
    BY Zenon
  <2> HIDE DEF f
  <2>5. /\ InOrder(rx', srv', client.frame_id)
        /\ AllFresh(rx, srv) => AllFresh(rx', srv')
    BY <2>1, <2>2, <2>3, <2>4, AppendInOrder DEF FreshInv
  <2>6. client.state \notin BeforeConnected
    BY <2>1 DEF FreshInv
  <2> QED BY <2>1, <2>5, <2>6 DEF FreshInv, AcceptedReplyIsFresh
<1> QED BY <1>1, <1>2

\* For all requests and replies and for ids of any width, a request succeeds
\* only on a reply that the server sent after it had received that request,
\* although replies come late and more than once and _frame_id wraps.
THEOREM Freshness == Spec => []AcceptedReplyIsFresh
<1>1. Init => ClientInv /\ FreshInv
  BY InitInv, InitFresh
<1>2. ClientInv /\ FreshInv /\ [Next]_vars => ClientInv' /\ FreshInv'
  <2> SUFFICES ASSUME ClientInv, FreshInv, [Next]_vars
               PROVE  ClientInv' /\ FreshInv'
    OBVIOUS
  <2>1. ClientInv'
    BY NextInv
  <2>2. FreshInv'
    BY SendFresh, LoopFresh, EnvironmentFresh DEF Next
  <2> QED BY <2>1, <2>2
<1>3. FreshInv => AcceptedReplyIsFresh
  BY DEF FreshInv
<1> QED BY <1>1, <1>2, <1>3, PTL DEF Spec
=============================================================================
