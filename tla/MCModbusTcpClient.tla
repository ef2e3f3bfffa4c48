------------------------- MODULE MCModbusTcpClient -------------------------
(***************************************************************************)
(* A small instance of ModbusTcpClient: a read, a write and a write the    *)
(* protocol has no function code for; replies of every kind the client     *)
(* tells apart.                                                            *)
(***************************************************************************)
EXTENDS ModbusTcpClient

ReadReq    == [count |-> 1, type |-> "INPUT_REGISTER", register_no |-> 1000,
               unit_id |-> 1, is_write_request |-> FALSE]
WriteReq   == [count |-> 1, type |-> "HOLDING_REGISTER", register_no |-> 5004,
               unit_id |-> 1, is_write_request |-> TRUE]
InvalidReq == [count |-> 1, type |-> "DISCRETE_INPUT", register_no |-> 0,
               unit_id |-> 1, is_write_request |-> TRUE]
LargeReq   == [count |-> 20, type |-> "COIL", register_no |-> 0,
               unit_id |-> 1, is_write_request |-> TRUE]

Requests == {ReadReq, WriteReq, InvalidReq, LargeReq}

\* The replies of a working server.
ReadOk    == [pdu_size |-> 5, unit_id |-> 1, function |-> 4, payload_size |-> 2]
WriteOk   == [pdu_size |-> 6, unit_id |-> 1, function |-> 16, payload_size |-> 0]
\* An overlong payload, an empty reply, a reply of another unit and the smallest
\* pdu that the buffer does not hold.
Overlong  == [pdu_size |-> 3, unit_id |-> 1, function |-> 4, payload_size |-> 4]
Empty     == [pdu_size |-> 0, unit_id |-> 1, function |-> 4, payload_size |-> 0]
OtherUnit == [pdu_size |-> 5, unit_id |-> 2, function |-> 4, payload_size |-> 2]
TooLarge  == [pdu_size |-> BufSize - TcpHeaderSize + 1, unit_id |-> 1, function |-> 4,
              payload_size |-> 2]
Replies   == {ReadOk, WriteOk, Overlong, Empty, OtherUnit, TooLarge}

\* An exception.
Refused   == [pdu_size |-> 3, unit_id |-> 1, function |-> 144, payload_size |-> 2]
WithException == Replies \cup {Refused}
=============================================================================
