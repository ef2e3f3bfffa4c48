SPECIFICATION Spec
CONSTANTS
  ClockMod = 3
  Request <- Requests
  NoRequest = NoRequest
  Reply <- WithException
  Fd = {3}
  IdMod = 2
  BufSize = 16
  MaxPayload = 4
  ConnectTimeout = 1
  RequestTimeout = 1
  MaxRx = 1
INVARIANTS
  ExceptionReplyFails
