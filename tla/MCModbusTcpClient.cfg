SPECIFICATION FairSpec
CONSTANTS
  ClockMod = 3
  Request <- Requests
  NoRequest = NoRequest
  Reply <- Replies
  Fd = {3}
  IdMod = 2
  BufSize = 16
  MaxPayload = 4
  ConnectTimeout = 1
  RequestTimeout = 1
  MaxRx = 2
INVARIANTS
  TypeOK
  PendingWhileBusy
  BufferBounds
  OneSocket
  RequestDeadline
  AcceptedReplyIsFresh
PROPERTIES
  KeepsReconnecting
  ImplementsService
