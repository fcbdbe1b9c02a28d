SPECIFICATION Spec
CONSTANTS
  Workers = {w1, w2}
  Status = status
  Nobody = nobody
  NumParameters = 1
  MaxConns = 2
  MaxRequests = 2
INVARIANTS OneExchange OwnReply StoredInPlace ChannelHolds
CHECK_DEADLOCK FALSE
