SPECIFICATION FairSpec
CONSTANTS
  Clients = {c1}
  Buffer = 1
  MaxRequests = 2
  MaxWrites = 1
  MaxGreetings = 1
  MaxReplies = 1
  MaxDeliveries = 1
CHECK_DEADLOCK FALSE
INVARIANTS TypeOK ClosedLast ReaderFirst
PROPERTIES ComesDown RedisGoesOn
