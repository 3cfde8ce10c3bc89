SPECIFICATION Spec
CONSTANTS
  Clients = {c1}
  Buffer = 1
  MaxRequests = 1
  MaxWrites = 0
  MaxGreetings = 0
  MaxReplies = 0
  MaxDeliveries = 0
CHECK_DEADLOCK FALSE
INVARIANTS CustomIsSet
