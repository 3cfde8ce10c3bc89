SPECIFICATION Spec
CONSTANTS
  Keys = {"a", "b"}
  NoKey = "none"
  Objects = {o1}
  Clients = {c1}
  Moves <- AllMoves
  Joined <- HasB
  MayAdd = {"a", "b"}
  MayRemove = {"a", "b"}
  MaxVersion = 2
  MaxFaults = 0
  MaxRequests = 1
  Buffer = 1
CHECK_DEADLOCK FALSE
INVARIANTS NothingLost
