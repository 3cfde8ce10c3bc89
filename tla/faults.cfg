SPECIFICATION Spec
CONSTANTS
  Keys = {"a", "b"}
  NoKey = "none"
  Objects = {o1}
  Clients = {c1}
  Moves <- AllMoves
  Joined <- HasA
  MayAdd = {"a", "b"}
  MayRemove = {"a", "b"}
  MaxVersion = 3
  MaxFaults = 2
  MaxRequests = 1
  Buffer = 1
CHECK_DEADLOCK FALSE
INVARIANTS TypeOK NeverAhead StoredSubIsCurrent OneStatePerVersion
PROPERTY AsStore
