SPECIFICATION FairSpec
CONSTANTS
  Keys = {"a", "b"}
  NoKey = "none"
  Objects = {o1}
  Clients = {c1}
  Moves <- NoMoves
  Joined <- HasA
  MayAdd = {"a", "b"}
  MayRemove = {"a", "b"}
  MaxVersion = 3
  MaxFaults = 0
  MaxRequests = 4
  Buffer = 1
CHECK_DEADLOCK FALSE
INVARIANTS NothingLost NoGhostWhereHeld NoGap
PROPERTIES EventuallySynced
