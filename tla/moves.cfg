SPECIFICATION Spec
CONSTANTS
  Keys = {"a", "b", "c"}
  NoKey = "none"
  Objects = {o1}
  Clients = {c1, c2}
  Moves <- MovesOn
  Joined <- HeldSets
  MayAdd = {"c"}
  MayRemove = {"c"}
  MaxVersion = 3
  MaxFaults = 0
  MaxRequests = 1
  Buffer = 1
CHECK_DEADLOCK FALSE
SYMMETRY Symmetry
INVARIANTS NothingLost NoGhostWhereHeld NoGhostOfTheLiving NoGap
