SPECIFICATION Spec
CONSTANTS
  Keys = {"a", "b"}
  NoKey = "none"
  Objects = {o1, o2}
  NoID = noid
  Named = {}
  Placed <- NotPlaced
  Moves <- AllMoves
  MaxVersion = 3
  MaxFaults = 0
CHECK_DEADLOCK FALSE
SYMMETRY Symmetry
INVARIANTS KeySets
