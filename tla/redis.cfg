SPECIFICATION Spec
CONSTANTS
  Keys = {"a", "b"}
  NoKey = "none"
  Objects = {o1, o2}
  NoID = noid
  Named = {o1, o2}
  Placed <- NotPlaced
  Moves <- AllMoves
  MaxVersion = 3
  MaxFaults = 2
CHECK_DEADLOCK FALSE
SYMMETRY Symmetry
INVARIANTS TypeOK Findable KeySets LoadedAsTold
PROPERTY AsStore
