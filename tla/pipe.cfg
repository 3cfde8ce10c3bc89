CONSTANTS
  s1 = s1
  s2 = s2
  x = x
  y = y
  zero = zero
  other = other
  Structs = {s1, s2}
  Fields = {x}
  Values = {zero, other}
  Zero = zero
  Nil = Nil
  MaxVersion = 2
  Capacity = 2
  MaxPublished = 4
SPECIFICATION FairSpec
INVARIANTS HandedOver NoHole
PROPERTIES AsValues Executed
CHECK_DEADLOCK FALSE
