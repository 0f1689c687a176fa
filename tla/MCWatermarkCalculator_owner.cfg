SPECIFICATION Spec
CONSTANTS
  a = a
  b = b
  x = x
  MaxInt32 = 5
  RoundsUp <- MCUp
  RoundsShort <- MCShort
  Pods = {a, x}
  Foreign = {x}
  Specs <- MCCPU
  Loads = {50, 250}
  Sums = {90}
  MaxChanges = 1
CHECK_DEADLOCK FALSE
PROPERTIES
  LoadIsOfTarget
