SPECIFICATION Spec
CONSTANTS
  a = a
  b = b
  x = x
  MaxInt32 = 5
  RoundsUp <- MCUp
  RoundsShort <- MCShort
  Pods = {a, b}
  Foreign = {}
  Specs <- MCCPU
  Loads = {50, 250}
  Sums = {90}
  MaxChanges = 2
CHECK_DEADLOCK FALSE
INVARIANTS
  ProposesForReadyPods
