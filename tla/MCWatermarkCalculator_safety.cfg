SPECIFICATION Spec
CONSTANTS
  a = a
  b = b
  x = x
  MaxInt32 = 5
  RoundsUp <- MCUp
  RoundsShort <- MCShort
  Pods = {a, b, x}
  Foreign = {x}
  Specs <- MCSpecs
  Loads = {50, 150}
  Sums <- MCSums
  MaxChanges = 2
SYMMETRY MCSymmetry
CHECK_DEADLOCK FALSE
INVARIANTS
  TypeOK
  AverageFits
  LoadGivesDirection
  TakesTheMaximum
  SumsWhatItCounts
