SPECIFICATION FairSpec
CONSTANTS
  Specs <- MCSpecs
  Finalizers = {"finalizer.dbisshpa.com", "other"}
  Lists <- MCLists
  EditsOfMeta = TRUE
  MaxEdits = 4
  MaxFaults = 2
CHECK_DEADLOCK FALSE
INVARIANTS
  TypeOK
  WorksBehindFinalizer
  LeftAloneWhenDone
PROPERTIES
  OthersFinalizersStay
  OnlyDefaultsAreWritten
  StatusIsOfStoredSpec
  StatusSettles
  WorkedOnForever
  ValidDeletionCompletes
