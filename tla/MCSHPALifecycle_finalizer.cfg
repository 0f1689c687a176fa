SPECIFICATION FairSpec
CONSTANTS
  Specs <- MCValidSpecs
  Finalizers = {"finalizer.dbisshpa.com", "other"}
  Lists <- MCNoList
  EditsOfMeta = TRUE
  MaxEdits = 2
  MaxFaults = 0
CHECK_DEADLOCK FALSE
PROPERTIES
  FinalizerAppears
