SPECIFICATION Spec
CONSTANTS
  Paths <- MCPaths
  Contents <- MCContents
  Collections <- MCCollections
  Calibrations <- MCCalibrations
  Imported <- MCImported
  Parents <- MCParents
  Definitions <- MCDefinitions
  NativeReaders = {"T"}
  MaxReceipts = 1
  MaxChanges = 1
  MaxRestarts = 1
  MaxRows = 2
INVARIANTS
  EligibleIsProven
  UntouchedIsUsable
CHECK_DEADLOCK FALSE
