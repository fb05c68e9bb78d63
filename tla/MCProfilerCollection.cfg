SPECIFICATION Spec
CONSTANTS
  i1 = i1
  i2 = i2
  Ids <- MCIds
  NoTree = NoTree
  NoText = NoText
  NoRequest = NoRequest
  Trees <- MCTrees
  Requests <- MCRequests
  MaxCalls = 2
  Faults <- MCFaults
SYMMETRY MCSymmetry
INVARIANTS
  SecretsAreDropped
  CollectedIsBound
  AskedToStopIsNotCollected
  OneRecordPerCall
