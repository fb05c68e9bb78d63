CONSTANTS
  Requests = {"r1"}
  t1 = t1
  t2 = t2
  Tasks = {t1, t2}
  Forms <- MCForms
  Bytes = {"a", "b", "c", "K", "Y"}
  Orders <- MCOrders
  LocalTrees <- MCLocalTrees
  Decay <- MCDecay
  Fold <- MCFold
  Unsafe = {".env"}
  Marker <- MCMarker
  ChunkBytes = 2
  MaxFiles = 2
  MaxFileBytes = 3
  MaxTotalBytes = 5
  MaxRequestBytes = 6
  Attempts = 2
SPECIFICATION Spec
SYMMETRY Symmetric
INVARIANTS
  UploadsAreWhole
  FailureLeavesNothing
  SampleIsTheUpload
CHECK_DEADLOCK FALSE
