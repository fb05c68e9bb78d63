SPECIFICATION Spec
CONSTANTS
  Globals = {"A", "B"}
  Shared = {"S1", "S2"}
  Fragments = {"F", "G", "L"}
  Scalars = {"k", "t", "i", "j"}
  Views = {"P"}
  Indices = {"L"}
  Rank <- MCRank
  Extent <- MCExtent
  Size <- MCSize
  Kernels <- MCAliasedIndex
INVARIANTS
  MeaningKept
CHECK_DEADLOCK FALSE
