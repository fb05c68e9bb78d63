SPECIFICATION Spec
CONSTANTS
  c0 = c0
  c1 = c1
  c2 = c2
  NoConfig = NoConfig
  Baseline = c0
  Configs <- MCConfigs
  Values <- MCValues
  MaxIterations = 2
  PerIteration = 2
  Requests <- MCRequests
  Faults <- MCFaults
INVARIANTS
  BestIsMeasured
  EveryTrialRecorded
  SettledTaskLeavesBaseline
PROPERTIES
  RunEnds
