CONSTANTS
  Versions <- MCVersions
  Baseline = "v0"
  TargetsOf <- MCTargetsOf
  Rewrite <- MCRewrite
  TemplateOf <- MCTemplateOf
  Samples <- MCSamples
  Codegens = {"unavailable", "inconsistent", "c1", "c2"}
  Threshold = 10
  Budget = 2
  MinimumRepeats = 3
SPECIFICATION Spec
INVARIANTS
  CompletedVerifies
  ShownGainIsEarned
PROPERTY PlansAreAuthorised
CHECK_DEADLOCK FALSE
