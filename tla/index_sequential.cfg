SPECIFICATION Spec
CONSTANTS
  r1 = r1
  r2 = r2
  c1 = c1
  c2 = c2
  l1 = l1
  d1 = d1
  a1 = a1
  a2 = a2
  w1 = w1
  f1 = f1
  None = None
  Runs <- TwoRuns
  Configs <- TwoConfigs
  Leaves <- OneLeaf
  Summaries <- OneSummary
  Loaders <- OneLoader
  Workers <- OneWorker
  Snapshots <- OneSnapshot
  MaxAttempts = 2
  BatchSize = 2
  MaxLoads = 3
  MaxCrashes = 1
SYMMETRY Alike
CHECK_DEADLOCK FALSE
INVARIANTS
  FrozenRunsAreIndexed
  OneActiveRun
