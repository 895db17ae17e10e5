SPECIFICATION FairSpec
CONSTANTS
  r1 = r1
  r2 = r2
  c1 = c1
  c2 = c2
  l1 = l1
  d1 = d1
  a1 = a1
  a2 = a2
  w1 = w1
  f1 = f1
  None = None
  Runs <- TwoRuns
  Configs <- TwoConfigs
  Leaves <- OneLeaf
  Summaries <- NoSummary
  Loaders <- TwoLoaders
  Workers <- OneWorker
  Snapshots <- OneSnapshot
  MaxAttempts = 2
  BatchSize = 2
  MaxLoads = 2
  MaxCrashes = 1
CHECK_DEADLOCK FALSE
INVARIANTS
  EntriesHaveOneHolder
PROPERTIES
  KeepsPublished
  SessionsEnd
