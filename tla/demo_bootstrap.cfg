SPECIFICATION FairSpec
CONSTANTS
  k1 = k1
  k2 = k2
  a1 = a1
  s1 = s1
  m1 = m1
  None = None
  Cases = {k1, k2}
  Assets = {a1}
  Corpora <- MCCorpora
  Finals <- MCFinals
  Sections <- MCSections
  Summaries <- MCSummaries
  Profiles <- MCProfiles
  Processes = {p1, p2}
  MaxAttempts = 2
  MaxStarts = 2
  MaxMishaps = 2
CHECK_DEADLOCK FALSE
INVARIANTS
  RepeatedPrepareIsReady
  ReadyStays
PROPERTIES
  BootstrapEnds
