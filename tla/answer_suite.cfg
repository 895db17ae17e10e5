SPECIFICATION Spec
CONSTANTS
  f1 = f1
  f2 = f2
  None = None
  Limit <- MCLimit
  Profiles = {f1, f2}
  MaxEdits = 2
  MaxFaults = 2
CHECK_DEADLOCK FALSE
INVARIANTS
  SummaryIsOfItsOwn
  AskedOnRecordedSources
  FullRestsOnSmoke
  EndIsRecorded
