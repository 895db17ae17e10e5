SPECIFICATION FairSpec
CONSTANTS
  r1 = r1
  r2 = r2
  Runs = {r1, r2}
  Stages <- MCStages
  Catching = {"risk"}
  Critical = {"financial"}
  Sinks <- MCSinks
  MaxCallsPerTask = 1
  Width = 2
  MaxCallsOf <- MCMaxCallsOf
  MaxLost = 1
  MaxCancels = 1
  None = None
CHECK_DEADLOCK FALSE
INVARIANTS
  BudgetKept
  WhatIsUsedIsRecorded
  AuditFailuresAreOwn
PROPERTIES
  CancelledRunsStop
