SPECIFICATION Spec
CONSTANTS
  r1 = r1
  r2 = r2
  k1 = k1
  k2 = k2
  c1 = c1
  c2 = c2
  NoRequest = NoRequest
  NoRow = NoRow
  Claims <- OneClaim
  Reviewers <- TwoReviewers
  ApiReviewers <- TwoReviewers
  Approvers <- OneReviewer
  Keys <- TwoKeys
CONSTRAINTS PlainRun CancelledAtMost
CHECK_DEADLOCK FALSE
INVARIANTS
  ReleaseGate
  ReportsStayTrue
  VerdictsHaveOneDecision
  AnsweredMeansStored
