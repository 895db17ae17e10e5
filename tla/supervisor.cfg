SPECIFICATION FairSpec
CONSTANTS
  r1 = r1
  r2 = r2
  k1 = k1
  k2 = k2
  c1 = c1
  c2 = c2
  NoRequest = NoRequest
  NoRow = NoRow
  Claims <- TwoClaims
  Reviewers <- OneReviewer
  ApiReviewers <- NoReviewers
  Approvers <- OneReviewer
  Keys <- OneKey
CHECK_DEADLOCK FALSE
INVARIANTS
  DegradationDisclosed
  TraceExplainsStatus
PROPERTIES
  RunStops
  ReviewNotDiscarded
