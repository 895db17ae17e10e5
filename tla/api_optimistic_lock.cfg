SPECIFICATION Spec
CONSTANTS
  r1 = r1
  r2 = r2
  k1 = k1
  k2 = k2
  c1 = c1
  c2 = c2
  NoRequest = NoRequest
  NoRow = NoRow
  Claims <- TwoClaims
  Reviewers <- TwoReviewers
  ApiReviewers <- TwoReviewers
  Approvers <- TwoReviewers
  Keys <- TwoKeys
CONSTRAINTS PlainRun Uninterrupted
CHECK_DEADLOCK FALSE
INVARIANTS
  OneDecisionPerVersion
