SPECIFICATION FairSpec
CONSTANTS
  c1 = c1
  c2 = c2
  k1 = k1
  q1 = q1
  q2 = q2
  NoRequest = NoRequest
  NoAnswer = NoAnswer
  Callers <- TwoCallers
  Keys <- OneKey
  Requests <- TwoRequests
  MaxRepairs = 1
INVARIANTS
  CallsAccounted
  TraceExplainsStatus
PROPERTIES
  KeepsPromise
  RunsEnd
  RequestsAnswered
