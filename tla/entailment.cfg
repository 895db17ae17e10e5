SPECIFICATION Spec
CONSTANTS
  c1 = c1
  c2 = c2
  None = None
  Adjudication = Adjudication
  People = {p1, p2, p3}
  Slots = {i1, i2}
  Claims = {c1, c2}
  Runs = {r1, r2}
  Times = {0, 1}
  Seeds = {s1}
  Fillings <- MCFillings
  Rulings = {"NOT_ENOUGH_INFO", "EXCLUDE"}
  MaxSlips = 1
SYMMETRY MCSymmetry
CHECK_DEADLOCK FALSE
INVARIANTS
  TypeOK
  CompleteMeansJudged
  ReportIsOfOneSource
  JudgedInOrder
  ScoresAddUp
