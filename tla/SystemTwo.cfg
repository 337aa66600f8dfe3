\* Two evaluations that share the scans, the round robin and the backfill.
CONSTANTS
  e1 = e1  e2 = e2  q1 = q1  q2 = q2  v1 = v1  v2 = v2  a1 = a1  w1 = w1  w2 = w2
  b1 = b1  b2 = b2
  Evals = {e1, e2}
  QaUsers = {}
  VerifierUsers = {v1}
  AdminUsers = {a1}
  Workers = {w1, w2}
  Backfills = {b1, b2}
  NoUser = NoUser
  NoScore = NoScore
  NoRow = NoRow
  NoEval = NoEval
  PassMark = 70
  QaDeviationThreshold = 15
  VerifierDeviationThreshold = 10
  Scores <- MCScoresTwo
  VerifierRanges <- MCVerifierRanges
  LegacyScores = {}
  MaxJobs = 1
  MaxCrashes = 1
  MaxFailures = 0
SPECIFICATION Spec
SYMMETRY MCSymmetryTwo
INVARIANTS
  OpenInsertIsNew
PROPERTIES
  ImplementsAbstract
CHECK_DEADLOCK FALSE
