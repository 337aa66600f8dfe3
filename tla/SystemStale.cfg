\* The scan runs every minute.
CONSTANTS
  e1 = e1  e2 = e2  q1 = q1  q2 = q2  v1 = v1  v2 = v2  a1 = a1  w1 = w1  w2 = w2
  b1 = b1  b2 = b2
  Evals = {e1}
  QaUsers = {q1}
  VerifierUsers = {v1}
  AdminUsers = {}
  Workers = {w1, w2}
  Backfills = {b1}
  NoUser = NoUser
  NoScore = NoScore
  NoRow = NoRow
  NoEval = NoEval
  PassMark = 70
  QaDeviationThreshold = 15
  VerifierDeviationThreshold = 10
  Scores <- MCScoresTwo
  VerifierRanges <- MCVerifierRanges
  LegacyScores = {}
  MaxJobs = 2
  MaxCrashes = 0
  MaxFailures = 0
SPECIFICATION FairSpec
PROPERTIES
  StaleWorkIsPromoted
CHECK_DEADLOCK FALSE
