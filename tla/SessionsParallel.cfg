\* Two overlapping re-audits of one evaluation and two workers.
CONSTANTS
  e1 = e1  q1 = q1  q2 = q2  v1 = v1  v2 = v2
  w1 = w1  w2 = w2  b1 = b1  b2 = b2  b3 = b3  b4 = b4  s1 = s1  s2 = s2  s3 = s3
  Evals = {e1}
  QaUsers = {q1, q2}
  VerifierUsers = {v1, v2}
  AdminUsers = {}
  Workers = {w1, w2}
  Sessions = {s1, s2}
  NoUser = NoUser
  NoScore = NoScore
  NoRow = NoRow
  NoEval = NoEval
  Idle = Idle
  NotRead = NotRead
  Parts = {"sessions"}
  PassMark = 70
  QaDeviationThreshold = 15
  VerifierDeviationThreshold = 10
  Scores <- MCScores
  VerifierRanges <- MCVerifierRanges
  MaxJobs = 2
  MaxRequests = 4
  Operations = {"re_audit_ai"}
SPECIFICATION MCSpec
INVARIANTS
  NoParallelProcessing
CHECK_DEADLOCK FALSE
