\* Two requests of the reviewers at a time: claim, submit, approve.
CONSTANTS
  e1 = e1  q1 = q1  q2 = q2  v1 = v1  v2 = v2
  w1 = w1  w2 = w2  b1 = b1  b2 = b2  b3 = b3  b4 = b4  s1 = s1  s2 = s2  s3 = s3
  Evals = {e1}
  QaUsers = {q1, q2}
  VerifierUsers = {v1, v2}
  AdminUsers = {}
  Workers = {w1}
  Sessions = {s1, s2}
  NoUser = NoUser
  NoScore = NoScore
  NoRow = NoRow
  NoEval = NoEval
  Idle = Idle
  NotRead = NotRead
  Parts = {"sessions"}
  PassMark = 70
  QaDeviationThreshold = 15
  VerifierDeviationThreshold = 10
  Scores <- MCScores
  VerifierRanges <- MCVerifierRanges
  MaxJobs = 1
  MaxRequests = 4
  Operations = {"qa_start", "qa_submit", "verifier_start", "verifier_approve"}
SPECIFICATION MCSpec
PROPERTIES
  ReviewersAreSerialised
CHECK_DEADLOCK FALSE
