\* Two reviewers of each role, two overlapping requests, every handler;
\* three, without the handlers of administrators; the batches next to them.
CONSTANTS
  e1 = e1  q1 = q1  q2 = q2  v1 = v1  v2 = v2
  w1 = w1  w2 = w2  b1 = b1  b2 = b2  b3 = b3  b4 = b4  s1 = s1  s2 = s2  s3 = s3
  Evals = {e1}
  QaUsers = {q1, q2}
  VerifierUsers = {v1, v2}
  AdminUsers = {}
  Workers = {w1}
  Sessions = {s1, s2, s3}
  NoUser = NoUser
  NoScore = NoScore
  NoRow = NoRow
  NoEval = NoEval
  Idle = Idle
  NotRead = NotRead
  Parts = {"sessions", "reviewers", "scans", "robins"}
  PassMark = 70
  QaDeviationThreshold = 15
  VerifierDeviationThreshold = 10
  Scores <- MCScores
  VerifierRanges <- MCVerifierRanges
  MaxJobs = 1
  MaxRequests = 6
  Operations = {"qa_start", "qa_submit", "verifier_start", "verifier_approve",
    "verifier_modify", "verifier_reject", "manual_assign", "reassign", "re_audit_ai"}
SPECIFICATION MCSpec
SYMMETRY MCSymmetry
INVARIANTS
  TypeOK
  LockedReadStaysCurrent
PROPERTIES
  ReviewHolds
  BatchesHold
CHECK_DEADLOCK FALSE
