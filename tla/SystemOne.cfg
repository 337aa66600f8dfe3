\* One evaluation, two reviewers of each role, two workers, with faults.
CONSTANTS
  e1 = e1  e2 = e2  q1 = q1  q2 = q2  v1 = v1  v2 = v2  a1 = a1  w1 = w1  w2 = w2
  b1 = b1  b2 = b2
  Evals = {e1}
  QaUsers = {q1, q2}
  VerifierUsers = {v1, v2}
  AdminUsers = {a1}
  Workers = {w1, w2}
  Backfills = {b1}
  NoUser = NoUser
  NoScore = NoScore
  NoRow = NoRow
  NoEval = NoEval
  PassMark = 70
  QaDeviationThreshold = 15
  VerifierDeviationThreshold = 10
  Scores <- MCScores
  VerifierRanges <- MCVerifierRanges
  LegacyScores <- MCLegacyScores
  MaxJobs = 3
  MaxCrashes = 2
  MaxFailures = 2
SPECIFICATION Spec
SYMMETRY MCSymmetry
INVARIANTS
  TypeOK
  ClaimIsExclusive
  AssignmentAgrees
  QueueMatchesState
  OpenAuditIsQueued
  ConversationMatchesState
  VerdictIffLocked
  VerifierSeesSubmission
  ListedIsReadable
  ListedCanBeTaken
PROPERTIES
  LockedIsFinal
  ClaimIsNotStolen
  ImplementsAbstract
CHECK_DEADLOCK FALSE
