-------------------------- MODULE EvaluationStore --------------------------
(***************************************************************************)
(* The tables of a tenant database that the review workflow keeps in step: *)
(* evaluations, workflow_queues, audit_cases and the status column of      *)
(* conversations (models/tenant.py), and what the services compute from a  *)
(* row of them.  Every evaluation belongs to one conversation              *)
(* (evaluations."conversationId" is unique), so the id of the evaluation   *)
(* also names the conversation.                                            *)
(*                                                                         *)
(* Kept of an evaluation row: the state machine, the two owners, the       *)
(* escalation flag, the scores, the verdict, and what verifierFinalData    *)
(* holds.  Left out: answers, section scores, timestamps, texts, form and  *)
(* department ids.                                                         *)
(***************************************************************************)
EXTENDS Integers

CONSTANTS
  Evals,                      \* evaluations (and their conversations)
  QaUsers,                    \* active users of the tenant with role QA
  VerifierUsers,              \* ... with role VERIFIER
  AdminUsers,                 \* ... with role ADMIN
  NoUser,                     \* a NULL user column
  Scores,                     \* overall scores a form can yield
  NoScore,                    \* a NULL score column
  PassMark,                   \* scoringStrategy.passMark of the form
  QaDeviationThreshold,       \* EscalationRule, or its default 15
  VerifierDeviationThreshold, \* EscalationRule, or its default 10
  VerifierRanges,             \* pairs <<start, end>> of EscalationRule
  NoRow                       \* no workflow_queues row for the evaluation

Users == QaUsers \cup VerifierUsers \cup AdminUsers

ASSUME UsersAssumption == NoUser \notin Users
ASSUME ScoresAssumption == Scores \subseteq Int /\ NoScore \notin Scores
ASSUME ThresholdsAssumption ==
  /\ PassMark \in Int
  /\ QaDeviationThreshold \in Int
  /\ VerifierDeviationThreshold \in Int
  /\ VerifierRanges \subseteq Int \X Int

-----------------------------------------------------------------------------
(* Row types *)

\* "NONE" stands for a conversation that has no evaluation row yet.  The enum
\* also has AI_COMPLETED, VERIFIER_COMPLETED and ESCALATED, which no reachable
\* code writes (the LLM pipeline of eval_process is dead code).
WorkflowState ==
  {"NONE", "AI_PENDING", "AI_IN_PROGRESS", "AI_FAILED",
   "QA_PENDING", "QA_IN_PROGRESS", "QA_COMPLETED",
   "VERIFIER_PENDING", "VERIFIER_IN_PROGRESS", "LOCKED"}

\* "NONE" stands for a conversation that was never received.
ConvStatus ==
  {"NONE", "PENDING", "EVALUATING", "QA_REVIEW", "VERIFIER_REVIEW",
   "COMPLETED", "FAILED", "AUDIT"}

QueueType == {"QA_QUEUE", "VERIFIER_QUEUE", "ESCALATION_QUEUE", "AUDIT_QUEUE"}

AuditStatus == {"NONE", "OPEN", "RESOLVED", "DISMISSED"}

Verdict == {"none", "pass", "fail"}

\* What verifierFinalData holds: nothing, the comments of a rejection
\* (isRejectionFeedback), or the layer a lock was based on.
VerifierLayer == {"none", "feedback", "final"}

Evaluation ==
  [state: WorkflowState,
   qaUser: Users \cup {NoUser},
   verUser: Users \cup {NoUser},
   escalated: BOOLEAN,
   aiScore: Scores \cup {NoScore},
   qaScore: Scores \cup {NoScore},
   final: Scores \cup {NoScore},
   passFail: Verdict,
   verLayer: VerifierLayer]

\* stale abstracts dueBy and createdAt: the row is older than staleQueueHours.
QueueRow == [type: QueueType, assigned: Users \cup {NoUser}, stale: BOOLEAN]

ASSUME NoRowAssumption == NoRow \notin QueueRow

-----------------------------------------------------------------------------
(* Roles and groups of states.  An administrator may do what a reviewer   *)
(* may (require_roles).                                                   *)

QaActors == QaUsers \cup AdminUsers
VerifierActors == VerifierUsers \cup AdminUsers

\* Mutant: the claim's WHERE clause also accepts an evaluation in progress.
AiClaimable_InProgress == {"AI_PENDING", "AI_FAILED", "AI_IN_PROGRESS"}

AiClaimable == {"AI_PENDING", "AI_FAILED"}
AiStates == AiClaimable \cup {"AI_IN_PROGRESS"}
QaAssignable == {"QA_PENDING", "QA_IN_PROGRESS"}
VerifierAssignable == {"QA_COMPLETED", "VERIFIER_PENDING", "VERIFIER_IN_PROGRESS"}
InProgress == {"QA_IN_PROGRESS", "VERIFIER_IN_PROGRESS"}

-----------------------------------------------------------------------------
(* Fresh rows *)

NewEvaluation(state, qaUser) ==
  [state |-> state, qaUser |-> qaUser, verUser |-> NoUser, escalated |-> FALSE,
   aiScore |-> NoScore, qaScore |-> NoScore, final |-> NoScore,
   passFail |-> "none", verLayer |-> "none"]

NoEvaluation == NewEvaluation("NONE", NoUser)

\* The row _upsert_queue leaves, inserted or updated: createdAt is now.
UpsertQueue(type, user) == [type |-> type, assigned |-> user, stale |-> FALSE]

\* The worker's and the backfill's own upsert keep createdAt of an old row.
UpsertQueueViaPool(row, type, user) ==
  IF row = NoRow
  THEN UpsertQueue(type, user)
  ELSE [row EXCEPT !.type = type, !.assigned = user]

\* QA work starts with an owner when routing found an assignee.
QaEntryState(assignee) ==
  IF assignee = NoUser THEN "QA_PENDING" ELSE "QA_IN_PROGRESS"

-----------------------------------------------------------------------------
(* Decisions computed from scores *)

Deviation(a, b) == IF a >= b THEN a - b ELSE b - a

Passes(score) == IF score >= PassMark THEN "pass" ELSE "fail"

\* passFail of scoring_service.score: a critical failure fails the whole form.
ScoredVerdict(score, critical) == IF critical THEN "fail" ELSE Passes(score)

InVerifierRange(score) ==
  \E range \in VerifierRanges : range[1] <= score /\ score <= range[2]

\* Where a QA submission goes; escalation wins over the verifier range.
SubmitOutcome(aiScore, score) ==
  IF aiScore # NoScore /\ Deviation(score, aiScore) > QaDeviationThreshold
  THEN "escalate"
  ELSE IF InVerifierRange(score) THEN "verifier" ELSE "complete"

\* Whether a verifier's own score opens an audit case.
OpensAudit(qaScore, score) ==
  qaScore # NoScore /\ Deviation(score, qaScore) >= VerifierDeviationThreshold
=============================================================================
