-------------------------- MODULE ReviewRowsProofs --------------------------
(***************************************************************************)
(* What the helpers and the handlers of the review return: rows of their   *)
(* types, for every set of users and scores; and what the one-step         *)
(* handlers keep of the tables.  The modules that prove about the review,  *)
(* in one step or with the read and the commit apart, cite these lemmas.   *)
(***************************************************************************)
EXTENDS ReviewWorkflow, TLAPS

Rows == QueueRow \cup {NoRow}
People == Users \cup {NoUser}

-----------------------------------------------------------------------------
(* What the helpers and the handlers return *)

LEMMA Actors ==
  /\ QaActors \subseteq Users
  /\ VerifierActors \subseteq Users
  /\ \A queueType : RoundRobinUsers(queueType) \subseteq Users
  /\ \A outcome : SubmitAssignees(outcome) \subseteq People
  BY DEF QaActors, VerifierActors, People, Users, RoundRobinUsers, SubmitAssignees

LEMMA FreshRows ==
  ASSUME NEW state \in WorkflowState, NEW u \in People
  PROVE  NewEvaluation(state, u) \in Evaluation
  BY DEF NewEvaluation, Evaluation, People, Verdict, VerifierLayer

LEMMA QueueRows ==
  ASSUME NEW type \in QueueType, NEW u \in People, NEW row \in Rows
  PROVE  /\ UpsertQueue(type, u) \in QueueRow
         /\ UpsertQueueViaPool(row, type, u) \in QueueRow
         /\ RejectedQueue(row) \in Rows
         /\ ReassignedQueue(row, u) \in Rows
         /\ ResolvedQueue(row) \in Rows
  BY DEF UpsertQueue, UpsertQueueViaPool, RejectedQueue, ReassignedQueue,
         ResolvedQueue, QueueRow, QueueType, People, Rows

LEMMA Verdicts ==
  ASSUME NEW score, NEW critical \in BOOLEAN
  PROVE  /\ Passes(score) \in {"pass", "fail"}
         /\ ScoredVerdict(score, critical) \in {"pass", "fail"}
  BY DEF Passes, ScoredVerdict

LEMMA Outcomes ==
  ASSUME NEW aiScore, NEW score
  PROVE  SubmitOutcome(aiScore, score) \in {"escalate", "verifier", "complete"}
  BY DEF SubmitOutcome

LEMMA EntryStates ==
  ASSUME NEW assignee
  PROVE  QaEntryState(assignee) \in QaAssignable /\ QaAssignable \subseteq WorkflowState
  BY DEF QaEntryState, QaAssignable, WorkflowState

LEMMA AssignedRows ==
  ASSUME NEW ev \in Evaluation, NEW u \in Users
  PROVE  /\ QaStarted(ev, u) \in Evaluation
         /\ VerifierStarted(ev, u) \in Evaluation
         /\ AssignedQa(ev, u) \in Evaluation
         /\ AssignedVerifier(ev, u) \in Evaluation
         /\ Reassigned(ev, u) \in Evaluation
<1> USE DEF Evaluation, WorkflowState
<1>1. QaStarted(ev, u) \in Evaluation /\ VerifierStarted(ev, u) \in Evaluation
  BY DEF QaStarted, VerifierStarted
<1>2. AssignedQa(ev, u) \in Evaluation /\ AssignedVerifier(ev, u) \in Evaluation
  BY DEF AssignedQa, AssignedVerifier
<1>3. Reassigned(ev, u) \in Evaluation
  <2>1. CASE ev.state = "QA_IN_PROGRESS"
    BY <2>1 DEF Reassigned
  <2>2. CASE ev.state # "QA_IN_PROGRESS"
    BY <2>2 DEF Reassigned
  <2>3. QED
    BY <2>1, <2>2
<1>4. QED
  BY <1>1, <1>2, <1>3

LEMMA SubmittedRow ==
  ASSUME NEW ev \in Evaluation, NEW score \in Scores, NEW critical \in BOOLEAN,
         NEW assignee \in People
  PROVE  QaSubmitted(ev, score, critical, assignee) \in Evaluation
<1> DEFINE outcome == SubmitOutcome(ev.aiScore, score)
           verdict == ScoredVerdict(score, critical)
           row == QaSubmitted(ev, score, critical, assignee)
<1>1. outcome \in {"escalate", "verifier", "complete"} /\ verdict \in Verdict
  BY Outcomes, Verdicts DEF Verdict
<1>2. /\ outcome = "complete" =>
           row = [ev EXCEPT !.state = "LOCKED", !.qaScore = score, !.final = score,
                            !.passFail = verdict, !.verLayer = "final"]
      /\ outcome = "escalate" =>
           row = [ev EXCEPT !.state = "QA_COMPLETED", !.qaScore = score,
                            !.escalated = TRUE, !.verLayer = "none"]
      /\ outcome = "verifier" /\ assignee = NoUser =>
           row = [ev EXCEPT !.state = "QA_COMPLETED", !.qaScore = score, !.verLayer = "none"]
      /\ outcome = "verifier" /\ assignee # NoUser =>
           row = [ev EXCEPT !.state = "VERIFIER_IN_PROGRESS", !.qaScore = score,
                            !.verUser = assignee, !.verLayer = "none"]
  BY DEF QaSubmitted
<1> HIDE DEF outcome, verdict, row
<1>3. ASSUME outcome = "complete" PROVE row \in Evaluation
  BY <1>1, <1>2, <1>3 DEF Evaluation, WorkflowState, VerifierLayer
<1>4. ASSUME outcome = "escalate" PROVE row \in Evaluation
  <2>1. row = [ev EXCEPT !.state = "QA_COMPLETED", !.qaScore = score,
                         !.escalated = TRUE, !.verLayer = "none"]
    BY <1>2, <1>4
  <2>2. QED
    BY <2>1 DEF Evaluation, WorkflowState, VerifierLayer
<1>5. ASSUME outcome = "verifier" PROVE row \in Evaluation
  <2>1. CASE assignee = NoUser
    <3>1. row = [ev EXCEPT !.state = "QA_COMPLETED", !.qaScore = score, !.verLayer = "none"]
      BY <1>2, <1>5, <2>1
    <3>2. QED
      BY <3>1 DEF Evaluation, WorkflowState, VerifierLayer
  <2>2. CASE assignee # NoUser
    <3>1. row = [ev EXCEPT !.state = "VERIFIER_IN_PROGRESS", !.qaScore = score,
                           !.verUser = assignee, !.verLayer = "none"]
      BY <1>2, <1>5, <2>2
    <3>2. QED
      BY <2>2, <3>1 DEF Evaluation, WorkflowState, VerifierLayer, People
  <2>3. QED
    BY <2>1, <2>2
<1>6. row \in Evaluation
  BY <1>1, <1>3, <1>4, <1>5
<1>7. QED
  BY <1>6 DEF row

LEMMA ApprovedRow ==
  ASSUME NEW ev \in Evaluation
  PROVE  Approved(ev) \in Evaluation
<1> DEFINE verdict == IF ev.qaScore = NoScore THEN "fail" ELSE Passes(ev.qaScore)
<1>1. verdict \in Verdict
  BY DEF Passes, Verdict
<1>2. Approved(ev) = [ev EXCEPT !.state = "LOCKED", !.final = ev.qaScore,
                                !.passFail = verdict, !.verLayer = "final"]
  BY DEF Approved
<1> HIDE DEF verdict
<1>3. QED
  BY <1>1, <1>2 DEF Evaluation, WorkflowState, VerifierLayer

LEMMA ModifiedRow ==
  ASSUME NEW ev \in Evaluation, NEW score \in Scores, NEW critical \in BOOLEAN
  PROVE  Modified(ev, score, critical) \in Evaluation
<1> DEFINE verdict == ScoredVerdict(score, critical)
<1>1. verdict \in Verdict
  BY Verdicts DEF Verdict
<1>2. Modified(ev, score, critical) =
        [ev EXCEPT !.state = "LOCKED", !.final = score, !.passFail = verdict,
                   !.verLayer = "final"]
  BY DEF Modified
<1> HIDE DEF verdict
<1>3. QED
  BY <1>1, <1>2 DEF Evaluation, WorkflowState, VerifierLayer

LEMMA RejectedRow ==
  ASSUME NEW ev \in Evaluation, NEW commented \in BOOLEAN
  PROVE  Rejected(ev, commented) \in Evaluation
  BY DEF Rejected, Evaluation, WorkflowState, VerifierLayer

LEMMA RetriedRow ==
  ASSUME NEW ev \in Evaluation
  PROVE  RetriedAi(ev) \in Evaluation
  BY DEF RetriedAi, Evaluation, WorkflowState

LEMMA ReAuditedRow == ReAudited \in Evaluation
  BY FreshRows DEF ReAudited, WorkflowState, People

LEMMA ClaimedRow ==
  ASSUME NEW ev \in Evaluation
  PROVE  [ev EXCEPT !.state = "AI_IN_PROGRESS"] \in Evaluation
  BY DEF Evaluation, WorkflowState

\* A column of the merge comes from a row that has it.
LEMMA MergedRow ==
  ASSUME NEW read, NEW new \in Evaluation, NEW current \in Evaluation
  PROVE  /\ MergeRow(read, new, current) \in Evaluation
         /\ \A column \in DOMAIN current :
              MergeRow(read, new, current)[column] \in {new[column], current[column]}
  BY DEF MergeRow, Evaluation

LEMMA MergedQueueRow ==
  ASSUME NEW read, NEW new \in QueueRow, NEW current \in QueueRow
  PROVE  MergeRow(read, new, current) \in QueueRow
  BY DEF MergeRow, QueueRow

-----------------------------------------------------------------------------
(* The tables under the handlers as transactions of one step *)

\* What every module over the tables says of them in its TypeOK.
TablesOK ==
  /\ evals \in [Evals -> Evaluation]
  /\ queue \in [Evals -> Rows]
  /\ conv \in [Evals -> ConvStatus]
  /\ audit \in [Evals -> AuditStatus]

LEMMA TypeReview ==
  ASSUME TablesOK, ReviewStep
  PROVE  TablesOK'
<1> USE DEF TablesOK
<1>a. QaActors \subseteq Users /\ VerifierActors \subseteq Users
  BY Actors
<1>b. /\ \A type \in QueueType, u \in People : UpsertQueue(type, u) \in Rows
      /\ NoRow \in Rows
      /\ NoUser \in People /\ Users \subseteq People
      /\ {"QA_QUEUE", "VERIFIER_QUEUE", "AUDIT_QUEUE"} \subseteq QueueType
  BY QueueRows DEF Rows, People, QueueType
<1>1. ASSUME NEW e \in Evals, NEW u \in QaActors, QaStart(e, u)
      PROVE  TablesOK'
  <2>1. QaStarted(evals[e], u) \in Evaluation
    BY <1>a, AssignedRows
  <2>2. UpsertQueue("QA_QUEUE", u) \in Rows
    BY <1>a, <1>b
  <2>3. QED
    BY <1>1, <2>1, <2>2 DEF QaStart
<1>2. ASSUME NEW e \in Evals, NEW u \in QaActors, NEW score \in Scores,
             NEW critical \in BOOLEAN, QaSubmit(e, u, score, critical)
      PROVE  TablesOK'
  <2> DEFINE outcome == SubmitOutcome(evals[e].aiScore, score)
  <2>1. PICK assignee \in SubmitAssignees(outcome) :
          /\ evals' = [evals EXCEPT ![e] =
                         QaSubmitted(evals[e], score, critical, assignee)]
          /\ queue' = [queue EXCEPT ![e] = SubmittedQueue(outcome, assignee)]
    BY <1>2 DEF QaSubmit
  <2>2. assignee \in People
    BY Actors
  <2>3. QaSubmitted(evals[e], score, critical, assignee) \in Evaluation
    BY <2>2, SubmittedRow
  <2>4. SubmittedQueue(outcome, assignee) \in Rows
    BY <2>2, Outcomes, QueueRows DEF SubmittedQueue, Rows, QueueType, People
  <2>5. SubmittedConv(outcome) \in ConvStatus
    BY DEF SubmittedConv, ConvStatus
  <2>6. /\ conv' = [conv EXCEPT ![e] = SubmittedConv(outcome)]
        /\ audit' = audit
    BY <1>2 DEF QaSubmit
  <2>7. QED
    BY <2>1, <2>3, <2>4, <2>5, <2>6
<1>3. ASSUME NEW e \in Evals, NEW u \in VerifierActors, VerifierStart(e, u)
      PROVE  TablesOK'
  <2>1. VerifierStarted(evals[e], u) \in Evaluation
    BY <1>a, AssignedRows
  <2>2. UpsertQueue("VERIFIER_QUEUE", u) \in Rows
    BY <1>a, <1>b
  <2>3. QED
    BY <1>3, <2>1, <2>2 DEF VerifierStart
<1>4. ASSUME NEW e \in Evals, NEW u \in VerifierActors, VerifierApprove(e, u)
      PROVE  TablesOK'
  <2>1. Approved(evals[e]) \in Evaluation
    BY ApprovedRow
  <2>2. QED
    BY <1>b, <1>4, <2>1 DEF VerifierApprove, ConvStatus
<1>5. ASSUME NEW e \in Evals, NEW u \in VerifierActors, NEW score \in Scores,
             NEW critical \in BOOLEAN, VerifierModify(e, u, score, critical)
      PROVE  TablesOK'
  <2>1. Modified(evals[e], score, critical) \in Evaluation
    BY ModifiedRow
  <2>2. UpsertQueue("AUDIT_QUEUE", NoUser) \in Rows
    BY <1>b
  <2>3. QED
    BY <1>b, <1>5, <2>1, <2>2 DEF VerifierModify, ConvStatus, AuditStatus
<1>6. ASSUME NEW e \in Evals, NEW u \in VerifierActors, NEW commented \in BOOLEAN,
             VerifierReject(e, u, commented)
      PROVE  TablesOK'
  <2>1. Rejected(evals[e], commented) \in Evaluation
    BY RejectedRow
  <2>2. RejectedQueue(queue[e]) \in Rows
    BY <1>b, QueueRows
  <2>3. QED
    BY <1>6, <2>1, <2>2 DEF VerifierReject, ConvStatus
<1>7. ASSUME NEW e \in Evals, NEW status \in {"RESOLVED", "DISMISSED"},
             ResolveAuditCase(e, status)
      PROVE  TablesOK'
  <2>1. ResolvedQueue(queue[e]) \in Rows
    BY <1>b, QueueRows
  <2>2. QED
    BY <1>7, <2>1 DEF ResolveAuditCase, ConvStatus, AuditStatus
<1>8. ASSUME NEW e \in Evals, NEW target \in Users, ManualAssign(e, target)
      PROVE  TablesOK'
  <2>1. AssignedQa(evals[e], target) \in Evaluation
        /\ AssignedVerifier(evals[e], target) \in Evaluation
    BY AssignedRows
  <2>2. UpsertQueue("QA_QUEUE", target) \in Rows
        /\ UpsertQueue("VERIFIER_QUEUE", target) \in Rows
    BY <1>b
  <2>3. QED
    BY <1>8, <2>1, <2>2 DEF ManualAssign
<1>9. ASSUME NEW e \in Evals, NEW target \in Users, Reassign(e, target)
      PROVE  TablesOK'
  <2>1. Reassigned(evals[e], target) \in Evaluation
    BY AssignedRows
  <2>2. ReassignedQueue(queue[e], target) \in Rows
    BY <1>b, QueueRows
  <2>3. QED
    BY <1>9, <2>1, <2>2 DEF Reassign
<1>10. ASSUME NEW e \in Evals, RowTurnsStale(e)
       PROVE  TablesOK'
  BY <1>10 DEF RowTurnsStale, Rows, QueueRow
<1>11. ASSUME NEW queueType \in {"QA_QUEUE", "VERIFIER_QUEUE"},
              NEW batch \in SUBSET Unassigned(queueType),
              NEW deal \in [batch -> RoundRobinUsers(queueType)],
              RoundRobinAssign(queueType, batch, deal)
       PROVE  TablesOK'
  <2>1. \A e \in batch : /\ e \in Evals
                         /\ deal[e] \in Users
                         /\ queue[e] \in QueueRow
    BY Actors DEF Unassigned, Rows
  <2>2. \A e \in batch : RoundRobinRow(evals[e], queueType, deal[e]) \in Evaluation
    BY <2>1, AssignedRows DEF RoundRobinRow
  <2>3. \A e \in batch : [queue[e] EXCEPT !.assigned = deal[e]] \in Rows
    BY <2>1 DEF QueueRow, Rows
  <2>4. QED
    BY <1>11, <2>2, <2>3 DEF RoundRobinAssign
<1>12. ASSUME StaleScan
       PROVE  TablesOK'
  <2>1. \A e \in Evals : ScanEscalates(evals[e], queue[e]) => queue[e] \in QueueRow
    BY DEF ScanEscalates, Rows
  <2>2. \A row \in QueueRow : [row EXCEPT !.type = "ESCALATION_QUEUE"] \in QueueRow
    BY DEF QueueRow, QueueType
  <2>3. \A ev \in Evaluation : [ev EXCEPT !.escalated = TRUE] \in Evaluation
    BY DEF Evaluation
  <2>4. QED
    BY <1>12, <2>1, <2>2, <2>3 DEF StaleScan, Rows
<1>13. QED
  BY <1>1, <1>2, <1>3, <1>4, <1>5, <1>6, <1>7, <1>8, <1>9, <1>10, <1>11, <1>12
  DEF ReviewStep, HandlerStep

LEMMA TypeRequest ==
  ASSUME TablesOK, NEW e \in Evals, AiRequest(e)
  PROVE  TablesOK'
<1>1. RetriedAi(evals[e]) \in Evaluation /\ ReAudited \in Evaluation
  BY RetriedRow, FreshRows DEF TablesOK, ReAudited, WorkflowState, People
<1>2. CASE RetryAiFailed(e)
  BY <1>1, <1>2 DEF RetryAiFailed, TablesOK, Rows, ConvStatus
<1>3. CASE ReAuditAi(e)
  BY <1>1, <1>3 DEF ReAuditAi, TablesOK, Rows, ConvStatus, AuditStatus
<1>4. QED
  BY <1>2, <1>3 DEF AiRequest
=============================================================================
