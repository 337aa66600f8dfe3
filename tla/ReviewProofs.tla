---------------------------- MODULE ReviewProofs ----------------------------
(***************************************************************************)
(* EvaluationSystem and QueueViews, for every set of evaluations, users,   *)
(* workers and scores, every threshold and every bound.                    *)
(*                                                                         *)
(* First the types, which are inductive by themselves, and the safety      *)
(* invariants, which are proved together: none of them is inductive alone, *)
(* their conjunction (with TypeOK, and what a backfill has looked up) is.  *)
(* For each handler it is shown that it leaves the rows of one evaluation  *)
(* consistent when it finds them consistent; then that is lifted to the    *)
(* steps of the system.                                                    *)
(*                                                                         *)
(* Then what the review promises its users: the listings agree with the    *)
(* access check and the handlers, locks and claims hold, and the system    *)
(* implements the abstract workflow.                                       *)
(***************************************************************************)
EXTENDS QueueViews, ReviewRowsProofs

-----------------------------------------------------------------------------
(* Type correctness *)

LEMMA Assignees == QaAssignees \subseteq People
  BY DEF QaAssignees, QaActors, People, Users

LEMMA TypeInit == Init => TypeOK
<1> SUFFICES ASSUME Init PROVE TypeOK
  OBVIOUS
<1>1. NoEvaluation \in Evaluation /\ NewEvaluation("AI_FAILED", NoUser) \in Evaluation
  BY FreshRows DEF NoEvaluation, WorkflowState, People
<1>2. \A score \in LegacyScores :
        [NewEvaluation("QA_PENDING", NoUser) EXCEPT !.aiScore = score] \in Evaluation
  BY SystemAssumption, FreshRows
  DEF WorkflowState, People, Evaluation
<1>3. UpsertQueue("QA_QUEUE", NoUser) \in Rows /\ NoRow \in Rows
  BY QueueRows DEF QueueType, People, Rows
<1>4. Start \subseteq [row: Evaluation, status: ConvStatus, queueRow: Rows]
  BY <1>1, <1>2, <1>3 DEF Start, ConvStatus
<1>5. PICK start \in [Evals -> Start] :
        /\ evals = [e \in Evals |-> start[e].row]
        /\ conv = [e \in Evals |-> start[e].status]
        /\ queue = [e \in Evals |-> start[e].queueRow]
  BY DEF Init
<1>6. /\ evals \in [Evals -> Evaluation]
      /\ conv \in [Evals -> ConvStatus]
      /\ queue \in [Evals -> Rows]
  BY <1>4, <1>5
<1>7. QED
  BY <1>6 DEF Init, TypeOK, Rows, AuditStatus, Tx

\* The rows an evaluation enters the automatic stage or the QA stage with.
LEMMA EntryRows ==
  ASSUME NEW assignee \in QaAssignees
  PROVE  /\ NoEvaluation \in Evaluation
         /\ NewEvaluation("AI_PENDING", NoUser) \in Evaluation
         /\ NewEvaluation("QA_PENDING", NoUser) \in Evaluation
         /\ NewEvaluation(QaEntryState(assignee), assignee) \in Evaluation
         /\ UpsertQueue("QA_QUEUE", assignee) \in Rows
         /\ \A row \in Rows : UpsertQueueViaPool(row, "QA_QUEUE", assignee) \in Rows
         /\ \A ev \in Evaluation :
              /\ EnteredQa(ev, assignee) \in Evaluation
              /\ [ev EXCEPT !.state = QaEntryState(assignee), !.qaUser = assignee]
                   \in Evaluation
<1>1. assignee \in People /\ NoUser \in People
  BY Assignees DEF People
<1>2. QaEntryState(assignee) \in WorkflowState
  BY EntryStates
<1>3. /\ NoEvaluation \in Evaluation
      /\ NewEvaluation("AI_PENDING", NoUser) \in Evaluation
      /\ NewEvaluation("QA_PENDING", NoUser) \in Evaluation
      /\ NewEvaluation(QaEntryState(assignee), assignee) \in Evaluation
  BY <1>1, <1>2, FreshRows DEF NoEvaluation, WorkflowState
<1>4. /\ UpsertQueue("QA_QUEUE", assignee) \in Rows
      /\ \A row \in Rows : UpsertQueueViaPool(row, "QA_QUEUE", assignee) \in Rows
  BY <1>1, QueueRows DEF QueueType, Rows
<1>5. \A ev \in Evaluation :
        [ev EXCEPT !.state = QaEntryState(assignee), !.qaUser = assignee]
          \in Evaluation
  BY <1>1, <1>2 DEF Evaluation, People
<1>6. \A ev \in Evaluation : EnteredQa(ev, assignee) \in Evaluation
  BY <1>3, <1>5 DEF EnteredQa
<1>7. QED
  BY <1>3, <1>4, <1>5, <1>6

LEMMA TypeIntake ==
  ASSUME TypeOK, NEW e \in Evals, Intake(e)
  PROVE  TypeOK'
<1> DEFINE PipelineOK == /\ jobs \in [Evals -> Nat]
                         /\ toSend \in [Evals -> Nat]
                         /\ tx \in [Evals -> Tx]
                         /\ missing \in [Backfills -> Evals \cup {NoEval}]
                         /\ worker \in [Workers -> Evals \cup {NoEval}]
                         /\ crashes \in Nat
                         /\ failures \in Nat
<1>1. TablesOK /\ PipelineOK
  BY DEF TypeOK, TablesOK, Rows
<1>2. (TablesOK /\ PipelineOK)' => TypeOK'
  BY DEF TypeOK, TablesOK, Rows
<1>3. ASSUME NEW status \in ConvStatus, NEW row \in Evaluation, NEW queueRow \in Rows,
             Receive(e, status, row, queueRow)
      PROVE  TablesOK'
  BY <1>1, <1>3 DEF Receive, TablesOK
<1>4. /\ NoUser \in QaAssignees
      /\ NoRow \in Rows
      /\ {"PENDING", "QA_REVIEW", "EVALUATING"} \subseteq ConvStatus
  BY DEF QaAssignees, Rows, ConvStatus
<1>5. CASE IngestConversation(e)
  <2>1. TablesOK'
    BY <1>3, <1>4, <1>5, EntryRows DEF IngestConversation
  <2>2. QED
    BY <1>1, <1>2, <1>5, <2>1 DEF IngestConversation
<1>6. CASE ReceiveWithoutForm(e)
  <2>1. TablesOK'
    BY <1>3, <1>4, <1>6, EntryRows DEF ReceiveWithoutForm
  <2>2. QED
    BY <1>1, <1>2, <1>6, <2>1 DEF ReceiveWithoutForm, pipeline
<1>7. ASSUME NEW assignee \in QaAssignees, UploadToQa(e, assignee)
      PROVE  TypeOK'
  <2>1. TablesOK'
    BY <1>3, <1>4, <1>7, EntryRows DEF UploadToQa
  <2>2. QED
    BY <1>1, <1>2, <1>7, <2>1 DEF UploadToQa, pipeline
<1>8. CASE UploadSend(e)
  BY <1>1, <1>2, <1>8 DEF UploadSend, TablesOK, Tx
<1>9. CASE UploadSendFails(e)
  BY <1>1, <1>2, <1>9 DEF UploadSendFails, Failure, TablesOK, Tx
<1>10. CASE UploadCommit(e)
  <2>1. TablesOK'
    BY <1>3, <1>4, <1>10, EntryRows DEF UploadCommit
  <2>2. QED
    BY <1>1, <1>2, <1>10, <2>1 DEF UploadCommit, Tx
<1>11. CASE UploadAborts(e)
  BY <1>1, <1>2, <1>11 DEF UploadAborts, Failure, TablesOK, Tx
<1>12. CASE RequestAi(e)
  <2>1. TablesOK'
    BY <1>1, <1>12, TypeRequest DEF RequestAi
  <2>2. QED
    BY <1>1, <1>2, <1>12, <2>1 DEF RequestAi
<1>13. CASE SendJob(e)
  BY <1>1, <1>2, <1>13 DEF SendJob, TablesOK
<1>14. CASE SendFails(e)
  BY <1>1, <1>2, <1>14 DEF SendFails, Failure, TablesOK
<1>15. QED
  BY <1>5, <1>6, <1>7, <1>8, <1>9, <1>10, <1>11, <1>12, <1>13, <1>14 DEF Intake

LEMMA TypeBackfill ==
  ASSUME TypeOK, NEW b \in Backfills, Backfill(b)
  PROVE  TypeOK'
<1> USE DEF TypeOK, Rows
<1>1. ASSUME NEW e \in Evals, BackfillFinds(b, e)
      PROVE  TypeOK'
  BY <1>1 DEF BackfillFinds
<1>2. ASSUME NEW e \in Evals, NEW sent \in BOOLEAN, BackfillSend(b, e, sent)
      PROVE  TypeOK'
  <2>1. jobs' \in [Evals -> Nat] /\ failures' \in Nat
    BY <1>2 DEF BackfillSend, Failure
  <2>2. QED
    BY <1>2, <2>1 DEF BackfillSend, Tx
<1>3. ASSUME NEW llmEnabled \in BOOLEAN,
             NEW toQa \in SUBSET Evals, NEW bare \in SUBSET Evals,
             NEW assignee \in [toQa -> QaAssignees],
             BackfillCommit(b, llmEnabled, toQa, bare, assignee)
      PROVE  TypeOK'
  <2>1. \A e \in toQa : /\ EnteredQa(evals[e], assignee[e]) \in Evaluation
                        /\ UpsertQueueViaPool(queue[e], "QA_QUEUE", assignee[e]) \in Rows
    BY EntryRows
  <2>2. NewEvaluation("AI_PENDING", NoUser) \in Evaluation
        /\ NewEvaluation("QA_PENDING", NoUser) \in Evaluation
    BY EntryRows DEF QaAssignees
  <2>3. evals' \in [Evals -> Evaluation]
    BY <1>3, <2>1, <2>2 DEF BackfillCommit
  <2>4. queue' \in [Evals -> Rows]
    BY <1>3, <2>1 DEF BackfillCommit
  <2>5. conv' \in [Evals -> ConvStatus] /\ tx' \in [Evals -> Tx]
    BY <1>3 DEF BackfillCommit, ConvStatus, Tx
  <2>6. QED
    BY <1>3, <2>3, <2>4, <2>5 DEF BackfillCommit
<1>4. CASE BackfillAborts(b)
  BY <1>4 DEF BackfillAborts, RollBack, Failure, Tx
<1>5. CASE BackfillIsRefused(b)
  BY <1>5 DEF BackfillIsRefused, RollBack, Tx
<1>6. CASE BackfillDeadlocks(b)
  BY <1>6 DEF BackfillDeadlocks, RollBack, Tx
<1>7. QED
  <2> HIDE DEF TypeOK
  <2>1. QED
    BY <1>1, <1>2, <1>3, <1>4, <1>5, <1>6 DEF Backfill

LEMMA TypeWorker ==
  ASSUME TypeOK, NEW w \in Workers, Worker(w)
  PROVE  TypeOK'
<1> USE DEF TypeOK, Rows
<1>1. ASSUME NEW e \in Evals, WorkerClaim(w, e)
      PROVE  TypeOK'
  <2>1. [evals[e] EXCEPT !.state = "AI_IN_PROGRESS"] \in Evaluation
    BY ClaimedRow
  <2>2. QED
    BY <1>1, <2>1 DEF WorkerClaim, Deliver
<1>2. ASSUME NEW e \in Evals, WorkerSkip(w, e) \/ WorkerFindsNoConversation(w, e)
      PROVE  TypeOK'
  BY <1>2 DEF WorkerSkip, WorkerFindsNoConversation, Deliver
<1>3. ASSUME NEW e \in Evals, WorkerFailsEarly(w, e)
      PROVE  TypeOK'
  BY <1>3 DEF WorkerFailsEarly, Deliver, Failure
<1>4. ASSUME NEW assignee \in QaAssignees, WorkerRoute(w, assignee)
      PROVE  TypeOK'
  <2>1. worker[w] \in Evals
    BY <1>4 DEF WorkerRoute
  <2>2. [evals[worker[w]] EXCEPT !.state = QaEntryState(assignee), !.qaUser = assignee]
          \in Evaluation
        /\ UpsertQueueViaPool(queue[worker[w]], "QA_QUEUE", assignee) \in Rows
    BY <2>1, EntryRows
  <2>3. QED
    BY <1>4, <2>1, <2>2 DEF WorkerRoute, ConvStatus
<1>5. CASE WorkerFails(w)
  BY <1>5 DEF WorkerFails, Failure
<1>6. CASE WorkerCrashes(w)
  BY <1>6 DEF WorkerCrashes, Crash
<1>7. QED
  BY <1>1, <1>2, <1>3, <1>4, <1>5, <1>6 DEF Worker

LEMMA TypeStep == TypeOK /\ [Next]_vars => TypeOK'
<1> SUFFICES ASSUME TypeOK, [Next]_vars PROVE TypeOK'
  OBVIOUS
<1>1. CASE ReviewStep /\ UNCHANGED pipeline
  BY <1>1, TypeReview DEF TypeOK, TablesOK, Rows, pipeline
<1>2. ASSUME NEW e \in Evals, Intake(e)
      PROVE  TypeOK'
  BY <1>2, TypeIntake
<1>3. ASSUME NEW e \in Evals, JobIsDuplicated(e)
      PROVE  TypeOK'
  BY <1>3 DEF JobIsDuplicated, TypeOK
<1>4. ASSUME NEW b \in Backfills, Backfill(b)
      PROVE  TypeOK'
  BY <1>4, TypeBackfill
<1>5. ASSUME NEW w \in Workers, Worker(w)
      PROVE  TypeOK'
  BY <1>5, TypeWorker
<1>6. CASE UNCHANGED vars
  BY <1>6 DEF TypeOK, vars
<1>7. QED
  BY <1>1, <1>2, <1>3, <1>4, <1>5, <1>6 DEF Next

\* Every table and every variable of the pipeline holds rows of its type,
\* whatever the handlers, the workers and the scans do.
THEOREM TypeCorrect == Spec => []TypeOK
<1>1. Init => TypeOK
  BY TypeInit
<1>2. TypeOK /\ [Next]_vars => TypeOK'
  BY TypeStep
<1>3. QED
  BY <1>1, <1>2, PTL DEF Spec

-----------------------------------------------------------------------------
(* What is consistent *)

\* The row, queue row, conversation status, audit status and open insert of
\* one evaluation fit each other.
Consistent(ev, row, status, auditStatus, open) ==
  /\ OwnerAgrees(ev, row)
  /\ QueueFits(ev, row, status, auditStatus)
  /\ AuditFits(ev, row, status, auditStatus)
  /\ StatusFits(ev, status, auditStatus)
  /\ VerdictFits(ev)
  /\ SubmissionFits(ev)
  /\ InsertIsNew(ev, status, open)

RowsConsistent ==
  \A e \in Evals : Consistent(evals[e], queue[e], conv[e], audit[e], tx[e])

-----------------------------------------------------------------------------
(* One evaluation *)

\* What the conjuncts say of an evaluation in each stage.
LEMMA Stages ==
  ASSUME NEW ev \in Evaluation, NEW row \in Rows, NEW status \in ConvStatus,
         NEW auditStatus \in AuditStatus, NEW open \in Tx,
         Consistent(ev, row, status, auditStatus, open)
  PROVE  /\ ev.state \in QaAssignable =>
              /\ status \in {"PENDING", "QA_REVIEW"}
              /\ auditStatus = "NONE"
              /\ open = "none"
         /\ ev.state \in VerifierAssignable =>
              /\ status = "VERIFIER_REVIEW"
              /\ auditStatus = "NONE"
              /\ open = "none"
              /\ row # NoRow
         /\ ev.state \in AiStates =>
              /\ status \in {"PENDING", "EVALUATING", "FAILED"}
              /\ auditStatus = "NONE"
              /\ open = "none"
              /\ row = NoRow
         /\ ev.state = "NONE" =>
              status \in {"NONE", "PENDING"} /\ auditStatus = "NONE" /\ row = NoRow
         /\ ev.state = "LOCKED" =>
              /\ status \in {"COMPLETED", "AUDIT"}
              /\ open = "none"
<1> USE DEF Consistent, QueueFits, AuditFits, StatusFits, InsertIsNew, ConvStatus,
            AuditStatus, Tx, QaAssignable, VerifierAssignable, AiStates, AiClaimable
<1>1. ev.state \in WorkflowState
  BY DEF Evaluation
<1>2. row # NoRow => row.type \in QueueType
  BY DEF Rows, QueueRow
<1>3. CASE ev.state \in QaAssignable
  BY <1>3
<1>4. CASE ev.state \in VerifierAssignable
  BY <1>4
<1>5. CASE ev.state \in AiStates
  BY <1>2, <1>5 DEF QueueType
<1>6. CASE ev.state = "NONE"
  BY <1>2, <1>6 DEF QueueType
<1>7. CASE ev.state = "LOCKED"
  BY <1>7
<1>8. QED
  BY <1>1, <1>3, <1>4, <1>5, <1>6, <1>7 DEF WorkflowState

\* How a row that a handler leaves is consistent, stage by stage.
LEMMA QaRow ==
  ASSUME NEW ev, NEW row, NEW status \in {"PENDING", "QA_REVIEW"},
         ev.state \in QaAssignable,
         VerdictFits(ev), SubmissionFits(ev), OwnerAgrees(ev, row),
         IF row = NoRow
         THEN ev.state = "QA_PENDING" /\ status = "PENDING"
         ELSE row.type \in {"QA_QUEUE", "ESCALATION_QUEUE"}
  PROVE  Consistent(ev, row, status, "NONE", "none")
  BY SystemAssumption
  DEF Consistent, QueueFits, AuditFits, StatusFits, InsertIsNew, QaAssignable

LEMMA VerifierRow ==
  ASSUME NEW ev, NEW row,
         ev.state \in VerifierAssignable,
         VerdictFits(ev), SubmissionFits(ev), OwnerAgrees(ev, row),
         row # NoRow,
         row.type \in {"VERIFIER_QUEUE", "ESCALATION_QUEUE"}
  PROVE  Consistent(ev, row, "VERIFIER_REVIEW", "NONE", "none")
  BY SystemAssumption
  DEF Consistent, QueueFits, AuditFits, StatusFits, InsertIsNew, VerifierAssignable

LEMMA AiRow ==
  ASSUME NEW ev, NEW status \in {"PENDING", "EVALUATING", "FAILED"},
         ev.state \in AiStates, VerdictFits(ev), SubmissionFits(ev)
  PROVE  Consistent(ev, NoRow, status, "NONE", "none")
  BY SystemAssumption
  DEF Consistent, OwnerAgrees, QueueFits, AuditFits, StatusFits, InsertIsNew,
      AiStates, AiClaimable

LEMMA LockedRow ==
  ASSUME NEW ev, NEW row, NEW auditStatus \in AuditStatus,
         ev.state = "LOCKED", VerdictFits(ev), ev.verLayer = "final",
         IF row = NoRow THEN auditStatus # "OPEN"
                        ELSE row.type = "AUDIT_QUEUE" /\ auditStatus = "OPEN"
  PROVE  Consistent(ev, row, IF row = NoRow THEN "COMPLETED" ELSE "AUDIT",
                    auditStatus, "none")
  BY SystemAssumption
  DEF Consistent, OwnerAgrees, QueueFits, AuditFits, StatusFits, InsertIsNew,
      SubmissionFits, VerifierAssignable

LEMMA QaStartKeeps ==
  ASSUME NEW ev \in Evaluation, NEW row \in Rows, NEW status \in ConvStatus,
         NEW auditStatus \in AuditStatus, NEW open \in Tx, NEW u \in QaActors,
         Consistent(ev, row, status, auditStatus, open),
         MayQaStart(ev, u)
  PROVE  Consistent(QaStarted(ev, u), UpsertQueue("QA_QUEUE", u), status,
                    auditStatus, open)
<1> DEFINE new == QaStarted(ev, u)
           newRow == UpsertQueue("QA_QUEUE", u)
<1>1. new.state = "QA_IN_PROGRESS" /\ new.qaUser = u /\ u # NoUser
  BY UsersAssumption, Actors DEF QaStarted, Evaluation
<1>2. newRow # NoRow /\ newRow.type = "QA_QUEUE" /\ newRow.assigned = u
  BY NoRowAssumption, Actors, QueueRows DEF UpsertQueue, People, QueueType
<1>3. VerdictFits(new) /\ SubmissionFits(new)
  BY DEF Consistent, VerdictFits, SubmissionFits, MayQaStart, QaStarted, Evaluation,
         QaAssignable, VerifierAssignable
<1>4. OwnerAgrees(new, newRow)
  BY <1>1, <1>2 DEF OwnerAgrees
<1>5. /\ status \in {"PENDING", "QA_REVIEW"}
      /\ auditStatus = "NONE"
      /\ open = "none"
  BY Stages DEF MayQaStart
<1>6. QED
  BY <1>1, <1>2, <1>3, <1>4, <1>5, QaRow DEF QaAssignable

LEMMA QaSubmitKeeps ==
  ASSUME NEW ev \in Evaluation, NEW row \in Rows, NEW status \in ConvStatus,
         NEW auditStatus \in AuditStatus, NEW open \in Tx,
         NEW u \in QaActors, NEW score \in Scores, NEW critical \in BOOLEAN,
         Consistent(ev, row, status, auditStatus, open),
         MayQaSubmit(ev, u),
         NEW assignee \in SubmitAssignees(SubmitOutcome(ev.aiScore, score))
  PROVE  LET outcome == SubmitOutcome(ev.aiScore, score)
         IN  Consistent(QaSubmitted(ev, score, critical, assignee),
                        SubmittedQueue(outcome, assignee), SubmittedConv(outcome),
                        auditStatus, open)
<1> DEFINE outcome == SubmitOutcome(ev.aiScore, score)
           new == QaSubmitted(ev, score, critical, assignee)
           newRow == SubmittedQueue(outcome, assignee)
<1>1. auditStatus = "NONE" /\ open = "none"
  BY Stages DEF MayQaSubmit, QaAssignable
<1>2. ev.final = NoScore /\ ev.passFail = "none" /\ score # NoScore
  BY ScoresAssumption DEF Consistent, VerdictFits, MayQaSubmit
<1>3. outcome \in {"escalate", "verifier", "complete"} /\ assignee \in People
  BY Outcomes, Actors
<1>4. CASE outcome = "complete"
  <2>1. /\ new.state = "LOCKED" /\ new.final = score /\ new.verLayer = "final"
        /\ new.passFail = ScoredVerdict(score, critical)
    BY <1>4 DEF QaSubmitted, Evaluation
  <2>2. VerdictFits(new)
    BY <1>2, <2>1, Verdicts DEF VerdictFits
  <2>3. newRow = NoRow /\ SubmittedConv(outcome) = "COMPLETED"
    BY <1>4 DEF SubmittedQueue, SubmittedConv
  <2>4. QED
    BY <1>1, <2>1, <2>2, <2>3, LockedRow DEF AuditStatus
<1>5. CASE outcome # "complete"
  <2>1. /\ new.state = IF outcome = "verifier" /\ assignee # NoUser
                       THEN "VERIFIER_IN_PROGRESS" ELSE "QA_COMPLETED"
        /\ new.verUser = IF outcome = "verifier" /\ assignee # NoUser
                         THEN assignee ELSE ev.verUser
        /\ new.qaScore = score /\ new.verLayer = "none"
        /\ new.final = NoScore /\ new.passFail = "none"
    <3>1. CASE outcome = "escalate"
      BY <1>2, <3>1 DEF QaSubmitted, Evaluation
    <3>2. CASE outcome = "verifier" /\ assignee = NoUser
      BY <1>2, <3>2 DEF QaSubmitted, Evaluation
    <3>3. CASE outcome = "verifier" /\ assignee # NoUser
      BY <1>2, <3>3 DEF QaSubmitted, Evaluation
    <3>4. QED
      BY <1>3, <1>5, <3>1, <3>2, <3>3
  <2>2. VerdictFits(new) /\ SubmissionFits(new) /\ new.state \in VerifierAssignable
    BY <1>2, <2>1 DEF VerdictFits, SubmissionFits, VerifierAssignable
  <2>3. /\ newRow \in QueueRow
        /\ newRow.type = IF outcome = "escalate" THEN "ESCALATION_QUEUE"
                                                 ELSE "VERIFIER_QUEUE"
        /\ newRow.assigned = IF outcome = "escalate" THEN NoUser ELSE assignee
    BY <1>3, <1>5 DEF SubmittedQueue, UpsertQueue, QueueRow, QueueType, People
  <2>4. newRow # NoRow /\ newRow.type \in {"VERIFIER_QUEUE", "ESCALATION_QUEUE"}
    BY <2>3, NoRowAssumption
  <2>5. OwnerAgrees(new, newRow)
    BY <1>3, <1>5, <2>1, <2>3, <2>4 DEF OwnerAgrees
  <2>6. SubmittedConv(outcome) = "VERIFIER_REVIEW"
    BY <1>5 DEF SubmittedConv
  <2>7. QED
    BY <1>1, <2>2, <2>4, <2>5, <2>6, VerifierRow
<1>6. QED
  BY <1>4, <1>5

LEMMA VerifierStartKeeps ==
  ASSUME NEW ev \in Evaluation, NEW row \in Rows, NEW status \in ConvStatus,
         NEW auditStatus \in AuditStatus, NEW open \in Tx, NEW u \in VerifierActors,
         Consistent(ev, row, status, auditStatus, open),
         MayVerifierStart(ev)
  PROVE  Consistent(VerifierStarted(ev, u), UpsertQueue("VERIFIER_QUEUE", u), status,
                    auditStatus, open)
<1> DEFINE new == VerifierStarted(ev, u)
           newRow == UpsertQueue("VERIFIER_QUEUE", u)
<1>1. new.state = "VERIFIER_IN_PROGRESS" /\ new.verUser = u /\ u # NoUser
  BY UsersAssumption, Actors DEF VerifierStarted, Evaluation
<1>2. newRow # NoRow /\ newRow.type = "VERIFIER_QUEUE" /\ newRow.assigned = u
  BY NoRowAssumption, Actors, QueueRows DEF UpsertQueue, People, QueueType
<1>3. VerdictFits(new) /\ SubmissionFits(new)
  BY DEF Consistent, VerdictFits, SubmissionFits, MayVerifierStart, VerifierStarted,
         Evaluation, QaAssignable, VerifierAssignable
<1>4. OwnerAgrees(new, newRow)
  BY <1>1, <1>2 DEF OwnerAgrees
<1>5. status = "VERIFIER_REVIEW" /\ auditStatus = "NONE" /\ open = "none"
  BY Stages DEF MayVerifierStart, VerifierAssignable
<1>6. QED
  BY <1>1, <1>2, <1>3, <1>4, <1>5, VerifierRow DEF VerifierAssignable

LEMMA ApproveKeeps ==
  ASSUME NEW ev \in Evaluation, NEW row \in Rows, NEW status \in ConvStatus,
         NEW auditStatus \in AuditStatus, NEW open \in Tx, NEW u \in VerifierActors,
         Consistent(ev, row, status, auditStatus, open),
         MayVerify(ev, u)
  PROVE  Consistent(Approved(ev), NoRow, "COMPLETED", auditStatus, open)
<1>1. auditStatus = "NONE" /\ open = "none"
  BY Stages DEF MayVerify, VerifierAssignable
<1>2. ev.qaScore # NoScore
  BY DEF Consistent, SubmissionFits, MayVerify, VerifierAssignable
<1>3. /\ Approved(ev).state = "LOCKED" /\ Approved(ev).final = ev.qaScore
      /\ Approved(ev).passFail = Passes(ev.qaScore)
      /\ Approved(ev).verLayer = "final"
  BY <1>2 DEF Approved, Evaluation
<1>4. VerdictFits(Approved(ev))
  BY <1>2, <1>3, Verdicts DEF VerdictFits
<1>5. QED
  BY <1>1, <1>3, <1>4, LockedRow DEF AuditStatus

LEMMA ModifyKeeps ==
  ASSUME NEW ev \in Evaluation, NEW row \in Rows, NEW status \in ConvStatus,
         NEW auditStatus \in AuditStatus, NEW open \in Tx,
         NEW u \in VerifierActors, NEW score \in Scores, NEW critical \in BOOLEAN,
         NEW opens \in BOOLEAN,
         Consistent(ev, row, status, auditStatus, open),
         MayVerify(ev, u)
  PROVE  Consistent(Modified(ev, score, critical),
                    IF opens THEN UpsertQueue("AUDIT_QUEUE", NoUser) ELSE NoRow,
                    IF opens THEN "AUDIT" ELSE "COMPLETED",
                    IF opens THEN "OPEN" ELSE auditStatus, open)
<1> DEFINE new == Modified(ev, score, critical)
<1>1. auditStatus = "NONE" /\ open = "none"
  BY Stages DEF MayVerify, VerifierAssignable
<1>2. /\ new.state = "LOCKED" /\ new.final = score /\ new.verLayer = "final"
      /\ new.passFail = ScoredVerdict(score, critical)
  BY DEF Modified, Evaluation
<1>3. VerdictFits(new)
  BY <1>2, Verdicts, ScoresAssumption DEF VerdictFits
<1>4. /\ UpsertQueue("AUDIT_QUEUE", NoUser) # NoRow
      /\ UpsertQueue("AUDIT_QUEUE", NoUser).type = "AUDIT_QUEUE"
  BY QueueRows, NoRowAssumption DEF UpsertQueue, People, QueueType
<1>5. CASE opens
  <2>1. Consistent(new, UpsertQueue("AUDIT_QUEUE", NoUser), "AUDIT", "OPEN", "none")
    BY <1>2, <1>3, <1>4, LockedRow DEF AuditStatus
  <2>2. QED
    BY <1>1, <1>5, <2>1
<1>6. CASE ~opens
  <2>1. Consistent(new, NoRow, "COMPLETED", "NONE", "none")
    BY <1>2, <1>3, LockedRow DEF AuditStatus
  <2>2. QED
    BY <1>1, <1>6, <2>1
<1>7. QED
  BY <1>5, <1>6

LEMMA RejectKeeps ==
  ASSUME NEW ev \in Evaluation, NEW row \in Rows, NEW status \in ConvStatus,
         NEW auditStatus \in AuditStatus, NEW open \in Tx,
         NEW u \in VerifierActors, NEW commented \in BOOLEAN,
         Consistent(ev, row, status, auditStatus, open),
         MayVerify(ev, u)
  PROVE  Consistent(Rejected(ev, commented), RejectedQueue(row), "QA_REVIEW",
                    auditStatus, open)
<1> DEFINE new == Rejected(ev, commented)
           newRow == RejectedQueue(row)
<1>1. auditStatus = "NONE" /\ open = "none" /\ row # NoRow
  BY Stages DEF MayVerify, VerifierAssignable
<1>2. row \in QueueRow
  BY <1>1 DEF Rows
<1>3. newRow \in QueueRow /\ newRow.type = "QA_QUEUE" /\ newRow.assigned = NoUser
  BY <1>1, <1>2 DEF RejectedQueue, QueueRow, QueueType
<1>4. new.state = "QA_PENDING" /\ VerdictFits(new) /\ SubmissionFits(new)
  BY DEF Rejected, Consistent, VerdictFits, SubmissionFits, MayVerify, Evaluation,
         QaAssignable, VerifierAssignable
<1>5. OwnerAgrees(new, newRow) /\ newRow # NoRow
  BY <1>3, <1>4, NoRowAssumption DEF OwnerAgrees
<1>6. QED
  BY <1>1, <1>3, <1>4, <1>5, QaRow DEF QaAssignable

LEMMA ResolveKeeps ==
  ASSUME NEW ev \in Evaluation, NEW row \in Rows, NEW status \in ConvStatus,
         NEW open \in Tx, NEW newStatus \in {"RESOLVED", "DISMISSED"},
         Consistent(ev, row, status, "OPEN", open)
  PROVE  Consistent(ev, ResolvedQueue(row), "COMPLETED", newStatus, open)
<1>1. ev.state = "LOCKED" /\ ResolvedQueue(row) = NoRow
  BY DEF Consistent, AuditFits, ResolvedQueue
<1>2. open = "none"
  BY <1>1, Stages DEF AuditStatus
<1>3. VerdictFits(ev) /\ ev.verLayer = "final"
  BY <1>1 DEF Consistent, VerdictFits
<1>4. QED
  BY <1>1, <1>2, <1>3, LockedRow DEF AuditStatus

\* manual_assign, and round_robin_assign on a row of the queue it drains.
LEMMA AssignKeeps ==
  ASSUME NEW ev \in Evaluation, NEW row \in Rows, NEW status \in ConvStatus,
         NEW auditStatus \in AuditStatus, NEW open \in Tx, NEW u \in Users,
         Consistent(ev, row, status, auditStatus, open),
         NEW new \in {AssignedQa(ev, u), AssignedVerifier(ev, u),
                      QaStarted(ev, u), VerifierStarted(ev, u)},
         NEW newRow \in QueueRow, newRow.assigned = u
  PROVE  /\ /\ ev.state \in QaAssignable
            /\ new \in {AssignedQa(ev, u), QaStarted(ev, u)}
            /\ newRow.type = "QA_QUEUE"
            => Consistent(new, newRow, status, auditStatus, open)
         /\ /\ ev.state \in VerifierAssignable
            /\ new \in {AssignedVerifier(ev, u), VerifierStarted(ev, u)}
            /\ newRow.type = "VERIFIER_QUEUE"
            => Consistent(new, newRow, status, auditStatus, open)
<1>1. u # NoUser /\ newRow # NoRow
  BY UsersAssumption, NoRowAssumption
<1>2. ASSUME ev.state \in QaAssignable,
             new \in {AssignedQa(ev, u), QaStarted(ev, u)},
             newRow.type = "QA_QUEUE"
      PROVE  Consistent(new, newRow, status, auditStatus, open)
  <2>1. /\ new.state = "QA_IN_PROGRESS" /\ new.qaUser = u
        /\ new.final = ev.final /\ new.passFail = ev.passFail
        /\ new.verLayer = ev.verLayer
    BY <1>2 DEF AssignedQa, QaStarted, Evaluation
  <2>2. VerdictFits(new) /\ SubmissionFits(new) /\ OwnerAgrees(new, newRow)
    BY <1>1, <1>2, <2>1 DEF Consistent, VerdictFits, SubmissionFits, OwnerAgrees,
         QaAssignable, VerifierAssignable
  <2>3. status \in {"PENDING", "QA_REVIEW"} /\ auditStatus = "NONE" /\ open = "none"
    BY <1>2, Stages
  <2>4. QED
    BY <1>1, <1>2, <2>1, <2>2, <2>3, QaRow DEF QaAssignable
<1>3. ASSUME ev.state \in VerifierAssignable,
             new \in {AssignedVerifier(ev, u), VerifierStarted(ev, u)},
             newRow.type = "VERIFIER_QUEUE"
      PROVE  Consistent(new, newRow, status, auditStatus, open)
  <2>1. /\ new.state = "VERIFIER_IN_PROGRESS" /\ new.verUser = u
        /\ new.final = ev.final /\ new.passFail = ev.passFail
        /\ new.verLayer = ev.verLayer /\ new.qaScore = ev.qaScore
    BY <1>3 DEF AssignedVerifier, VerifierStarted, Evaluation
  <2>2. VerdictFits(new) /\ SubmissionFits(new) /\ OwnerAgrees(new, newRow)
    BY <1>1, <1>3, <2>1 DEF Consistent, VerdictFits, SubmissionFits, OwnerAgrees,
         QaAssignable, VerifierAssignable
  <2>3. status = "VERIFIER_REVIEW" /\ auditStatus = "NONE" /\ open = "none"
    BY <1>3, Stages
  <2>4. QED
    BY <1>1, <1>3, <2>1, <2>2, <2>3, VerifierRow DEF VerifierAssignable
<1>4. QED
  BY <1>2, <1>3

LEMMA ReassignKeeps ==
  ASSUME NEW ev \in Evaluation, NEW row \in Rows, NEW status \in ConvStatus,
         NEW auditStatus \in AuditStatus, NEW open \in Tx, NEW u \in Users,
         Consistent(ev, row, status, auditStatus, open),
         MayReassign(ev)
  PROVE  Consistent(Reassigned(ev, u), ReassignedQueue(row, u), status,
                    auditStatus, open)
<1> DEFINE new == Reassigned(ev, u)
           newRow == ReassignedQueue(row, u)
<1>1. u # NoUser /\ row \in QueueRow /\ row # NoRow
  BY UsersAssumption, NoRowAssumption
  DEF Rows, Consistent, OwnerAgrees, MayReassign, InProgress
<1>2. newRow \in QueueRow /\ newRow.type = row.type /\ newRow.assigned = u
  BY <1>1 DEF ReassignedQueue, QueueRow
<1>3. /\ new.state = ev.state /\ new.final = ev.final
      /\ new.passFail = ev.passFail /\ new.verLayer = ev.verLayer
      /\ new.qaScore = ev.qaScore
      /\ ev.state = "QA_IN_PROGRESS" => new.qaUser = u
      /\ ev.state = "VERIFIER_IN_PROGRESS" => new.verUser = u
  <2>1. CASE ev.state = "QA_IN_PROGRESS"
    BY <2>1 DEF Reassigned, Evaluation
  <2>2. CASE ev.state # "QA_IN_PROGRESS"
    BY <2>2 DEF Reassigned, Evaluation
  <2>3. QED
    BY <2>1, <2>2
<1>4. newRow # NoRow
  BY <1>2, NoRowAssumption
<1>5. OwnerAgrees(new, newRow)
  BY <1>1, <1>2, <1>3, <1>4 DEF OwnerAgrees, MayReassign, InProgress
<1>6. QueueFits(new, newRow, status, auditStatus)
  BY <1>1, <1>2, <1>3, <1>4 DEF Consistent, QueueFits
<1>7. AuditFits(new, newRow, status, auditStatus)
  BY <1>1, <1>2, <1>3, <1>4 DEF Consistent, AuditFits
<1>8. /\ StatusFits(new, status, auditStatus)
      /\ VerdictFits(new) /\ SubmissionFits(new)
      /\ InsertIsNew(new, status, open)
  BY <1>3 DEF Consistent, StatusFits, VerdictFits, SubmissionFits, InsertIsNew
<1>9. QED
  BY <1>5, <1>6, <1>7, <1>8 DEF Consistent

LEMMA RetryKeeps ==
  ASSUME NEW ev \in Evaluation, NEW row \in Rows, NEW status \in ConvStatus,
         NEW auditStatus \in AuditStatus, NEW open \in Tx,
         Consistent(ev, row, status, auditStatus, open),
         MayRetryAi(ev)
  PROVE  Consistent(RetriedAi(ev), NoRow, "PENDING", auditStatus, open)
<1>1. auditStatus = "NONE" /\ open = "none"
  BY Stages DEF MayRetryAi, AiStates, AiClaimable
<1>2. RetriedAi(ev).state = "AI_PENDING"
      /\ VerdictFits(RetriedAi(ev)) /\ SubmissionFits(RetriedAi(ev))
  BY DEF Consistent, VerdictFits, SubmissionFits, MayRetryAi, RetriedAi, Evaluation,
         QaAssignable, VerifierAssignable
<1>3. QED
  BY <1>1, <1>2, AiRow DEF AiStates, AiClaimable

LEMMA ReAuditKeeps ==
  ASSUME NEW ev \in Evaluation, NEW row \in Rows, NEW status \in ConvStatus,
         NEW auditStatus \in AuditStatus, NEW open \in Tx,
         Consistent(ev, row, status, auditStatus, open),
         MayReAudit(ev)
  PROVE  Consistent(ReAudited, NoRow, "PENDING", "NONE", open)
<1>1. open = "none"
  BY Stages DEF MayReAudit, Evaluation, WorkflowState, AiStates, AiClaimable,
                QaAssignable, VerifierAssignable
<1>2. ReAudited.state = "AI_PENDING" /\ VerdictFits(ReAudited)
      /\ SubmissionFits(ReAudited)
  BY DEF VerdictFits, SubmissionFits, ReAudited, NewEvaluation, VerifierAssignable
<1>3. QED
  BY <1>1, <1>2, AiRow DEF AiStates, AiClaimable

\* Age and escalation: the assignee stays, and the type fits or escalates.
LEMMA EscalationKeeps ==
  ASSUME NEW ev \in Evaluation, NEW row \in QueueRow, NEW status \in ConvStatus,
         NEW auditStatus \in AuditStatus, NEW open \in Tx,
         Consistent(ev, row, status, auditStatus, open)
  PROVE  /\ Consistent(ev, [row EXCEPT !.stale = TRUE], status, auditStatus, open)
         /\ row.type \in {"QA_QUEUE", "VERIFIER_QUEUE"} =>
              Consistent([ev EXCEPT !.escalated = TRUE],
                         [row EXCEPT !.type = "ESCALATION_QUEUE"],
                         status, auditStatus, open)
<1>1. ASSUME NEW new \in Evaluation, NEW newRow \in QueueRow,
             new.state = ev.state, new.qaUser = ev.qaUser, new.verUser = ev.verUser,
             new.final = ev.final, new.passFail = ev.passFail,
             new.verLayer = ev.verLayer, new.qaScore = ev.qaScore,
             newRow.assigned = row.assigned,
             \/ newRow.type = row.type
             \/ /\ row.type \in {"QA_QUEUE", "VERIFIER_QUEUE"}
                /\ newRow.type = "ESCALATION_QUEUE"
      PROVE  Consistent(new, newRow, status, auditStatus, open)
  <2>1. row # NoRow /\ newRow # NoRow
    BY NoRowAssumption
  <2>2. OwnerAgrees(new, newRow)
    BY <1>1, <2>1 DEF Consistent, OwnerAgrees
  <2>3. QueueFits(new, newRow, status, auditStatus)
    BY <1>1, <2>1 DEF Consistent, QueueFits
  <2>4. AuditFits(new, newRow, status, auditStatus)
    BY <1>1, <2>1 DEF Consistent, AuditFits
  <2>5. /\ StatusFits(new, status, auditStatus)
        /\ VerdictFits(new) /\ SubmissionFits(new)
        /\ InsertIsNew(new, status, open)
    BY <1>1 DEF Consistent, StatusFits, VerdictFits, SubmissionFits, InsertIsNew
  <2>6. QED
    BY <2>2, <2>3, <2>4, <2>5 DEF Consistent
<1>2. Consistent(ev, [row EXCEPT !.stale = TRUE], status, auditStatus, open)
  BY <1>1 DEF QueueRow
<1>3. ASSUME row.type \in {"QA_QUEUE", "VERIFIER_QUEUE"}
      PROVE  Consistent([ev EXCEPT !.escalated = TRUE],
                        [row EXCEPT !.type = "ESCALATION_QUEUE"],
                        status, auditStatus, open)
  <2>1. /\ [ev EXCEPT !.escalated = TRUE] \in Evaluation
        /\ [ev EXCEPT !.escalated = TRUE].state = ev.state
        /\ [ev EXCEPT !.escalated = TRUE].qaUser = ev.qaUser
        /\ [ev EXCEPT !.escalated = TRUE].verUser = ev.verUser
        /\ [ev EXCEPT !.escalated = TRUE].final = ev.final
        /\ [ev EXCEPT !.escalated = TRUE].passFail = ev.passFail
        /\ [ev EXCEPT !.escalated = TRUE].verLayer = ev.verLayer
        /\ [ev EXCEPT !.escalated = TRUE].qaScore = ev.qaScore
    BY DEF Evaluation
  <2>2. /\ [row EXCEPT !.type = "ESCALATION_QUEUE"] \in QueueRow
        /\ [row EXCEPT !.type = "ESCALATION_QUEUE"].type = "ESCALATION_QUEUE"
        /\ [row EXCEPT !.type = "ESCALATION_QUEUE"].assigned = row.assigned
    BY DEF QueueRow, QueueType
  <2>3. QED
    BY <1>1, <1>3, <2>1, <2>2
<1>4. QED
  BY <1>2, <1>3

\* The worker's claim.
LEMMA ClaimKeeps ==
  ASSUME NEW ev \in Evaluation, NEW row \in Rows, NEW status \in ConvStatus,
         NEW auditStatus \in AuditStatus, NEW open \in Tx,
         Consistent(ev, row, status, auditStatus, open),
         ev.state \in AiClaimable
  PROVE  Consistent([ev EXCEPT !.state = "AI_IN_PROGRESS"], row, status,
                    auditStatus, open)
<1> DEFINE new == [ev EXCEPT !.state = "AI_IN_PROGRESS"]
<1>1. new.state = "AI_IN_PROGRESS" /\ VerdictFits(new) /\ SubmissionFits(new)
  BY DEF Consistent, VerdictFits, SubmissionFits, Evaluation, AiClaimable,
         QaAssignable, VerifierAssignable
<1>2. /\ status \in {"PENDING", "EVALUATING", "FAILED"}
      /\ auditStatus = "NONE"
      /\ open = "none"
      /\ row = NoRow
  BY Stages DEF AiStates
<1>3. QED
  BY <1>1, <1>2, AiRow DEF AiStates

\* An automatic evaluation enters QA: the worker's routing, or the backfill.
LEMMA RouteKeeps ==
  ASSUME NEW ev \in Evaluation, NEW row \in Rows, NEW status \in ConvStatus,
         NEW auditStatus \in AuditStatus, NEW open \in Tx,
         NEW assignee \in QaAssignees,
         Consistent(ev, row, status, auditStatus, open),
         ev.state \in AiStates
  PROVE  Consistent([ev EXCEPT !.state = QaEntryState(assignee), !.qaUser = assignee],
                    UpsertQueueViaPool(row, "QA_QUEUE", assignee), "QA_REVIEW",
                    auditStatus, open)
<1> DEFINE new == [ev EXCEPT !.state = QaEntryState(assignee), !.qaUser = assignee]
           newRow == UpsertQueueViaPool(row, "QA_QUEUE", assignee)
<1>1. auditStatus = "NONE" /\ open = "none" /\ row = NoRow
  BY Stages
<1>2. /\ new.state = QaEntryState(assignee) /\ new.qaUser = assignee
      /\ new.final = ev.final /\ new.passFail = ev.passFail
      /\ new.verLayer = ev.verLayer
  BY DEF Evaluation
<1>3. newRow \in QueueRow /\ newRow.type = "QA_QUEUE" /\ newRow.assigned = assignee
  BY <1>1, Assignees DEF UpsertQueueViaPool, UpsertQueue, QueueRow, QueueType, People
<1>4. VerdictFits(new) /\ SubmissionFits(new) /\ new.state \in QaAssignable
  BY <1>2 DEF Consistent, VerdictFits, SubmissionFits, AiStates, AiClaimable,
              QaAssignable, VerifierAssignable, QaEntryState
<1>5. newRow # NoRow /\ OwnerAgrees(new, newRow)
  BY <1>2, <1>3, NoRowAssumption DEF OwnerAgrees, QaEntryState
<1>6. QED
  BY <1>1, <1>3, <1>4, <1>5, QaRow

\* The rows a conversation is received with, or backfilled with.
LEMMA FreshKeeps ==
  ASSUME NEW assignee \in QaAssignees
  PROVE  /\ Consistent(NoEvaluation, NoRow, "NONE", "NONE", "none")
         /\ Consistent(NoEvaluation, NoRow, "PENDING", "NONE", "none")
         /\ Consistent(NewEvaluation("AI_PENDING", NoUser), NoRow, "PENDING",
                       "NONE", "none")
         /\ Consistent(NewEvaluation("AI_PENDING", NoUser), NoRow, "EVALUATING",
                       "NONE", "none")
         /\ Consistent(NewEvaluation("QA_PENDING", NoUser), NoRow, "PENDING",
                       "NONE", "none")
         /\ Consistent(NewEvaluation(QaEntryState(assignee), assignee),
                       UpsertQueue("QA_QUEUE", assignee), "QA_REVIEW", "NONE", "none")
<1> USE DEF NewEvaluation
<1>1. /\ Consistent(NoEvaluation, NoRow, "NONE", "NONE", "none")
      /\ Consistent(NoEvaluation, NoRow, "PENDING", "NONE", "none")
  BY SystemAssumption
  DEF NoEvaluation, Consistent, OwnerAgrees, QueueFits, AuditFits, StatusFits,
      VerdictFits, SubmissionFits, InsertIsNew, VerifierAssignable
<1>2. \A status \in {"PENDING", "EVALUATING"} :
        Consistent(NewEvaluation("AI_PENDING", NoUser), NoRow, status, "NONE", "none")
  BY AiRow DEF AiStates, AiClaimable, VerdictFits, SubmissionFits, VerifierAssignable
<1>3. Consistent(NewEvaluation("QA_PENDING", NoUser), NoRow, "PENDING", "NONE", "none")
  BY QaRow DEF QaAssignable, VerdictFits, SubmissionFits, OwnerAgrees, VerifierAssignable
<1>4. Consistent(NewEvaluation(QaEntryState(assignee), assignee),
                 UpsertQueue("QA_QUEUE", assignee), "QA_REVIEW", "NONE", "none")
  <2> DEFINE new == NewEvaluation(QaEntryState(assignee), assignee)
             newRow == UpsertQueue("QA_QUEUE", assignee)
  <2>1. newRow \in QueueRow /\ newRow.type = "QA_QUEUE" /\ newRow.assigned = assignee
    BY Assignees DEF UpsertQueue, QueueRow, QueueType, People
  <2>2. new.state \in QaAssignable /\ VerdictFits(new) /\ SubmissionFits(new)
    BY DEF QaAssignable, QaEntryState, VerdictFits, SubmissionFits, VerifierAssignable
  <2>3. newRow # NoRow /\ OwnerAgrees(new, newRow)
    BY <2>1, NoRowAssumption DEF OwnerAgrees, QaEntryState
  <2>4. QED
    BY <2>1, <2>2, <2>3, QaRow
<1>5. QED
  BY <1>1, <1>2, <1>3, <1>4

-----------------------------------------------------------------------------
(* The steps of the system *)

\* No step but a worker's takes an evaluation out of AI_IN_PROGRESS.
KeepsClaims ==
  \A e \in Evals :
    evals[e].state = "AI_IN_PROGRESS" => evals'[e].state = "AI_IN_PROGRESS"

\* No step takes a conversation away.
KeepsConversations == \A e \in Evals : conv[e] # "NONE" => conv'[e] # "NONE"

\* What a backfill has looked for is the evaluation of a conversation.
LookUpsAreReceived ==
  \A b \in Backfills : missing[b] # NoEval => conv[missing[b]] # "NONE"

RowsTyped == TablesOK /\ tx \in [Evals -> Tx]

\* A step that touches the rows of one evaluation only.
LEMMA OneRow ==
  ASSUME RowsConsistent, NEW e \in Evals,
         \A d \in Evals \ {e} :
           /\ evals'[d] = evals[d] /\ queue'[d] = queue[d]
           /\ conv'[d] = conv[d] /\ audit'[d] = audit[d] /\ tx'[d] = tx[d],
         Consistent(evals'[e], queue'[e], conv'[e], audit'[e], tx'[e]),
         evals'[e] = evals[e] \/ evals[e].state # "AI_IN_PROGRESS",
         conv'[e] = conv[e] \/ conv'[e] # "NONE"
  PROVE  RowsConsistent' /\ KeepsClaims /\ KeepsConversations
  BY DEF RowsConsistent, KeepsClaims, KeepsConversations

LEMMA ReviewKeeps ==
  ASSUME RowsTyped, RowsConsistent, ReviewStep, UNCHANGED tx
  PROVE  RowsConsistent' /\ KeepsClaims /\ KeepsConversations
<1> USE DEF RowsTyped, TablesOK
<1>0. \A e \in Evals : Consistent(evals[e], queue[e], conv[e], audit[e], tx[e])
  BY DEF RowsConsistent
<1>1. ASSUME NEW e \in Evals, NEW u \in QaActors, QaStart(e, u)
      PROVE  RowsConsistent' /\ KeepsClaims /\ KeepsConversations
  <2>1. Consistent(QaStarted(evals[e], u), UpsertQueue("QA_QUEUE", u), conv[e],
                   audit[e], tx[e])
    BY <1>0, <1>1, QaStartKeeps DEF QaStart
  <2>2. evals[e].state # "AI_IN_PROGRESS"
    BY <1>1 DEF QaStart, MayQaStart, QaAssignable
  <2>3. QED
    BY <1>1, <2>1, <2>2, OneRow DEF QaStart
<1>2. ASSUME NEW e \in Evals, NEW u \in QaActors, NEW score \in Scores,
             NEW critical \in BOOLEAN, QaSubmit(e, u, score, critical)
      PROVE  RowsConsistent' /\ KeepsClaims /\ KeepsConversations
  <2> DEFINE outcome == SubmitOutcome(evals[e].aiScore, score)
  <2>1. PICK assignee \in SubmitAssignees(outcome) :
          /\ evals' = [evals EXCEPT ![e] =
                         QaSubmitted(evals[e], score, critical, assignee)]
          /\ queue' = [queue EXCEPT ![e] = SubmittedQueue(outcome, assignee)]
    BY <1>2 DEF QaSubmit
  <2>2. Consistent(QaSubmitted(evals[e], score, critical, assignee),
                   SubmittedQueue(outcome, assignee), SubmittedConv(outcome),
                   audit[e], tx[e])
    BY <1>0, <1>2, QaSubmitKeeps DEF QaSubmit
  <2>3. evals[e].state # "AI_IN_PROGRESS"
    BY <1>2 DEF QaSubmit, MayQaSubmit
  <2>4. conv' = [conv EXCEPT ![e] = SubmittedConv(outcome)] /\ UNCHANGED <<audit, tx>>
    BY <1>2 DEF QaSubmit
  <2>5. SubmittedConv(outcome) # "NONE"
    BY DEF SubmittedConv
  <2> HIDE DEF outcome
  <2>6. QED
    BY <2>1, <2>2, <2>3, <2>4, <2>5, OneRow
<1>3. ASSUME NEW e \in Evals, NEW u \in VerifierActors, VerifierStart(e, u)
      PROVE  RowsConsistent' /\ KeepsClaims /\ KeepsConversations
  <2>1. Consistent(VerifierStarted(evals[e], u), UpsertQueue("VERIFIER_QUEUE", u),
                   conv[e], audit[e], tx[e])
    BY <1>0, <1>3, VerifierStartKeeps DEF VerifierStart
  <2>2. evals[e].state # "AI_IN_PROGRESS"
    BY <1>3 DEF VerifierStart, MayVerifierStart
  <2>3. QED
    BY <1>3, <2>1, <2>2, OneRow DEF VerifierStart
<1>4. ASSUME NEW e \in Evals, NEW u \in VerifierActors, VerifierApprove(e, u)
      PROVE  RowsConsistent' /\ KeepsClaims /\ KeepsConversations
  <2>1. Consistent(Approved(evals[e]), NoRow, "COMPLETED", audit[e], tx[e])
    BY <1>0, <1>4, ApproveKeeps DEF VerifierApprove
  <2>2. evals[e].state # "AI_IN_PROGRESS"
    BY <1>4 DEF VerifierApprove, MayVerify
  <2>3. QED
    BY <1>4, <2>1, <2>2, OneRow DEF VerifierApprove
<1>5. ASSUME NEW e \in Evals, NEW u \in VerifierActors, NEW score \in Scores,
             NEW critical \in BOOLEAN, VerifierModify(e, u, score, critical)
      PROVE  RowsConsistent' /\ KeepsClaims /\ KeepsConversations
  <2> DEFINE opens == OpensAudit(evals[e].qaScore, score)
  <2>1. opens \in BOOLEAN
    BY DEF OpensAudit
  <2>2. Consistent(Modified(evals[e], score, critical),
                   IF opens THEN UpsertQueue("AUDIT_QUEUE", NoUser) ELSE NoRow,
                   IF opens THEN "AUDIT" ELSE "COMPLETED",
                   IF opens THEN "OPEN" ELSE audit[e], tx[e])
    BY <1>0, <1>5, <2>1, ModifyKeeps DEF VerifierModify
  <2>3. evals[e].state # "AI_IN_PROGRESS"
    BY <1>5 DEF VerifierModify, MayVerify
  <2>4. /\ evals' = [evals EXCEPT ![e] = Modified(evals[e], score, critical)]
        /\ queue' = [queue EXCEPT ![e] =
                       IF opens THEN UpsertQueue("AUDIT_QUEUE", NoUser) ELSE NoRow]
        /\ audit' = [audit EXCEPT ![e] = IF opens THEN "OPEN" ELSE audit[e]]
        /\ conv' = [conv EXCEPT ![e] = IF opens THEN "AUDIT" ELSE "COMPLETED"]
    BY <1>5 DEF VerifierModify
  <2> HIDE DEF opens
  <2>5. QED
    BY <2>2, <2>3, <2>4, OneRow
<1>6. ASSUME NEW e \in Evals, NEW u \in VerifierActors, NEW commented \in BOOLEAN,
             VerifierReject(e, u, commented)
      PROVE  RowsConsistent' /\ KeepsClaims /\ KeepsConversations
  <2>1. Consistent(Rejected(evals[e], commented), RejectedQueue(queue[e]), "QA_REVIEW",
                   audit[e], tx[e])
    BY <1>0, <1>6, RejectKeeps DEF VerifierReject
  <2>2. evals[e].state # "AI_IN_PROGRESS"
    BY <1>6 DEF VerifierReject, MayVerify
  <2>3. QED
    BY <1>6, <2>1, <2>2, OneRow DEF VerifierReject
<1>7. ASSUME NEW e \in Evals, NEW status \in {"RESOLVED", "DISMISSED"},
             ResolveAuditCase(e, status)
      PROVE  RowsConsistent' /\ KeepsClaims /\ KeepsConversations
  <2>1. Consistent(evals[e], ResolvedQueue(queue[e]), "COMPLETED", status, tx[e])
    BY <1>0, <1>7, ResolveKeeps DEF ResolveAuditCase
  <2>2. QED
    BY <1>7, <2>1, OneRow DEF ResolveAuditCase
<1>8. ASSUME NEW e \in Evals, NEW target \in Users, ManualAssign(e, target)
      PROVE  RowsConsistent' /\ KeepsClaims /\ KeepsConversations
  <2>1. \A type \in {"QA_QUEUE", "VERIFIER_QUEUE"} :
          /\ UpsertQueue(type, target) \in QueueRow
          /\ UpsertQueue(type, target).assigned = target
          /\ UpsertQueue(type, target).type = type
    BY DEF UpsertQueue, QueueRow, QueueType
  <2>2. CASE /\ MayAssignQa(evals[e], target)
             /\ evals' = [evals EXCEPT ![e] = AssignedQa(@, target)]
             /\ queue' = [queue EXCEPT ![e] = UpsertQueue("QA_QUEUE", target)]
    <3>1. Consistent(AssignedQa(evals[e], target), UpsertQueue("QA_QUEUE", target),
                     conv[e], audit[e], tx[e])
      BY <1>0, <2>1, <2>2, AssignKeeps DEF MayAssignQa
    <3>2. evals[e].state # "AI_IN_PROGRESS"
      BY <2>2 DEF MayAssignQa, QaAssignable
    <3>3. QED
      BY <1>8, <2>2, <3>1, <3>2, OneRow DEF ManualAssign
  <2>3. CASE /\ MayAssignVerifier(evals[e], target)
             /\ evals' = [evals EXCEPT ![e] = AssignedVerifier(@, target)]
             /\ queue' = [queue EXCEPT ![e] = UpsertQueue("VERIFIER_QUEUE", target)]
    <3>1. Consistent(AssignedVerifier(evals[e], target),
                     UpsertQueue("VERIFIER_QUEUE", target), conv[e], audit[e], tx[e])
      BY <1>0, <2>1, <2>3, AssignKeeps DEF MayAssignVerifier
    <3>2. evals[e].state # "AI_IN_PROGRESS"
      BY <2>3 DEF MayAssignVerifier, VerifierAssignable
    <3>3. QED
      BY <1>8, <2>3, <3>1, <3>2, OneRow DEF ManualAssign
  <2>4. QED
    BY <1>8, <2>2, <2>3 DEF ManualAssign
<1>9. ASSUME NEW e \in Evals, NEW target \in Users, Reassign(e, target)
      PROVE  RowsConsistent' /\ KeepsClaims /\ KeepsConversations
  <2>1. Consistent(Reassigned(evals[e], target), ReassignedQueue(queue[e], target),
                   conv[e], audit[e], tx[e])
    BY <1>0, <1>9, ReassignKeeps DEF Reassign
  <2>2. evals[e].state # "AI_IN_PROGRESS"
    BY <1>9 DEF Reassign, MayReassign, InProgress
  <2>3. QED
    BY <1>9, <2>1, <2>2, OneRow DEF Reassign
<1>10. ASSUME NEW e \in Evals, RowTurnsStale(e)
       PROVE  RowsConsistent' /\ KeepsClaims /\ KeepsConversations
  <2>1. queue[e] \in QueueRow
    BY <1>10 DEF RowTurnsStale, Rows
  <2>2. Consistent(evals[e], [queue[e] EXCEPT !.stale = TRUE], conv[e], audit[e], tx[e])
    BY <1>0, <2>1, EscalationKeeps
  <2>3. QED
    BY <1>10, <2>2, OneRow DEF RowTurnsStale
<1>11. ASSUME NEW queueType \in {"QA_QUEUE", "VERIFIER_QUEUE"},
              NEW batch \in SUBSET Unassigned(queueType),
              NEW deal \in [batch -> RoundRobinUsers(queueType)],
              RoundRobinAssign(queueType, batch, deal)
       PROVE  RowsConsistent' /\ KeepsClaims /\ KeepsConversations
  <2>1. ASSUME NEW e \in batch
        PROVE  /\ Consistent(RoundRobinRow(evals[e], queueType, deal[e]),
                             [queue[e] EXCEPT !.assigned = deal[e]],
                             conv[e], audit[e], tx[e])
               /\ evals[e].state # "AI_IN_PROGRESS"
    <3>1. /\ e \in Evals /\ deal[e] \in Users
          /\ queue[e] \in QueueRow /\ queue[e].type = queueType /\ queue[e] # NoRow
      BY Actors DEF Unassigned, Rows
    <3>2. /\ [queue[e] EXCEPT !.assigned = deal[e]] \in QueueRow
          /\ [queue[e] EXCEPT !.assigned = deal[e]].assigned = deal[e]
          /\ [queue[e] EXCEPT !.assigned = deal[e]].type = queueType
      BY <3>1 DEF QueueRow
    <3>3. QueueFits(evals[e], queue[e], conv[e], audit[e])
      BY <1>0, <3>1 DEF Consistent
    <3>4. CASE queueType = "QA_QUEUE"
      <4>1. evals[e].state \in QaAssignable
        BY <3>1, <3>3, <3>4 DEF QueueFits
      <4>2. RoundRobinRow(evals[e], queueType, deal[e]) = QaStarted(evals[e], deal[e])
        BY <3>4 DEF RoundRobinRow
      <4>3. QED
        <5> DEFINE newRow == [queue[e] EXCEPT !.assigned = deal[e]]
        <5>1. newRow \in QueueRow /\ newRow.assigned = deal[e]
              /\ newRow.type = "QA_QUEUE"
          BY <3>2, <3>4
        <5> HIDE DEF newRow
        <5>2. Consistent(QaStarted(evals[e], deal[e]), newRow, conv[e], audit[e], tx[e])
          BY <1>0, <3>1, <4>1, <5>1, AssignKeeps
        <5>3. QED
          BY <4>1, <4>2, <5>2 DEF QaAssignable, newRow
    <3>5. CASE queueType = "VERIFIER_QUEUE"
      <4>1. evals[e].state \in VerifierAssignable
        BY <3>1, <3>3, <3>5 DEF QueueFits
      <4>2. RoundRobinRow(evals[e], queueType, deal[e])
              = VerifierStarted(evals[e], deal[e])
        BY <3>5 DEF RoundRobinRow
      <4>3. QED
        <5> DEFINE newRow == [queue[e] EXCEPT !.assigned = deal[e]]
        <5>1. newRow \in QueueRow /\ newRow.assigned = deal[e]
              /\ newRow.type = "VERIFIER_QUEUE"
          BY <3>2, <3>5
        <5> HIDE DEF newRow
        <5>2. Consistent(VerifierStarted(evals[e], deal[e]), newRow, conv[e], audit[e],
                         tx[e])
          BY <1>0, <3>1, <4>1, <5>1, AssignKeeps
        <5>3. QED
          BY <4>1, <4>2, <5>2 DEF VerifierAssignable, newRow
    <3>6. QED
      BY <3>4, <3>5
  <2>2. ASSUME NEW e \in Evals
        PROVE  /\ Consistent(evals'[e], queue'[e], conv'[e], audit'[e], tx'[e])
               /\ evals'[e] = evals[e] \/ evals[e].state # "AI_IN_PROGRESS"
    BY <1>0, <1>11, <2>1 DEF RoundRobinAssign
  <2>3. QED
    BY <1>11, <2>2
    DEF RoundRobinAssign, RowsConsistent, KeepsClaims, KeepsConversations
<1>12. ASSUME StaleScan
       PROVE  RowsConsistent' /\ KeepsClaims /\ KeepsConversations
  <2>1. ASSUME NEW e \in Evals, ScanEscalates(evals[e], queue[e])
        PROVE  Consistent([evals[e] EXCEPT !.escalated = TRUE],
                          [queue[e] EXCEPT !.type = "ESCALATION_QUEUE"],
                          conv[e], audit[e], tx[e])
    <3>1. queue[e] \in QueueRow /\ queue[e].type \in {"QA_QUEUE", "VERIFIER_QUEUE"}
      BY <2>1 DEF ScanEscalates, Rows
    <3>2. QED
      BY <1>0, <3>1, EscalationKeeps
  <2>2. \A e \in Evals : [evals[e] EXCEPT !.escalated = TRUE].state = evals[e].state
    BY DEF Evaluation
  <2>3. ASSUME NEW e \in Evals
        PROVE  /\ Consistent(evals'[e], queue'[e], conv'[e], audit'[e], tx'[e])
               /\ evals'[e].state = evals[e].state
    BY <1>0, <1>12, <2>1, <2>2 DEF StaleScan
  <2>4. QED
    BY <1>12, <2>3
    DEF StaleScan, RowsConsistent, KeepsClaims, KeepsConversations
<1>13. QED
  BY <1>1, <1>2, <1>3, <1>4, <1>5, <1>6, <1>7, <1>8, <1>9, <1>10, <1>11, <1>12
  DEF ReviewStep, HandlerStep

LEMMA RequestKeeps ==
  ASSUME RowsTyped, RowsConsistent, NEW e \in Evals, AiRequest(e), UNCHANGED tx
  PROVE  RowsConsistent' /\ KeepsClaims /\ KeepsConversations
<1> USE DEF RowsTyped, TablesOK
<1>0. Consistent(evals[e], queue[e], conv[e], audit[e], tx[e])
  BY DEF RowsConsistent
<1>1. CASE RetryAiFailed(e)
  <2>1. Consistent(RetriedAi(evals[e]), NoRow, "PENDING", audit[e], tx[e])
    BY <1>0, <1>1, RetryKeeps DEF RetryAiFailed
  <2>2. evals[e].state # "AI_IN_PROGRESS"
    BY <1>1 DEF RetryAiFailed, MayRetryAi
  <2>3. QED
    BY <1>1, <2>1, <2>2, OneRow DEF RetryAiFailed
<1>2. CASE ReAuditAi(e)
  <2>1. Consistent(ReAudited, NoRow, "PENDING", "NONE", tx[e])
    BY <1>0, <1>2, ReAuditKeeps DEF ReAuditAi
  <2>2. evals[e].state # "AI_IN_PROGRESS"
    BY <1>2 DEF ReAuditAi, MayReAudit
  <2>3. QED
    BY <1>2, <2>1, <2>2, OneRow DEF ReAuditAi
<1>3. QED
  BY <1>1, <1>2 DEF AiRequest

LEMMA IntakeKeeps ==
  ASSUME RowsTyped, RowsConsistent, NEW e \in Evals, Intake(e)
  PROVE  RowsConsistent' /\ KeepsClaims /\ KeepsConversations
<1> USE DEF RowsTyped, TablesOK
<1>0. Consistent(evals[e], queue[e], conv[e], audit[e], tx[e])
  BY DEF RowsConsistent
<1>1. conv[e] = "NONE" =>
        /\ evals[e].state = "NONE" /\ audit[e] = "NONE" /\ queue[e] = NoRow
  <2>1. conv[e] = "NONE" => evals[e].state = "NONE"
    BY <1>0 DEF Consistent, StatusFits
  <2>2. QED
    BY <1>0, <2>1, Stages
<1>2. \A d \in Evals : Consistent(evals[d], queue[d], conv[d], audit[d], tx[d])
  BY DEF RowsConsistent
\* A new conversation arrives, with rows that fit each other.
<1>3. ASSUME NEW status, NEW row, NEW queueRow, conv[e] = "NONE", status # "NONE",
             Receive(e, status, row, queueRow),
             Consistent(row, queueRow, status, "NONE", "none"),
             tx' = [tx EXCEPT ![e] = "none"]
      PROVE  RowsConsistent' /\ KeepsClaims /\ KeepsConversations
  <2>1. Consistent(evals'[e], queue'[e], conv'[e], audit'[e], tx'[e])
    BY <1>1, <1>3 DEF Receive
  <2>2. QED
    BY <1>1, <1>3, <2>1, OneRow DEF Receive
<1>4. NotReceived(e) /\ UNCHANGED tx => conv[e] = "NONE" /\ tx' = [tx EXCEPT ![e] = "none"]
  BY DEF NotReceived
<1>5. NoUser \in QaAssignees
  BY DEF QaAssignees
<1>6. CASE IngestConversation(e)
  BY <1>3, <1>4, <1>5, <1>6, FreshKeeps DEF IngestConversation
<1>7. CASE ReceiveWithoutForm(e)
  BY <1>3, <1>4, <1>5, <1>7, FreshKeeps DEF ReceiveWithoutForm, pipeline
<1>8. ASSUME NEW assignee \in QaAssignees, UploadToQa(e, assignee)
      PROVE  RowsConsistent' /\ KeepsClaims /\ KeepsConversations
  BY <1>3, <1>4, <1>8, FreshKeeps DEF UploadToQa, pipeline
<1>9. CASE UploadCommit(e)
  <2>1. conv[e] = "NONE"
    BY <1>0, <1>9 DEF UploadCommit, Consistent, InsertIsNew
  <2>2. QED
    BY <1>3, <1>5, <1>9, <2>1, FreshKeeps DEF UploadCommit
\* An insert begins or is given up.
<1>10. CASE UploadSend(e) \/ UploadSendFails(e)
  <2>1. Consistent(evals[e], queue[e], conv[e], audit[e], "upload")
    BY <1>0, <1>10, SystemAssumption
    DEF UploadSend, UploadSendFails, NotReceived, Consistent, InsertIsNew
  <2>2. tx' = [tx EXCEPT ![e] = "upload"] /\ UNCHANGED tables
    BY <1>10 DEF UploadSend, UploadSendFails, tables
  <2>3. QED
    BY <2>1, <2>2, OneRow DEF tables
<1>11. CASE UploadAborts(e)
  <2>1. Consistent(evals[e], queue[e], conv[e], audit[e], "none")
    BY <1>0, SystemAssumption DEF Consistent, InsertIsNew
  <2>2. tx' = [tx EXCEPT ![e] = "none"] /\ UNCHANGED tables
    BY <1>11 DEF UploadAborts, tables
  <2>3. QED
    BY <2>1, <2>2, OneRow DEF tables
<1>12. CASE RequestAi(e)
  BY <1>12, RequestKeeps DEF RequestAi
<1>13. CASE SendJob(e) \/ SendFails(e)
  BY <1>2, <1>13 DEF SendJob, SendFails, RowsConsistent, KeepsClaims,
                     KeepsConversations
<1>14. QED
  BY <1>6, <1>7, <1>8, <1>9, <1>10, <1>11, <1>12, <1>13 DEF Intake

LEMMA BackfillKeeps ==
  ASSUME RowsTyped, RowsConsistent, LookUpsAreReceived,
         NEW b \in Backfills, Backfill(b)
  PROVE  RowsConsistent' /\ KeepsClaims /\ KeepsConversations
<1> USE DEF RowsTyped, TablesOK
<1>0. \A e \in Evals : Consistent(evals[e], queue[e], conv[e], audit[e], tx[e])
  BY DEF RowsConsistent
<1>1. ASSUME NEW e \in Evals, BackfillFinds(b, e)
      PROVE  RowsConsistent' /\ KeepsClaims /\ KeepsConversations
  BY <1>0, <1>1 DEF BackfillFinds, RowsConsistent, KeepsClaims, KeepsConversations
<1>2. ASSUME NEW e \in Evals, NEW sent \in BOOLEAN, BackfillSend(b, e, sent)
      PROVE  RowsConsistent' /\ KeepsClaims /\ KeepsConversations
  \* A conversation without an evaluation is still pending.
  <2>1. evals[e].state = "NONE" /\ conv[e] = "PENDING"
    <3>1. evals[e].state = "NONE" /\ conv[e] # "NONE"
      BY <1>2, SystemAssumption DEF BackfillSend, LookUpsAreReceived
    <3>2. QED
      BY <1>0, <3>1, Stages
  <2>2. Consistent(evals[e], queue[e], conv[e], audit[e], b)
    BY <1>0, <2>1, SystemAssumption DEF Consistent, InsertIsNew
  <2>3. tx' = [tx EXCEPT ![e] = b] /\ UNCHANGED tables
    BY <1>2 DEF BackfillSend, tables
  <2>4. QED
    BY <2>2, <2>3, OneRow DEF tables
<1>3. ASSUME NEW llmEnabled \in BOOLEAN,
             NEW toQa \in SUBSET Evals, NEW bare \in SUBSET Evals,
             NEW assignee \in [toQa -> QaAssignees],
             BackfillCommit(b, llmEnabled, toQa, bare, assignee)
      PROVE  RowsConsistent' /\ KeepsClaims /\ KeepsConversations
  <2>1. ASSUME NEW e \in Evals, conv[e] = "PENDING", evals[e].state = "NONE"
        PROVE  audit[e] = "NONE" /\ queue[e] = NoRow
    BY <1>0, <2>1, Stages
  <2>2. ASSUME NEW e \in toQa
        PROVE  /\ Consistent(EnteredQa(evals[e], assignee[e]),
                             UpsertQueueViaPool(queue[e], "QA_QUEUE", assignee[e]),
                             "QA_REVIEW", audit[e], tx[e])
               /\ evals[e].state # "AI_IN_PROGRESS"
               /\ tx[e] = "none"
    <3>1. MayEnterQa(e, llmEnabled)
      BY <1>3 DEF BackfillCommit
    <3>2. CASE evals[e].state = "AI_PENDING"
      <4>1. tx[e] = "none"
        BY <1>0, <3>2, Stages DEF AiStates, AiClaimable
      <4>2. QED
        BY <1>0, <3>2, <4>1, RouteKeeps DEF EnteredQa, AiStates, AiClaimable
    <3>3. CASE evals[e].state = "NONE" /\ tx[e] = "none"
      <4>1. audit[e] = "NONE" /\ queue[e] = NoRow
        BY <2>1, <3>1, <3>3 DEF MayEnterQa
      <4>2. EnteredQa(evals[e], assignee[e])
              = NewEvaluation(QaEntryState(assignee[e]), assignee[e])
            /\ UpsertQueueViaPool(queue[e], "QA_QUEUE", assignee[e])
              = UpsertQueue("QA_QUEUE", assignee[e])
        BY <3>3, <4>1 DEF EnteredQa, UpsertQueueViaPool
      <4>3. QED
        BY <3>3, <4>1, <4>2, FreshKeeps
    <3>4. QED
      BY <3>1, <3>2, <3>3 DEF MayEnterQa
  <2>3. ASSUME NEW e \in bare
        PROVE  /\ Consistent(NewEvaluation("QA_PENDING", NoUser), queue[e], conv[e],
                             audit[e], tx[e])
               /\ evals[e].state = "NONE" /\ tx[e] = "none"
    BY <1>3, <2>1, FreshKeeps DEF BackfillCommit, MayEnterBare, QaAssignees
  <2>4. ASSUME NEW e \in Inserted(b)
        PROVE  /\ Consistent(NewEvaluation("AI_PENDING", NoUser), queue[e], conv[e],
                             audit[e], "none")
               /\ evals[e].state = "NONE"
    <3>1. conv[e] = "PENDING" /\ evals[e].state = "NONE" /\ e \in Evals
      BY <1>0 DEF Inserted, Consistent, InsertIsNew
    <3>2. QED
      BY <2>1, <3>1, FreshKeeps DEF QaAssignees
  <2>5. ASSUME NEW e \in Evals
        PROVE  /\ Consistent(evals'[e], queue'[e], conv'[e], audit'[e], tx'[e])
               /\ evals'[e] = evals[e] \/ evals[e].state # "AI_IN_PROGRESS"
    <3>1. e \in toQa => e \notin Inserted(b)
      BY <2>2, SystemAssumption DEF Inserted
    <3>2. e \in bare => e \notin Inserted(b)
      BY <2>3, SystemAssumption DEF Inserted
    <3>3. e \in toQa => e \notin bare
      BY <1>3 DEF BackfillCommit, MayEnterQa, MayEnterBare
    <3>4. CASE e \in toQa
      <4>1. /\ evals'[e] = EnteredQa(evals[e], assignee[e])
            /\ queue'[e] = UpsertQueueViaPool(queue[e], "QA_QUEUE", assignee[e])
            /\ conv'[e] = "QA_REVIEW" /\ audit'[e] = audit[e] /\ tx'[e] = tx[e]
        BY <1>3, <3>1, <3>3, <3>4 DEF BackfillCommit
      <4>2. QED
        BY <2>2, <3>4, <4>1
    <3>5. CASE e \notin toQa /\ e \in bare
      BY <1>3, <2>3, <3>2, <3>5 DEF BackfillCommit
    <3>6. CASE e \notin toQa /\ e \notin bare /\ e \in Inserted(b)
      BY <1>3, <2>4, <3>6 DEF BackfillCommit
    <3>7. CASE e \notin toQa /\ e \notin bare /\ e \notin Inserted(b)
      BY <1>0, <1>3, <3>7 DEF BackfillCommit
    <3>8. QED
      BY <3>4, <3>5, <3>6, <3>7
  <2>6. QED
    BY <1>3, <2>5
    DEF BackfillCommit, RowsConsistent, KeepsClaims, KeepsConversations
<1>4. CASE BackfillAborts(b) \/ BackfillIsRefused(b) \/ BackfillDeadlocks(b)
  <2>1. \A e \in Evals : Consistent(evals[e], queue[e], conv[e], audit[e], "none")
    BY <1>0, SystemAssumption DEF Consistent, InsertIsNew
  <2>2. RollBack(b)
    BY <1>4 DEF BackfillAborts, BackfillIsRefused, BackfillDeadlocks
  <2>3. QED
    BY <1>0, <2>1, <2>2 DEF RollBack, RowsConsistent, KeepsClaims, KeepsConversations
<1>5. QED
  BY <1>1, <1>2, <1>3, <1>4 DEF Backfill

\* What holds of every reachable state.
IInv == TypeOK /\ ClaimIsExclusive /\ RowsConsistent /\ LookUpsAreReceived

\* A claim stays exclusive over a step that changes no claim, and takes no
\* evaluation out of AI_IN_PROGRESS.
LEMMA ClaimsCarryOver ==
  ASSUME TypeOK, ClaimIsExclusive, KeepsClaims, UNCHANGED worker
  PROVE  ClaimIsExclusive'
  BY DEF TypeOK, ClaimIsExclusive, KeepsClaims

\* So do the look-ups over one that begins none and takes no conversation away.
LEMMA LookUpsCarryOver ==
  ASSUME TypeOK, LookUpsAreReceived, KeepsConversations,
         \A b \in Backfills :
           \/ missing'[b] = missing[b] \/ missing'[b] = NoEval
           \/ missing'[b] \in Evals /\ conv[missing'[b]] # "NONE"
  PROVE  LookUpsAreReceived'
  BY DEF TypeOK, LookUpsAreReceived, KeepsConversations

LEMMA BackfillsLook ==
  ASSUME TypeOK, LookUpsAreReceived, KeepsConversations,
         NEW b \in Backfills, Backfill(b)
  PROVE  LookUpsAreReceived' /\ UNCHANGED worker
<1>1. ASSUME NEW e \in Evals, BackfillFinds(b, e)
      PROVE  LookUpsAreReceived' /\ UNCHANGED worker
  <2>1. \A d \in Backfills : \/ missing'[d] = missing[d]
                             \/ missing'[d] = e /\ conv[e] # "NONE"
    BY <1>1 DEF BackfillFinds, TypeOK
  <2>2. QED
    BY <1>1, <2>1, LookUpsCarryOver DEF BackfillFinds
<1>2. ASSUME NEW e \in Evals, NEW sent \in BOOLEAN, BackfillSend(b, e, sent)
      PROVE  LookUpsAreReceived' /\ UNCHANGED worker
  <2>1. \A d \in Backfills : missing'[d] = missing[d] \/ missing'[d] = NoEval
    BY <1>2 DEF BackfillSend, TypeOK
  <2>2. QED
    BY <1>2, <2>1, LookUpsCarryOver DEF BackfillSend
<1>3. ASSUME NEW llmEnabled \in BOOLEAN,
             NEW toQa \in SUBSET Evals, NEW bare \in SUBSET Evals,
             NEW assignee \in [toQa -> QaAssignees],
             BackfillCommit(b, llmEnabled, toQa, bare, assignee)
      PROVE  LookUpsAreReceived' /\ UNCHANGED worker
  BY <1>3, LookUpsCarryOver DEF BackfillCommit
<1>4. CASE BackfillAborts(b) \/ BackfillIsRefused(b) \/ BackfillDeadlocks(b)
  <2>1. RollBack(b)
    BY <1>4 DEF BackfillAborts, BackfillIsRefused, BackfillDeadlocks
  <2>2. \A d \in Backfills : missing'[d] = missing[d] \/ missing'[d] = NoEval
    BY <2>1 DEF RollBack, TypeOK
  <2>3. QED
    BY <2>1, <2>2, LookUpsCarryOver DEF RollBack
<1>5. QED
  BY <1>1, <1>2, <1>3, <1>4 DEF Backfill

LEMMA WorkerKeeps ==
  ASSUME IInv, NEW w \in Workers, Worker(w)
  PROVE  ClaimIsExclusive' /\ RowsConsistent'
<1> USE DEF IInv
<1>0. \A e \in Evals : Consistent(evals[e], queue[e], conv[e], audit[e], tx[e])
  BY DEF RowsConsistent
<1>1. RowsTyped
  BY DEF TypeOK, RowsTyped, TablesOK, Rows
<1>2. ASSUME NEW e \in Evals, WorkerClaim(w, e)
      PROVE  ClaimIsExclusive' /\ RowsConsistent'
  <2>1. Consistent([evals[e] EXCEPT !.state = "AI_IN_PROGRESS"], queue[e], conv[e],
                   audit[e], tx[e])
    BY <1>0, <1>1, <1>2, ClaimKeeps DEF WorkerClaim, RowsTyped, TablesOK
  <2>2. evals[e].state # "AI_IN_PROGRESS"
    BY <1>2 DEF WorkerClaim, AiClaimable
  <2>3. evals' = [evals EXCEPT ![e] = [evals[e] EXCEPT !.state = "AI_IN_PROGRESS"]]
    BY <1>2 DEF WorkerClaim
  <2>4. UNCHANGED <<queue, conv, audit, tx>>
    BY <1>2 DEF WorkerClaim, Deliver
  <2>5. RowsConsistent' /\ KeepsClaims
    BY <1>1, <2>1, <2>2, <2>3, <2>4, OneRow DEF RowsTyped, TablesOK
  <2>6. worker' = [worker EXCEPT ![w] = e] /\ worker[w] = NoEval
    BY <1>2 DEF WorkerClaim, Deliver
  \* Nobody else is past the claim of an evaluation that can be claimed.
  <2>7. \A v \in Workers : worker[v] # e
    BY <2>2, SystemAssumption DEF ClaimIsExclusive
  <2>8. evals'[e].state = "AI_IN_PROGRESS"
    BY <1>1, <2>3 DEF RowsTyped, TablesOK, Evaluation
  <2>9. ClaimIsExclusive'
    <3>1. ASSUME NEW v \in Workers, worker'[v] # NoEval
          PROVE  evals'[worker'[v]].state = "AI_IN_PROGRESS"
      <4>1. CASE v = w
        BY <2>6, <2>8, <4>1 DEF TypeOK
      <4>2. CASE v # w
        BY <2>5, <2>6, <3>1, <4>2 DEF TypeOK, ClaimIsExclusive, KeepsClaims
      <4>3. QED
        BY <4>1, <4>2
    <3>2. ASSUME NEW u \in Workers, NEW v \in Workers, u # v, worker'[u] # NoEval
          PROVE  worker'[u] # worker'[v]
      BY <2>6, <2>7, <3>2 DEF TypeOK, ClaimIsExclusive
    <3>3. QED
      BY <3>1, <3>2 DEF ClaimIsExclusive
  <2>10. QED
    BY <2>5, <2>9
<1>3. ASSUME NEW e \in Evals,
             \/ WorkerSkip(w, e) \/ WorkerFindsNoConversation(w, e)
             \/ WorkerFailsEarly(w, e)
      PROVE  ClaimIsExclusive' /\ RowsConsistent'
  <2>1. UNCHANGED <<evals, queue, conv, audit, tx, worker>>
    BY <1>3 DEF WorkerSkip, WorkerFindsNoConversation, WorkerFailsEarly, Deliver
  <2>2. QED
    BY <2>1 DEF ClaimIsExclusive, RowsConsistent
<1>4. ASSUME NEW assignee \in QaAssignees, WorkerRoute(w, assignee)
      PROVE  ClaimIsExclusive' /\ RowsConsistent'
  <2> DEFINE e == worker[w]
             new == [evals[e] EXCEPT !.state = QaEntryState(assignee),
                                     !.qaUser = assignee]
  <2>1. e \in Evals /\ evals[e].state = "AI_IN_PROGRESS"
    BY <1>4 DEF WorkerRoute, TypeOK, ClaimIsExclusive
  <2>2. Consistent(new, UpsertQueueViaPool(queue[e], "QA_QUEUE", assignee), "QA_REVIEW",
                   audit[e], tx[e])
    BY <1>0, <1>1, <2>1, RouteKeeps DEF RowsTyped, TablesOK, AiStates
  <2>3. /\ evals' = [evals EXCEPT ![e] = new]
        /\ queue' = [queue EXCEPT ![e] =
                       UpsertQueueViaPool(queue[e], "QA_QUEUE", assignee)]
        /\ conv' = [conv EXCEPT ![e] = "QA_REVIEW"]
        /\ worker' = [worker EXCEPT ![w] = NoEval]
        /\ UNCHANGED <<audit, tx>>
    BY <1>4 DEF WorkerRoute
  <2>4. RowsConsistent'
    <3> HIDE DEF e, new
    <3>1. \A d \in Evals \ {e} : Consistent(evals'[d], queue'[d], conv'[d], audit'[d], tx'[d])
      BY <1>0, <1>1, <2>3 DEF RowsTyped, TablesOK
    <3>2. Consistent(evals'[e], queue'[e], conv'[e], audit'[e], tx'[e])
      BY <1>1, <2>1, <2>2, <2>3 DEF RowsTyped, TablesOK
    <3>3. QED
      BY <3>1, <3>2 DEF RowsConsistent
  <2>5. ClaimIsExclusive'
    <3>1. ASSUME NEW v \in Workers, worker'[v] # NoEval
          PROVE  v # w /\ worker'[v] = worker[v] /\ worker[v] # e /\ worker[v] \in Evals
      BY <2>3, <3>1 DEF TypeOK, ClaimIsExclusive
    <3> HIDE DEF new
    <3>2. ASSUME NEW v \in Workers, worker'[v] # NoEval
          PROVE  evals'[worker'[v]].state = "AI_IN_PROGRESS"
      BY <1>1, <2>3, <3>1, <3>2 DEF ClaimIsExclusive, RowsTyped, TablesOK
    <3>3. ASSUME NEW u \in Workers, NEW v \in Workers, u # v, worker'[u] # NoEval
          PROVE  worker'[u] # worker'[v]
      BY <2>3, <3>1, <3>3 DEF TypeOK, ClaimIsExclusive
    <3>4. QED
      BY <3>2, <3>3 DEF ClaimIsExclusive
  <2>6. QED
    BY <2>4, <2>5
<1>5. CASE WorkerFails(w) \/ WorkerCrashes(w)
  <2>1. UNCHANGED <<evals, queue, conv, audit, tx>>
        /\ worker' = [worker EXCEPT ![w] = NoEval]
    BY <1>5 DEF WorkerFails, WorkerCrashes
  <2>2. QED
    BY <2>1 DEF TypeOK, ClaimIsExclusive, RowsConsistent
<1>6. QED
  BY <1>2, <1>3, <1>4, <1>5 DEF Worker

LEMMA WorkersKeepConversations ==
  ASSUME TypeOK, NEW w \in Workers, Worker(w)
  PROVE  KeepsConversations /\ UNCHANGED missing
<1>1. ASSUME NEW e \in Evals,
             \/ WorkerClaim(w, e) \/ WorkerSkip(w, e)
             \/ WorkerFindsNoConversation(w, e) \/ WorkerFailsEarly(w, e)
      PROVE  UNCHANGED <<conv, missing>>
  BY <1>1 DEF WorkerClaim, WorkerSkip, WorkerFindsNoConversation, WorkerFailsEarly,
              Deliver
<1>2. ASSUME NEW assignee \in QaAssignees, WorkerRoute(w, assignee)
      PROVE  KeepsConversations /\ UNCHANGED missing
  BY <1>2 DEF WorkerRoute, TypeOK, KeepsConversations
<1>3. CASE WorkerFails(w) \/ WorkerCrashes(w)
  BY <1>3 DEF WorkerFails, WorkerCrashes, KeepsConversations
<1>4. QED
  BY <1>1, <1>2, <1>3 DEF Worker, KeepsConversations

LEMMA InvInit == Init => IInv
<1> SUFFICES ASSUME Init PROVE IInv
  OBVIOUS
<1>1. TypeOK
  BY TypeInit
<1>2. ClaimIsExclusive
  BY DEF Init, ClaimIsExclusive
<1>3. \A start \in Start :
        Consistent(start.row, start.queueRow, start.status, "NONE", "none")
  <2>1. Consistent(NoEvaluation, NoRow, "NONE", "NONE", "none")
    BY FreshKeeps DEF QaAssignees
  <2>2. Consistent(NewEvaluation("AI_FAILED", NoUser), NoRow, "FAILED", "NONE", "none")
    BY AiRow DEF AiStates, AiClaimable, VerdictFits, SubmissionFits, NewEvaluation,
                 VerifierAssignable
  <2>3. ASSUME NEW score \in LegacyScores
        PROVE  Consistent([NewEvaluation("QA_PENDING", NoUser) EXCEPT !.aiScore = score],
                          UpsertQueue("QA_QUEUE", NoUser), "QA_REVIEW", "NONE", "none")
    <3> DEFINE new == [NewEvaluation("QA_PENDING", NoUser) EXCEPT !.aiScore = score]
               newRow == UpsertQueue("QA_QUEUE", NoUser)
    <3>1. newRow \in QueueRow /\ newRow.type = "QA_QUEUE" /\ newRow.assigned = NoUser
      BY DEF UpsertQueue, QueueRow, QueueType
    <3>2. /\ new.state = "QA_PENDING" /\ new.final = NoScore
          /\ new.passFail = "none" /\ new.verLayer = "none"
      BY DEF NewEvaluation
    <3>3. VerdictFits(new) /\ SubmissionFits(new)
      BY <3>2 DEF VerdictFits, SubmissionFits, VerifierAssignable
    <3>4. newRow # NoRow /\ OwnerAgrees(new, newRow)
      BY <3>1, <3>2, NoRowAssumption DEF OwnerAgrees
    <3>5. QED
      BY <3>1, <3>2, <3>3, <3>4, QaRow DEF QaAssignable
  <2>4. QED
    BY <2>1, <2>2, <2>3 DEF Start
<1>4. PICK start \in [Evals -> Start] :
        /\ evals = [e \in Evals |-> start[e].row]
        /\ conv = [e \in Evals |-> start[e].status]
        /\ queue = [e \in Evals |-> start[e].queueRow]
  BY DEF Init
<1>5. RowsConsistent
  BY <1>3, <1>4 DEF Init, RowsConsistent
<1>6. LookUpsAreReceived
  BY DEF Init, LookUpsAreReceived
<1>7. QED
  BY <1>1, <1>2, <1>5, <1>6 DEF IInv

LEMMA InvStep == IInv /\ [Next]_vars => IInv'
<1> SUFFICES ASSUME IInv, [Next]_vars PROVE IInv'
  OBVIOUS
<1>1. TypeOK'
  BY TypeStep DEF IInv
<1>2. RowsTyped /\ TypeOK /\ ClaimIsExclusive /\ RowsConsistent /\ LookUpsAreReceived
  BY DEF IInv, TypeOK, RowsTyped, TablesOK, Rows
<1>3. CASE ReviewStep /\ UNCHANGED pipeline
  <2>1. UNCHANGED <<tx, missing, worker>>
    BY <1>3 DEF pipeline
  <2>2. QED
    BY <1>1, <1>2, <1>3, <2>1, ReviewKeeps, ClaimsCarryOver, LookUpsCarryOver DEF IInv
<1>4. ASSUME NEW e \in Evals, Intake(e)
      PROVE  IInv'
  <2>1. UNCHANGED <<missing, worker>>
    BY <1>4 DEF Intake, IngestConversation, ReceiveWithoutForm, UploadToQa, UploadSend,
                UploadSendFails, UploadCommit, UploadAborts, RequestAi, SendJob,
                SendFails, pipeline
  <2>2. QED
    BY <1>1, <1>2, <1>4, <2>1, IntakeKeeps, ClaimsCarryOver, LookUpsCarryOver DEF IInv
<1>5. ASSUME NEW e \in Evals, JobIsDuplicated(e)
      PROVE  IInv'
  BY <1>1, <1>2, <1>5
  DEF JobIsDuplicated, IInv, ClaimIsExclusive, RowsConsistent, LookUpsAreReceived
<1>6. ASSUME NEW b \in Backfills, Backfill(b)
      PROVE  IInv'
  <2>1. RowsConsistent' /\ KeepsClaims /\ KeepsConversations
    BY <1>2, <1>6, BackfillKeeps
  <2>2. LookUpsAreReceived' /\ UNCHANGED worker
    BY <1>2, <1>6, <2>1, BackfillsLook
  <2>3. QED
    BY <1>1, <1>2, <2>1, <2>2, ClaimsCarryOver DEF IInv
<1>7. ASSUME NEW w \in Workers, Worker(w)
      PROVE  IInv'
  <2>1. ClaimIsExclusive' /\ RowsConsistent'
    BY <1>7, WorkerKeeps
  <2>2. KeepsConversations /\ UNCHANGED missing
    BY <1>2, <1>7, WorkersKeepConversations
  <2>3. QED
    BY <1>1, <1>2, <2>1, <2>2, LookUpsCarryOver DEF IInv
<1>8. CASE UNCHANGED vars
  BY <1>1, <1>2, <1>8
  DEF vars, IInv, ClaimIsExclusive, RowsConsistent, LookUpsAreReceived
<1>9. QED
  BY <1>3, <1>4, <1>5, <1>6, <1>7, <1>8 DEF Next

\* Every reachable state satisfies the inductive invariant: the rows of every
\* evaluation fit each other and no two workers are past the claim of one.
THEOREM Invariance == Spec => []IInv
<1>1. Init => IInv
  BY InvInit
<1>2. IInv /\ [Next]_vars => IInv'
  BY InvStep
<1>3. QED
  BY <1>1, <1>2, PTL DEF Spec

-----------------------------------------------------------------------------
(* The invariants of the runs *)

\* The guarded UPDATE of eval_process keeps an evaluation with one worker,
\* whatever crashes, is redelivered, or is asked for again.
THEOREM ClaimsAreExclusive == Spec => []ClaimIsExclusive
<1>1. IInv => ClaimIsExclusive
  BY DEF IInv
<1>2. QED
  BY <1>1, Invariance, PTL

\* Owner column and queue assignee agree after every handler and every scan.
THEOREM AssignmentsAgree == Spec => []AssignmentAgrees
<1>1. IInv => AssignmentAgrees
  BY DEF IInv, RowsConsistent, Consistent, AssignmentAgrees
<1>2. QED
  BY <1>1, Invariance, PTL

\* A queue row is of a queue that fits the evaluation's state.
THEOREM QueuesMatchStates == Spec => []QueueMatchesState
<1>1. IInv => QueueMatchesState
  BY DEF IInv, RowsConsistent, Consistent, QueueMatchesState
<1>2. QED
  BY <1>1, Invariance, PTL

\* An open audit case is in the audit queue, and belongs to a locked evaluation.
THEOREM OpenAuditsAreQueued == Spec => []OpenAuditIsQueued
<1>1. IInv => OpenAuditIsQueued
  BY DEF IInv, RowsConsistent, Consistent, OpenAuditIsQueued
<1>2. QED
  BY <1>1, Invariance, PTL

\* conversations.status follows workflowState across all services.
THEOREM ConversationsMatchStates == Spec => []ConversationMatchesState
<1>1. IInv => ConversationMatchesState
  BY DEF IInv, RowsConsistent, Consistent, ConversationMatchesState
<1>2. QED
  BY <1>1, Invariance, PTL

\* There is a verdict exactly while the evaluation is locked.
THEOREM VerdictsAreLocked == Spec => []VerdictIffLocked
<1>1. IInv => VerdictIffLocked
  BY DEF IInv, RowsConsistent, Consistent, VerdictIffLocked
<1>2. QED
  BY <1>1, Invariance, PTL

\* A verifier works on a scored submission without leftover feedback.
THEOREM VerifiersSeeSubmissions == Spec => []VerifierSeesSubmission
<1>1. IInv => VerifierSeesSubmission
  BY DEF IInv, RowsConsistent, Consistent, VerifierSeesSubmission
<1>2. QED
  BY <1>1, Invariance, PTL

\* The commit of an upload or a backfill replaces no evaluation: of backfills
\* that have all looked before one inserted, the others are refused.
THEOREM OpenInsertsAreNew == Spec => []OpenInsertIsNew
<1>1. IInv => OpenInsertIsNew
  BY DEF IInv, RowsConsistent, Consistent, OpenInsertIsNew
<1>2. QED
  BY <1>1, Invariance, PTL

-----------------------------------------------------------------------------
(* QueueViews: what the listings show *)

\* Work in progress has an owner, who is the only one of his role to be shown it.
LEMMA OwnedIsListed ==
  ASSUME AssignmentAgrees
  PROVE  InProgressIsListedToOwner
<1>1. ASSUME NEW u \in QaUsers, NEW e \in QaQueue(u), evals[e].state = "QA_IN_PROGRESS"
      PROVE  evals[e].qaUser = u
  <2>1. e \in Evals /\ evals[e].qaUser \in {u, NoUser}
    BY <1>1 DEF QaQueue, QueueListing, Visible
  <2> QED BY <1>1, <2>1 DEF AssignmentAgrees, OwnerAgrees
<1>2. ASSUME NEW u \in VerifierUsers, NEW e \in VerifierQueue(u),
             evals[e].state = "VERIFIER_IN_PROGRESS"
      PROVE  evals[e].verUser = u
  <2>1. e \in Evals /\ evals[e].verUser \in {u, NoUser}
    BY <1>2 DEF VerifierQueue, QueueListing, Visible
  <2> QED BY <1>2, <2>1 DEF AssignmentAgrees, OwnerAgrees
<1> QED BY <1>1, <1>2 DEF InProgressIsListedToOwner

\* What is offered can be begun, or is the reviewer's own and can be judged.
LEMMA ListedIsOpen ==
  ASSUME AssignmentAgrees
  PROVE  ListedCanBeTaken
<1>1. ASSUME NEW u \in QaUsers, NEW e \in QaQueue(u)
      PROVE  MayQaStart(evals[e], u)
  BY <1>1 DEF QaQueue, QueueListing, Visible, MayQaStart
<1>2. ASSUME NEW u \in VerifierUsers, NEW e \in VerifierQueue(u)
      PROVE  MayVerifierStart(evals[e]) \/ MayVerify(evals[e], u)
  <2>1. evals[e].state \in VerifierAssignable
    BY <1>2 DEF VerifierQueue, QueueListing
  <2>2. CASE evals[e].state = "VERIFIER_IN_PROGRESS"
    BY <1>2, <2>2, OwnedIsListed DEF InProgressIsListedToOwner, MayVerify
  <2>3. CASE evals[e].state \in {"QA_COMPLETED", "VERIFIER_PENDING"}
    BY <2>3 DEF MayVerifierStart
  <2> QED BY <2>1, <2>2, <2>3 DEF VerifierAssignable
<1> QED BY <1>1, <1>2 DEF ListedCanBeTaken

\* The listings of evaluations and of queues are within what the check of a
\* single evaluation admits.
LEMMA ListedMayBeRead == ListedIsReadable
<1> SUFFICES ASSUME NEW u \in Users, NEW e,
                    \/ e \in MyEvaluations(u)
                    \/ u \in QaActors /\ e \in QaQueue(u)
                    \/ u \in VerifierActors /\ e \in VerifierQueue(u)
             PROVE  MayRead(evals[e], u)
  BY DEF ListedIsReadable
<1>1. CASE u \in AdminUsers
  BY <1>1 DEF MayRead
<1>2. CASE u \notin AdminUsers /\ e \in MyEvaluations(u)
  BY <1>2 DEF MyEvaluations, MayRead, Users
<1>3. CASE u \in QaUsers /\ e \in QaQueue(u)
  BY <1>3 DEF QaQueue, QueueListing, Visible, MayRead
<1>4. CASE u \in VerifierUsers /\ e \in VerifierQueue(u)
  BY <1>4 DEF VerifierQueue, QueueListing, Visible, MayRead
<1> QED BY <1>1, <1>2, <1>3, <1>4 DEF QaActors, VerifierActors

\* Whoever is shown an evaluation in a list can open it, in every state of the
\* pipeline.
THEOREM ListedCanBeRead == Spec => []ListedIsReadable
  BY ListedMayBeRead, PTL

\* A reviewer can work on whatever his own queue offers him.
THEOREM QueuesOfferWork == Spec => []ListedCanBeTaken
  BY AssignmentsAgree, ListedIsOpen, PTL

\* Work in progress is offered to its owner and to nobody else of his role.
THEOREM OwnersAreListed == Spec => []InProgressIsListedToOwner
  BY AssignmentsAgree, OwnedIsListed, PTL

-----------------------------------------------------------------------------
(* What no step may do, from the inductive invariant: change a locked      *)
(* evaluation other than by starting it over, or take claimed QA work from *)
(* its reviewer other than by an administrator's decision.                 *)

\* How one evaluation row may change.
KeepsLock(old, new) == old.state = "LOCKED" => new \in {old, ReAudited}

KeepsClaim(old, new) ==
  old.state = "QA_IN_PROGRESS" /\ new.state \in QaAssignable =>
    new.qaUser = old.qaUser

ByAdministrator(e) == \E target \in Users : ManualAssign(e, target) \/ Reassign(e, target)

Lawful(e) ==
  /\ KeepsLock(evals[e], evals'[e])
  /\ KeepsClaim(evals[e], evals'[e]) \/ ByAdministrator(e)

-----------------------------------------------------------------------------

LEMMA SameRows ==
  ASSUME UNCHANGED evals
  PROVE  \A e \in Evals : Lawful(e)
  BY DEF Lawful, KeepsLock, KeepsClaim

LEMMA OneRowMoves ==
  ASSUME RowsTyped, NEW d \in Evals, NEW new,
         evals' = [evals EXCEPT ![d] = new],
         KeepsLock(evals[d], new),
         KeepsClaim(evals[d], new) \/ ByAdministrator(d)
  PROVE  \A e \in Evals : Lawful(e)
<1>1. ASSUME NEW e \in Evals, e # d
      PROVE  Lawful(e)
  <2>1. evals'[e] = evals[e]
    BY <1>1
  <2>2. QED
    BY <2>1 DEF Lawful, KeepsLock, KeepsClaim
<1>2. evals'[d] = new
  BY DEF RowsTyped, TablesOK
<1>3. Lawful(d)
  BY <1>2 DEF Lawful
<1>4. QED
  BY <1>1, <1>3

\* A row that is neither locked nor claimed in QA may change in any way.
LEMMA FreeRowMoves ==
  ASSUME RowsTyped, NEW d \in Evals, NEW new,
         evals' = [evals EXCEPT ![d] = new],
         evals[d].state \notin {"LOCKED", "QA_IN_PROGRESS"}
  PROVE  \A e \in Evals : Lawful(e)
  BY OneRowMoves DEF KeepsLock, KeepsClaim

\* A queue row that a scan or a round robin selects belongs to no locked
\* evaluation, and an unassigned one to no claimed QA work.
LEMMA QueuedRows ==
  ASSUME RowsTyped, RowsConsistent, NEW e \in Evals, queue[e] # NoRow,
         queue[e].type \in {"QA_QUEUE", "VERIFIER_QUEUE"}
  PROVE  /\ evals[e].state # "LOCKED"
         /\ queue[e].assigned = NoUser => evals[e].state # "QA_IN_PROGRESS"
<1>1. Consistent(evals[e], queue[e], conv[e], audit[e], tx[e])
  BY DEF RowsConsistent
<1>2. QueueFits(evals[e], queue[e], conv[e], audit[e]) /\ OwnerAgrees(evals[e], queue[e])
  BY <1>1 DEF Consistent
<1>3. evals[e].state # "LOCKED"
  BY <1>2 DEF QueueFits, QaAssignable, VerifierAssignable
<1>4. QED
  BY <1>2, <1>3 DEF OwnerAgrees

LEMMA ReviewIsLawful ==
  ASSUME RowsTyped, RowsConsistent, ReviewStep
  PROVE  \A e \in Evals : Lawful(e)
<1> USE DEF KeepsLock, KeepsClaim
\* A second qa_start goes through for the claim's owner only.
<1>1. ASSUME NEW e \in Evals, NEW u \in QaActors, QaStart(e, u)
      PROVE  \A d \in Evals : Lawful(d)
  <2>1. MayQaStart(evals[e], u) /\ evals' = [evals EXCEPT ![e] = QaStarted(evals[e], u)]
    BY <1>1 DEF QaStart
  <2>2. evals[e].state = "QA_IN_PROGRESS" => evals[e].qaUser = u
    BY <2>1 DEF MayQaStart, RowsConsistent, Consistent, OwnerAgrees
  <2>3. evals[e].state # "LOCKED"
    BY <2>1 DEF MayQaStart, QaAssignable
  <2>4. QaStarted(evals[e], u).qaUser = u
    BY DEF QaStarted, RowsTyped, TablesOK, Evaluation
  <2>5. QED
    BY <2>1, <2>2, <2>3, <2>4, OneRowMoves
\* A submission leaves QA.
<1>2. ASSUME NEW e \in Evals, NEW u \in QaActors, NEW score \in Scores,
             NEW critical \in BOOLEAN, QaSubmit(e, u, score, critical)
      PROVE  \A d \in Evals : Lawful(d)
  <2>1. PICK assignee :
          evals' = [evals EXCEPT ![e] = QaSubmitted(evals[e], score, critical, assignee)]
    BY <1>2 DEF QaSubmit
  <2>2. evals[e].state = "QA_IN_PROGRESS"
    BY <1>2 DEF QaSubmit, MayQaSubmit
  <2>3. QaSubmitted(evals[e], score, critical, assignee).state \notin QaAssignable
    <3>1. evals[e] \in Evaluation
      BY DEF RowsTyped, TablesOK
    <3>2. QED
      BY <3>1, Outcomes DEF QaSubmitted, QaAssignable, Evaluation
  <2>4. QED
    BY <2>1, <2>2, <2>3, OneRowMoves
<1>3. ASSUME NEW e \in Evals, NEW u \in VerifierActors, VerifierStart(e, u)
      PROVE  \A d \in Evals : Lawful(d)
  BY <1>3, FreeRowMoves DEF VerifierStart, MayVerifierStart
<1>4. ASSUME NEW e \in Evals, NEW u \in VerifierActors,
             \/ VerifierApprove(e, u)
             \/ \E score \in Scores, critical \in BOOLEAN :
                  VerifierModify(e, u, score, critical)
             \/ \E commented \in BOOLEAN : VerifierReject(e, u, commented)
      PROVE  \A d \in Evals : Lawful(d)
  <2>1. MayVerify(evals[e], u) /\ \E new : evals' = [evals EXCEPT ![e] = new]
    BY <1>4 DEF VerifierApprove, VerifierModify, VerifierReject
  <2>2. QED
    BY <2>1, FreeRowMoves DEF MayVerify
<1>5. ASSUME NEW e \in Evals, NEW status, ResolveAuditCase(e, status)
      PROVE  \A d \in Evals : Lawful(d)
  BY <1>5, SameRows DEF ResolveAuditCase
<1>6. ASSUME NEW e \in Evals, NEW target \in Users,
             ManualAssign(e, target) \/ Reassign(e, target)
      PROVE  \A d \in Evals : Lawful(d)
  <2>1. ByAdministrator(e)
    BY <1>6 DEF ByAdministrator
  <2>2. evals[e].state # "LOCKED" /\ \E new : evals' = [evals EXCEPT ![e] = new]
    BY <1>6 DEF ManualAssign, MayAssignQa, MayAssignVerifier, Reassign, MayReassign,
                QaAssignable, VerifierAssignable, InProgress
  <2>3. QED
    BY <2>1, <2>2, OneRowMoves
<1>7. ASSUME NEW e \in Evals, RowTurnsStale(e)
      PROVE  \A d \in Evals : Lawful(d)
  BY <1>7, SameRows DEF RowTurnsStale
<1>8. ASSUME NEW queueType \in {"QA_QUEUE", "VERIFIER_QUEUE"},
             NEW batch \in SUBSET Unassigned(queueType),
             NEW deal \in [batch -> RoundRobinUsers(queueType)],
             RoundRobinAssign(queueType, batch, deal)
      PROVE  \A e \in Evals : Lawful(e)
  <2>1. ASSUME NEW e \in batch
        PROVE  e \in Evals /\ evals[e].state \notin {"LOCKED", "QA_IN_PROGRESS"}
    BY <2>1, QueuedRows DEF Unassigned
  <2>2. \A e \in Evals \ batch : evals'[e] = evals[e]
    BY <1>8 DEF RoundRobinAssign
  <2>3. QED
    BY <2>1, <2>2 DEF Lawful
<1>9. ASSUME StaleScan
      PROVE  \A e \in Evals : Lawful(e)
  <2>1. ASSUME NEW e \in Evals
        PROVE  \/ evals'[e] = evals[e]
               \/ /\ evals'[e] = [evals[e] EXCEPT !.escalated = TRUE]
                  /\ ScanEscalates(evals[e], queue[e])
    BY <1>9 DEF StaleScan
  <2>2. ASSUME NEW e \in Evals, ScanEscalates(evals[e], queue[e])
        PROVE  evals[e].state # "LOCKED"
    BY <2>2, QueuedRows DEF ScanEscalates
  <2>3. \A e \in Evals : [evals[e] EXCEPT !.escalated = TRUE].qaUser = evals[e].qaUser
    BY DEF RowsTyped, TablesOK, Evaluation
  <2>4. QED
    BY <2>1, <2>2, <2>3 DEF Lawful
<1>10. QED
  BY <1>1, <1>2, <1>3, <1>4, <1>5, <1>6, <1>7, <1>8, <1>9 DEF ReviewStep, HandlerStep

LEMMA IntakeIsLawful ==
  ASSUME RowsTyped, RowsConsistent, NEW e \in Evals, Intake(e)
  PROVE  \A d \in Evals : Lawful(d)
<1>1. Consistent(evals[e], queue[e], conv[e], audit[e], tx[e])
  BY DEF RowsConsistent
<1>2. conv[e] = "NONE" => evals[e].state = "NONE"
  BY <1>1 DEF Consistent, StatusFits
<1>3. ASSUME NEW status, NEW row, NEW queueRow, conv[e] = "NONE",
             Receive(e, status, row, queueRow)
      PROVE  \A d \in Evals : Lawful(d)
  BY <1>2, <1>3, FreeRowMoves DEF Receive
<1>4. CASE IngestConversation(e) \/ ReceiveWithoutForm(e)
           \/ \E assignee \in QaAssignees : UploadToQa(e, assignee)
  BY <1>3, <1>4 DEF IngestConversation, ReceiveWithoutForm, UploadToQa, NotReceived
<1>5. CASE UploadCommit(e)
  <2>1. conv[e] = "NONE"
    BY <1>1, <1>5 DEF UploadCommit, Consistent, InsertIsNew
  <2>2. QED
    BY <1>3, <1>5, <2>1 DEF UploadCommit
<1>6. CASE UploadSend(e) \/ UploadSendFails(e) \/ UploadAborts(e) \/ SendJob(e)
           \/ SendFails(e)
  BY <1>6, SameRows DEF UploadSend, UploadSendFails, UploadAborts, SendJob, SendFails
\* Only here is a lock undone: by starting over.
<1>7. CASE RequestAi(e)
  <2>1. CASE RetryAiFailed(e)
    BY <2>1, FreeRowMoves DEF RetryAiFailed, MayRetryAi
  <2>2. CASE ReAuditAi(e)
    <3>1. ReAudited.state \notin QaAssignable
      BY DEF ReAudited, NewEvaluation, QaAssignable
    <3>2. KeepsLock(evals[e], ReAudited) /\ KeepsClaim(evals[e], ReAudited)
      BY <3>1 DEF KeepsLock, KeepsClaim
    <3>3. QED
      BY <2>2, <3>2, OneRowMoves DEF ReAuditAi
  <2>3. QED
    BY <1>7, <2>1, <2>2 DEF RequestAi, AiRequest
<1>8. QED
  BY <1>4, <1>5, <1>6, <1>7 DEF Intake

LEMMA BackfillIsLawful ==
  ASSUME RowsTyped, RowsConsistent, NEW b \in Backfills, Backfill(b)
  PROVE  \A e \in Evals : Lawful(e)
<1>1. ASSUME NEW llmEnabled \in BOOLEAN,
             NEW toQa \in SUBSET Evals, NEW bare \in SUBSET Evals,
             NEW assignee \in [toQa -> QaAssignees],
             BackfillCommit(b, llmEnabled, toQa, bare, assignee)
      PROVE  \A e \in Evals : Lawful(e)
  <2>1. \A e \in toQa \cup bare : evals[e].state \in {"NONE", "AI_PENDING"}
    BY <1>1 DEF BackfillCommit, MayEnterQa, MayEnterBare
  <2>2. \A e \in Inserted(b) : evals[e].state = "NONE"
    BY DEF Inserted, RowsConsistent, Consistent, InsertIsNew
  <2>3. \A e \in Evals \ (toQa \cup bare \cup Inserted(b)) : evals'[e] = evals[e]
    BY <1>1 DEF BackfillCommit
  <2>4. QED
    BY <2>1, <2>2, <2>3 DEF Lawful, KeepsLock, KeepsClaim
<1>2. QED
  BY <1>1, SameRows
  DEF Backfill, BackfillFinds, BackfillSend, BackfillAborts, BackfillIsRefused,
      BackfillDeadlocks, RollBack

\* A late or repeated routing finds the evaluation still AI_IN_PROGRESS.
LEMMA WorkerIsLawful ==
  ASSUME RowsTyped, TypeOK, ClaimIsExclusive, NEW w \in Workers, Worker(w)
  PROVE  \A e \in Evals : Lawful(e)
<1>1. ASSUME NEW e \in Evals, WorkerClaim(w, e)
      PROVE  \A d \in Evals : Lawful(d)
  <2>1. evals[e].state \notin {"LOCKED", "QA_IN_PROGRESS"}
        /\ evals' = [evals EXCEPT ![e] = [evals[e] EXCEPT !.state = "AI_IN_PROGRESS"]]
    BY <1>1 DEF WorkerClaim, AiClaimable
  <2>2. QED
    BY <2>1, FreeRowMoves
<1>2. ASSUME NEW assignee \in QaAssignees, WorkerRoute(w, assignee)
      PROVE  \A d \in Evals : Lawful(d)
  <2>1. worker[w] \in Evals /\ evals[worker[w]].state = "AI_IN_PROGRESS"
    BY <1>2 DEF WorkerRoute, TypeOK, ClaimIsExclusive
  <2>2. \E new : evals' = [evals EXCEPT ![worker[w]] = new]
    BY <1>2 DEF WorkerRoute
  <2>3. QED
    BY <2>1, <2>2, FreeRowMoves
<1>3. ASSUME \/ \E e \in Evals : \/ WorkerSkip(w, e) \/ WorkerFindsNoConversation(w, e)
                                 \/ WorkerFailsEarly(w, e)
             \/ WorkerFails(w) \/ WorkerCrashes(w)
      PROVE  \A d \in Evals : Lawful(d)
  BY <1>3, SameRows DEF WorkerSkip, WorkerFindsNoConversation, WorkerFailsEarly,
                        WorkerFails, WorkerCrashes
<1>4. QED
  BY <1>1, <1>2, <1>3 DEF Worker

LEMMA StepsAreLawful == IInv /\ [Next]_vars => \A e \in Evals : Lawful(e)
<1> SUFFICES ASSUME IInv, [Next]_vars PROVE \A e \in Evals : Lawful(e)
  OBVIOUS
<1>1. RowsTyped /\ TypeOK /\ ClaimIsExclusive /\ RowsConsistent
  BY DEF IInv, TypeOK, RowsTyped, TablesOK, Rows
<1>2. CASE ReviewStep /\ UNCHANGED pipeline
  BY <1>1, <1>2, ReviewIsLawful
<1>3. ASSUME NEW d \in Evals, Intake(d) \/ JobIsDuplicated(d)
      PROVE  \A e \in Evals : Lawful(e)
  BY <1>1, <1>3, IntakeIsLawful, SameRows DEF JobIsDuplicated
<1>4. ASSUME NEW b \in Backfills, Backfill(b)
      PROVE  \A e \in Evals : Lawful(e)
  BY <1>1, <1>4, BackfillIsLawful
<1>5. ASSUME NEW w \in Workers, Worker(w)
      PROVE  \A e \in Evals : Lawful(e)
  BY <1>1, <1>5, WorkerIsLawful
<1>6. CASE UNCHANGED vars
  BY <1>6, SameRows DEF vars
<1>7. QED
  BY <1>2, <1>3, <1>4, <1>5, <1>6 DEF Next

-----------------------------------------------------------------------------

\* No handler, scan, backfill or worker changes a locked evaluation; a
\* re-audit wipes it.
THEOREM LocksAreFinal == Spec => LockedIsFinal
<1>1. IInv /\ [Next]_vars =>
        [\A e \in Evals :
           evals[e].state = "LOCKED" => evals'[e] \in {evals[e], ReAudited}]_vars
  BY StepsAreLawful DEF Lawful, KeepsLock
<1>2. QED
  BY <1>1, Invariance, PTL DEF Spec, LockedIsFinal

\* Claimed QA work changes hands by manual_assign and reassign only.
THEOREM ClaimsAreNotStolen == Spec => ClaimIsNotStolen
<1>1. IInv /\ [Next]_vars =>
        [\A e \in Evals :
           /\ evals[e].state = "QA_IN_PROGRESS"
           /\ evals'[e].state \in QaAssignable
           /\ evals'[e].qaUser # evals[e].qaUser
           => \E target \in Users : ManualAssign(e, target) \/ Reassign(e, target)]_vars
  BY StepsAreLawful DEF Lawful, KeepsClaim, ByAdministrator
<1>2. QED
  BY <1>1, Invariance, PTL DEF Spec, ClaimIsNotStolen

-----------------------------------------------------------------------------
(* The refinement of AbstractReview.  Every step is described by how it    *)
(* advances one evaluation row; owners and verdicts need not be followed   *)
(* through the handlers, because the invariant, before and after the step, *)
(* says which there are in each state.                                     *)

SameWork(old, new) ==
  /\ new.state = old.state
  /\ new.qaUser = old.qaUser /\ new.verUser = old.verUser
  /\ new.passFail = old.passFail

Advances(old, new) ==
  \/ SameWork(old, new)
  \/ old.state = "NONE" /\ new.state \in {"NONE"} \cup AiStates \cup QaAssignable
  \/ old.state # "NONE" /\ new.state \in AiStates
  \/ old.state \in AiStates /\ new.state \in QaAssignable
  \/ old.state \in QaAssignable /\ new.state = "QA_IN_PROGRESS"
  \/ old.state = "QA_IN_PROGRESS" /\ new.state \in VerifierAssignable \cup {"LOCKED"}
  \/ old.state \in VerifierAssignable /\ new.state = "VERIFIER_IN_PROGRESS"
  \/ old.state = "VERIFIER_IN_PROGRESS" /\ new.state \in {"QA_PENDING", "LOCKED"}

\* What the invariant says of one row that the abstraction shows.
Presentable(ev) ==
  /\ ev.state \in WorkflowState
  /\ ev.qaUser \in People /\ ev.verUser \in People
  /\ ev.state = "QA_IN_PROGRESS" => ev.qaUser # NoUser
  /\ ev.state = "VERIFIER_IN_PROGRESS" => ev.verUser # NoUser
  /\ IF ev.state = "LOCKED" THEN ev.passFail \in {"pass", "fail"} ELSE ev.passFail = "none"

LEMMA RowsArePresentable == IInv => \A e \in Evals : Presentable(evals[e])
<1> SUFFICES ASSUME IInv, NEW e \in Evals PROVE Presentable(evals[e])
  OBVIOUS
<1>1. evals[e] \in Evaluation
  BY DEF IInv, TypeOK
<1>2. OwnerAgrees(evals[e], queue[e]) /\ VerdictFits(evals[e])
  BY DEF IInv, RowsConsistent, Consistent
<1>3. QED
  BY <1>1, <1>2 DEF Evaluation, People, Verdict, OwnerAgrees, VerdictFits, Presentable

\* The stage, owner and verdict that a row shows.
LEMMA StagesOfStates ==
  ASSUME NEW ev, Presentable(ev)
  PROVE  /\ ev.state = "NONE" => StageOf(ev.state) = "absent"
         /\ ev.state \in AiStates => StageOf(ev.state) = "automatic"
         /\ ev.state \in QaAssignable => StageOf(ev.state) = "qa"
         /\ ev.state \in VerifierAssignable => StageOf(ev.state) = "verifier"
         /\ ev.state = "LOCKED" => StageOf(ev.state) = "locked"
         /\ StageOf(ev.state) \in {"absent", "automatic", "qa", "verifier", "locked"}
  BY DEF Presentable, StageOf, WorkflowState, AiStates, AiClaimable, QaAssignable,
         VerifierAssignable

LEMMA OwnersOfRows ==
  ASSUME NEW ev, Presentable(ev)
  PROVE  /\ OwnerOf(ev) \in Users \cup {NoUser}
         /\ ev.state \in InProgress => OwnerOf(ev) # NoUser /\ OwnerOf(ev) \in Users
         /\ ev.state \notin InProgress => OwnerOf(ev) = NoUser
  BY DEF Presentable, OwnerOf, InProgress, People

\* Each way to advance is a move of the abstract workflow.
LEMMA AdvanceIsMove ==
  ASSUME NEW old, NEW new, Presentable(old), Presentable(new), Advances(old, new)
  PROVE  LET s == StageOf(old.state)  t == StageOf(new.state)
             o == OwnerOf(old)        p == OwnerOf(new)
             v == old.passFail        w == new.passFail
         IN  \/ t = s /\ p = o /\ w = v
             \/ s = "absent" /\ t = "automatic" /\ p = NoUser /\ w = "none"
             \/ s \in {"absent", "automatic"} /\ t = "qa" /\ w = "none"
             \/ s \in {"qa", "verifier"} /\ t = s /\ p \in Users /\ w = "none"
             \/ s = "qa" /\ o # NoUser /\ t = "verifier" /\ w = "none"
             \/ s = "verifier" /\ o # NoUser /\ t = "qa" /\ p = NoUser /\ w = "none"
             \/ /\ s \in {"qa", "verifier"} /\ o # NoUser
                /\ t = "locked" /\ p = NoUser /\ w \in {"pass", "fail"}
             \/ s # "absent" /\ t = "automatic" /\ p = NoUser /\ w = "none"
<1> USE StagesOfStates, OwnersOfRows
<1>1. CASE SameWork(old, new)
  BY <1>1 DEF SameWork, OwnerOf
<1>2. CASE old.state = "NONE" /\ new.state \in {"NONE"} \cup AiStates \cup QaAssignable
  BY <1>2 DEF Presentable, InProgress, AiStates, AiClaimable, QaAssignable
<1>3. CASE old.state # "NONE" /\ new.state \in AiStates
  <2>1. StageOf(old.state) # "absent"
    BY <1>3 DEF Presentable, StageOf, WorkflowState, AiStates, AiClaimable, QaAssignable,
                VerifierAssignable
  <2>2. QED
    BY <1>3, <2>1 DEF Presentable, InProgress, AiStates, AiClaimable
<1>4. CASE old.state \in AiStates /\ new.state \in QaAssignable
  BY <1>4 DEF Presentable, QaAssignable
<1>5. CASE old.state \in QaAssignable /\ new.state = "QA_IN_PROGRESS"
  BY <1>5 DEF Presentable, InProgress, QaAssignable
<1>6. CASE old.state = "QA_IN_PROGRESS" /\ new.state \in VerifierAssignable \cup {"LOCKED"}
  BY <1>6 DEF Presentable, InProgress, QaAssignable, VerifierAssignable
<1>7. CASE old.state \in VerifierAssignable /\ new.state = "VERIFIER_IN_PROGRESS"
  BY <1>7 DEF Presentable, InProgress, VerifierAssignable
<1>8. CASE old.state = "VERIFIER_IN_PROGRESS" /\ new.state \in {"QA_PENDING", "LOCKED"}
  BY <1>8 DEF Presentable, InProgress, QaAssignable, VerifierAssignable
<1>9. QED
  BY <1>1, <1>2, <1>3, <1>4, <1>5, <1>6, <1>7, <1>8 DEF Advances

AllAdvance == \A e \in Evals : Advances(evals[e], evals'[e])

LEMMA SameRowsAdvance ==
  ASSUME UNCHANGED evals
  PROVE  AllAdvance
  BY DEF AllAdvance, Advances, SameWork

LEMMA OneRowAdvances ==
  ASSUME RowsTyped, NEW d \in Evals, NEW new,
         evals' = [evals EXCEPT ![d] = new],
         Advances(evals[d], new)
  PROVE  AllAdvance
  BY DEF AllAdvance, Advances, SameWork, RowsTyped, TablesOK

\* Where the review's handlers lead.
LEMMA HandlersAdvance ==
  ASSUME NEW ev \in Evaluation
  PROVE  /\ \A u \in QaActors : MayQaStart(ev, u) => Advances(ev, QaStarted(ev, u))
         /\ \A u, score, critical, assignee :
              MayQaSubmit(ev, u) => Advances(ev, QaSubmitted(ev, score, critical, assignee))
         /\ \A u : MayVerifierStart(ev) => Advances(ev, VerifierStarted(ev, u))
         /\ \A u : MayVerify(ev, u) => Advances(ev, Approved(ev))
         /\ \A u, score, critical :
              MayVerify(ev, u) => Advances(ev, Modified(ev, score, critical))
         /\ \A u, commented : MayVerify(ev, u) => Advances(ev, Rejected(ev, commented))
         /\ \A u : MayAssignQa(ev, u) => Advances(ev, AssignedQa(ev, u))
         /\ \A u : MayAssignVerifier(ev, u) => Advances(ev, AssignedVerifier(ev, u))
         /\ \A u : MayReassign(ev) => Advances(ev, Reassigned(ev, u))
<1> USE DEF Evaluation, Advances
<1>1. \A u \in QaActors : MayQaStart(ev, u) => Advances(ev, QaStarted(ev, u))
  BY DEF MayQaStart, QaStarted
<1>2. ASSUME NEW u, NEW score, NEW critical, NEW assignee, MayQaSubmit(ev, u)
      PROVE  Advances(ev, QaSubmitted(ev, score, critical, assignee))
  <2>1. QaSubmitted(ev, score, critical, assignee).state \in VerifierAssignable \cup {"LOCKED"}
    BY Outcomes DEF QaSubmitted, VerifierAssignable
  <2>2. QED
    BY <1>2, <2>1 DEF MayQaSubmit
<1>3. \A u : MayVerifierStart(ev) => Advances(ev, VerifierStarted(ev, u))
  BY DEF MayVerifierStart, VerifierStarted, VerifierAssignable
<1>4. \A u : MayVerify(ev, u) => Advances(ev, Approved(ev))
  <2>1. Approved(ev).state = "LOCKED"
    BY DEF Approved
  <2>2. QED
    BY <2>1 DEF MayVerify
<1>5. \A u, score, critical : MayVerify(ev, u) => Advances(ev, Modified(ev, score, critical))
  <2>1. \A score, critical : Modified(ev, score, critical).state = "LOCKED"
    BY DEF Modified
  <2>2. QED
    BY <2>1 DEF MayVerify
<1>6. \A u, commented : MayVerify(ev, u) => Advances(ev, Rejected(ev, commented))
  <2>1. \A commented : Rejected(ev, commented).state = "QA_PENDING"
    BY DEF Rejected
  <2>2. QED
    BY <2>1 DEF MayVerify
<1>7. \A u : MayAssignQa(ev, u) => Advances(ev, AssignedQa(ev, u))
  BY DEF MayAssignQa, AssignedQa
<1>8. \A u : MayAssignVerifier(ev, u) => Advances(ev, AssignedVerifier(ev, u))
  BY DEF MayAssignVerifier, AssignedVerifier
<1>9. ASSUME NEW u, MayReassign(ev)
      PROVE  Advances(ev, Reassigned(ev, u))
  <2>1. Reassigned(ev, u).state = ev.state
    <3>1. CASE ev.state = "QA_IN_PROGRESS"
      BY <3>1 DEF Reassigned
    <3>2. CASE ev.state # "QA_IN_PROGRESS"
      BY <3>2 DEF Reassigned
    <3>3. QED
      BY <3>1, <3>2
  <2>2. QED
    BY <1>9, <2>1 DEF MayReassign, InProgress, QaAssignable, VerifierAssignable
<1>10. QED
  BY <1>1, <1>2, <1>3, <1>4, <1>5, <1>6, <1>7, <1>8, <1>9

LEMMA ReviewAdvances ==
  ASSUME RowsTyped, RowsConsistent, ReviewStep
  PROVE  AllAdvance
<1>0. \A e \in Evals : evals[e] \in Evaluation
  BY DEF RowsTyped, TablesOK
<1>1. ASSUME NEW e \in Evals, NEW u \in QaActors, QaStart(e, u)
      PROVE  AllAdvance
  BY <1>0, <1>1, HandlersAdvance, OneRowAdvances DEF QaStart
<1>2. ASSUME NEW e \in Evals, NEW u \in QaActors, NEW score \in Scores,
             NEW critical \in BOOLEAN, QaSubmit(e, u, score, critical)
      PROVE  AllAdvance
  <2>1. PICK assignee :
          evals' = [evals EXCEPT ![e] = QaSubmitted(evals[e], score, critical, assignee)]
    BY <1>2 DEF QaSubmit
  <2>2. Advances(evals[e], QaSubmitted(evals[e], score, critical, assignee))
    BY <1>0, <1>2, HandlersAdvance DEF QaSubmit
  <2>3. QED
    BY <2>1, <2>2, OneRowAdvances
<1>3. ASSUME NEW e \in Evals, NEW u \in VerifierActors, VerifierStart(e, u)
      PROVE  AllAdvance
  BY <1>0, <1>3, HandlersAdvance, OneRowAdvances DEF VerifierStart
<1>4. ASSUME NEW e \in Evals, NEW u \in VerifierActors, VerifierApprove(e, u)
      PROVE  AllAdvance
  BY <1>0, <1>4, HandlersAdvance, OneRowAdvances DEF VerifierApprove
<1>5. ASSUME NEW e \in Evals, NEW u \in VerifierActors, NEW score \in Scores,
             NEW critical \in BOOLEAN, VerifierModify(e, u, score, critical)
      PROVE  AllAdvance
  BY <1>0, <1>5, HandlersAdvance, OneRowAdvances DEF VerifierModify
<1>6. ASSUME NEW e \in Evals, NEW u \in VerifierActors, NEW commented \in BOOLEAN,
             VerifierReject(e, u, commented)
      PROVE  AllAdvance
  BY <1>0, <1>6, HandlersAdvance, OneRowAdvances DEF VerifierReject
<1>7. ASSUME NEW e \in Evals,
             RowTurnsStale(e) \/ \E status \in {"RESOLVED", "DISMISSED"} :
                                   ResolveAuditCase(e, status)
      PROVE  AllAdvance
  BY <1>7, SameRowsAdvance DEF RowTurnsStale, ResolveAuditCase
<1>8. ASSUME NEW e \in Evals, NEW target \in Users, ManualAssign(e, target)
      PROVE  AllAdvance
  BY <1>0, <1>8, HandlersAdvance, OneRowAdvances DEF ManualAssign
<1>9. ASSUME NEW e \in Evals, NEW target \in Users, Reassign(e, target)
      PROVE  AllAdvance
  BY <1>0, <1>9, HandlersAdvance, OneRowAdvances DEF Reassign
\* A round robin looks at the queue row only; the row says what the state is.
<1>10. ASSUME NEW queueType \in {"QA_QUEUE", "VERIFIER_QUEUE"},
              NEW batch \in SUBSET Unassigned(queueType),
              NEW deal \in [batch -> RoundRobinUsers(queueType)],
              RoundRobinAssign(queueType, batch, deal)
       PROVE  AllAdvance
  <2>1. ASSUME NEW e \in batch
        PROVE  Advances(evals[e], RoundRobinRow(evals[e], queueType, deal[e]))
    <3>1. e \in Evals /\ queue[e] # NoRow /\ queue[e].type = queueType
      BY <2>1 DEF Unassigned
    <3>2. QueueFits(evals[e], queue[e], conv[e], audit[e])
      BY <3>1 DEF RowsConsistent, Consistent
    <3>3. CASE queueType = "QA_QUEUE"
      <4>1. evals[e].state \in QaAssignable
        BY <3>1, <3>2, <3>3 DEF QueueFits
      <4>2. QED
        BY <1>0, <3>1, <3>3, <4>1 DEF RoundRobinRow, QaStarted, Advances, Evaluation
    <3>4. CASE queueType = "VERIFIER_QUEUE"
      <4>1. evals[e].state \in VerifierAssignable
        BY <3>1, <3>2, <3>4 DEF QueueFits
      <4>2. QED
        BY <1>0, <3>1, <3>4, <4>1 DEF RoundRobinRow, VerifierStarted, Advances, Evaluation
    <3>5. QED
      BY <3>3, <3>4
  <2>2. \A e \in Evals : evals'[e] = IF e \in batch
                                     THEN RoundRobinRow(evals[e], queueType, deal[e])
                                     ELSE evals[e]
    BY <1>10 DEF RoundRobinAssign
  <2>3. QED
    BY <2>1, <2>2 DEF AllAdvance, Advances, SameWork
<1>11. ASSUME StaleScan
       PROVE  AllAdvance
  <2>1. \A e \in Evals : \/ evals'[e] = evals[e]
                         \/ evals'[e] = [evals[e] EXCEPT !.escalated = TRUE]
    BY <1>11 DEF StaleScan
  <2>2. ASSUME NEW e \in Evals
        PROVE  SameWork(evals[e], evals'[e])
    <3>1. evals[e] \in Evaluation
      BY <1>0
    <3>2. CASE evals'[e] = evals[e]
      BY <3>2 DEF SameWork
    <3>3. CASE evals'[e] = [evals[e] EXCEPT !.escalated = TRUE]
      BY <3>1, <3>3 DEF SameWork, Evaluation
    <3>4. QED
      BY <2>1, <3>2, <3>3
  <2>3. QED
    BY <2>2 DEF AllAdvance, Advances
<1>12. QED
  BY <1>1, <1>2, <1>3, <1>4, <1>5, <1>6, <1>7, <1>8, <1>9, <1>10, <1>11
  DEF ReviewStep, HandlerStep

LEMMA IntakeAdvances ==
  ASSUME RowsTyped, RowsConsistent, NEW e \in Evals, Intake(e)
  PROVE  AllAdvance
<1>0. evals[e] \in Evaluation
  BY DEF RowsTyped, TablesOK
<1>1. /\ conv[e] = "NONE" => evals[e].state = "NONE"
      /\ tx[e] = "upload" => conv[e] = "NONE"
  BY DEF RowsConsistent, Consistent, StatusFits, InsertIsNew
<1>2. ASSUME NEW status, NEW row, NEW queueRow, conv[e] = "NONE",
             row.state \in {"NONE"} \cup AiStates \cup QaAssignable,
             Receive(e, status, row, queueRow)
      PROVE  AllAdvance
  BY <1>1, <1>2, OneRowAdvances DEF Receive, Advances
<1>3. /\ NewEvaluation("AI_PENDING", NoUser).state \in AiStates
      /\ NoEvaluation.state = "NONE"
      /\ \A assignee : NewEvaluation(QaEntryState(assignee), assignee).state \in QaAssignable
  BY EntryStates DEF NewEvaluation, NoEvaluation, AiStates, AiClaimable
<1>4. CASE IngestConversation(e) \/ ReceiveWithoutForm(e)
           \/ \E assignee \in QaAssignees : UploadToQa(e, assignee)
  BY <1>2, <1>3, <1>4 DEF IngestConversation, ReceiveWithoutForm, UploadToQa, NotReceived
<1>5. CASE UploadCommit(e)
  BY <1>1, <1>2, <1>3, <1>5 DEF UploadCommit
<1>6. CASE UploadSend(e) \/ UploadSendFails(e) \/ UploadAborts(e) \/ SendJob(e)
           \/ SendFails(e)
  BY <1>6, SameRowsAdvance DEF UploadSend, UploadSendFails, UploadAborts, SendJob, SendFails
<1>7. CASE RequestAi(e)
  <2>1. CASE RetryAiFailed(e)
    <3>1. RetriedAi(evals[e]).state \in AiStates
      BY <1>0 DEF RetriedAi, AiStates, AiClaimable, Evaluation
    <3>2. QED
      BY <2>1, <3>1, OneRowAdvances DEF RetryAiFailed, MayRetryAi, Advances
  <2>2. CASE ReAuditAi(e)
    <3>1. ReAudited.state \in AiStates
      BY <1>3 DEF ReAudited
    <3>2. QED
      BY <2>2, <3>1, OneRowAdvances DEF ReAuditAi, MayReAudit, Advances
  <2>3. QED
    BY <1>7, <2>1, <2>2 DEF RequestAi, AiRequest
<1>8. QED
  BY <1>4, <1>5, <1>6, <1>7 DEF Intake

LEMMA BackfillAdvances ==
  ASSUME RowsTyped, RowsConsistent, NEW b \in Backfills, Backfill(b)
  PROVE  AllAdvance
<1>1. ASSUME NEW llmEnabled \in BOOLEAN,
             NEW toQa \in SUBSET Evals, NEW bare \in SUBSET Evals,
             NEW assignee \in [toQa -> QaAssignees],
             BackfillCommit(b, llmEnabled, toQa, bare, assignee)
      PROVE  AllAdvance
  <2>1. ASSUME NEW e \in toQa
        PROVE  Advances(evals[e], EnteredQa(evals[e], assignee[e]))
    <3>1. evals[e].state \in {"NONE", "AI_PENDING"}
      BY <1>1 DEF BackfillCommit, MayEnterQa
    <3>2. EnteredQa(evals[e], assignee[e]).state \in QaAssignable
      <4>1. evals[e] \in Evaluation
        BY DEF RowsTyped, TablesOK
      <4>2. CASE evals[e].state = "NONE"
        BY <4>2, EntryStates DEF EnteredQa, NewEvaluation
      <4>3. CASE evals[e].state # "NONE"
        BY <4>1, <4>3, EntryStates DEF EnteredQa, Evaluation
      <4>4. QED
        BY <4>2, <4>3
    <3>3. QED
      BY <3>1, <3>2 DEF Advances, AiStates, AiClaimable
  <2>2. \A e \in bare : evals[e].state = "NONE"
    BY <1>1 DEF BackfillCommit, MayEnterBare
  <2>3. \A e \in Inserted(b) : evals[e].state = "NONE"
    BY DEF Inserted, RowsConsistent, Consistent, InsertIsNew
  <2>4. /\ NewEvaluation("QA_PENDING", NoUser).state \in QaAssignable
        /\ NewEvaluation("AI_PENDING", NoUser).state \in AiStates
    BY DEF NewEvaluation, QaAssignable, AiStates, AiClaimable
  <2>5. \A e \in Evals :
          evals'[e] = CASE e \in toQa -> EnteredQa(evals[e], assignee[e])
                        [] e \in bare -> NewEvaluation("QA_PENDING", NoUser)
                        [] e \in Inserted(b) -> NewEvaluation("AI_PENDING", NoUser)
                        [] OTHER -> evals[e]
    BY <1>1 DEF BackfillCommit
  <2>6. ASSUME NEW e \in Evals
        PROVE  Advances(evals[e], evals'[e])
    <3>1. \/ e \in toQa /\ evals'[e] = EnteredQa(evals[e], assignee[e])
          \/ e \in bare /\ evals'[e] = NewEvaluation("QA_PENDING", NoUser)
          \/ e \in Inserted(b) /\ evals'[e] = NewEvaluation("AI_PENDING", NoUser)
          \/ evals'[e] = evals[e]
      BY <2>5
    <3>2. QED
      BY <2>1, <2>2, <2>3, <2>4, <3>1 DEF Advances, SameWork
  <2>7. QED
    BY <2>6 DEF AllAdvance
<1>2. QED
  BY <1>1, SameRowsAdvance
  DEF Backfill, BackfillFinds, BackfillSend, BackfillAborts, BackfillIsRefused,
      BackfillDeadlocks, RollBack

\* The routing does not look at the state, which is AI_IN_PROGRESS still.
LEMMA WorkerAdvances ==
  ASSUME RowsTyped, TypeOK, ClaimIsExclusive, NEW w \in Workers, Worker(w)
  PROVE  AllAdvance
<1>0. \A e \in Evals : evals[e] \in Evaluation
  BY DEF RowsTyped, TablesOK
<1>1. ASSUME NEW e \in Evals, WorkerClaim(w, e)
      PROVE  AllAdvance
  <2> DEFINE new == [evals[e] EXCEPT !.state = "AI_IN_PROGRESS"]
  <2>1. evals[e].state # "NONE" /\ evals' = [evals EXCEPT ![e] = new]
    BY <1>1 DEF WorkerClaim, AiClaimable
  <2>2. new.state \in AiStates
    BY <1>0 DEF AiStates, Evaluation
  <2> HIDE DEF new
  <2>3. QED
    BY <2>1, <2>2, OneRowAdvances DEF Advances
<1>2. ASSUME NEW assignee \in QaAssignees, WorkerRoute(w, assignee)
      PROVE  AllAdvance
  <2> DEFINE new == [evals[worker[w]] EXCEPT !.state = QaEntryState(assignee),
                                             !.qaUser = assignee]
  <2>1. worker[w] \in Evals /\ evals[worker[w]].state = "AI_IN_PROGRESS"
    BY <1>2 DEF WorkerRoute, TypeOK, ClaimIsExclusive
  <2>2. evals' = [evals EXCEPT ![worker[w]] = new]
    BY <1>2 DEF WorkerRoute
  <2>3. new.state \in QaAssignable
    BY <1>0, <2>1, EntryStates DEF Evaluation
  <2> HIDE DEF new
  <2>4. QED
    BY <2>1, <2>2, <2>3, OneRowAdvances DEF Advances, AiStates
<1>3. ASSUME \/ \E e \in Evals : \/ WorkerSkip(w, e) \/ WorkerFindsNoConversation(w, e)
                                 \/ WorkerFailsEarly(w, e)
             \/ WorkerFails(w) \/ WorkerCrashes(w)
      PROVE  AllAdvance
  BY <1>3, SameRowsAdvance DEF WorkerSkip, WorkerFindsNoConversation, WorkerFailsEarly,
                               WorkerFails, WorkerCrashes
<1>4. QED
  BY <1>1, <1>2, <1>3 DEF Worker

LEMMA StepsAdvance == IInv /\ [Next]_vars => AllAdvance
<1> SUFFICES ASSUME IInv, [Next]_vars PROVE AllAdvance
  OBVIOUS
<1>1. RowsTyped /\ TypeOK /\ ClaimIsExclusive /\ RowsConsistent
  BY DEF IInv, TypeOK, RowsTyped, TablesOK, Rows
<1>2. CASE ReviewStep /\ UNCHANGED pipeline
  BY <1>1, <1>2, ReviewAdvances
<1>3. ASSUME NEW d \in Evals, Intake(d) \/ JobIsDuplicated(d)
      PROVE  AllAdvance
  BY <1>1, <1>3, IntakeAdvances, SameRowsAdvance DEF JobIsDuplicated
<1>4. ASSUME NEW b \in Backfills, Backfill(b)
      PROVE  AllAdvance
  BY <1>1, <1>4, BackfillAdvances
<1>5. ASSUME NEW w \in Workers, Worker(w)
      PROVE  AllAdvance
  BY <1>1, <1>5, WorkerAdvances
<1>6. CASE UNCHANGED vars
  BY <1>6, SameRowsAdvance DEF vars
<1>7. QED
  BY <1>2, <1>3, <1>4, <1>5, <1>6 DEF Next

LEMMA StartsAbstract == Init => Abstract!Init
<1> SUFFICES ASSUME Init PROVE Abstract!Init
  OBVIOUS
<1>1. PICK start \in [Evals -> Start] : evals = [e \in Evals |-> start[e].row]
  BY DEF Init
<1>2. ASSUME NEW ev,
             \/ ev = NoEvaluation \/ ev = NewEvaluation("AI_FAILED", NoUser)
             \/ \E score \in LegacyScores :
                   ev = [NewEvaluation("QA_PENDING", NoUser) EXCEPT !.aiScore = score]
      PROVE  /\ StageOf(ev.state) \in {"absent", "automatic", "qa"}
             /\ OwnerOf(ev) = NoUser
             /\ ev.passFail = "none"
  <2>1. ev.state \in {"NONE", "AI_FAILED", "QA_PENDING"} /\ ev.passFail = "none"
    BY <1>2 DEF NoEvaluation, NewEvaluation
  <2>2. OwnerOf(ev) = NoUser
    BY <2>1 DEF OwnerOf
  <2>3. CASE ev.state = "NONE"
    BY <2>1, <2>2, <2>3 DEF StageOf, AiStates, AiClaimable, QaAssignable,
                            VerifierAssignable
  <2>4. CASE ev.state = "AI_FAILED"
    BY <2>1, <2>2, <2>4 DEF StageOf, AiStates, AiClaimable, QaAssignable,
                            VerifierAssignable
  <2>5. CASE ev.state = "QA_PENDING"
    BY <2>1, <2>2, <2>5 DEF StageOf, AiStates, AiClaimable, QaAssignable,
                            VerifierAssignable
  <2>6. QED
    BY <2>1, <2>3, <2>4, <2>5
<1>3. ASSUME NEW e \in Evals
      PROVE  /\ StageOf(evals[e].state) \in {"absent", "automatic", "qa"}
             /\ OwnerOf(evals[e]) = NoUser
             /\ evals[e].passFail = "none"
  <2>1. evals[e] = start[e].row /\ start[e] \in Start
    BY <1>1
  <2>2. QED
    BY <2>1, <1>2 DEF Start
<1>4. QED
  BY <1>3 DEF Abstract!Init

\* The moves of a step are one step of the abstract workflow.
LEMMA StepsMove ==
  ASSUME IInv, IInv', AllAdvance
  PROVE  Abstract!Next
<1>1. \A e \in Evals : Presentable(evals[e]) /\ Presentable(evals'[e])
  <2>1. \A e \in Evals : Presentable(evals[e])
    BY RowsArePresentable
  <2>2. (\A e \in Evals : Presentable(evals[e]))'
    BY RowsArePresentable, PTL
  <2>3. QED
    BY <2>1, <2>2
<1>2. ASSUME NEW e \in Evals
      PROVE  Abstract!Move(e)
  <2>1. Advances(evals[e], evals'[e]) /\ Presentable(evals[e]) /\ Presentable(evals'[e])
    BY <1>1 DEF AllAdvance
  <2>2. OwnerOf(evals'[e]) \in Users \cup {NoUser}
    BY <2>1, OwnersOfRows
  <2>3. QED
    BY <2>1, <2>2, AdvanceIsMove
    DEF Abstract!Move, Abstract!Stays, Abstract!Arrive, Abstract!Route, Abstract!Take,
        Abstract!HandOn, Abstract!SendBack, Abstract!Lock, Abstract!Restart,
        Abstract!Becomes, Abstract!Reviewing
<1>3. [e \in Evals |-> StageOf(evals'[e].state)] \in [Evals -> Abstract!Stage]
  BY <1>1, StagesOfStates DEF Abstract!Stage
<1>4. QED
  BY <1>2, <1>3 DEF Abstract!Next

\* The four tables, the jobs and the workers implement the abstract review: an
\* evaluation moves only as that workflow lets it, whatever crashes, is sent
\* twice or is done by a scan.
THEOREM ReviewImplementsAbstract == Spec => ImplementsAbstract
<1>1. Init => Abstract!Init
  BY StartsAbstract
<1>2. IInv /\ IInv' /\ [Next]_vars => [Abstract!Next]_(Abstract!abstract)
  BY StepsAdvance, StepsMove
<1>3. QED
  BY <1>1, <1>2, Invariance, PTL DEF Spec, ImplementsAbstract, Abstract!Spec
=============================================================================
