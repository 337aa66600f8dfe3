-------------------------- MODULE ReviewWorkflow ---------------------------
(***************************************************************************)
(* The human half of the workflow: QA, verification, escalation, audit and *)
(* assignment, with every request handler and every scan one transaction   *)
(* that nothing interrupts.  (ReviewSessions drops that assumption.)       *)
(*                                                                         *)
(* A handler that raises changes nothing, so an action is enabled exactly  *)
(* when its handler goes through.                                          *)
(***************************************************************************)
EXTENDS ReviewHandlers

VARIABLES
  evals,   \* evaluations: Evals -> row
  queue,   \* workflow_queues, unique per evaluation: Evals -> row or NoRow
  conv,    \* conversations.status
  audit    \* audit_cases.status, unique per evaluation

tables == <<evals, queue, conv, audit>>

-----------------------------------------------------------------------------
(* QA *)

QaStart(e, u) ==
  /\ MayQaStart(evals[e], u)
  /\ evals' = [evals EXCEPT ![e] = QaStarted(@, u)]
  /\ queue' = [queue EXCEPT ![e] = UpsertQueue("QA_QUEUE", u)]
  /\ UNCHANGED <<conv, audit>>

QaSubmit(e, u, score, critical) ==
  LET outcome == SubmitOutcome(evals[e].aiScore, score)
  IN  /\ MayQaSubmit(evals[e], u)
      /\ \E assignee \in SubmitAssignees(outcome) :
           /\ evals' = [evals EXCEPT ![e] = QaSubmitted(@, score, critical, assignee)]
           /\ queue' = [queue EXCEPT ![e] = SubmittedQueue(outcome, assignee)]
      /\ conv' = [conv EXCEPT ![e] = SubmittedConv(outcome)]
      /\ UNCHANGED audit

-----------------------------------------------------------------------------
(* Verification *)

VerifierStart(e, u) ==
  /\ MayVerifierStart(evals[e])
  /\ evals' = [evals EXCEPT ![e] = VerifierStarted(@, u)]
  /\ queue' = [queue EXCEPT ![e] = UpsertQueue("VERIFIER_QUEUE", u)]
  /\ UNCHANGED <<conv, audit>>

VerifierApprove(e, u) ==
  /\ MayVerify(evals[e], u)
  /\ evals' = [evals EXCEPT ![e] = Approved(@)]
  /\ queue' = [queue EXCEPT ![e] = NoRow]
  /\ conv' = [conv EXCEPT ![e] = "COMPLETED"]
  /\ UNCHANGED audit

VerifierModify(e, u, score, critical) ==
  LET opens == OpensAudit(evals[e].qaScore, score)
  IN  /\ MayVerify(evals[e], u)
      /\ evals' = [evals EXCEPT ![e] = Modified(@, score, critical)]
      /\ queue' = [queue EXCEPT ![e] =
                     IF opens THEN UpsertQueue("AUDIT_QUEUE", NoUser) ELSE NoRow]
      /\ audit' = [audit EXCEPT ![e] = IF opens THEN "OPEN" ELSE @]
      /\ conv' = [conv EXCEPT ![e] = IF opens THEN "AUDIT" ELSE "COMPLETED"]

\* Mutant: the conversation is left in VERIFIER_REVIEW.
VerifierReject_KeepsStatus(e, u, commented) ==
  /\ MayVerify(evals[e], u)
  /\ evals' = [evals EXCEPT ![e] = Rejected(@, commented)]
  /\ queue' = [queue EXCEPT ![e] = RejectedQueue(@)]
  /\ UNCHANGED <<conv, audit>>

VerifierReject(e, u, commented) ==
  /\ MayVerify(evals[e], u)
  /\ evals' = [evals EXCEPT ![e] = Rejected(@, commented)]
  /\ queue' = [queue EXCEPT ![e] = RejectedQueue(@)]
  /\ conv' = [conv EXCEPT ![e] = "QA_REVIEW"]
  /\ UNCHANGED audit

ResolveAuditCase(e, status) ==
  /\ audit[e] = "OPEN"
  /\ audit' = [audit EXCEPT ![e] = status]
  /\ queue' = [queue EXCEPT ![e] = ResolvedQueue(@)]
  /\ conv' = [conv EXCEPT ![e] = "COMPLETED"]
  /\ UNCHANGED evals

-----------------------------------------------------------------------------
(* Assignment by an administrator *)

ManualAssign(e, target) ==
  /\ \/ /\ MayAssignQa(evals[e], target)
        /\ evals' = [evals EXCEPT ![e] = AssignedQa(@, target)]
        /\ queue' = [queue EXCEPT ![e] = UpsertQueue("QA_QUEUE", target)]
     \/ /\ MayAssignVerifier(evals[e], target)
        /\ evals' = [evals EXCEPT ![e] = AssignedVerifier(@, target)]
        /\ queue' = [queue EXCEPT ![e] = UpsertQueue("VERIFIER_QUEUE", target)]
  /\ UNCHANGED <<conv, audit>>

Unassigned(queueType) ==
  {e \in Evals : /\ queue[e] # NoRow
                 /\ queue[e].type = queueType
                 /\ queue[e].assigned = NoUser}

\* batch is what the department filter and the limit select; which eligible
\* user an item is dealt to (department, current load) is left open.
RoundRobinAssign(queueType, batch, deal) ==
  /\ batch # {}
  /\ evals' = [e \in Evals |-> IF e \in batch
                               THEN RoundRobinRow(evals[e], queueType, deal[e])
                               ELSE evals[e]]
  /\ queue' = [e \in Evals |-> IF e \in batch
                               THEN [queue[e] EXCEPT !.assigned = deal[e]]
                               ELSE queue[e]]
  /\ UNCHANGED <<conv, audit>>

\* Unlike manual_assign, reassign accepts a target of any role.
Reassign(e, target) ==
  /\ MayReassign(evals[e])
  /\ evals' = [evals EXCEPT ![e] = Reassigned(@, target)]
  /\ queue' = [queue EXCEPT ![e] = ReassignedQueue(@, target)]
  /\ UNCHANGED <<conv, audit>>

-----------------------------------------------------------------------------
(* AI retry and re-audit: the transaction; EvaluationSystem adds the send *)

RetryAiFailed(e) ==
  /\ MayRetryAi(evals[e])
  /\ evals' = [evals EXCEPT ![e] = RetriedAi(@)]
  /\ queue' = [queue EXCEPT ![e] = NoRow]
  /\ conv' = [conv EXCEPT ![e] = "PENDING"]
  /\ UNCHANGED audit

\* Mutant: the queue row of the evaluation is not deleted.
ReAuditAi_KeepsRow(e) ==
  /\ MayReAudit(evals[e])
  /\ evals' = [evals EXCEPT ![e] = ReAudited]
  /\ conv' = [conv EXCEPT ![e] = "PENDING"]
  /\ audit' = [audit EXCEPT ![e] = "NONE"]
  /\ UNCHANGED queue

\* Mutant: the audit case of the evaluation is not deleted.
ReAuditAi_KeepsCase(e) ==
  /\ MayReAudit(evals[e])
  /\ evals' = [evals EXCEPT ![e] = ReAudited]
  /\ queue' = [queue EXCEPT ![e] = NoRow]
  /\ conv' = [conv EXCEPT ![e] = "PENDING"]
  /\ UNCHANGED audit

ReAuditAi(e) ==
  /\ MayReAudit(evals[e])
  /\ evals' = [evals EXCEPT ![e] = ReAudited]
  /\ queue' = [queue EXCEPT ![e] = NoRow]
  /\ conv' = [conv EXCEPT ![e] = "PENDING"]
  /\ audit' = [audit EXCEPT ![e] = "NONE"]

-----------------------------------------------------------------------------
(* Time and the stale-queue scan *)

\* External: the clock passes createdAt + staleQueueHours (or dueBy).
RowTurnsStale(e) ==
  /\ queue[e] # NoRow
  /\ ~queue[e].stale
  /\ queue' = [queue EXCEPT ![e].stale = TRUE]
  /\ UNCHANGED <<evals, conv, audit>>

\* One scan promotes every row it selects in one transaction.
StaleScan ==
  LET due == {e \in Evals : ScanEscalates(evals[e], queue[e])}
  IN  /\ due # {}
      /\ queue' = [e \in Evals |-> IF e \in due
                                   THEN [queue[e] EXCEPT !.type = "ESCALATION_QUEUE"]
                                   ELSE queue[e]]
      /\ evals' = [e \in Evals |-> IF e \in due
                                   THEN [evals[e] EXCEPT !.escalated = TRUE]
                                   ELSE evals[e]]
      /\ UNCHANGED <<conv, audit>>

-----------------------------------------------------------------------------

HandlerStep ==
  \E e \in Evals :
    \/ \E u \in QaActors :
         \/ QaStart(e, u)
         \/ \E score \in Scores, critical \in BOOLEAN :
              QaSubmit(e, u, score, critical)
    \/ \E u \in VerifierActors :
         \/ VerifierStart(e, u)
         \/ VerifierApprove(e, u)
         \/ \E score \in Scores, critical \in BOOLEAN :
              VerifierModify(e, u, score, critical)
         \/ \E commented \in BOOLEAN : VerifierReject(e, u, commented)
    \/ \E status \in {"RESOLVED", "DISMISSED"} : ResolveAuditCase(e, status)
    \/ \E target \in Users : ManualAssign(e, target) \/ Reassign(e, target)
    \/ RowTurnsStale(e)

ReviewStep ==
  \/ HandlerStep
  \/ \E queueType \in {"QA_QUEUE", "VERIFIER_QUEUE"} :
       \E batch \in SUBSET Unassigned(queueType) :
         \E deal \in [batch -> RoundRobinUsers(queueType)] :
           RoundRobinAssign(queueType, batch, deal)
  \/ StaleScan

AiRequest(e) == RetryAiFailed(e) \/ ReAuditAi(e)

-----------------------------------------------------------------------------
(* The four tables in step: safety invariants of whatever drives them *)

\* evaluations and workflow_queues name the same person: work in progress
\* has an owner and its queue row is assigned to that owner; work that waits
\* has a row assigned to nobody.  round_robin_assign, which takes unassigned
\* rows without looking at the state, depends on it.
OwnerAgrees(ev, row) ==
  /\ ev.state = "QA_IN_PROGRESS" =>
       row # NoRow /\ row.assigned = ev.qaUser /\ ev.qaUser # NoUser
  /\ ev.state = "VERIFIER_IN_PROGRESS" =>
       row # NoRow /\ row.assigned = ev.verUser /\ ev.verUser # NoUser
  /\ ev.state \in {"QA_PENDING", "QA_COMPLETED", "VERIFIER_PENDING"} =>
       row = NoRow \/ row.assigned = NoUser

AssignmentAgrees == \A e \in Evals : OwnerAgrees(evals[e], queue[e])

\* The queue an evaluation sits in fits its state: nothing is queued before
\* QA or after the lock (an audit excepted), QA work sits in the QA queue and
\* verifier work in the verifier queue unless it is escalated, and only a
\* QA_PENDING row that a backfill left bare has no queue row at all.
QueueFits(ev, row, status, auditStatus) ==
  IF row = NoRow
  THEN \/ ev.state \in AiStates \cup {"NONE", "LOCKED"}
       \/ ev.state = "QA_PENDING" /\ status = "PENDING"
  ELSE CASE row.type = "QA_QUEUE" -> ev.state \in QaAssignable
         [] row.type = "VERIFIER_QUEUE" -> ev.state \in VerifierAssignable
         [] row.type = "ESCALATION_QUEUE" ->
              ev.state \in QaAssignable \cup VerifierAssignable
         [] row.type = "AUDIT_QUEUE" ->
              ev.state = "LOCKED" /\ auditStatus = "OPEN"

QueueMatchesState ==
  \A e \in Evals : QueueFits(evals[e], queue[e], conv[e], audit[e])

\* An open audit case is always in the audit queue, where an administrator
\* can find it, and every audit case belongs to a locked evaluation.
AuditFits(ev, row, status, auditStatus) ==
  /\ auditStatus = "OPEN" =>
       row # NoRow /\ row.type = "AUDIT_QUEUE" /\ status = "AUDIT"
  /\ auditStatus # "NONE" => ev.state = "LOCKED"

OpenAuditIsQueued ==
  \A e \in Evals : AuditFits(evals[e], queue[e], conv[e], audit[e])

\* conversations.status, which four services write, follows the evaluation.
StatusFits(ev, status, auditStatus) ==
  CASE status = "NONE" -> ev.state = "NONE"
    [] status = "PENDING" -> ev.state \in {"NONE"} \cup AiStates \cup QaAssignable
    [] status \in {"EVALUATING", "FAILED"} -> ev.state \in AiStates
    [] status = "QA_REVIEW" -> ev.state \in QaAssignable
    [] status = "VERIFIER_REVIEW" -> ev.state \in VerifierAssignable
    [] status = "COMPLETED" -> ev.state = "LOCKED" /\ auditStatus # "OPEN"
    [] status = "AUDIT" -> ev.state = "LOCKED" /\ auditStatus = "OPEN"

ConversationMatchesState ==
  \A e \in Evals : StatusFits(evals[e], conv[e], audit[e])

\* A final score and a verdict exist exactly while the evaluation is locked,
\* and the layer behind them is a final one, never rejection feedback.
VerdictFits(ev) ==
  IF ev.state = "LOCKED"
  THEN ev.final # NoScore /\ ev.passFail # "none" /\ ev.verLayer = "final"
  ELSE ev.final = NoScore /\ ev.passFail = "none" /\ ev.verLayer # "final"

VerdictIffLocked == \A e \in Evals : VerdictFits(evals[e])

\* A verifier always works on a scored submission and starts from a clean
\* slate: feedback of an earlier rejection is seen in QA only.
SubmissionFits(ev) ==
  /\ ev.state \in VerifierAssignable => ev.qaScore # NoScore /\ ev.verLayer = "none"
  /\ ev.verLayer = "feedback" => ev.state \in QaAssignable

VerifierSeesSubmission == \A e \in Evals : SubmissionFits(evals[e])
=============================================================================
