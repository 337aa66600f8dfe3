-------------------------- MODULE ReviewHandlers ---------------------------
(***************************************************************************)
(* The handlers of evaluations_service.py as functions of the rows they    *)
(* read: for each one the condition under which it goes through (the       *)
(* complement of its early raises) and the evaluation row it leaves.       *)
(* ReviewWorkflow runs a handler in one step; ReviewSessions runs the same *)
(* handlers with the read and the commit apart.                            *)
(***************************************************************************)
EXTENDS EvaluationStore

-----------------------------------------------------------------------------
(* qa_start *)

\* Mutant: no check of who holds the claim.
MayQaStart_TakesOver(ev, u) == ev.state \in QaAssignable

\* A claim held by another reviewer is not taken over.
MayQaStart(ev, u) ==
  /\ ev.state \in QaAssignable
  /\ ev.state = "QA_IN_PROGRESS" => ev.qaUser \in {u, NoUser}

QaStarted(ev, u) == [ev EXCEPT !.state = "QA_IN_PROGRESS", !.qaUser = u]

-----------------------------------------------------------------------------
(* qa_submit *)

MayQaSubmit(ev, u) == ev.state = "QA_IN_PROGRESS" /\ ev.qaUser = u

\* Mutant: earlier rejection feedback is not cleared by an escalation.
QaSubmitted_KeepsFeedback(ev, score, critical, assignee) ==
  LET outcome == SubmitOutcome(ev.aiScore, score)
      verdict == ScoredVerdict(score, critical)
  IN  CASE outcome = "complete" ->
             [ev EXCEPT !.state = "LOCKED", !.qaScore = score, !.final = score,
                        !.passFail = verdict, !.verLayer = "final"]
        [] outcome = "escalate" ->
             [ev EXCEPT !.state = "QA_COMPLETED", !.qaScore = score,
                        !.escalated = TRUE]
        [] outcome = "verifier" ->
             [ev EXCEPT !.state = IF assignee = NoUser THEN "QA_COMPLETED"
                                  ELSE "VERIFIER_IN_PROGRESS",
                        !.qaScore = score, !.verUser = assignee, !.verLayer = "none"]

\* isEscalated is only ever raised here; verifierFinalData becomes the QA
\* layer on completion and is cleared otherwise.
QaSubmitted(ev, score, critical, assignee) ==
  LET outcome == SubmitOutcome(ev.aiScore, score)
      verdict == ScoredVerdict(score, critical)
  IN  CASE outcome = "complete" ->
             [ev EXCEPT !.state = "LOCKED", !.qaScore = score, !.final = score,
                        !.passFail = verdict, !.verLayer = "final"]
        [] outcome = "escalate" ->
             [ev EXCEPT !.state = "QA_COMPLETED", !.qaScore = score,
                        !.escalated = TRUE, !.verLayer = "none"]
        [] outcome = "verifier" /\ assignee = NoUser ->
             [ev EXCEPT !.state = "QA_COMPLETED", !.qaScore = score,
                        !.verLayer = "none"]
        [] outcome = "verifier" /\ assignee # NoUser ->
             [ev EXCEPT !.state = "VERIFIER_IN_PROGRESS", !.qaScore = score,
                        !.verUser = assignee, !.verLayer = "none"]

SubmittedQueue(outcome, assignee) ==
  CASE outcome = "complete" -> NoRow
    [] outcome = "escalate" -> UpsertQueue("ESCALATION_QUEUE", NoUser)
    [] outcome = "verifier" -> UpsertQueue("VERIFIER_QUEUE", assignee)

SubmittedConv(outcome) ==
  IF outcome = "complete" THEN "COMPLETED" ELSE "VERIFIER_REVIEW"

\* Users select_least_loaded_user may return: only the verifier route asks.
SubmitAssignees(outcome) ==
  {NoUser} \cup (IF outcome = "verifier" THEN VerifierActors ELSE {})

-----------------------------------------------------------------------------
(* verifier_start, verifier_approve, verifier_modify, verifier_reject *)

\* Mutant: verification may begin before the QA layer is submitted.
MayVerifierStart_FromQa(ev) ==
  ev.state \in {"QA_PENDING", "QA_COMPLETED", "VERIFIER_PENDING"}

\* Mutant: verification begins from VERIFIER_PENDING only.
MayVerifierStart_Pending(ev) == ev.state = "VERIFIER_PENDING"

MayVerifierStart(ev) == ev.state \in {"QA_COMPLETED", "VERIFIER_PENDING"}

VerifierStarted(ev, u) ==
  [ev EXCEPT !.state = "VERIFIER_IN_PROGRESS", !.verUser = u]

\* Mutant: the owner is checked, the state is not.
MayVerify_AnyState(ev, u) == ev.state # "NONE" /\ ev.verUser = u

MayVerify(ev, u) == ev.state = "VERIFIER_IN_PROGRESS" /\ ev.verUser = u

\* The verdict is recomputed from the score alone: the QA layer never holds
\* the criticalFailure key that the handler looks up.
Approved(ev) ==
  [ev EXCEPT !.state = "LOCKED", !.final = ev.qaScore,
             !.passFail = IF ev.qaScore = NoScore THEN "fail"
                          ELSE Passes(ev.qaScore),
             !.verLayer = "final"]

\* Mutant: the final verdict is not set on modification.
Modified_NoVerdict(ev, score, critical) ==
  [ev EXCEPT !.state = "LOCKED", !.final = score, !.verLayer = "final"]

Modified(ev, score, critical) ==
  [ev EXCEPT !.state = "LOCKED", !.final = score,
             !.passFail = ScoredVerdict(score, critical), !.verLayer = "final"]

\* The reviewer (qaUser) is kept; commented answers become feedback.
Rejected(ev, commented) ==
  [ev EXCEPT !.state = "QA_PENDING", !.verUser = NoUser,
             !.verLayer = IF commented THEN "feedback" ELSE @]

\* Mutant: the assignee of the queue row is not reset.
RejectedQueue_KeepsAssignee(row) ==
  IF row = NoRow THEN NoRow ELSE [row EXCEPT !.type = "QA_QUEUE"]

\* A raw UPDATE: type and assignee only, and nothing when there is no row.
RejectedQueue(row) ==
  IF row = NoRow THEN NoRow
  ELSE [row EXCEPT !.type = "QA_QUEUE", !.assigned = NoUser]

-----------------------------------------------------------------------------
(* manual_assign, round_robin_assign, reassign *)

MayAssignQa(ev, target) == ev.state \in QaAssignable /\ target \in QaActors

MayAssignVerifier(ev, target) ==
  ev.state \in VerifierAssignable /\ target \in VerifierActors

AssignedQa(ev, target) ==
  [ev EXCEPT !.state = "QA_IN_PROGRESS", !.qaUser = target, !.escalated = FALSE]

AssignedVerifier(ev, target) ==
  [ev EXCEPT !.state = "VERIFIER_IN_PROGRESS", !.verUser = target,
             !.escalated = FALSE]

\* round_robin_assign sets the state without looking at it.
RoundRobinRow(ev, queueType, user) ==
  IF queueType = "QA_QUEUE" THEN QaStarted(ev, user) ELSE VerifierStarted(ev, user)

RoundRobinUsers(queueType) ==
  IF queueType = "QA_QUEUE" THEN QaActors ELSE VerifierActors

MayReassign(ev) == ev.state \in InProgress

Reassigned(ev, target) ==
  IF ev.state = "QA_IN_PROGRESS"
  THEN [ev EXCEPT !.qaUser = target, !.escalated = FALSE]
  ELSE [ev EXCEPT !.verUser = target, !.escalated = FALSE]

\* A raw UPDATE of assignedTo and createdAt; queueType stays as it is.
ReassignedQueue(row, target) ==
  IF row = NoRow THEN NoRow ELSE [row EXCEPT !.assigned = target, !.stale = FALSE]

-----------------------------------------------------------------------------
(* retry_ai_failed, re_audit_ai, resolve_audit_case, the stale scan *)

MayRetryAi(ev) == ev.state = "AI_FAILED"

RetriedAi(ev) == [ev EXCEPT !.state = "AI_PENDING", !.escalated = FALSE]

MayReAudit(ev) == ev.state \notin {"NONE", "AI_IN_PROGRESS"}

\* Every layer, score, owner and flag of the row is reset.
ReAudited == NewEvaluation("AI_PENDING", NoUser)

ResolvedQueue(row) ==
  IF row # NoRow /\ row.type = "AUDIT_QUEUE" THEN NoRow ELSE row

\* Rows the scan selects, less those whose evaluation is already escalated.
ScanEscalates(ev, row) ==
  /\ row # NoRow
  /\ row.type \in {"QA_QUEUE", "VERIFIER_QUEUE"}
  /\ row.stale
  /\ ~ev.escalated

-----------------------------------------------------------------------------

\* The ORM's unit of work at READ COMMITTED: a column is written when it
\* differs from the one read, whatever the row holds by then.
MergeRow(read, new, current) ==
  [column \in DOMAIN current |->
     IF new[column] # read[column] THEN new[column] ELSE current[column]]
=============================================================================
