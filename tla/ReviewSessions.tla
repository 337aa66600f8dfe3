-------------------------- MODULE ReviewSessions ---------------------------
(***************************************************************************)
(* The review handlers as overlapping database sessions.  A request reads  *)
(* the evaluation row (with SELECT ... FOR UPDATE in qa_start,             *)
(* verifier_start and verifier_reject, without a lock in all others),      *)
(* checks it, and commits later.  PostgreSQL runs at READ COMMITTED, and   *)
(* the ORM writes only the columns that differ from what it read, so a     *)
(* commit merges into whatever the row holds by then.                      *)
(*                                                                         *)
(* From the first write of a transaction to its commit the row is locked   *)
(* anyway, so write and commit are one step here.  The eval.process worker *)
(* is kept with its two transactions.  The tables are ReviewWorkflow's; of *)
(* its one-step handlers, round robin, the stale scan and audit resolution *)
(* do not run here (BulkSessions has the first two).                       *)
(***************************************************************************)
EXTENDS ReviewWorkflow

CONSTANTS
  Sessions,    \* requests that can be under way at a time
  Workers,
  NoEval,
  Idle,        \* a session with no request
  Operations,  \* handlers offered to the sessions
  MaxJobs,     \* bound: jobs of one evaluation waiting in the broker
  MaxRequests  \* bound: requests made in a behaviour

\* Mutant: qa_start reads the row without FOR UPDATE.
Locking_NotQaStart == {"verifier_start", "verifier_reject"}

Locking == {"qa_start", "verifier_start", "verifier_reject"}

ASSUME SessionsAssumption ==
  /\ Operations \subseteq
       {"qa_start", "qa_submit", "verifier_start", "verifier_approve",
        "verifier_modify", "verifier_reject", "manual_assign", "reassign",
        "re_audit_ai"}
  /\ MaxJobs \in Nat
  /\ MaxRequests \in Nat

VARIABLES
  session,   \* per session: Idle, or the request and the row it read
  requests,  \* number of requests made
  jobs,      \* eval.process messages in the broker
  worker     \* the evaluation a worker has claimed

vars == <<evals, queue, conv, audit, session, requests, jobs, worker>>

Request == [op: Operations, e: Evals, user: Users, row: Evaluation,
            queueRow: QueueRow \cup {NoRow}]

-----------------------------------------------------------------------------
(* The check a handler makes of the row it read, and who may call it.  For *)
(* manual_assign and reassign user is the target the administrator names.  *)

GoesThrough(op, ev, u) ==
  \/ op = "qa_start" /\ u \in QaActors /\ MayQaStart(ev, u)
  \/ op = "qa_submit" /\ u \in QaActors /\ MayQaSubmit(ev, u)
  \/ op = "verifier_start" /\ u \in VerifierActors /\ MayVerifierStart(ev)
  \/ op \in {"verifier_approve", "verifier_modify", "verifier_reject"}
       /\ u \in VerifierActors /\ MayVerify(ev, u)
  \/ op = "manual_assign" /\ (MayAssignQa(ev, u) \/ MayAssignVerifier(ev, u))
  \/ op = "reassign" /\ MayReassign(ev)
  \/ op = "re_audit_ai" /\ MayReAudit(ev)

Open(s) == session[s] # Idle

HoldsLock(s, e) == Open(s) /\ session[s].op \in Locking /\ session[s].e = e

\* Mutant: a commit does not wait for another session's lock.
RowIsFree_NoWait(s, e) == s \in Sessions

RowIsFree(s, e) == \A t \in Sessions \ {s} : ~HoldsLock(t, e)

Begin(s, op, e, u) ==
  /\ ~Open(s)
  /\ requests < MaxRequests
  /\ requests' = requests + 1
  /\ op \in Locking => RowIsFree(s, e)
  /\ GoesThrough(op, evals[e], u)
  /\ session' = [session EXCEPT ![s] = [op |-> op, e |-> e, user |-> u,
                                        row |-> evals[e], queueRow |-> queue[e]]]
  /\ UNCHANGED <<evals, queue, conv, audit, jobs, worker>>

-----------------------------------------------------------------------------
(* Commit *)

\* Closes the request and merges the row it computed.
Finish(s, new) ==
  LET e == session[s].e
  IN  /\ evals' = [evals EXCEPT ![e] = MergeRow(session[s].row, new, @)]
      /\ session' = [session EXCEPT ![s] = Idle]
      /\ UNCHANGED <<requests, worker>>

CommitClaim(s) ==
  LET r == session[s]
  IN  /\ \/ /\ r.op = "qa_start"
            /\ Finish(s, QaStarted(r.row, r.user))
            /\ queue' = [queue EXCEPT ![r.e] = UpsertQueue("QA_QUEUE", r.user)]
         \/ /\ r.op = "verifier_start"
            /\ Finish(s, VerifierStarted(r.row, r.user))
            /\ queue' = [queue EXCEPT ![r.e] = UpsertQueue("VERIFIER_QUEUE", r.user)]
      /\ UNCHANGED <<conv, audit, jobs>>

CommitQaSubmit(s, score, critical) ==
  LET r == session[s]
      outcome == SubmitOutcome(r.row.aiScore, score)
  IN  /\ r.op = "qa_submit"
      /\ \E assignee \in SubmitAssignees(outcome) :
           /\ Finish(s, QaSubmitted(r.row, score, critical, assignee))
           /\ queue' = [queue EXCEPT ![r.e] = SubmittedQueue(outcome, assignee)]
      /\ conv' = [conv EXCEPT ![r.e] = SubmittedConv(outcome)]
      /\ UNCHANGED <<audit, jobs>>

CommitVerifierApprove(s) ==
  LET r == session[s]
  IN  /\ r.op = "verifier_approve"
      /\ Finish(s, Approved(r.row))
      /\ queue' = [queue EXCEPT ![r.e] = NoRow]
      /\ conv' = [conv EXCEPT ![r.e] = "COMPLETED"]
      /\ UNCHANGED <<audit, jobs>>

CommitVerifierModify(s, score, critical) ==
  LET r == session[s]
      opens == OpensAudit(r.row.qaScore, score)
  IN  /\ r.op = "verifier_modify"
      /\ Finish(s, Modified(r.row, score, critical))
      /\ queue' = [queue EXCEPT ![r.e] =
                     IF opens THEN UpsertQueue("AUDIT_QUEUE", NoUser) ELSE NoRow]
      /\ audit' = [audit EXCEPT ![r.e] = IF opens THEN "OPEN" ELSE @]
      /\ conv' = [conv EXCEPT ![r.e] = IF opens THEN "AUDIT" ELSE "COMPLETED"]
      /\ UNCHANGED jobs

\* Mutant: a conversation status that the column does not know.
CommitVerifierReject_BadStatus(s, commented) ==
  LET r == session[s]
  IN  /\ r.op = "verifier_reject"
      /\ Finish(s, Rejected(r.row, commented))
      /\ queue' = [queue EXCEPT ![r.e] = RejectedQueue(@)]
      /\ conv' = [conv EXCEPT ![r.e] = "QA_PENDING"]
      /\ UNCHANGED <<audit, jobs>>

CommitVerifierReject(s, commented) ==
  LET r == session[s]
  IN  /\ r.op = "verifier_reject"
      /\ Finish(s, Rejected(r.row, commented))
      /\ queue' = [queue EXCEPT ![r.e] = RejectedQueue(@)]
      /\ conv' = [conv EXCEPT ![r.e] = "QA_REVIEW"]
      /\ UNCHANGED <<audit, jobs>>

\* manual_assign loads the queue row before it writes: a row deleted since is
\* a StaleDataError, one changed since is merged, one inserted since is found.
AssignedQueue(read, current, type, user) ==
  IF read = NoRow
  THEN UpsertQueue(type, user)
  ELSE [MergeRow(read, [read EXCEPT !.type = type, !.assigned = user], current)
          EXCEPT !.stale = FALSE]

CommitManualAssign(s) ==
  LET r == session[s]
  IN  /\ r.op = "manual_assign"
      /\ r.queueRow # NoRow => queue[r.e] # NoRow
      /\ \/ /\ MayAssignQa(r.row, r.user)
            /\ Finish(s, AssignedQa(r.row, r.user))
            /\ queue' = [queue EXCEPT ![r.e] =
                           AssignedQueue(r.queueRow, @, "QA_QUEUE", r.user)]
         \/ /\ MayAssignVerifier(r.row, r.user)
            /\ Finish(s, AssignedVerifier(r.row, r.user))
            /\ queue' = [queue EXCEPT ![r.e] =
                           AssignedQueue(r.queueRow, @, "VERIFIER_QUEUE", r.user)]
      /\ UNCHANGED <<conv, audit, jobs>>

CommitReassign(s) ==
  LET r == session[s]
  IN  /\ r.op = "reassign"
      /\ Finish(s, Reassigned(r.row, r.user))
      /\ queue' = [queue EXCEPT ![r.e] = ReassignedQueue(@, r.user)]
      /\ UNCHANGED <<conv, audit, jobs>>

\* The commit and the send that follows it.
CommitReAudit(s) ==
  LET r == session[s]
  IN  /\ r.op = "re_audit_ai"
      /\ Finish(s, ReAudited)
      /\ queue' = [queue EXCEPT ![r.e] = NoRow]
      /\ conv' = [conv EXCEPT ![r.e] = "PENDING"]
      /\ audit' = [audit EXCEPT ![r.e] = "NONE"]
      /\ jobs[r.e] < MaxJobs
      /\ jobs' = [jobs EXCEPT ![r.e] = @ + 1]

Commit(s) ==
  /\ Open(s)
  /\ RowIsFree(s, session[s].e)
  /\ \/ CommitClaim(s)
     \/ \E score \in Scores, critical \in BOOLEAN : CommitQaSubmit(s, score, critical)
     \/ CommitVerifierApprove(s)
     \/ \E score \in Scores, critical \in BOOLEAN :
          CommitVerifierModify(s, score, critical)
     \/ \E commented \in BOOLEAN : CommitVerifierReject(s, commented)
     \/ CommitManualAssign(s)
     \/ CommitReassign(s)
     \/ CommitReAudit(s)

\* The request fails before its commit: the transaction rolls back.
RollBack(s) ==
  /\ Open(s)
  /\ session' = [session EXCEPT ![s] = Idle]
  /\ UNCHANGED <<evals, queue, conv, audit, requests, jobs, worker>>

-----------------------------------------------------------------------------
(* eval.process: the claim is one guarded UPDATE, which waits for the lock *)

RowIsUnlocked(e) == \A s \in Sessions : ~HoldsLock(s, e)

WorkerClaim(w, e) ==
  /\ worker[w] = NoEval
  /\ jobs[e] > 0
  /\ RowIsUnlocked(e)
  /\ jobs' = [jobs EXCEPT ![e] = @ - 1]
  /\ IF evals[e].state \in AiClaimable
     THEN /\ evals' = [evals EXCEPT ![e].state = "AI_IN_PROGRESS"]
          /\ worker' = [worker EXCEPT ![w] = e]
     ELSE UNCHANGED <<evals, worker>>
  /\ UNCHANGED <<queue, conv, audit, session, requests>>

WorkerRoute(w, assignee) ==
  LET e == worker[w]
  IN  /\ e # NoEval
      /\ RowIsUnlocked(e)
      /\ evals' = [evals EXCEPT ![e] =
                     [@ EXCEPT !.state = QaEntryState(assignee), !.qaUser = assignee]]
      /\ queue' = [queue EXCEPT ![e] = UpsertQueueViaPool(@, "QA_QUEUE", assignee)]
      /\ conv' = [conv EXCEPT ![e] = "QA_REVIEW"]
      /\ worker' = [worker EXCEPT ![w] = NoEval]
      /\ UNCHANGED <<audit, session, requests, jobs>>

-----------------------------------------------------------------------------

\* An evaluation somewhere in its life, with the queue row that goes with it.
StartInQa(u) ==
  [row |-> NewEvaluation(QaEntryState(u), u),
   queueRow |-> UpsertQueue("QA_QUEUE", u), status |-> "QA_REVIEW"]

StartInVerification(q, v, score) ==
  [row |-> [NewEvaluation("VERIFIER_IN_PROGRESS", q) EXCEPT
              !.verUser = v, !.qaScore = score],
   queueRow |-> UpsertQueue("VERIFIER_QUEUE", v), status |-> "VERIFIER_REVIEW"]

Start ==
  {StartInQa(u) : u \in {NoUser} \cup QaActors}
  \cup
  {StartInVerification(q, v, score) : q \in QaActors, v \in VerifierActors,
                                      score \in {s \in Scores : InVerifierRange(s)}}

Init ==
  /\ \E start \in [Evals -> Start] :
       /\ evals = [e \in Evals |-> start[e].row]
       /\ queue = [e \in Evals |-> start[e].queueRow]
       /\ conv = [e \in Evals |-> start[e].status]
  /\ audit = [e \in Evals |-> "NONE"]
  /\ session = [s \in Sessions |-> Idle]
  /\ requests = 0
  /\ jobs = [e \in Evals |-> 0]
  /\ worker = [w \in Workers |-> NoEval]

Next ==
  \/ \E s \in Sessions :
       \/ \E op \in Operations, e \in Evals, u \in Users : Begin(s, op, e, u)
       \/ Commit(s)
       \/ RollBack(s)
  \/ \E w \in Workers :
       \/ \E e \in Evals : WorkerClaim(w, e)
       \/ \E assignee \in {NoUser} \cup QaActors : WorkerRoute(w, assignee)

Spec == Init /\ [][Next]_vars

-----------------------------------------------------------------------------
(* Properties *)

\* Every table holds rows it can hold, and an open request the row it read.
TypeOK ==
  /\ evals \in [Evals -> Evaluation]
  /\ queue \in [Evals -> QueueRow \cup {NoRow}]
  /\ conv \in [Evals -> ConvStatus]
  /\ audit \in [Evals -> AuditStatus]
  /\ session \in [Sessions -> Request \cup {Idle}]
  /\ requests \in 0..MaxRequests
  /\ jobs \in [Evals -> 0..MaxJobs]
  /\ worker \in [Workers -> Evals \cup {NoEval}]

\* SELECT ... FOR UPDATE does its work even next to handlers that do not use
\* it: while qa_start, verifier_start or verifier_reject is between its check
\* and its commit, the row stays what the check saw.
LockedReadStaysCurrent ==
  \A s \in Sessions :
    Open(s) /\ session[s].op \in Locking =>
      evals[session[s].e] = session[s].row

\* However reviewers' requests overlap, a locked evaluation has a score and a
\* verdict.
LockedHasVerdict ==
  \A e \in Evals :
    evals[e].state = "LOCKED" =>
      evals[e].final # NoScore /\ evals[e].passFail # "none"

\* However reviewers' requests overlap, work in progress belongs to somebody.
\* (Overlapping assignments or re-audits can leave it with no owner.)
InProgressHasOwner ==
  \A e \in Evals :
    /\ evals[e].state = "QA_IN_PROGRESS" => evals[e].qaUser # NoUser
    /\ evals[e].state = "VERIFIER_IN_PROGRESS" => evals[e].verUser # NoUser

\* Among overlapping reviewers a QA claim is never overwritten by another one.
QaClaimHolds ==
  \A e \in Evals :
    evals[e].state = "QA_IN_PROGRESS" /\ evals'[e].state = "QA_IN_PROGRESS"
    => evals'[e].qaUser = evals[e].qaUser

\* The comment of _ensure_eval: claim, submit and approve operations on one
\* evaluation are serialised.  Then what a handler checked still holds of the
\* row it commits to.
ReviewersAreSerialised ==
  [][\A s \in Sessions :
       /\ Open(s) /\ session'[s] = Idle /\ evals' # evals
       /\ session[s].op \in Locking \cup {"qa_submit", "verifier_approve"}
       => GoesThrough(session[s].op, evals[session[s].e], session[s].user)]_vars

\* The comment of eval_process: a second job of an evaluation exits early, so
\* one evaluation is never processed by two workers in parallel.
NoParallelProcessing ==
  \A v, w \in Workers : v # w /\ worker[v] # NoEval => worker[v] # worker[w]
=============================================================================
