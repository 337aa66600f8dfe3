------------------------- MODULE EvaluationSystem --------------------------
(***************************************************************************)
(* The evaluation pipeline around the review workflow: conversations come  *)
(* in by webhook, upload or backfill, a Celery job is sent for each        *)
(* evaluation that is AI_PENDING, a worker claims it in one transaction    *)
(* and routes it to QA in a second one, and retry / re-audit send it round *)
(* again.  Processes crash and tasks fail between any two of these steps.  *)
(*                                                                         *)
(* The broker is at-least-once: a job is acknowledged late, so the job of  *)
(* a worker that dies is delivered again, and one job may be delivered     *)
(* twice.  A task that raises is acknowledged and gone.                    *)
(***************************************************************************)
EXTENDS ReviewWorkflow, FiniteSets

CONSTANTS
  Workers,      \* eval.process worker processes
  Backfills,    \* backfill requests under way at a time
  NoEval,       \* an idle worker's evaluation
  LegacyScores, \* AI scores of rows the retired Nest API left behind
  MaxJobs,      \* bound: jobs of one evaluation under way at a time
  MaxCrashes,   \* bound: worker crashes
  MaxFailures   \* bound: failed tasks, failed sends, dying API requests

ASSUME SystemAssumption ==
  /\ NoEval \notin Evals
  /\ Backfills \cap {"none", "upload"} = {}
  /\ LegacyScores \subseteq Scores
  /\ MaxJobs \in Nat /\ MaxCrashes \in Nat /\ MaxFailures \in Nat

VARIABLES
  jobs,     \* eval.process messages waiting in the broker, per evaluation
  toSend,   \* requests that have committed AI_PENDING and not yet sent the job
  tx,       \* the open transaction that has inserted the evaluation
  missing,  \* the evaluation a backfill has looked up and not found
  worker,   \* the evaluation a worker has claimed and not yet routed
  crashes,
  failures

pipeline == <<jobs, toSend, tx, missing, worker, crashes, failures>>
vars ==
  <<evals, queue, conv, audit, jobs, toSend, tx, missing, worker, crashes, failures>>

Tx == {"none", "upload"} \cup Backfills

\* Room for one more job of e under the bound.
MayAddJob(e) ==
  jobs[e] + toSend[e] + Cardinality({w \in Workers : worker[w] = e}) < MaxJobs

\* External: a worker process dies; a task, a send or an API request fails.
Crash == crashes < MaxCrashes /\ crashes' = crashes + 1
Failure == failures < MaxFailures /\ failures' = failures + 1

-----------------------------------------------------------------------------
(* Intake *)

Receive(e, status, row, queueRow) ==
  /\ conv' = [conv EXCEPT ![e] = status]
  /\ evals' = [evals EXCEPT ![e] = row]
  /\ queue' = [queue EXCEPT ![e] = queueRow]
  /\ UNCHANGED audit

NotReceived(e) == conv[e] = "NONE" /\ tx[e] = "none"

\* webhooks_ingest_service: commit first, then send.
IngestConversation(e) ==
  /\ NotReceived(e)
  /\ MayAddJob(e)
  /\ Receive(e, "PENDING", NewEvaluation("AI_PENDING", NoUser), NoRow)
  /\ toSend' = [toSend EXCEPT ![e] = @ + 1]
  /\ UNCHANGED <<jobs, tx, missing, worker, crashes, failures>>

\* Upload or ingest when no published form matches the conversation.
ReceiveWithoutForm(e) ==
  /\ NotReceived(e)
  /\ Receive(e, "PENDING", NoEvaluation, NoRow)
  /\ UNCHANGED pipeline

\* Upload of a conversation that is not for the LLM: straight to QA.
UploadToQa(e, assignee) ==
  /\ NotReceived(e)
  /\ Receive(e, "QA_REVIEW", NewEvaluation(QaEntryState(assignee), assignee),
             UpsertQueue("QA_QUEUE", assignee))
  /\ UNCHANGED pipeline

\* Upload for the LLM: the job is sent while the inserts are uncommitted.
UploadSend(e) ==
  /\ NotReceived(e)
  /\ MayAddJob(e)
  /\ jobs' = [jobs EXCEPT ![e] = @ + 1]
  /\ tx' = [tx EXCEPT ![e] = "upload"]
  /\ UNCHANGED <<evals, queue, conv, audit, toSend, missing, worker, crashes, failures>>

\* _enqueue_eval swallows a broker error and the upload goes on.
UploadSendFails(e) ==
  /\ NotReceived(e)
  /\ Failure
  /\ tx' = [tx EXCEPT ![e] = "upload"]
  /\ UNCHANGED <<evals, queue, conv, audit, jobs, toSend, missing, worker, crashes>>

UploadCommit(e) ==
  /\ tx[e] = "upload"
  /\ Receive(e, "EVALUATING", NewEvaluation("AI_PENDING", NoUser), NoRow)
  /\ tx' = [tx EXCEPT ![e] = "none"]
  /\ UNCHANGED <<jobs, toSend, missing, worker, crashes, failures>>

\* The request dies before its commit: the inserts vanish, the job does not.
UploadAborts(e) ==
  /\ tx[e] = "upload"
  /\ Failure
  /\ tx' = [tx EXCEPT ![e] = "none"]
  /\ UNCHANGED <<evals, queue, conv, audit, jobs, toSend, missing, worker, crashes>>

-----------------------------------------------------------------------------
(* backfill_pending_evaluations *)

\* The evaluations that an open backfill has inserted.
Inserted(b) == {e \in Evals : tx[e] = b}

\* A pending conversation has no evaluation that this backfill can see.
BackfillFinds(b, e) ==
  /\ missing[b] = NoEval
  /\ conv[e] = "PENDING" /\ evals[e].state = "NONE" /\ tx[e] # b
  /\ missing' = [missing EXCEPT ![b] = e]
  /\ UNCHANGED <<evals, queue, conv, audit, jobs, toSend, tx, worker, crashes, failures>>

\* Mutant: conversationId is not unique, so the insert relies on the look-up.
BackfillSend_NotUnique(b, e, sent) ==
  /\ missing[b] = e
  /\ IF sent
     THEN MayAddJob(e) /\ jobs' = [jobs EXCEPT ![e] = @ + 1] /\ UNCHANGED failures
     ELSE Failure /\ UNCHANGED jobs
  /\ tx' = [tx EXCEPT ![e] = b]
  /\ missing' = [missing EXCEPT ![b] = NoEval]
  /\ UNCHANGED <<evals, queue, conv, audit, toSend, worker, crashes>>

\* The evaluation is inserted for the LLM and its job sent (an error of the
\* broker is swallowed).  conversationId is unique: while another transaction
\* holds an insert for the conversation this one waits.
BackfillSend(b, e, sent) ==
  /\ missing[b] = e
  /\ tx[e] = "none" /\ evals[e].state = "NONE"
  /\ IF sent
     THEN MayAddJob(e) /\ jobs' = [jobs EXCEPT ![e] = @ + 1] /\ UNCHANGED failures
     ELSE Failure /\ UNCHANGED jobs
  /\ tx' = [tx EXCEPT ![e] = b]
  /\ missing' = [missing EXCEPT ![b] = NoEval]
  /\ UNCHANGED <<evals, queue, conv, audit, toSend, worker, crashes>>

\* The whole backfill is rolled back; the jobs it has sent are not.
RollBack(b) ==
  /\ tx' = [e \in Evals |-> IF tx[e] = b THEN "none" ELSE tx[e]]
  /\ missing' = [missing EXCEPT ![b] = NoEval]
  /\ UNCHANGED <<evals, queue, conv, audit, jobs, toSend, worker, crashes>>

BackfillAborts(b) ==
  /\ Inserted(b) # {} \/ missing[b] # NoEval
  /\ Failure
  /\ RollBack(b)

\* The insert violates the unique conversationId: another backfill has
\* committed the evaluation since this one looked.
BackfillIsRefused(b) ==
  /\ missing[b] # NoEval /\ evals[missing[b]].state # "NONE"
  /\ RollBack(b)
  /\ UNCHANGED failures

WaitsFor(b, d) == b # d /\ missing[b] # NoEval /\ tx[missing[b]] = d

\* Two backfills wait for each other's insert; the database ends one.
BackfillDeadlocks(b) ==
  /\ \E d \in Backfills : WaitsFor(b, d) /\ WaitsFor(d, b)
  /\ RollBack(b)
  /\ UNCHANGED failures

\* Mutant: the state of an evaluation that exists is not looked at.
MayEnterQa_AnyState(e, llmEnabled) ==
  /\ conv[e] = "PENDING"
  /\ \/ evals[e].state # "NONE"
     \/ evals[e].state = "NONE" /\ ~llmEnabled /\ tx[e] = "none"

\* An AI_PENDING evaluation whose conversation is not for the LLM (any more)
\* and, while the LLM is disabled, a new one, enter the QA queue.
MayEnterQa(e, llmEnabled) ==
  /\ conv[e] = "PENDING"
  /\ \/ evals[e].state = "AI_PENDING"
     \/ evals[e].state = "NONE" /\ ~llmEnabled /\ tx[e] = "none"

EnteredQa(ev, assignee) ==
  IF ev.state = "NONE"
  THEN NewEvaluation(QaEntryState(assignee), assignee)
  ELSE [ev EXCEPT !.state = QaEntryState(assignee), !.qaUser = assignee]

\* With the LLM enabled, a new evaluation that is not for it is inserted as
\* QA_PENDING and nothing else: no queue row, conversation still PENDING.
MayEnterBare(e, llmEnabled) ==
  conv[e] = "PENDING" /\ evals[e].state = "NONE" /\ llmEnabled /\ tx[e] = "none"

\* The one commit of a backfill: what it has inserted for the LLM, and what
\* it does without it.  toQa and bare partition the latter; a conversation
\* without a form, or already AI_PENDING and for the LLM, is skipped.
BackfillCommit(b, llmEnabled, toQa, bare, assignee) ==
  /\ missing[b] = NoEval
  /\ toQa \cup bare \cup Inserted(b) # {}
  /\ Inserted(b) # {} => llmEnabled
  /\ \A e \in toQa : MayEnterQa(e, llmEnabled)
  /\ \A e \in bare : MayEnterBare(e, llmEnabled)
  /\ evals' = [e \in Evals |->
                 CASE e \in toQa -> EnteredQa(evals[e], assignee[e])
                   [] e \in bare -> NewEvaluation("QA_PENDING", NoUser)
                   [] e \in Inserted(b) -> NewEvaluation("AI_PENDING", NoUser)
                   [] OTHER -> evals[e]]
  /\ queue' = [e \in Evals |->
                 IF e \in toQa
                 THEN UpsertQueueViaPool(queue[e], "QA_QUEUE", assignee[e])
                 ELSE queue[e]]
  /\ conv' = [e \in Evals |-> IF e \in toQa THEN "QA_REVIEW" ELSE conv[e]]
  /\ tx' = [e \in Evals |-> IF e \in Inserted(b) THEN "none" ELSE tx[e]]
  /\ UNCHANGED <<audit, jobs, toSend, missing, worker, crashes, failures>>

-----------------------------------------------------------------------------
(* Retry and re-audit, and the send that follows a commit *)

RequestAi(e) ==
  /\ AiRequest(e)
  /\ MayAddJob(e)
  /\ toSend' = [toSend EXCEPT ![e] = @ + 1]
  /\ UNCHANGED <<jobs, tx, missing, worker, crashes, failures>>

\* Mutant: the request ends and its job is never sent.
SendJob_Lost(e) ==
  /\ toSend[e] > 0
  /\ toSend' = [toSend EXCEPT ![e] = @ - 1]
  /\ UNCHANGED <<evals, queue, conv, audit, jobs, tx, missing, worker, crashes, failures>>

SendJob(e) ==
  /\ toSend[e] > 0
  /\ toSend' = [toSend EXCEPT ![e] = @ - 1]
  /\ jobs' = [jobs EXCEPT ![e] = @ + 1]
  /\ UNCHANGED <<evals, queue, conv, audit, tx, missing, worker, crashes, failures>>

\* Mutant: a send is taken back although none is outstanding.
SendFails_Unasked(e) ==
  /\ Failure
  /\ toSend' = [toSend EXCEPT ![e] = @ - 1]
  /\ UNCHANGED <<evals, queue, conv, audit, jobs, tx, missing, worker, crashes>>

\* The request dies after its commit, or the broker refuses the job.
SendFails(e) ==
  /\ toSend[e] > 0
  /\ Failure
  /\ toSend' = [toSend EXCEPT ![e] = @ - 1]
  /\ UNCHANGED <<evals, queue, conv, audit, jobs, tx, missing, worker, crashes>>

-----------------------------------------------------------------------------
(* eval.process *)

Deliver(w, e) ==
  /\ worker[w] = NoEval
  /\ jobs[e] > 0
  /\ jobs' = [jobs EXCEPT ![e] = @ - 1]
  /\ UNCHANGED <<queue, conv, audit, toSend, tx, missing, crashes>>

\* First transaction: the guarded UPDATE hits the row.
WorkerClaim(w, e) ==
  /\ Deliver(w, e)
  /\ conv[e] # "NONE"
  /\ evals[e].state \in AiClaimable
  /\ evals' = [evals EXCEPT ![e].state = "AI_IN_PROGRESS"]
  /\ worker' = [worker EXCEPT ![w] = e]
  /\ UNCHANGED failures

\* Rowcount 0: already processed, or the row is not there.
WorkerSkip(w, e) ==
  /\ Deliver(w, e)
  /\ conv[e] # "NONE"
  /\ evals[e].state \notin AiClaimable
  /\ UNCHANGED <<evals, worker, failures>>

\* "Conversation ... not found": the task raises and its job is gone.
WorkerFindsNoConversation(w, e) ==
  /\ Deliver(w, e)
  /\ conv[e] = "NONE"
  /\ UNCHANGED <<evals, worker, failures>>

\* The task raises before its claim is committed (tenant, database, ...).
WorkerFailsEarly(w, e) ==
  /\ Deliver(w, e)
  /\ Failure
  /\ UNCHANGED <<evals, worker>>

\* Second transaction: to the QA queue; it does not look at the state again.
WorkerRoute(w, assignee) ==
  LET e == worker[w]
  IN  /\ e # NoEval
      /\ evals' = [evals EXCEPT ![e] =
                     [@ EXCEPT !.state = QaEntryState(assignee), !.qaUser = assignee]]
      /\ queue' = [queue EXCEPT ![e] = UpsertQueueViaPool(@, "QA_QUEUE", assignee)]
      /\ conv' = [conv EXCEPT ![e] = "QA_REVIEW"]
      /\ worker' = [worker EXCEPT ![w] = NoEval]
      /\ UNCHANGED <<audit, jobs, toSend, tx, missing, crashes, failures>>

\* The second transaction raises: nothing marks the evaluation AI_FAILED.
WorkerFails(w) ==
  /\ worker[w] # NoEval
  /\ Failure
  /\ worker' = [worker EXCEPT ![w] = NoEval]
  /\ UNCHANGED <<evals, queue, conv, audit, jobs, toSend, tx, missing, crashes>>

\* The worker dies: its job was not acknowledged and is delivered again.
WorkerCrashes(w) ==
  /\ worker[w] # NoEval
  /\ Crash
  /\ jobs' = [jobs EXCEPT ![worker[w]] = @ + 1]
  /\ worker' = [worker EXCEPT ![w] = NoEval]
  /\ UNCHANGED <<evals, queue, conv, audit, toSend, tx, missing, failures>>

\* External: a second copy of a job (visibility timeout, repeated publish).
JobIsDuplicated(e) ==
  /\ jobs[e] > 0 \/ \E w \in Workers : worker[w] = e
  /\ MayAddJob(e)
  /\ jobs' = [jobs EXCEPT ![e] = @ + 1]
  /\ UNCHANGED <<evals, queue, conv, audit, toSend, tx, missing, worker, crashes, failures>>

-----------------------------------------------------------------------------
(* The system *)

\* Not received, or a row of the Nest API: failed in its AI stage, or scored
\* by it and waiting for QA.
Start ==
  {[row |-> NoEvaluation, status |-> "NONE", queueRow |-> NoRow],
   [row |-> NewEvaluation("AI_FAILED", NoUser), status |-> "FAILED",
    queueRow |-> NoRow]}
  \cup
  {[row |-> [NewEvaluation("QA_PENDING", NoUser) EXCEPT !.aiScore = score],
    status |-> "QA_REVIEW", queueRow |-> UpsertQueue("QA_QUEUE", NoUser)] :
     score \in LegacyScores}

Init ==
  /\ \E start \in [Evals -> Start] :
       /\ evals = [e \in Evals |-> start[e].row]
       /\ conv = [e \in Evals |-> start[e].status]
       /\ queue = [e \in Evals |-> start[e].queueRow]
  /\ audit = [e \in Evals |-> "NONE"]
  /\ jobs = [e \in Evals |-> 0]
  /\ toSend = [e \in Evals |-> 0]
  /\ tx = [e \in Evals |-> "none"]
  /\ missing = [b \in Backfills |-> NoEval]
  /\ worker = [w \in Workers |-> NoEval]
  /\ crashes = 0
  /\ failures = 0

QaAssignees == {NoUser} \cup QaActors

Intake(e) ==
  \/ IngestConversation(e)
  \/ ReceiveWithoutForm(e)
  \/ \E assignee \in QaAssignees : UploadToQa(e, assignee)
  \/ UploadSend(e)
  \/ UploadSendFails(e)
  \/ UploadCommit(e)
  \/ UploadAborts(e)
  \/ RequestAi(e)
  \/ SendJob(e)
  \/ SendFails(e)

Backfill(b) ==
  \/ \E e \in Evals : \/ BackfillFinds(b, e)
                      \/ \E sent \in BOOLEAN : BackfillSend(b, e, sent)
  \/ \E llmEnabled \in BOOLEAN, toQa, bare \in SUBSET Evals :
       \E assignee \in [toQa -> QaAssignees] :
         BackfillCommit(b, llmEnabled, toQa, bare, assignee)
  \/ BackfillAborts(b)
  \/ BackfillIsRefused(b)
  \/ BackfillDeadlocks(b)

Worker(w) ==
  \/ \E e \in Evals : \/ WorkerClaim(w, e)
                      \/ WorkerSkip(w, e)
                      \/ WorkerFindsNoConversation(w, e)
                      \/ WorkerFailsEarly(w, e)
  \/ \E assignee \in QaAssignees : WorkerRoute(w, assignee)
  \/ WorkerFails(w)
  \/ WorkerCrashes(w)

Next ==
  \/ ReviewStep /\ UNCHANGED pipeline
  \/ \E e \in Evals : Intake(e) \/ JobIsDuplicated(e)
  \/ \E b \in Backfills : Backfill(b)
  \/ \E w \in Workers : Worker(w)

Spec == Init /\ [][Next]_vars

\* A request that has committed goes on to its send.  Workers poll the broker
\* without end, and the broker is a FIFO list, so a waiting job is not passed
\* over for ever (strong fairness); a claimed evaluation is carried on with.
\* Celery beat starts the stale scan every minute.
Fairness ==
  /\ \A e \in Evals :
       /\ WF_vars(SendJob(e))
       /\ SF_vars(\E w \in Workers : WorkerClaim(w, e) \/ WorkerSkip(w, e))
  /\ \A w \in Workers :
       WF_vars(\E assignee \in QaAssignees : WorkerRoute(w, assignee))
  /\ WF_vars(StaleScan /\ UNCHANGED pipeline)

FairSpec == Spec /\ Fairness

-----------------------------------------------------------------------------
(* Type invariant *)

\* Every variable holds rows the tables can hold.
TypeOK ==
  /\ evals \in [Evals -> Evaluation]
  /\ queue \in [Evals -> QueueRow \cup {NoRow}]
  /\ conv \in [Evals -> ConvStatus]
  /\ audit \in [Evals -> AuditStatus]
  /\ jobs \in [Evals -> Nat]
  /\ toSend \in [Evals -> Nat]
  /\ tx \in [Evals -> Tx]
  /\ missing \in [Backfills -> Evals \cup {NoEval}]
  /\ worker \in [Workers -> Evals \cup {NoEval}]
  /\ crashes \in Nat
  /\ failures \in Nat

-----------------------------------------------------------------------------
(* Safety invariants *)

\* The guarded UPDATE of eval_process is an exclusive claim: whatever is
\* delivered twice, redelivered after a crash, or sent by a second re-audit,
\* two workers are never past the claim of one evaluation, and nobody moves
\* the evaluation while one is (its routing step does not look again).
ClaimIsExclusive ==
  /\ \A w \in Workers :
       worker[w] # NoEval => evals[worker[w]].state = "AI_IN_PROGRESS"
  /\ \A v, w \in Workers :
       v # w /\ worker[v] # NoEval => worker[v] # worker[w]

\* What an open transaction has inserted is the only evaluation of its
\* conversation, whatever webhooks, reviewers and other backfills do between
\* its look-up, its insert and its commit: the commit replaces nobody's work.
InsertIsNew(ev, status, open) ==
  /\ open = "upload" => status = "NONE"
  /\ open \in Backfills => status = "PENDING" /\ ev.state = "NONE"

OpenInsertIsNew == \A e \in Evals : InsertIsNew(evals[e], conv[e], tx[e])

-----------------------------------------------------------------------------
(* Action properties *)

\* A locked evaluation does not change: its only way on is a re-audit, which
\* wipes every layer, score, owner and flag of it.
LockedIsFinal ==
  [][\A e \in Evals :
       evals[e].state = "LOCKED" => evals'[e] \in {evals[e], ReAudited}]_vars

\* Claimed QA work passes from one reviewer to another only by an
\* administrator's decision: neither a second qa_start, nor a round robin,
\* nor a late or repeated routing by a worker takes it away.
ClaimIsNotStolen ==
  [][\A e \in Evals :
       /\ evals[e].state = "QA_IN_PROGRESS"
       /\ evals'[e].state \in QaAssignable
       /\ evals'[e].qaUser # evals[e].qaUser
       => \E target \in Users : ManualAssign(e, target) \/ Reassign(e, target)]_vars

-----------------------------------------------------------------------------
(* Refinement *)

StageOf(state) ==
  CASE state = "NONE" -> "absent"
    [] state \in AiStates -> "automatic"
    [] state \in QaAssignable -> "qa"
    [] state \in VerifierAssignable -> "verifier"
    [] state = "LOCKED" -> "locked"

OwnerOf(ev) ==
  CASE ev.state = "QA_IN_PROGRESS" -> ev.qaUser
    [] ev.state = "VERIFIER_IN_PROGRESS" -> ev.verUser
    [] OTHER -> NoUser

Abstract == INSTANCE AbstractReview WITH
  stage <- [e \in Evals |-> StageOf(evals[e].state)],
  owner <- [e \in Evals |-> OwnerOf(evals[e])],
  verdict <- [e \in Evals |-> evals[e].passFail]

\* The tables and the pipeline implement the abstract workflow: in particular
\* a worker only ever routes an evaluation that is in its automatic stage.
ImplementsAbstract == Abstract!Spec

-----------------------------------------------------------------------------
(* Liveness *)

\* A webhook, a retry or a re-audit that has committed gets its evaluation to
\* the QA stage, as long as no process or task fails; duplicate deliveries,
\* backfills and other work of the same workers do not prevent it.
RequestReachesQa ==
  \A e \in Evals :
    (evals[e].state = "AI_PENDING" /\ toSend[e] > 0)
      ~> (evals[e].state \in QaAssignable)

\* The comment of webhooks_ingest_service: the job goes out after the commit
\* "so the worker can read the rows".  Then every evaluation that awaits its
\* AI stage leaves it, however its conversation came in.
PendingIsProcessed ==
  \A e \in Evals : evals[e].state = "AI_PENDING" ~> evals[e].state # "AI_PENDING"

\* The docstring of eval_process: "on failure, mark AI_FAILED ... re-raise to
\* retry".  Then an evaluation whose worker is gone leaves AI_IN_PROGRESS.
FailedWorkIsRecovered ==
  \A e \in Evals :
    (evals[e].state = "AI_IN_PROGRESS" /\ \A w \in Workers : worker[w] # e)
      ~> (evals[e].state # "AI_IN_PROGRESS")

\* The docstring of the stale scan: items of the QA and verifier queues that
\* are older than the threshold are promoted to the escalation queue.  Then no
\* row stays in one of the two queues and stale for ever.
StaleWorkIsPromoted ==
  LET overdue(row) ==
        row # NoRow /\ row.stale /\ row.type \in {"QA_QUEUE", "VERIFIER_QUEUE"}
  IN  \A e \in Evals : overdue(queue[e]) ~> ~overdue(queue[e])
=============================================================================
