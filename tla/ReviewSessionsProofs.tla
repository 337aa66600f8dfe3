------------------------ MODULE ReviewSessionsProofs ------------------------
(***************************************************************************)
(* SELECT ... FOR UPDATE in three of the nine handlers protects what those *)
(* three have read against all of them and against the workers, for any    *)
(* number of sessions, workers, evaluations and users.                     *)
(*                                                                         *)
(* The argument needs no types of rows: an open request that holds a lock  *)
(* keeps every other commit and every worker off its row until it closes.  *)
(***************************************************************************)
EXTENDS ReviewSessions, ReviewRowsProofs

\* The sessions and the rows are where they are looked up, and an open request
\* is about an evaluation.
Shape ==
  /\ evals = [e \in Evals |-> evals[e]]
  /\ session = [s \in Sessions |-> session[s]]
  /\ \A s \in Sessions : Open(s) => session[s].e \in Evals

IInv == Shape /\ LockedReadStaysCurrent

-----------------------------------------------------------------------------

LEMMA InitHolds == Init => IInv
  BY DEF Init, IInv, Shape, LockedReadStaysCurrent, Open, HoldsLock

\* A step that closes session s and writes, if at all, one row that no other
\* session has locked keeps the invariant.
LEMMA ClosingKeeps ==
  ASSUME NEW s \in Sessions, NEW e, NEW row, IInv, Open(s),
         session' = [session EXCEPT ![s] = Idle],
         evals' = [evals EXCEPT ![e] = row] \/ evals' = evals,
         RowIsFree(s, e)
  PROVE  IInv'
  <1>1. Shape'
    BY DEF IInv, Shape, Open
  <1>2. LockedReadStaysCurrent'
    <2> SUFFICES ASSUME NEW t \in Sessions, Open(t)', session'[t].op \in Locking
                 PROVE  evals'[session'[t].e] = session'[t].row
      BY DEF LockedReadStaysCurrent
    <2>1. t # s /\ session'[t] = session[t] /\ Open(t)
      BY DEF IInv, Shape, Open
    <2>2. session[t].e \in Evals /\ session[t].e # e
      BY <2>1 DEF IInv, Shape, RowIsFree, HoldsLock
    <2>3. evals'[session[t].e] = evals[session[t].e]
      BY <2>2 DEF IInv, Shape
    <2> QED
      BY <2>1, <2>3 DEF IInv, LockedReadStaysCurrent
  <1> QED
    BY <1>1, <1>2 DEF IInv

\* A step of a worker, which opens and closes nothing and waits for locks.
LEMMA WorkerKeeps ==
  ASSUME NEW e, NEW row, IInv, session' = session,
         evals' = [evals EXCEPT ![e] = row] \/ evals' = evals,
         RowIsUnlocked(e)
  PROVE  IInv'
  <1>1. Shape'
    BY DEF IInv, Shape, Open
  <1>2. LockedReadStaysCurrent'
    <2> SUFFICES ASSUME NEW t \in Sessions, Open(t), session[t].op \in Locking
                 PROVE  evals'[session[t].e] = session[t].row
      BY DEF LockedReadStaysCurrent, Open
    <2>1. session[t].e \in Evals /\ session[t].e # e
      BY DEF IInv, Shape, RowIsUnlocked, HoldsLock
    <2>2. evals'[session[t].e] = evals[session[t].e]
      BY <2>1 DEF IInv, Shape
    <2> QED
      BY <2>2 DEF IInv, LockedReadStaysCurrent
  <1> QED
    BY <1>1, <1>2 DEF IInv

LEMMA BeginKeeps ==
  ASSUME NEW s \in Sessions, NEW op \in Operations, NEW e \in Evals,
         NEW u \in Users, IInv, Begin(s, op, e, u)
  PROVE  IInv'
  <1> DEFINE request == [op |-> op, e |-> e, user |-> u,
                         row |-> evals[e], queueRow |-> queue[e]]
  <1>1. /\ session' = [session EXCEPT ![s] = request] /\ evals' = evals
        /\ ~Open(s) /\ (op \in Locking => RowIsFree(s, e))
    BY DEF Begin
  <1>2. /\ session'[s] = request
        /\ \A t \in Sessions \ {s} : session'[t] = session[t]
    BY <1>1 DEF IInv, Shape
  <1> HIDE DEF request
  <1>3. request.op = op /\ request.e = e /\ request.row = evals[e]
    BY DEF request
  <1>4. Shape'
    BY <1>1, <1>2, <1>3 DEF IInv, Shape, Open
  <1>5. LockedReadStaysCurrent'
    BY <1>1, <1>2, <1>3 DEF IInv, LockedReadStaysCurrent, Open
  <1> QED
    BY <1>4, <1>5 DEF IInv

\* Every branch of a commit finishes the request with some row.
LEMMA CommitFinishes ==
  ASSUME NEW s \in Sessions, Commit(s)
  PROVE  \E new : Finish(s, new)
  <1>1. CASE CommitClaim(s)
    BY <1>1 DEF CommitClaim
  <1>2. CASE \E score \in Scores, critical \in BOOLEAN : CommitQaSubmit(s, score, critical)
    BY <1>2 DEF CommitQaSubmit
  <1>3. CASE CommitVerifierApprove(s)
    BY <1>3 DEF CommitVerifierApprove
  <1>4. CASE \E score \in Scores, critical \in BOOLEAN :
               CommitVerifierModify(s, score, critical)
    BY <1>4 DEF CommitVerifierModify
  <1>5. CASE \E commented \in BOOLEAN : CommitVerifierReject(s, commented)
    BY <1>5 DEF CommitVerifierReject
  <1>6. CASE CommitManualAssign(s)
    BY <1>6 DEF CommitManualAssign
  <1>7. CASE CommitReassign(s)
    BY <1>7 DEF CommitReassign
  <1>8. CASE CommitReAudit(s)
    BY <1>8 DEF CommitReAudit
  <1> QED
    BY <1>1, <1>2, <1>3, <1>4, <1>5, <1>6, <1>7, <1>8 DEF Commit

LEMMA CommitKeeps ==
  ASSUME NEW s \in Sessions, IInv, Commit(s)
  PROVE  IInv'
  <1>1. PICK new : Finish(s, new)
    BY CommitFinishes
  <1> DEFINE e == session[s].e
             row == MergeRow(session[s].row, new, evals[e])
  <1>2. Open(s) /\ RowIsFree(s, e)
    BY DEF Commit
  <1>3. evals' = [evals EXCEPT ![e] = row] /\ session' = [session EXCEPT ![s] = Idle]
    BY <1>1, <1>2 DEF Finish, IInv, Shape
  <1> HIDE DEF row, e
  <1> QED
    BY <1>2, <1>3, ClosingKeeps

LEMMA RollBackKeeps ==
  ASSUME NEW s \in Sessions, IInv, RollBack(s)
  PROVE  IInv'
  <1>1. /\ Open(s) /\ session' = [session EXCEPT ![s] = Idle] /\ evals' = evals
    BY DEF RollBack
  <1>2. Shape'
    BY <1>1 DEF IInv, Shape, Open
  <1>3. LockedReadStaysCurrent'
    BY <1>1 DEF IInv, Shape, LockedReadStaysCurrent, Open
  <1> QED
    BY <1>2, <1>3 DEF IInv

LEMMA WorkerClaimKeeps ==
  ASSUME NEW w \in Workers, NEW e \in Evals, IInv, WorkerClaim(w, e)
  PROVE  IInv'
  <1> DEFINE row == [evals[e] EXCEPT !.state = "AI_IN_PROGRESS"]
  <1>1. evals' = [evals EXCEPT ![e] = row] \/ evals' = evals
    BY DEF WorkerClaim, IInv, Shape
  <1>2. session' = session /\ RowIsUnlocked(e)
    BY DEF WorkerClaim
  <1> HIDE DEF row
  <1> QED
    BY <1>1, <1>2, WorkerKeeps

LEMMA WorkerRouteKeeps ==
  ASSUME NEW w \in Workers, NEW assignee, IInv, WorkerRoute(w, assignee)
  PROVE  IInv'
  <1> DEFINE e == worker[w]
             row == [evals[e] EXCEPT !.state = QaEntryState(assignee),
                                     !.qaUser = assignee]
  <1>1. evals' = [evals EXCEPT ![e] = row]
    BY DEF WorkerRoute
  <1>2. session' = session /\ RowIsUnlocked(e)
    BY DEF WorkerRoute
  <1> HIDE DEF row, e
  <1> QED
    BY <1>1, <1>2, WorkerKeeps

LEMMA StepKeeps == IInv /\ [Next]_vars => IInv'
  <1> SUFFICES ASSUME IInv, [Next]_vars PROVE IInv'
    OBVIOUS
  <1>1. ASSUME NEW s \in Sessions, NEW op \in Operations, NEW e \in Evals,
               NEW u \in Users, Begin(s, op, e, u)
        PROVE  IInv'
    BY <1>1, BeginKeeps
  <1>2. ASSUME NEW s \in Sessions, Commit(s) PROVE IInv'
    BY <1>2, CommitKeeps
  <1>3. ASSUME NEW s \in Sessions, RollBack(s) PROVE IInv'
    BY <1>3, RollBackKeeps
  <1>4. ASSUME NEW w \in Workers, NEW e \in Evals, WorkerClaim(w, e) PROVE IInv'
    BY <1>4, WorkerClaimKeeps
  <1>5. ASSUME NEW w \in Workers, NEW assignee \in {NoUser} \cup QaActors,
               WorkerRoute(w, assignee)
        PROVE  IInv'
    BY <1>5, WorkerRouteKeeps
  <1>6. CASE UNCHANGED vars
    BY <1>6 DEF vars, IInv, Shape, LockedReadStaysCurrent, Open, HoldsLock
  <1> QED
    BY <1>1, <1>2, <1>3, <1>4, <1>5, <1>6 DEF Next

LEMMA Invariance == Spec => []IInv
  <1>1. Init => IInv
    BY InitHolds
  <1>2. IInv /\ [Next]_vars => IInv'
    BY StepKeeps
  <1> QED
    BY <1>1, <1>2, PTL DEF Spec

-----------------------------------------------------------------------------

\* While qa_start, verifier_start or verifier_reject is between its check and
\* its commit, the row is what the check saw, whatever the handlers that take
\* no lock, the other sessions and the workers do meanwhile.
THEOREM LockedReadsStayCurrent == Spec => []LockedReadStaysCurrent
  <1>1. IInv => LockedReadStaysCurrent
    BY DEF IInv
  <1> QED
    BY <1>1, Invariance, PTL

-----------------------------------------------------------------------------
(* Types: what a session has read and what its commit merges are rows *)

LEMMA TypeInit == Init => TypeOK
  <1> SUFFICES ASSUME Init PROVE TypeOK
    OBVIOUS
  <1>a. /\ NoUser \in People /\ Users \subseteq People
        /\ QaActors \subseteq Users /\ VerifierActors \subseteq Users
    BY Actors DEF People
  <1> DEFINE Starts == [row: Evaluation, queueRow: QueueRow, status: ConvStatus]
  <1>1. \A u \in {NoUser} \cup QaActors : StartInQa(u) \in Starts
    <2> SUFFICES ASSUME NEW u \in {NoUser} \cup QaActors PROVE StartInQa(u) \in Starts
      OBVIOUS
    <2>1. NewEvaluation(QaEntryState(u), u) \in Evaluation
      BY <1>a, FreshRows, EntryStates
    <2>2. UpsertQueue("QA_QUEUE", u) \in QueueRow
      BY <1>a, QueueRows DEF QueueType, Rows
    <2> QED
      BY <2>1, <2>2 DEF StartInQa, ConvStatus
  <1>2. \A q \in QaActors, v \in VerifierActors, score \in Scores :
          StartInVerification(q, v, score) \in Starts
    <2> SUFFICES ASSUME NEW q \in QaActors, NEW v \in VerifierActors,
                        NEW score \in Scores
                 PROVE  StartInVerification(q, v, score) \in Starts
      OBVIOUS
    <2>1. NewEvaluation("VERIFIER_IN_PROGRESS", q) \in Evaluation
      BY <1>a, FreshRows DEF WorkflowState
    <2>2. [NewEvaluation("VERIFIER_IN_PROGRESS", q) EXCEPT
             !.verUser = v, !.qaScore = score] \in Evaluation
      BY <1>a, <2>1 DEF Evaluation
    <2>3. UpsertQueue("VERIFIER_QUEUE", v) \in QueueRow
      BY <1>a, QueueRows DEF QueueType, Rows
    <2> QED
      BY <2>2, <2>3 DEF StartInVerification, ConvStatus
  <1>3. Start \subseteq Starts
    BY <1>1, <1>2 DEF Start
  <1>4. PICK start \in [Evals -> Start] :
          /\ evals = [e \in Evals |-> start[e].row]
          /\ queue = [e \in Evals |-> start[e].queueRow]
          /\ conv = [e \in Evals |-> start[e].status]
    BY DEF Init
  <1>5. /\ evals \in [Evals -> Evaluation]
        /\ queue \in [Evals -> QueueRow \cup {NoRow}]
        /\ conv \in [Evals -> ConvStatus]
    BY <1>3, <1>4
  <1> QED
    BY <1>5, SessionsAssumption DEF Init, TypeOK, AuditStatus

LEMMA TypeBegin ==
  ASSUME NEW s \in Sessions, NEW op \in Operations, NEW e \in Evals,
         NEW u \in Users, TypeOK, Begin(s, op, e, u)
  PROVE  TypeOK'
  <1>1. [op |-> op, e |-> e, user |-> u, row |-> evals[e], queueRow |-> queue[e]]
          \in Request
    BY DEF TypeOK, Request
  <1>2. requests' \in 0..MaxRequests
    BY SessionsAssumption DEF TypeOK, Begin
  <1> QED
    BY <1>1, <1>2 DEF Begin, TypeOK

\* What a commit writes: a merge of a row the handler can leave.
LEMMA TypeFinish ==
  ASSUME NEW s \in Sessions, NEW new \in Evaluation, TypeOK, Open(s),
         Finish(s, new)
  PROVE  /\ evals' \in [Evals -> Evaluation]
         /\ session' \in [Sessions -> Request \cup {Idle}]
         /\ requests' \in 0..MaxRequests
         /\ worker' \in [Workers -> Evals \cup {NoEval}]
  <1>1. session[s].e \in Evals
    BY DEF TypeOK, Open, Request
  <1>2. MergeRow(session[s].row, new, evals[session[s].e]) \in Evaluation
    BY <1>1, MergedRow DEF TypeOK
  <1> QED
    BY <1>1, <1>2 DEF TypeOK, Finish

LEMMA AssignedQueueRow ==
  ASSUME NEW read \in Rows, NEW current \in Rows, NEW type \in QueueType,
         NEW u \in People, read # NoRow => current # NoRow
  PROVE  AssignedQueue(read, current, type, u) \in QueueRow
  <1>1. CASE read = NoRow
    BY <1>1, QueueRows DEF AssignedQueue
  <1>2. CASE read # NoRow
    <2>1. read \in QueueRow /\ current \in QueueRow
      BY <1>2 DEF Rows
    <2>2. [read EXCEPT !.type = type, !.assigned = u] \in QueueRow
      BY <2>1 DEF QueueRow, People
    <2>3. MergeRow(read, [read EXCEPT !.type = type, !.assigned = u], current)
            \in QueueRow
      BY <2>1, <2>2, MergedQueueRow
    <2> QED
      BY <1>2, <2>3 DEF AssignedQueue, QueueRow
  <1> QED
    BY <1>1, <1>2

LEMMA TypeCommit ==
  ASSUME NEW s \in Sessions, TypeOK, Commit(s)
  PROVE  TypeOK'
  <1> DEFINE r == session[s]
             Written == /\ queue' \in [Evals -> Rows]
                        /\ conv' \in [Evals -> ConvStatus]
                        /\ audit' \in [Evals -> AuditStatus]
                        /\ jobs' \in [Evals -> 0..MaxJobs]
  <1>a. /\ Open(s) /\ r \in Request /\ r.e \in Evals /\ r.user \in Users
        /\ r.row \in Evaluation /\ r.queueRow \in Rows
    BY DEF TypeOK, Commit, Open, Request, Rows
  <1>b. /\ queue \in [Evals -> Rows] /\ conv \in [Evals -> ConvStatus]
        /\ audit \in [Evals -> AuditStatus] /\ jobs \in [Evals -> 0..MaxJobs]
    BY DEF TypeOK, Rows
  <1>c. /\ NoRow \in Rows /\ QueueRow \subseteq Rows
        /\ NoUser \in People /\ Users \subseteq People
        /\ {"QA_QUEUE", "VERIFIER_QUEUE", "ESCALATION_QUEUE", "AUDIT_QUEUE"}
             = QueueType
        /\ {"QA_REVIEW", "VERIFIER_REVIEW", "COMPLETED", "AUDIT", "PENDING"}
             \subseteq ConvStatus
        /\ {"NONE", "OPEN"} \subseteq AuditStatus
    BY DEF Rows, People, QueueType, ConvStatus, AuditStatus
  <1>d. \A type \in QueueType, u \in People : UpsertQueue(type, u) \in Rows
    BY <1>c, QueueRows
  <1>e. ASSUME NEW new \in Evaluation, Finish(s, new), Written
        PROVE  TypeOK'
    BY <1>a, <1>e, TypeFinish DEF TypeOK, Rows
  <1> HIDE DEF r
  <1>1. CASE CommitClaim(s)
    <2>1. QaStarted(r.row, r.user) \in Evaluation
          /\ VerifierStarted(r.row, r.user) \in Evaluation
      BY <1>a, AssignedRows
    <2>2. UpsertQueue("QA_QUEUE", r.user) \in Rows
          /\ UpsertQueue("VERIFIER_QUEUE", r.user) \in Rows
      BY <1>a, <1>c, <1>d
    <2> QED
      BY <1>1, <1>a, <1>b, <1>e, <2>1, <2>2 DEF CommitClaim, r
  <1>2. ASSUME NEW score \in Scores, NEW critical \in BOOLEAN,
               CommitQaSubmit(s, score, critical)
        PROVE  TypeOK'
    <2> DEFINE outcome == SubmitOutcome(r.row.aiScore, score)
    <2>1. PICK assignee \in SubmitAssignees(outcome) :
            /\ Finish(s, QaSubmitted(r.row, score, critical, assignee))
            /\ queue' = [queue EXCEPT ![r.e] = SubmittedQueue(outcome, assignee)]
      BY <1>2 DEF CommitQaSubmit, r
    <2>2. assignee \in People
      BY Actors
    <2>3. QaSubmitted(r.row, score, critical, assignee) \in Evaluation
      BY <1>a, <2>2, SubmittedRow
    <2>4. SubmittedQueue(outcome, assignee) \in Rows
      BY <1>c, <1>d, <2>2, Outcomes DEF SubmittedQueue
    <2>5. SubmittedConv(outcome) \in ConvStatus
      BY DEF SubmittedConv, ConvStatus
    <2>6. /\ conv' = [conv EXCEPT ![r.e] = SubmittedConv(outcome)]
          /\ audit' = audit /\ jobs' = jobs
      BY <1>2 DEF CommitQaSubmit, r
    <2> HIDE DEF outcome
    <2> QED
      BY <1>a, <1>b, <1>e, <2>1, <2>3, <2>4, <2>5, <2>6
  <1>3. CASE CommitVerifierApprove(s)
    <2>1. Approved(r.row) \in Evaluation
      BY <1>a, ApprovedRow
    <2> QED
      BY <1>3, <1>a, <1>b, <1>c, <1>e, <2>1 DEF CommitVerifierApprove, r
  <1>4. ASSUME NEW score \in Scores, NEW critical \in BOOLEAN,
               CommitVerifierModify(s, score, critical)
        PROVE  TypeOK'
    <2>1. Modified(r.row, score, critical) \in Evaluation
      BY <1>a, ModifiedRow
    <2>2. UpsertQueue("AUDIT_QUEUE", NoUser) \in Rows
      BY <1>c, <1>d
    <2> QED
      BY <1>4, <1>a, <1>b, <1>c, <1>e, <2>1, <2>2 DEF CommitVerifierModify, r
  <1>5. ASSUME NEW commented \in BOOLEAN, CommitVerifierReject(s, commented)
        PROVE  TypeOK'
    <2>1. Rejected(r.row, commented) \in Evaluation
      BY <1>a, RejectedRow
    <2>2. RejectedQueue(queue[r.e]) \in Rows
      BY <1>a, <1>b, <1>c, QueueRows
    <2> QED
      BY <1>5, <1>a, <1>b, <1>c, <1>e, <2>1, <2>2 DEF CommitVerifierReject, r
  <1>6. CASE CommitManualAssign(s)
    <2>1. AssignedQa(r.row, r.user) \in Evaluation
          /\ AssignedVerifier(r.row, r.user) \in Evaluation
      BY <1>a, AssignedRows
    <2>2. r.queueRow # NoRow => queue[r.e] # NoRow
      BY <1>6 DEF CommitManualAssign, r
    <2>3. AssignedQueue(r.queueRow, queue[r.e], "QA_QUEUE", r.user) \in Rows
          /\ AssignedQueue(r.queueRow, queue[r.e], "VERIFIER_QUEUE", r.user) \in Rows
      BY <1>a, <1>b, <1>c, <2>2, AssignedQueueRow
    <2> QED
      BY <1>6, <1>a, <1>b, <1>e, <2>1, <2>3 DEF CommitManualAssign, r
  <1>7. CASE CommitReassign(s)
    <2>1. Reassigned(r.row, r.user) \in Evaluation
      BY <1>a, AssignedRows
    <2>2. ReassignedQueue(queue[r.e], r.user) \in Rows
      BY <1>a, <1>b, <1>c, QueueRows
    <2> QED
      BY <1>7, <1>a, <1>b, <1>e, <2>1, <2>2 DEF CommitReassign, r
  <1>8. CASE CommitReAudit(s)
    <2>1. jobs' \in [Evals -> 0..MaxJobs]
      BY <1>8, <1>a, <1>b, SessionsAssumption DEF CommitReAudit, r
    <2> QED
      BY <1>8, <1>a, <1>b, <1>c, <1>e, <2>1, ReAuditedRow DEF CommitReAudit, r
  <1> QED
    BY <1>1, <1>2, <1>3, <1>4, <1>5, <1>6, <1>7, <1>8 DEF Commit

LEMMA TypeWorker ==
  ASSUME NEW w \in Workers, TypeOK,
         \/ \E e \in Evals : WorkerClaim(w, e)
         \/ \E assignee \in {NoUser} \cup QaActors : WorkerRoute(w, assignee)
  PROVE  TypeOK'
  <1>1. ASSUME NEW e \in Evals, WorkerClaim(w, e)
        PROVE  TypeOK'
    <2>1. [evals[e] EXCEPT !.state = "AI_IN_PROGRESS"] \in Evaluation
      BY ClaimedRow DEF TypeOK
    <2>2. jobs' \in [Evals -> 0..MaxJobs]
      BY <1>1, SessionsAssumption DEF TypeOK, WorkerClaim
    <2> QED
      BY <1>1, <2>1, <2>2 DEF WorkerClaim, TypeOK
  <1>2. ASSUME NEW assignee \in {NoUser} \cup QaActors, WorkerRoute(w, assignee)
        PROVE  TypeOK'
    <2>1. worker[w] \in Evals /\ assignee \in People
      BY <1>2, Actors DEF WorkerRoute, TypeOK, People
    <2>2. QaEntryState(assignee) \in WorkflowState /\ evals[worker[w]] \in Evaluation
      BY <2>1, EntryStates DEF TypeOK
    <2>4. [evals[worker[w]] EXCEPT !.state = QaEntryState(assignee), !.qaUser = assignee]
            \in Evaluation
      BY <2>1, <2>2 DEF Evaluation, People
    <2>3. UpsertQueueViaPool(queue[worker[w]], "QA_QUEUE", assignee) \in QueueRow
      BY <2>1, QueueRows DEF TypeOK, Rows, QueueType
    <2> QED
      BY <1>2, <2>1, <2>3, <2>4 DEF WorkerRoute, TypeOK, ConvStatus
  <1> QED
    BY <1>1, <1>2

LEMMA TypeStep == TypeOK /\ [Next]_vars => TypeOK'
  <1> SUFFICES ASSUME TypeOK, [Next]_vars PROVE TypeOK'
    OBVIOUS
  <1>1. ASSUME NEW s \in Sessions, RollBack(s) PROVE TypeOK'
    BY <1>1 DEF RollBack, TypeOK
  <1>2. CASE UNCHANGED vars
    BY <1>2 DEF vars, TypeOK
  <1> QED
    BY <1>1, <1>2, TypeBegin, TypeCommit, TypeWorker DEF Next

\* However requests overlap, the tables hold rows of their types, and an open
\* request the rows it read: a commit that merges columns of two versions of a
\* row still leaves a row.
THEOREM TypeCorrect == Spec => []TypeOK
  <1>1. Init => TypeOK
    BY TypeInit
  <1>2. TypeOK /\ [Next]_vars => TypeOK'
    BY TypeStep
  <1> QED
    BY <1>1, <1>2, PTL DEF Spec

-----------------------------------------------------------------------------
(* Reviewers among themselves.  A handler without a lock may merge its     *)
(* columns into a row that is no longer the one it checked.  What saves    *)
(* the result is that reviewers never empty a score, a final score or a    *)
(* verdict (Grown), that a row which waits for QA has no verifier, and     *)
(* that the one handler that takes an owner away (verifier_reject) has the *)
(* row locked.  Administrators' handlers break each of the three.          *)

Reviewing ==
  {"qa_start", "qa_submit", "verifier_start", "verifier_approve",
   "verifier_modify", "verifier_reject"}

\* What holds of every version of a row.
Sound(ev) ==
  /\ ev.state \in VerifierAssignable => ev.qaScore # NoScore
  /\ ev.state = "LOCKED" => ev.final # NoScore /\ ev.passFail # "none"
  /\ ev.state = "QA_IN_PROGRESS" => ev.qaUser # NoUser
  /\ ev.state = "VERIFIER_IN_PROGRESS" => ev.verUser # NoUser
  /\ ev.state \in QaAssignable => ev.verUser = NoUser

\* What a version of a row has, later versions have.
Grown(old, ev) ==
  /\ old.qaScore # NoScore => ev.qaScore # NoScore
  /\ old.final # NoScore => ev.final # NoScore
  /\ old.passFail # "none" => ev.passFail # "none"

RequestIsSound(request) ==
  /\ Sound(request.row)
  /\ Grown(request.row, evals[request.e])
  /\ GoesThrough(request.op, request.row, request.user)

ReviewInv ==
  /\ TypeOK
  /\ IInv
  /\ \A e \in Evals : Sound(evals[e]) /\ jobs[e] = 0
  /\ \A w \in Workers : worker[w] = NoEval
  /\ \A s \in Sessions : Open(s) => RequestIsSound(session[s])

\* A merge leaves a sound row that has what the row had, and no other claim.
Safe(read, new, current) ==
  LET merged == MergeRow(read, new, current)
  IN  /\ Sound(merged)
      /\ Grown(current, merged)
      /\ current.state = "QA_IN_PROGRESS" /\ merged.state = "QA_IN_PROGRESS"
         => merged.qaUser = current.qaUser

LEMMA MergedColumns ==
  ASSUME NEW read \in Evaluation, NEW new \in Evaluation, NEW current \in Evaluation,
         NEW merged, merged = MergeRow(read, new, current)
  PROVE  /\ merged.state = IF new.state # read.state THEN new.state ELSE current.state
         /\ merged.qaUser = IF new.qaUser # read.qaUser THEN new.qaUser ELSE current.qaUser
         /\ merged.verUser =
              IF new.verUser # read.verUser THEN new.verUser ELSE current.verUser
         /\ merged.qaScore =
              IF new.qaScore # read.qaScore THEN new.qaScore ELSE current.qaScore
         /\ merged.final = IF new.final # read.final THEN new.final ELSE current.final
         /\ merged.passFail =
              IF new.passFail # read.passFail THEN new.passFail ELSE current.passFail
  BY DEF MergeRow, Evaluation

\* The handlers that lock the row merge into what they have read.
LEMMA ClaimIsSafe ==
  ASSUME NEW ev \in Evaluation, NEW u \in Users, Sound(ev)
  PROVE  /\ MayQaStart(ev, u) => Safe(ev, QaStarted(ev, u), ev)
         /\ MayVerifierStart(ev) => Safe(ev, VerifierStarted(ev, u), ev)
  <1> USE DEF Sound, QaAssignable, VerifierAssignable
  <1>1. ASSUME MayQaStart(ev, u)
        PROVE  Safe(ev, QaStarted(ev, u), ev)
    <2> DEFINE new == QaStarted(ev, u)
               merged == MergeRow(ev, new, ev)
    <2>1. /\ merged.state = "QA_IN_PROGRESS" /\ merged.qaUser = u
          /\ merged.verUser = ev.verUser /\ merged.qaScore = ev.qaScore
          /\ merged.final = ev.final /\ merged.passFail = ev.passFail
      <3>1. new \in Evaluation
        BY AssignedRows
      <3>2. /\ new.state = "QA_IN_PROGRESS" /\ new.qaUser = u
            /\ new.verUser = ev.verUser /\ new.qaScore = ev.qaScore
            /\ new.final = ev.final /\ new.passFail = ev.passFail
        BY DEF QaStarted, Evaluation
      <3> HIDE DEF new
      <3> QED
        BY <3>1, <3>2, MergedColumns
    <2>2. /\ ev.verUser = NoUser /\ u # NoUser
          /\ ev.state = "QA_IN_PROGRESS" => ev.qaUser = u
      BY <1>1, UsersAssumption DEF MayQaStart
    <2> HIDE DEF merged
    <2>3. Sound(merged) /\ Grown(ev, merged)
      BY <2>1, <2>2 DEF Grown
    <2> QED
      BY <2>1, <2>2, <2>3 DEF Safe, merged
  <1>2. ASSUME MayVerifierStart(ev)
        PROVE  Safe(ev, VerifierStarted(ev, u), ev)
    <2> DEFINE new == VerifierStarted(ev, u)
               merged == MergeRow(ev, new, ev)
    <2>1. /\ merged.state = "VERIFIER_IN_PROGRESS" /\ merged.verUser = u
          /\ merged.qaScore = ev.qaScore
          /\ merged.final = ev.final /\ merged.passFail = ev.passFail
      <3>1. new \in Evaluation
        BY AssignedRows
      <3>2. /\ new.state = "VERIFIER_IN_PROGRESS" /\ new.verUser = u
            /\ new.qaScore = ev.qaScore
            /\ new.final = ev.final /\ new.passFail = ev.passFail
        BY DEF VerifierStarted, Evaluation
      <3> HIDE DEF new
      <3> QED
        BY <3>1, <3>2, MergedColumns
    <2>2. ev.state \in VerifierAssignable /\ u # NoUser
      BY <1>2, UsersAssumption DEF MayVerifierStart
    <2> HIDE DEF merged
    <2>3. Sound(merged) /\ Grown(ev, merged)
      BY <2>1, <2>2 DEF Grown
    <2> QED
      BY <2>1, <2>3 DEF Safe, merged
  <1> QED
    BY <1>1, <1>2

LEMMA RejectIsSafe ==
  ASSUME NEW ev \in Evaluation, NEW commented \in BOOLEAN, Sound(ev),
         ev.state = "VERIFIER_IN_PROGRESS"
  PROVE  Safe(ev, Rejected(ev, commented), ev)
  <1> DEFINE new == Rejected(ev, commented)
             merged == MergeRow(ev, new, ev)
  <1>1. new \in Evaluation
    BY RejectedRow
  <1>2. /\ new.state = "QA_PENDING" /\ new.verUser = NoUser
        /\ new.qaScore = ev.qaScore
        /\ new.final = ev.final /\ new.passFail = ev.passFail
    BY DEF Rejected, Evaluation
  <1> HIDE DEF new
  <1>3. /\ merged.state = "QA_PENDING" /\ merged.verUser = NoUser
        /\ merged.qaScore = ev.qaScore
        /\ merged.final = ev.final /\ merged.passFail = ev.passFail
    BY <1>1, <1>2, MergedColumns
  <1> HIDE DEF merged
  <1>4. Sound(merged) /\ Grown(ev, merged)
    BY <1>3 DEF Sound, Grown, VerifierAssignable
  <1> QED
    BY <1>3, <1>4 DEF Safe, merged, new

\* The handlers that lock nothing merge into whatever the row has become.
LEMMA LockingIsSafe ==
  ASSUME NEW read \in Evaluation, NEW new \in Evaluation, NEW current \in Evaluation,
         Grown(read, current), read.state # "LOCKED",
         new.state = "LOCKED", new.final # NoScore, new.passFail # "none",
         new.qaScore # NoScore \/ new.qaScore = read.qaScore
  PROVE  Safe(read, new, current)
  <1> DEFINE merged == MergeRow(read, new, current)
  <1>1. /\ merged.state = "LOCKED"
        /\ merged.final # NoScore /\ merged.passFail # "none"
        /\ current.qaScore # NoScore => merged.qaScore # NoScore
    BY MergedColumns DEF Grown
  <1> HIDE DEF merged
  <1>2. Sound(merged) /\ Grown(current, merged)
    BY <1>1 DEF Sound, Grown, VerifierAssignable, QaAssignable
  <1> QED
    BY <1>1, <1>2 DEF Safe, merged

LEMMA SubmitIsSafe ==
  ASSUME NEW read \in Evaluation, NEW current \in Evaluation,
         NEW score \in Scores, NEW critical \in BOOLEAN,
         NEW assignee \in People, Sound(read), Grown(read, current),
         read.state = "QA_IN_PROGRESS"
  PROVE  Safe(read, QaSubmitted(read, score, critical, assignee), current)
  <1> DEFINE new == QaSubmitted(read, score, critical, assignee)
             outcome == SubmitOutcome(read.aiScore, score)
             merged == MergeRow(read, new, current)
  <1>1. new \in Evaluation
    BY SubmittedRow
  <1>2. score # NoScore /\ read.verUser = NoUser
    BY ScoresAssumption DEF Sound, QaAssignable
  <1>3. outcome \in {"escalate", "verifier", "complete"}
    BY Outcomes
  <1>4. CASE outcome = "complete"
    <2>1. ScoredVerdict(score, critical) # "none"
      BY Verdicts
    <2>2. /\ new.state = "LOCKED" /\ new.final = score
          /\ new.passFail = ScoredVerdict(score, critical) /\ new.qaScore = score
      BY <1>4 DEF QaSubmitted, Evaluation
    <2> HIDE DEF new
    <2> QED
      BY <1>1, <1>2, <2>1, <2>2, LockingIsSafe DEF new
  <1>5. CASE outcome \in {"escalate", "verifier"}
    <2>1. /\ new.qaScore = score /\ new.final = read.final
          /\ new.passFail = read.passFail
          /\ \/ new.state = "QA_COMPLETED"
             \/ new.state = "VERIFIER_IN_PROGRESS" /\ new.verUser # NoUser
      <3>1. CASE outcome = "escalate"
        BY <3>1 DEF QaSubmitted, Evaluation
      <3>2. CASE outcome = "verifier" /\ assignee = NoUser
        BY <3>2 DEF QaSubmitted, Evaluation
      <3>3. CASE outcome = "verifier" /\ assignee # NoUser
        BY <3>3 DEF QaSubmitted, Evaluation
      <3> QED
        BY <1>5, <3>1, <3>2, <3>3
    <2> HIDE DEF new
    <2>2. /\ merged.qaScore # NoScore /\ merged.final = current.final
          /\ merged.passFail = current.passFail
          /\ \/ merged.state = "QA_COMPLETED"
             \/ merged.state = "VERIFIER_IN_PROGRESS" /\ merged.verUser # NoUser
      BY <1>1, <1>2, <2>1, MergedColumns DEF Grown
    <2> HIDE DEF merged
    <2>3. Sound(merged) /\ Grown(current, merged)
      BY <2>2 DEF Sound, Grown, QaAssignable
    <2> QED
      BY <2>2, <2>3 DEF Safe, merged, new
  <1> QED
    BY <1>3, <1>4, <1>5

LEMMA ApproveIsSafe ==
  ASSUME NEW read \in Evaluation, NEW current \in Evaluation, Sound(read),
         Grown(read, current), read.state = "VERIFIER_IN_PROGRESS"
  PROVE  Safe(read, Approved(read), current)
  <1> DEFINE new == Approved(read)
  <1>1. new \in Evaluation
    BY ApprovedRow
  <1>2. read.qaScore # NoScore
    BY DEF Sound, VerifierAssignable
  <1>3. /\ new.state = "LOCKED" /\ new.final = read.qaScore
        /\ new.passFail # "none" /\ new.qaScore = read.qaScore
    BY <1>2 DEF Approved, Passes, Evaluation
  <1> HIDE DEF new
  <1> QED
    BY <1>1, <1>2, <1>3, LockingIsSafe DEF new

LEMMA ModifyIsSafe ==
  ASSUME NEW read \in Evaluation, NEW current \in Evaluation,
         NEW score \in Scores, NEW critical \in BOOLEAN, Sound(read),
         Grown(read, current), read.state = "VERIFIER_IN_PROGRESS"
  PROVE  Safe(read, Modified(read, score, critical), current)
  <1> DEFINE new == Modified(read, score, critical)
  <1>1. new \in Evaluation
    BY ModifiedRow
  <1>2. ScoredVerdict(score, critical) # "none" /\ score # NoScore
    BY Verdicts, ScoresAssumption
  <1>3. /\ new.state = "LOCKED" /\ new.final = score
        /\ new.passFail # "none" /\ new.qaScore = read.qaScore
    BY <1>2 DEF Modified, Evaluation
  <1> HIDE DEF new
  <1> QED
    BY <1>1, <1>2, <1>3, LockingIsSafe DEF new

LEMMA CommitIsSafe ==
  ASSUME Operations \subseteq Reviewing, NEW s \in Sessions, ReviewInv, Commit(s)
  PROVE  \E new \in Evaluation :
           /\ Finish(s, new)
           /\ Safe(session[s].row, new, evals[session[s].e])
           /\ jobs' = jobs
  <1> DEFINE r == session[s]
             ev == evals[r.e]
             Goal == \E new \in Evaluation :
                       Finish(s, new) /\ Safe(r.row, new, ev) /\ jobs' = jobs
  <1>a. /\ Open(s) /\ r.e \in Evals /\ r.user \in Users /\ r.op \in Reviewing
        /\ r.row \in Evaluation /\ ev \in Evaluation
    BY DEF ReviewInv, TypeOK, Commit, Open, Request
  <1>b. /\ Sound(r.row) /\ Grown(r.row, ev) /\ GoesThrough(r.op, r.row, r.user)
    BY <1>a DEF ReviewInv, RequestIsSound
  <1>c. r.op \in Locking => ev = r.row
    BY <1>a DEF ReviewInv, IInv, LockedReadStaysCurrent
  <1> HIDE DEF r, ev
  <1>1. ASSUME CommitClaim(s)
        PROVE  Goal
    <2>1. CASE r.op = "qa_start" /\ Finish(s, QaStarted(r.row, r.user)) /\ jobs' = jobs
      <3>1. MayQaStart(r.row, r.user) /\ ev = r.row
        BY <1>b, <1>c, <2>1 DEF GoesThrough, Locking
      <3>2. Safe(r.row, QaStarted(r.row, r.user), ev)
        BY <1>a, <1>b, <3>1, ClaimIsSafe
      <3> QED
        BY <1>a, <2>1, <3>2, AssignedRows
    <2>2. CASE r.op = "verifier_start" /\ Finish(s, VerifierStarted(r.row, r.user))
               /\ jobs' = jobs
      <3>1. MayVerifierStart(r.row) /\ ev = r.row
        BY <1>b, <1>c, <2>2 DEF GoesThrough, Locking
      <3>2. Safe(r.row, VerifierStarted(r.row, r.user), ev)
        BY <1>a, <1>b, <3>1, ClaimIsSafe
      <3> QED
        BY <1>a, <2>2, <3>2, AssignedRows
    <2> QED
      BY <1>1, <2>1, <2>2 DEF CommitClaim, r
  <1>2. ASSUME NEW score \in Scores, NEW critical \in BOOLEAN,
               CommitQaSubmit(s, score, critical)
        PROVE  Goal
    <2>1. PICK assignee \in SubmitAssignees(SubmitOutcome(r.row.aiScore, score)) :
            Finish(s, QaSubmitted(r.row, score, critical, assignee))
      BY <1>2 DEF CommitQaSubmit, r
    <2>2. assignee \in People
      BY Actors
    <2>3. r.op = "qa_submit" /\ jobs' = jobs
      BY <1>2 DEF CommitQaSubmit, r
    <2>4. r.row.state = "QA_IN_PROGRESS"
      BY <1>b, <2>3 DEF GoesThrough, MayQaSubmit
    <2>5. Safe(r.row, QaSubmitted(r.row, score, critical, assignee), ev)
      BY <1>a, <1>b, <2>2, <2>4, SubmitIsSafe
    <2> QED
      BY <1>a, <2>1, <2>2, <2>3, <2>5, SubmittedRow
  <1>3. ASSUME CommitVerifierApprove(s)
        PROVE  Goal
    <2>1. r.op = "verifier_approve" /\ Finish(s, Approved(r.row)) /\ jobs' = jobs
      BY <1>3 DEF CommitVerifierApprove, r
    <2>2. r.row.state = "VERIFIER_IN_PROGRESS"
      BY <1>b, <2>1 DEF GoesThrough, MayVerify
    <2> QED
      BY <1>a, <1>b, <2>1, <2>2, ApproveIsSafe, ApprovedRow
  <1>4. ASSUME NEW score \in Scores, NEW critical \in BOOLEAN,
               CommitVerifierModify(s, score, critical)
        PROVE  Goal
    <2>1. /\ r.op = "verifier_modify" /\ Finish(s, Modified(r.row, score, critical))
          /\ jobs' = jobs
      BY <1>4 DEF CommitVerifierModify, r
    <2>2. r.row.state = "VERIFIER_IN_PROGRESS"
      BY <1>b, <2>1 DEF GoesThrough, MayVerify
    <2> QED
      BY <1>a, <1>b, <2>1, <2>2, ModifyIsSafe, ModifiedRow
  <1>5. ASSUME NEW commented \in BOOLEAN, CommitVerifierReject(s, commented)
        PROVE  Goal
    <2>1. /\ r.op = "verifier_reject" /\ Finish(s, Rejected(r.row, commented))
          /\ jobs' = jobs
      BY <1>5 DEF CommitVerifierReject, r
    <2>2. r.row.state = "VERIFIER_IN_PROGRESS" /\ ev = r.row
      BY <1>b, <1>c, <2>1 DEF GoesThrough, MayVerify, Locking
    <2>3. Safe(r.row, Rejected(r.row, commented), ev)
      BY <1>a, <1>b, <2>2, RejectIsSafe
    <2> QED
      BY <1>a, <2>1, <2>3, RejectedRow
  <1>6. ASSUME CommitManualAssign(s) \/ CommitReassign(s) \/ CommitReAudit(s)
        PROVE  Goal
    <2>1. r.op \in {"manual_assign", "reassign", "re_audit_ai"}
      BY <1>6 DEF CommitManualAssign, CommitReassign, CommitReAudit, r
    <2> QED
      BY <1>a, <2>1 DEF Reviewing
  <1> QED
    BY <1>1, <1>2, <1>3, <1>4, <1>5, <1>6 DEF Commit, r, ev

\* What a commit does to the rows, the requests and the claims.
LEMMA CommitKeepsReview ==
  ASSUME Operations \subseteq Reviewing, NEW s \in Sessions, ReviewInv, Commit(s)
  PROVE  /\ \A e \in Evals : Sound(evals'[e]) /\ Grown(evals[e], evals'[e]) /\ jobs'[e] = 0
         /\ \A w \in Workers : worker'[w] = NoEval
         /\ \A t \in Sessions : session'[t] # Idle =>
              session'[t] = session[t] /\ Open(t)
         /\ QaClaimHolds
  <1> DEFINE e0 == session[s].e
  <1>1. PICK new \in Evaluation :
          /\ Finish(s, new)
          /\ Safe(session[s].row, new, evals[e0])
          /\ jobs' = jobs
    BY CommitIsSafe
  <1> DEFINE merged == MergeRow(session[s].row, new, evals[e0])
  <1>2. /\ evals' = [evals EXCEPT ![e0] = merged]
        /\ session' = [session EXCEPT ![s] = Idle] /\ worker' = worker
    BY <1>1 DEF Finish
  <1>3. e0 \in Evals
    BY DEF ReviewInv, TypeOK, Commit, Open, Request
  <1>4. /\ Sound(merged) /\ Grown(evals[e0], merged)
        /\ evals[e0].state = "QA_IN_PROGRESS" /\ merged.state = "QA_IN_PROGRESS"
           => merged.qaUser = evals[e0].qaUser
    BY <1>1 DEF Safe
  <1> HIDE DEF merged, e0
  <1>5. \A e \in Evals : /\ e = e0 => evals'[e] = merged
                         /\ e # e0 => evals'[e] = evals[e]
    BY <1>2, <1>3 DEF ReviewInv, TypeOK
  <1>6. \A e \in Evals : Sound(evals[e]) /\ Grown(evals[e], evals[e])
    BY DEF ReviewInv, Grown
  <1>7. \A e \in Evals : Sound(evals'[e]) /\ Grown(evals[e], evals'[e])
    BY <1>4, <1>5, <1>6
  <1>8. QaClaimHolds
    BY <1>4, <1>5 DEF QaClaimHolds
  <1> QED
    BY <1>1, <1>2, <1>7, <1>8 DEF ReviewInv, TypeOK, Open

LEMMA ReviewInit == Init => ReviewInv
  <1> SUFFICES ASSUME Init PROVE ReviewInv
    OBVIOUS
  <1>1. \A u \in {NoUser} \cup QaActors : Sound(StartInQa(u).row)
    BY DEF StartInQa, NewEvaluation, QaEntryState, Sound, QaAssignable,
           VerifierAssignable
  <1>2. \A q \in QaActors, v \in VerifierActors, score \in Scores :
          Sound(StartInVerification(q, v, score).row)
    <2> SUFFICES ASSUME NEW q \in QaActors, NEW v \in VerifierActors,
                        NEW score \in Scores
                 PROVE  Sound(StartInVerification(q, v, score).row)
      OBVIOUS
    <2>1. v # NoUser /\ score # NoScore
      BY ScoresAssumption, UsersAssumption, Actors
    <2>2. /\ StartInVerification(q, v, score).row.state = "VERIFIER_IN_PROGRESS"
          /\ StartInVerification(q, v, score).row.verUser = v
          /\ StartInVerification(q, v, score).row.qaScore = score
      BY DEF StartInVerification, NewEvaluation
    <2> QED
      BY <2>1, <2>2 DEF Sound, QaAssignable
  <1>3. \A start \in Start : Sound(start.row)
    BY <1>1, <1>2 DEF Start
  <1>4. PICK start \in [Evals -> Start] : evals = [e \in Evals |-> start[e].row]
    BY DEF Init
  <1>5. \A e \in Evals : Sound(evals[e])
    BY <1>3, <1>4
  <1>6. TypeOK /\ IInv
    BY TypeInit, InitHolds
  <1> QED
    BY <1>5, <1>6 DEF Init, ReviewInv, Open

LEMMA ReviewInvStep ==
  ASSUME Operations \subseteq Reviewing
  PROVE  ReviewInv /\ [Next]_vars => ReviewInv' /\ [QaClaimHolds]_vars
  <1> SUFFICES ASSUME ReviewInv, [Next]_vars
               PROVE  ReviewInv' /\ [QaClaimHolds]_vars
    OBVIOUS
  <1>1. TypeOK' /\ IInv'
    BY TypeStep, StepKeeps DEF ReviewInv
  <1>2. ASSUME NEW s \in Sessions, NEW op \in Operations, NEW e \in Evals,
               NEW u \in Users, Begin(s, op, e, u)
        PROVE  ReviewInv' /\ QaClaimHolds
    <2> DEFINE request == [op |-> op, e |-> e, user |-> u,
                           row |-> evals[e], queueRow |-> queue[e]]
    <2>1. /\ session' = [session EXCEPT ![s] = request]
          /\ evals' = evals /\ jobs' = jobs /\ worker' = worker
          /\ GoesThrough(op, evals[e], u)
      BY <1>2 DEF Begin
    <2>2. /\ session'[s] = request
          /\ \A t \in Sessions \ {s} : session'[t] = session[t]
      BY <2>1 DEF ReviewInv, TypeOK
    <2>3. /\ request.op = op /\ request.e = e /\ request.user = u
          /\ request.row = evals[e]
      OBVIOUS
    <2> HIDE DEF request
    <2>4. RequestIsSound(request)
      BY <2>1, <2>3 DEF ReviewInv, RequestIsSound, Grown
    <2>5. \A t \in Sessions : Open(t)' => RequestIsSound(session[t])'
      BY <2>1, <2>2, <2>4 DEF ReviewInv, RequestIsSound, Open
    <2> QED
      BY <1>1, <2>1, <2>5 DEF ReviewInv, QaClaimHolds
  <1>3. ASSUME NEW s \in Sessions, Commit(s)
        PROVE  ReviewInv' /\ QaClaimHolds
    <2>1. /\ \A e \in Evals : /\ Sound(evals'[e]) /\ Grown(evals[e], evals'[e])
                              /\ jobs'[e] = 0
          /\ \A w \in Workers : worker'[w] = NoEval
          /\ \A t \in Sessions : session'[t] # Idle =>
               session'[t] = session[t] /\ Open(t)
          /\ QaClaimHolds
      BY <1>3, CommitKeepsReview
    <2>2. ASSUME NEW t \in Sessions, Open(t)'
          PROVE  RequestIsSound(session[t])'
      <3>1. session'[t] = session[t] /\ Open(t) /\ session[t].e \in Evals
        BY <2>1, <2>2 DEF Open, ReviewInv, TypeOK, Request
      <3>2. RequestIsSound(session[t])
        BY <3>1 DEF ReviewInv
      <3>3. Grown(session[t].row, evals'[session[t].e])
        BY <2>1, <3>1, <3>2 DEF RequestIsSound, Grown
      <3> QED
        BY <3>1, <3>2, <3>3 DEF RequestIsSound
    <2> QED
      BY <1>1, <2>1, <2>2 DEF ReviewInv
  <1>4. ASSUME NEW s \in Sessions, RollBack(s)
        PROVE  ReviewInv' /\ QaClaimHolds
    <2>1. /\ session' = [session EXCEPT ![s] = Idle] /\ evals' = evals
          /\ jobs' = jobs /\ worker' = worker
      BY <1>4 DEF RollBack
    <2>2. \A t \in Sessions : Open(t)' => Open(t) /\ session'[t] = session[t]
      BY <2>1 DEF ReviewInv, TypeOK, Open
    <2> QED
      BY <1>1, <2>1, <2>2 DEF ReviewInv, RequestIsSound, QaClaimHolds
  <1>5. ASSUME NEW w \in Workers,
               \/ \E e \in Evals : WorkerClaim(w, e)
               \/ \E assignee \in {NoUser} \cup QaActors : WorkerRoute(w, assignee)
        PROVE  FALSE
    <2>1. ASSUME NEW e \in Evals, WorkerClaim(w, e) PROVE FALSE
      BY <2>1 DEF WorkerClaim, ReviewInv
    <2>2. ASSUME NEW assignee, WorkerRoute(w, assignee) PROVE FALSE
      BY <2>2 DEF WorkerRoute, ReviewInv
    <2> QED
      BY <1>5, <2>1, <2>2
  <1>6. CASE UNCHANGED vars
    BY <1>1, <1>6 DEF vars, ReviewInv, RequestIsSound, Open
  <1> QED
    BY <1>2, <1>3, <1>4, <1>5, <1>6 DEF Next

LEMMA ReviewInvariance ==
  ASSUME Operations \subseteq Reviewing
  PROVE  Spec => []ReviewInv
  <1>1. Init => ReviewInv
    BY ReviewInit
  <1>2. ReviewInv /\ [Next]_vars => ReviewInv'
    BY ReviewInvStep
  <1> QED
    BY <1>1, <1>2, PTL DEF Spec

\* However many reviewers' requests overlap, and although qa_submit,
\* verifier_approve and verifier_modify lock nothing: an evaluation that is
\* locked has a final score and a verdict.
THEOREM LockedHaveVerdicts ==
  ASSUME Operations \subseteq Reviewing
  PROVE  Spec => []LockedHasVerdict
  <1>1. ReviewInv => LockedHasVerdict
    BY DEF ReviewInv, Sound, LockedHasVerdict
  <1> QED
    BY <1>1, ReviewInvariance, PTL

\* ... and work in progress has its owner: a late commit never meets a row
\* whose owner verifier_reject has taken away without moving it back to QA.
THEOREM WorkHasOwners ==
  ASSUME Operations \subseteq Reviewing
  PROVE  Spec => []InProgressHasOwner
  <1>1. ReviewInv => InProgressHasOwner
    BY DEF ReviewInv, Sound, InProgressHasOwner
  <1> QED
    BY <1>1, ReviewInvariance, PTL

\* ... and the claim of a QA reviewer is not overwritten by another one.
THEOREM QaClaimsHold ==
  ASSUME Operations \subseteq Reviewing
  PROVE  Spec => [][QaClaimHolds]_vars
  <1>1. ReviewInv /\ [Next]_vars => [QaClaimHolds]_vars
    BY ReviewInvStep
  <1> QED
    BY <1>1, ReviewInvariance, PTL DEF Spec

-----------------------------------------------------------------------------

\* What the code promises of reviewers whose requests overlap.
ReviewHolds ==
  Operations \subseteq Reviewing =>
    /\ [](LockedHasVerdict /\ InProgressHasOwner)
    /\ [][QaClaimHolds]_vars

\* As long as only reviewers act, overlapping requests leave no work in progress
\* without its owner and no locked evaluation without its verdict, and overwrite
\* no claim of QA, although three of the six handlers lock nothing.
THEOREM ReviewAlwaysHolds == Spec => ReviewHolds
  <1>1. CASE Operations \subseteq Reviewing
    <2>1. Spec => []LockedHasVerdict
      BY <1>1, LockedHaveVerdicts
    <2>2. Spec => []InProgressHasOwner
      BY <1>1, WorkHasOwners
    <2>3. Spec => [][QaClaimHolds]_vars
      BY <1>1, QaClaimsHold
    <2> QED
      BY <2>1, <2>2, <2>3, PTL DEF ReviewHolds
  <1>2. CASE ~(Operations \subseteq Reviewing)
    BY <1>2 DEF ReviewHolds
  <1> QED
    BY <1>1, <1>2
=============================================================================
