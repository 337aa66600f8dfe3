----------------------------- MODULE QueueViews -----------------------------
(***************************************************************************)
(* What reviewers are shown of the review tables: the QA queue, the        *)
(* verifier queue, the list of evaluations and the access check of a       *)
(* single one (evaluations_service.py), as sets over the state of          *)
(* EvaluationSystem.  The escalation and the audit queue are listings of   *)
(* their rows of workflow_queues, for administrators, and left out.        *)
(* Search, department filter and paging only narrow a listing; they and    *)
(* the layout of a row are left out, and so is blind review.               *)
(***************************************************************************)
EXTENDS EvaluationSystem

Visible(ev, u) ==
  /\ u \in QaUsers => ev.qaUser \in {u, NoUser}
  /\ u \in VerifierUsers => ev.verUser \in {u, NoUser}

\* _queue_listing selects evaluations, not rows of workflow_queues.
QueueListing(states, u) ==
  {e \in Evals : /\ evals[e].state \in states
                 /\ ~evals[e].escalated
                 /\ Visible(evals[e], u)}

QaQueue(u) == QueueListing(QaAssignable, u)

VerifierQueue(u) == QueueListing(VerifierAssignable, u)

\* list_evaluations: the state is an optional filter.
MyEvaluations(u) ==
  {e \in Evals : /\ evals[e].state # "NONE"
                 /\ u \in QaUsers => evals[e].qaUser = u
                 /\ u \in VerifierUsers => evals[e].verUser = u}

\* Mutant: what a submission leaves waiting is closed to the role.
MayRead_Fresh(ev, u) ==
  \/ u \in AdminUsers
  \/ /\ u \in QaUsers
     /\ ev.qaUser = u \/ (ev.qaUser = NoUser /\ ev.state \in {"QA_PENDING"})
  \/ /\ u \in VerifierUsers
     /\ ev.verUser = u \/ (ev.verUser = NoUser /\ ev.state \in {"VERIFIER_PENDING"})

\* _assert_evaluation_read_access
MayRead(ev, u) ==
  \/ u \in AdminUsers
  \/ /\ u \in QaUsers
     /\ ev.qaUser = u \/ (ev.qaUser = NoUser /\ ev.state \in QaAssignable)
  \/ /\ u \in VerifierUsers
     /\ ev.verUser = u \/ (ev.verUser = NoUser /\ ev.state \in VerifierAssignable)

-----------------------------------------------------------------------------
(* Properties *)

\* The listings and the access check, written apart, agree: whoever is shown
\* an evaluation in a list can open it.
ListedIsReadable ==
  \A u \in Users :
    \A e \in MyEvaluations(u) \cup (IF u \in QaActors THEN QaQueue(u) ELSE {})
                              \cup (IF u \in VerifierActors THEN VerifierQueue(u) ELSE {}) :
      MayRead(evals[e], u)

\* What a reviewer's own queue offers is his to work on: qa_start, or
\* verifier_start, or the verdicts of work he has begun, go through.
ListedCanBeTaken ==
  /\ \A u \in QaUsers : \A e \in QaQueue(u) : MayQaStart(evals[e], u)
  /\ \A u \in VerifierUsers : \A e \in VerifierQueue(u) :
       MayVerifierStart(evals[e]) \/ MayVerify(evals[e], u)

\* Work in progress is in the queue of one reviewer of the role at most, and
\* of its owner only.
InProgressIsListedToOwner ==
  /\ \A u \in QaUsers : \A e \in QaQueue(u) :
       evals[e].state = "QA_IN_PROGRESS" => evals[e].qaUser = u
  /\ \A u \in VerifierUsers : \A e \in VerifierQueue(u) :
       evals[e].state = "VERIFIER_IN_PROGRESS" => evals[e].verUser = u
=============================================================================
