---------------------------- MODULE BulkSessions ----------------------------
(***************************************************************************)
(* round_robin_assign and the stale scan as what they are: transactions    *)
(* over many rows that lock nothing.  They select rows of workflow_queues, *)
(* read one evaluation after the other, and commit in the end; reviewers,  *)
(* administrators, the worker and each other go on meanwhile.              *)
(*                                                                         *)
(* Rows written before the commit are locked until then, so each write is  *)
(* taken at the commit.  The round robin reads an item's evaluation after  *)
(* its UPDATE of the item's queue row has gone out (autoflush), and who    *)
(* writes that row waits from then on.  An UPDATE of a row that has been   *)
(* deleted since it was read raises (StaleDataError) and the whole batch   *)
(* rolls back, as does one that waits in a deadlock; a row deleted and     *)
(* inserted again is another row.  All other handlers are the one-step     *)
(* transactions of ReviewWorkflow.                                         *)
(***************************************************************************)
EXTENDS ReviewWorkflow

CONSTANTS
  Robins,    \* round robin requests that can be under way at a time
  Scans,     \* runs of the scan that can be under way at a time
  Idle,
  NotRead,   \* an evaluation of the batch that has not been read yet
  Handlers,  \* whether other requests are made meanwhile
  MaxRuns    \* bound: batches begun in a behaviour

BulkAssumption ==
  /\ Robins \cap Scans = {}
  /\ NotRead \notin Evaluation
  /\ Handlers \in BOOLEAN
  /\ MaxRuns \in Nat

VARIABLES
  bulk,  \* per round robin or scan: Idle, or its batch
  runs   \* number of batches begun

vars == <<evals, queue, conv, audit, bulk, runs>>

Bulks == Robins \cup Scans

\* Of a batch: the rows and the evaluations that were read, and the items
\* whose queue row was deleted since; of a round robin also type and deal.
Opened(items) == [rows |-> [e \in items |-> queue[e]],
                  evs |-> [e \in items |-> NotRead], gone |-> {}]

Items(b) == IF bulk[b] = Idle THEN {} ELSE DOMAIN bulk[b].rows

Begin(b, batch) ==
  /\ bulk[b] = Idle
  /\ runs < MaxRuns
  /\ runs' = runs + 1
  /\ bulk' = [bulk EXCEPT ![b] = batch]
  /\ UNCHANGED tables

Close(b) == bulk' = [bulk EXCEPT ![b] = Idle] /\ UNCHANGED <<conv, audit, runs>>

AllRead(b) == bulk[b] # Idle /\ \A e \in Items(b) : bulk[b].evs[e] # NotRead

\* Round robin b has sent its UPDATE of the queue row of e.
HoldsRow(b, e) ==
  /\ e \in Items(b)
  /\ bulk[b].evs[e] # NotRead
  /\ bulk[b].rows[e] # NoRow
  /\ bulk[b].rows[e].assigned # bulk[b].deal[e]

RowIsFree(e) == \A b \in Robins : ~HoldsRow(b, e)

-----------------------------------------------------------------------------
(* round_robin_assign *)

\* The unassigned rows (department and limit select any of them) are dealt to
\* users before any evaluation is read.
RobinSelect(b, queueType, items, deal) ==
  /\ items # {}
  /\ Begin(b, [type |-> queueType, deal |-> deal, rows |-> Opened(items).rows,
               evs |-> Opened(items).evs, gone |-> {}])

\* The loop selects the item's queue row again: the ORM answers with the row
\* it knows, unless that one is gone.  Its UPDATE waits for those of others;
\* then the evaluation is read.
RobinRead(b, e) ==
  /\ e \in Items(b)
  /\ bulk[b].evs[e] = NotRead
  /\ RowIsFree(e)
  /\ bulk' = [bulk EXCEPT
                ![b].rows[e] = IF e \in bulk[b].gone THEN queue[e] ELSE @,
                ![b].gone = @ \ {e},
                ![b].evs[e] = evals[e]]
  /\ UNCHANGED <<evals, queue, conv, audit, runs>>

RobinCommit(b) ==
  /\ AllRead(b)
  /\ bulk[b].gone = {}
  /\ LET r == bulk[b]
     IN  /\ queue' = [e \in Evals |->
                        IF e \in Items(b) /\ r.rows[e] # NoRow
                        THEN MergeRow(r.rows[e], [r.rows[e] EXCEPT !.assigned = r.deal[e]],
                                      queue[e])
                        ELSE queue[e]]
         /\ evals' = [e \in Evals |->
                        IF e \in Items(b)
                        THEN MergeRow(r.evs[e], RoundRobinRow(r.evs[e], r.type, r.deal[e]),
                                      evals[e])
                        ELSE evals[e]]
  /\ Close(b)

-----------------------------------------------------------------------------
(* stale_queue_escalate_scan *)

ScanSelect(b) ==
  LET items == {e \in Evals : /\ queue[e] # NoRow
                              /\ queue[e].type \in {"QA_QUEUE", "VERIFIER_QUEUE"}
                              /\ queue[e].stale}
  IN  /\ items # {}
      /\ Begin(b, Opened(items))

ScanRead(b, e) ==
  /\ e \in Items(b)
  /\ bulk[b].evs[e] = NotRead
  /\ bulk' = [bulk EXCEPT ![b].evs[e] = evals[e]]
  /\ UNCHANGED <<evals, queue, conv, audit, runs>>

\* The items that the scan promotes: what was escalated when read is skipped.
Due(b) == {e \in Items(b) : ~bulk[b].evs[e].escalated}

\* Mutant: the scan writes back the result as it read it.
ScanCommit_OldResult(b) ==
  /\ AllRead(b)
  /\ Due(b) \cap bulk[b].gone = {} /\ \A e \in Due(b) : RowIsFree(e)
  /\ queue' = [e \in Evals |-> IF e \in Due(b)
                               THEN [queue[e] EXCEPT !.type = "ESCALATION_QUEUE"]
                               ELSE queue[e]]
  /\ evals' = [e \in Evals |-> IF e \in Due(b)
                               THEN [evals[e] EXCEPT !.escalated = TRUE,
                                       !.final = bulk[b].evs[e].final,
                                       !.passFail = bulk[b].evs[e].passFail]
                               ELSE evals[e]]
  /\ Close(b)

ScanCommit(b) ==
  /\ AllRead(b)
  /\ Due(b) \cap bulk[b].gone = {} /\ \A e \in Due(b) : RowIsFree(e)
  /\ queue' = [e \in Evals |-> IF e \in Due(b)
                               THEN [queue[e] EXCEPT !.type = "ESCALATION_QUEUE"]
                               ELSE queue[e]]
  /\ evals' = [e \in Evals |-> IF e \in Due(b)
                               THEN [evals[e] EXCEPT !.escalated = TRUE]
                               ELSE evals[e]]
  /\ Close(b)

\* A batch that fails, on a deleted row or otherwise, leaves nothing behind.
RollBack(b) ==
  /\ bulk[b] # Idle
  /\ Close(b)
  /\ UNCHANGED <<evals, queue>>

-----------------------------------------------------------------------------
(* What goes on meanwhile *)

\* eval.process, both of its transactions.
EvalProcess(e, assignee) ==
  /\ evals[e].state \in AiClaimable
  /\ evals' = [evals EXCEPT ![e] = [@ EXCEPT !.state = QaEntryState(assignee),
                                             !.qaUser = assignee]]
  /\ queue' = [queue EXCEPT ![e] = UpsertQueueViaPool(@, "QA_QUEUE", assignee)]
  /\ conv' = [conv EXCEPT ![e] = "QA_REVIEW"]
  /\ UNCHANGED audit

Meanwhile ==
  /\ Handlers
  /\ \/ HandlerStep
     \/ \E e \in Evals : \/ ReAuditAi(e)
                         \/ \E u \in {NoUser} \cup QaActors : EvalProcess(e, u)
  /\ LET deleted == {e \in Evals : queue[e] # NoRow /\ queue'[e] = NoRow}
     IN  bulk' = [b \in Bulks |->
                    IF bulk[b] = Idle THEN Idle
                    ELSE [bulk[b] EXCEPT !.gone = @ \cup
                            {e \in deleted \cap Items(b) : bulk[b].rows[e] # NoRow}]]
  /\ \A e \in Evals : queue'[e] # queue[e] => RowIsFree(e)
  /\ UNCHANGED runs

-----------------------------------------------------------------------------

\* Evaluations that wait for QA, unassigned and in the QA queue.
Init ==
  /\ evals = [e \in Evals |-> NewEvaluation("QA_PENDING", NoUser)]
  /\ queue = [e \in Evals |-> UpsertQueue("QA_QUEUE", NoUser)]
  /\ conv = [e \in Evals |-> "QA_REVIEW"]
  /\ audit = [e \in Evals |-> "NONE"]
  /\ bulk = [b \in Bulks |-> Idle]
  /\ runs = 0

Next ==
  \/ \E b \in Robins :
       \/ \E queueType \in {"QA_QUEUE", "VERIFIER_QUEUE"} :
            \E items \in SUBSET Unassigned(queueType) :
              \E deal \in [items -> RoundRobinUsers(queueType)] :
                RobinSelect(b, queueType, items, deal)
       \/ \E e \in Evals : RobinRead(b, e)
       \/ RobinCommit(b)
  \/ \E b \in Scans :
       \/ ScanSelect(b)
       \/ \E e \in Evals : ScanRead(b, e)
       \/ ScanCommit(b)
  \/ \E b \in Bulks : RollBack(b)
  \/ Meanwhile
  \/ ~Handlers /\ \E e \in Evals : RowTurnsStale(e) /\ UNCHANGED <<bulk, runs>>

Spec == Init /\ [][Next]_vars

-----------------------------------------------------------------------------
(* Properties *)

\* The tables hold rows they can hold, and a batch what it read of them.
TypeOK ==
  /\ evals \in [Evals -> Evaluation]
  /\ queue \in [Evals -> QueueRow \cup {NoRow}]
  /\ conv \in [Evals -> ConvStatus]
  /\ audit \in [Evals -> AuditStatus]
  /\ \A b \in Bulks :
       /\ bulk[b] # Idle => bulk[b].gone \subseteq Items(b)
       /\ \A e \in Items(b) : /\ bulk[b].rows[e] \in QueueRow \cup {NoRow}
                              /\ bulk[b].evs[e] \in Evaluation \cup {NotRead}
  /\ runs \in 0..MaxRuns

\* Round robins and scans that overlap leave the escalation flag, which the
\* listings go by, and the queue, which the scan sets with it, together.
EscalatedIsQueued ==
  \A e \in Evals :
    evals[e].escalated <=> queue[e] # NoRow /\ queue[e].type = "ESCALATION_QUEUE"

\* Whatever a scan, which locks nothing, has read, its commit does not bring back an
\* evaluation that was locked meanwhile: a lock ends by a re-audit only.  (The
\* flag may rise late.)
DecisionIsFinal ==
  \A e \in Evals :
    evals[e].state = "LOCKED" =>
      evals'[e] \in {evals[e], [evals[e] EXCEPT !.escalated = TRUE], ReAudited}

\* Without round robins next to every handler, and with any number of them next
\* to each other and to scans, queue row and evaluation name one owner.  (A round
\* robin overwrites what a handler has made of an evaluation in the meantime.)
BatchesHold ==
  /\ TypeOK
  /\ Robins = {} \/ ~Handlers => AssignmentAgrees
  /\ ~Handlers => EscalatedIsQueued
=============================================================================
