------------------------- MODULE BulkSessionsProofs -------------------------
(***************************************************************************)
(* Batches that read and commit over many rows and lock none, for any      *)
(* number of round robins and scans that overlap, and any evaluations.     *)
(***************************************************************************)
EXTENDS BulkSessions, ReviewRowsProofs

\* A batch over the items I.
ScanOver(I) ==
  [rows: [I -> Rows], evs: [I -> Evaluation \cup {NotRead}], gone: SUBSET I]

RobinOver(I) ==
  [type: {"QA_QUEUE", "VERIFIER_QUEUE"}, deal: [I -> Users],
   rows: [I -> Rows], evs: [I -> Evaluation \cup {NotRead}], gone: SUBSET I]

IsBatch(b, r) ==
  \E I \in SUBSET Evals :
    \/ b \in Robins /\ r \in RobinOver(I)
    \/ b \in Scans /\ r \in ScanOver(I)

\* An item that has not been deleted since it was read still has its row.
RowsRemain(r) ==
  \A e \in DOMAIN r.rows \ r.gone : r.rows[e] # NoRow => queue[e] # NoRow

BatchesOK ==
  /\ bulk = [b \in Bulks |-> bulk[b]]
  /\ \A b \in Bulks : bulk[b] # Idle => IsBatch(b, bulk[b]) /\ RowsRemain(bulk[b])
  /\ \A b \in Scans : bulk[b] # Idle =>
       \A e \in DOMAIN bulk[b].rows : bulk[b].rows[e] # NoRow

BulkInv ==
  /\ TablesOK
  /\ BatchesOK
  /\ runs \in 0..MaxRuns

-----------------------------------------------------------------------------

LEMMA BatchShape ==
  ASSUME NEW b \in Bulks, NEW r, IsBatch(b, r)
  PROVE  \E I \in SUBSET Evals :
           /\ r.rows \in [I -> Rows] /\ DOMAIN r.rows = I
           /\ r.evs \in [I -> Evaluation \cup {NotRead}]
           /\ r.gone \in SUBSET I
           /\ b \in Robins \/ b \in Scans
  BY DEF IsBatch, RobinOver, ScanOver, Bulks

LEMMA BatchTypes == BulkInv => TypeOK
  <1> SUFFICES ASSUME BulkInv PROVE TypeOK
    OBVIOUS
  <1>1. ASSUME NEW b \in Bulks
        PROVE  /\ bulk[b] # Idle => bulk[b].gone \subseteq Items(b)
               /\ \A e \in Items(b) : /\ bulk[b].rows[e] \in QueueRow \cup {NoRow}
                                      /\ bulk[b].evs[e] \in Evaluation \cup {NotRead}
    <2>1. CASE bulk[b] = Idle
      BY <2>1 DEF Items
    <2>2. CASE bulk[b] # Idle
      <3>1. IsBatch(b, bulk[b])
        BY <2>2 DEF BulkInv, BatchesOK
      <3> QED
        BY <2>2, <3>1, BatchShape DEF Items, Rows
    <2> QED
      BY <2>1, <2>2
  <1> QED
    BY <1>1 DEF BulkInv, TablesOK, TypeOK, Rows

LEMMA BulkInit ==
  ASSUME BulkAssumption
  PROVE  Init => BulkInv
  <1> SUFFICES ASSUME Init PROVE BulkInv
    OBVIOUS
  <1>1. NewEvaluation("QA_PENDING", NoUser) \in Evaluation
    BY FreshRows DEF WorkflowState, People
  <1>2. UpsertQueue("QA_QUEUE", NoUser) \in Rows
    BY QueueRows DEF QueueType, People, Rows
  <1>3. TablesOK
    BY <1>1, <1>2 DEF Init, TablesOK, ConvStatus, AuditStatus
  <1>4. BatchesOK
    BY DEF Init, BatchesOK, Bulks
  <1> QED
    BY <1>3, <1>4 DEF Init, BulkInv, BulkAssumption

\* A step that writes no row, and sets one batch to what it has read of them.
LEMMA SetKeeps ==
  ASSUME NEW b \in Bulks, NEW batch, BulkInv, UNCHANGED tables,
         bulk' = [bulk EXCEPT ![b] = batch], runs' \in 0..MaxRuns,
         IsBatch(b, batch), RowsRemain(batch),
         b \in Scans => \A e \in DOMAIN batch.rows : batch.rows[e] # NoRow
  PROVE  BulkInv'
  <1>1. BatchesOK'
    <2>1. bulk' = [c \in Bulks |-> bulk'[c]]
      BY DEF BulkInv, BatchesOK
    <2>2. \A c \in Bulks : bulk'[c] = IF c = b THEN batch ELSE bulk[c]
      BY DEF BulkInv, BatchesOK
    <2>3. \A c \in Bulks : bulk'[c] # Idle =>
            IsBatch(c, bulk'[c]) /\ RowsRemain(bulk'[c])
      BY <2>2 DEF BulkInv, BatchesOK
    <2>4. \A c \in Scans : bulk'[c] # Idle =>
            \A e \in DOMAIN bulk'[c].rows : bulk'[c].rows[e] # NoRow
      BY <2>2 DEF BulkInv, BatchesOK, Bulks
    <2>5. \A c \in Bulks : bulk'[c] # Idle => RowsRemain(bulk[c])'
      BY <2>3 DEF RowsRemain, tables
    <2> QED
      BY <2>1, <2>3, <2>4, <2>5 DEF BatchesOK
  <1> QED
    BY <1>1 DEF BulkInv, TablesOK, tables

LEMMA BeginKeeps ==
  ASSUME BulkAssumption, NEW b \in Bulks, NEW batch, BulkInv, Begin(b, batch),
         IsBatch(b, batch), \A e \in DOMAIN batch.rows : batch.rows[e] = queue[e],
         b \in Scans => \A e \in DOMAIN batch.rows : batch.rows[e] # NoRow
  PROVE  BulkInv'
  <1>1. /\ bulk' = [bulk EXCEPT ![b] = batch] /\ UNCHANGED tables
        /\ runs' \in 0..MaxRuns
    BY DEF Begin, BulkInv, BulkAssumption
  <1>2. RowsRemain(batch)
    BY DEF RowsRemain
  <1> QED
    BY <1>1, <1>2, SetKeeps

LEMMA RobinSelectKeeps ==
  ASSUME BulkAssumption, NEW b \in Robins,
         NEW queueType \in {"QA_QUEUE", "VERIFIER_QUEUE"},
         NEW items \in SUBSET Unassigned(queueType),
         NEW deal \in [items -> RoundRobinUsers(queueType)],
         BulkInv, RobinSelect(b, queueType, items, deal)
  PROVE  BulkInv'
  <1> DEFINE batch == [type |-> queueType, deal |-> deal, rows |-> Opened(items).rows,
                       evs |-> Opened(items).evs, gone |-> {}]
  <1>1. items \in SUBSET Evals /\ deal \in [items -> Users]
    BY Actors DEF Unassigned
  <1>2. batch \in RobinOver(items)
    BY <1>1 DEF RobinOver, Opened, BulkInv, TablesOK
  <1>3. /\ DOMAIN batch.rows = items
        /\ \A e \in items : batch.rows[e] = queue[e]
    BY DEF Opened
  <1>4. Begin(b, batch)
    BY DEF RobinSelect
  <1>5. IsBatch(b, batch) /\ b \in Bulks /\ b \notin Scans
    BY <1>1, <1>2 DEF IsBatch, Bulks, BulkAssumption
  <1> HIDE DEF batch
  <1> QED
    BY <1>3, <1>4, <1>5, BeginKeeps

LEMMA ScanSelectKeeps ==
  ASSUME BulkAssumption, NEW b \in Scans, BulkInv, ScanSelect(b)
  PROVE  BulkInv'
  <1>1. PICK items \in SUBSET Evals :
          /\ \A e \in items : queue[e] # NoRow
          /\ Begin(b, Opened(items))
    BY DEF ScanSelect
  <1>2. Opened(items) \in ScanOver(items)
    BY DEF ScanOver, Opened, BulkInv, TablesOK
  <1>3. /\ DOMAIN Opened(items).rows = items
        /\ \A e \in items : Opened(items).rows[e] = queue[e]
    BY DEF Opened
  <1>4. IsBatch(b, Opened(items)) /\ b \in Bulks
    BY <1>2 DEF IsBatch, Bulks
  <1> QED
    BY <1>1, <1>3, <1>4, BeginKeeps

LEMMA RobinReadKeeps ==
  ASSUME BulkAssumption, NEW b \in Robins, NEW e \in Evals, BulkInv, RobinRead(b, e)
  PROVE  BulkInv'
  <1> DEFINE r == bulk[b]
             row == IF e \in r.gone THEN queue[e] ELSE r.rows[e]
             batch == [r EXCEPT !.rows = [r.rows EXCEPT ![e] = row],
                                !.gone = r.gone \ {e},
                                !.evs = [r.evs EXCEPT ![e] = evals[e]]]
  <1>1. b \in Bulks /\ b \notin Scans /\ r # Idle /\ e \in DOMAIN r.rows
    BY DEF RobinRead, Items, Bulks, BulkAssumption
  <1>2. IsBatch(b, r) /\ RowsRemain(r)
    BY <1>1 DEF BulkInv, BatchesOK
  <1>3. PICK I \in SUBSET Evals : r \in RobinOver(I)
    BY <1>1, <1>2 DEF IsBatch
  <1>4. bulk' = [bulk EXCEPT ![b] = batch]
    BY <1>3 DEF RobinRead, RobinOver
  <1>5. evals[e] \in Evaluation /\ queue[e] \in Rows /\ e \in I
    BY <1>1, <1>3 DEF BulkInv, TablesOK, RobinOver
  <1> HIDE DEF r
  <1>6. batch \in RobinOver(I)
    BY <1>3, <1>5 DEF RobinOver
  <1>7. RowsRemain(batch)
    BY <1>2, <1>3, <1>5 DEF RowsRemain, RobinOver
  <1>8. UNCHANGED tables /\ runs' \in 0..MaxRuns
    BY DEF RobinRead, BulkInv, tables
  <1>9. IsBatch(b, batch)
    BY <1>6 DEF IsBatch
  <1> HIDE DEF batch
  <1> QED
    BY <1>1, <1>4, <1>7, <1>8, <1>9, SetKeeps

LEMMA ScanReadKeeps ==
  ASSUME BulkAssumption, NEW b \in Scans, NEW e \in Evals, BulkInv, ScanRead(b, e)
  PROVE  BulkInv'
  <1> DEFINE r == bulk[b]
             batch == [r EXCEPT !.evs = [r.evs EXCEPT ![e] = evals[e]]]
  <1>1. b \in Bulks /\ b \notin Robins /\ r # Idle /\ e \in DOMAIN r.rows
    BY DEF ScanRead, Items, Bulks, BulkAssumption
  <1>2. IsBatch(b, r) /\ RowsRemain(r) /\ \A x \in DOMAIN r.rows : r.rows[x] # NoRow
    BY <1>1 DEF BulkInv, BatchesOK
  <1>3. PICK I \in SUBSET Evals : r \in ScanOver(I)
    BY <1>1, <1>2 DEF IsBatch
  <1>4. bulk' = [bulk EXCEPT ![b] = batch]
    BY <1>3 DEF ScanRead, ScanOver
  <1>5. evals[e] \in Evaluation /\ e \in I
    BY <1>1, <1>3 DEF BulkInv, TablesOK, ScanOver
  <1> HIDE DEF r
  <1>6. batch \in ScanOver(I) /\ batch.rows = r.rows /\ batch.gone = r.gone
    BY <1>3, <1>5 DEF ScanOver
  <1>7. RowsRemain(batch) /\ \A x \in DOMAIN batch.rows : batch.rows[x] # NoRow
    BY <1>2, <1>6 DEF RowsRemain
  <1>8. UNCHANGED tables /\ runs' \in 0..MaxRuns
    BY DEF ScanRead, BulkInv, tables
  <1>9. IsBatch(b, batch)
    BY <1>6 DEF IsBatch
  <1> HIDE DEF batch
  <1> QED
    BY <1>1, <1>4, <1>7, <1>8, <1>9, SetKeeps

\* A batch that closes and deletes nothing.
LEMMA CloseKeeps ==
  ASSUME NEW b \in Bulks, BulkInv, Close(b),
         evals' \in [Evals -> Evaluation], queue' \in [Evals -> Rows],
         \A e \in Evals : queue[e] # NoRow => queue'[e] # NoRow
  PROVE  BulkInv'
  <1>1. \A c \in Bulks : bulk'[c] = IF c = b THEN Idle ELSE bulk[c]
    BY DEF Close, BulkInv, BatchesOK
  <1>2. ASSUME NEW c \in Bulks, bulk'[c] # Idle
        PROVE  IsBatch(c, bulk'[c]) /\ RowsRemain(bulk[c])'
    <2>1. bulk'[c] = bulk[c] /\ IsBatch(c, bulk[c]) /\ RowsRemain(bulk[c])
      BY <1>1, <1>2 DEF BulkInv, BatchesOK
    <2>2. DOMAIN bulk[c].rows \subseteq Evals
      BY <2>1, BatchShape
    <2> QED
      BY <2>1, <2>2 DEF RowsRemain
  <1>3. bulk' = [c \in Bulks |-> bulk'[c]]
    BY DEF Close, BulkInv, BatchesOK
  <1>4. BatchesOK'
    BY <1>1, <1>2, <1>3 DEF BulkInv, BatchesOK, Bulks
  <1> QED
    BY <1>4 DEF BulkInv, TablesOK, Close

LEMMA RobinCommitKeeps ==
  ASSUME BulkAssumption, NEW b \in Robins, BulkInv, RobinCommit(b)
  PROVE  BulkInv'
  <1> DEFINE r == bulk[b]
             row(e) == MergeRow(r.rows[e], [r.rows[e] EXCEPT !.assigned = r.deal[e]], queue[e])
             ev(e) == MergeRow(r.evs[e], RoundRobinRow(r.evs[e], r.type, r.deal[e]), evals[e])
  <1>1. b \in Bulks /\ b \notin Scans /\ r # Idle /\ r.gone = {} /\ Items(b) = DOMAIN r.rows
    BY DEF RobinCommit, AllRead, Items, Bulks, BulkAssumption
  <1>2. IsBatch(b, r) /\ RowsRemain(r)
    BY <1>1 DEF BulkInv, BatchesOK
  <1>3. PICK I \in SUBSET Evals : r \in RobinOver(I)
    BY <1>1, <1>2 DEF IsBatch
  <1>4. Items(b) = I /\ Close(b)
    BY <1>1, <1>3 DEF RobinOver, RobinCommit
  <1>5. \A e \in Evals :
          /\ queue'[e] = IF e \in I /\ r.rows[e] # NoRow THEN row(e) ELSE queue[e]
          /\ evals'[e] = IF e \in I THEN ev(e) ELSE evals[e]
    BY <1>4 DEF RobinCommit
  <1>6. /\ queue' = [e \in Evals |-> queue'[e]]
        /\ evals' = [e \in Evals |-> evals'[e]]
    BY DEF RobinCommit
  <1>7. ASSUME NEW e \in I, r.rows[e] # NoRow
        PROVE  row(e) \in QueueRow
    <2>1. r.rows[e] \in QueueRow /\ queue[e] \in QueueRow /\ r.deal[e] \in Users
      BY <1>1, <1>2, <1>3, <1>7 DEF RobinOver, RowsRemain, Rows, BulkInv, TablesOK
    <2>2. [r.rows[e] EXCEPT !.assigned = r.deal[e]] \in QueueRow
      BY <2>1 DEF QueueRow
    <2> QED
      BY <2>1, <2>2, MergedQueueRow
  <1>8. ASSUME NEW e \in I
        PROVE  ev(e) \in Evaluation
    <2>1. r.evs[e] \in Evaluation /\ evals[e] \in Evaluation /\ r.deal[e] \in Users
      BY <1>3, <1>4 DEF RobinCommit, AllRead, RobinOver, BulkInv, TablesOK
    <2>2. RoundRobinRow(r.evs[e], r.type, r.deal[e]) \in Evaluation
      BY <2>1, AssignedRows DEF RoundRobinRow
    <2> QED
      BY <2>1, <2>2, MergedRow
  <1> HIDE DEF row, ev, r
  <1>9. \A e \in Evals : /\ queue[e] \in Rows /\ evals[e] \in Evaluation
                         /\ NoRow \notin QueueRow
    BY NoRowAssumption DEF BulkInv, TablesOK
  <1>10. \A e \in Evals : /\ queue'[e] \in Rows
                          /\ queue[e] # NoRow => queue'[e] # NoRow
                          /\ evals'[e] \in Evaluation
    BY <1>5, <1>7, <1>8, <1>9 DEF Rows
  <1>11. evals' \in [Evals -> Evaluation] /\ queue' \in [Evals -> Rows]
    BY <1>6, <1>10
  <1> QED
    BY <1>1, <1>4, <1>10, <1>11, CloseKeeps

\* The items a scan promotes have a row.
LEMMA DueRows ==
  ASSUME NEW b \in Scans, BulkInv, ScanCommit(b)
  PROVE  /\ Close(b)
         /\ Due(b) \subseteq Evals
         /\ \A e \in Due(b) : queue[e] \in QueueRow
         /\ \A e \in Evals :
              /\ queue'[e] = IF e \in Due(b)
                             THEN [queue[e] EXCEPT !.type = "ESCALATION_QUEUE"]
                             ELSE queue[e]
              /\ evals'[e] = IF e \in Due(b) THEN [evals[e] EXCEPT !.escalated = TRUE]
                             ELSE evals[e]
  <1>1. bulk[b] # Idle /\ b \in Bulks /\ Items(b) = DOMAIN bulk[b].rows
    BY DEF ScanCommit, AllRead, Items, Bulks
  <1>2. /\ IsBatch(b, bulk[b]) /\ RowsRemain(bulk[b])
        /\ \A e \in DOMAIN bulk[b].rows : bulk[b].rows[e] # NoRow
    BY <1>1 DEF BulkInv, BatchesOK
  <1>3. Items(b) \subseteq Evals
    BY <1>1, <1>2, BatchShape
  <1>4. \A e \in Due(b) : e \in Evals /\ queue[e] # NoRow
    BY <1>1, <1>2, <1>3 DEF Due, ScanCommit, RowsRemain
  <1>5. \A e \in Due(b) : queue[e] \in QueueRow
    BY <1>4 DEF BulkInv, TablesOK, Rows
  <1> QED
    BY <1>4, <1>5 DEF ScanCommit

LEMMA ScanCommitKeeps ==
  ASSUME NEW b \in Scans, BulkInv, ScanCommit(b)
  PROVE  BulkInv'
  <1>1. \A ev \in Evaluation : [ev EXCEPT !.escalated = TRUE] \in Evaluation
    BY DEF Evaluation
  <1>2. \A row \in QueueRow : [row EXCEPT !.type = "ESCALATION_QUEUE"] \in QueueRow
    BY DEF QueueRow, QueueType
  <1>3. \A e \in Evals : /\ queue'[e] \in Rows
                         /\ queue[e] # NoRow => queue'[e] # NoRow
                         /\ evals'[e] \in Evaluation
    <2> SUFFICES ASSUME NEW e \in Evals
                 PROVE  /\ queue'[e] \in Rows
                        /\ queue[e] # NoRow => queue'[e] # NoRow
                        /\ evals'[e] \in Evaluation
      OBVIOUS
    <2>1. queue[e] \in Rows /\ evals[e] \in Evaluation
      BY DEF BulkInv, TablesOK
    <2>2. CASE e \in Due(b)
      <3>1. /\ queue'[e] = [queue[e] EXCEPT !.type = "ESCALATION_QUEUE"]
            /\ evals'[e] = [evals[e] EXCEPT !.escalated = TRUE]
            /\ queue[e] \in QueueRow
        BY <2>2, DueRows
      <3>2. queue'[e] \in QueueRow /\ evals'[e] \in Evaluation
        BY <1>1, <1>2, <2>1, <3>1
      <3> QED
        BY <3>2, NoRowAssumption DEF Rows
    <2>3. CASE e \notin Due(b)
      BY <2>1, <2>3, DueRows
    <2> QED
      BY <2>2, <2>3
  <1>4. evals' \in [Evals -> Evaluation] /\ queue' \in [Evals -> Rows]
    BY <1>3 DEF ScanCommit
  <1> QED
    BY <1>3, <1>4, DueRows, CloseKeeps DEF Bulks

LEMMA EvalProcessKeepsTables ==
  ASSUME TablesOK, NEW e \in Evals, NEW assignee \in {NoUser} \cup QaActors,
         EvalProcess(e, assignee)
  PROVE  TablesOK'
  <1>1. assignee \in People /\ QaEntryState(assignee) \in WorkflowState
    BY Actors, EntryStates DEF People
  <1>2. [evals[e] EXCEPT !.state = QaEntryState(assignee), !.qaUser = assignee]
          \in Evaluation
    BY <1>1 DEF TablesOK, Evaluation, People
  <1>3. UpsertQueueViaPool(queue[e], "QA_QUEUE", assignee) \in Rows
    BY <1>1, QueueRows DEF TablesOK, QueueType, Rows
  <1> QED
    BY <1>2, <1>3 DEF EvalProcess, TablesOK, ConvStatus

LEMMA MeanwhileKeeps ==
  ASSUME BulkInv, Meanwhile
  PROVE  BulkInv'
  <1>1. TablesOK'
    <2>1. CASE HandlerStep
      BY <2>1, TypeReview DEF ReviewStep, BulkInv
    <2>2. ASSUME NEW e \in Evals, ReAuditAi(e)
          PROVE  TablesOK'
      BY <2>2, TypeRequest DEF AiRequest, BulkInv
    <2>3. ASSUME NEW e \in Evals, NEW u \in {NoUser} \cup QaActors, EvalProcess(e, u)
          PROVE  TablesOK'
      BY <2>3, EvalProcessKeepsTables DEF BulkInv
    <2> QED
      BY <2>1, <2>2, <2>3 DEF Meanwhile
  <1> DEFINE deleted == {e \in Evals : queue[e] # NoRow /\ queue'[e] = NoRow}
             gone(b) == {e \in deleted \cap Items(b) : bulk[b].rows[e] # NoRow}
  <1>2. /\ \A b \in Bulks :
             bulk'[b] = IF bulk[b] = Idle THEN Idle
                        ELSE [bulk[b] EXCEPT !.gone = @ \cup gone(b)]
        /\ bulk' = [b \in Bulks |-> bulk'[b]]
        /\ runs' = runs
    BY DEF Meanwhile
  <1>3. ASSUME NEW b \in Bulks, bulk'[b] # Idle
        PROVE  /\ IsBatch(b, bulk'[b]) /\ RowsRemain(bulk[b])'
               /\ bulk[b] # Idle /\ bulk'[b].rows = bulk[b].rows
    <2> DEFINE r == bulk[b]
               batch == [r EXCEPT !.gone = r.gone \cup gone(b)]
    <2>1. bulk'[b] = batch /\ r # Idle /\ Items(b) = DOMAIN r.rows
      BY <1>2, <1>3 DEF Items
    <2>2. IsBatch(b, r) /\ RowsRemain(r)
      BY <2>1 DEF BulkInv, BatchesOK
    <2>3. PICK I \in SUBSET Evals : \/ b \in Robins /\ r \in RobinOver(I)
                                    \/ b \in Scans /\ r \in ScanOver(I)
      BY <2>2 DEF IsBatch
    <2>4. DOMAIN r.rows = I /\ gone(b) \subseteq I
      BY <2>1, <2>3 DEF RobinOver, ScanOver
    <2>5. \A e \in I : e \in gone(b) <=> e \in deleted /\ r.rows[e] # NoRow
      BY <2>1, <2>4
    <2> HIDE DEF r, gone
    <2>6. /\ \/ b \in Robins /\ batch \in RobinOver(I)
             \/ b \in Scans /\ batch \in ScanOver(I)
          /\ batch.rows = r.rows /\ batch.gone = r.gone \cup gone(b)
      BY <2>3, <2>4 DEF RobinOver, ScanOver
    <2>7. IsBatch(b, batch)
      BY <2>6 DEF IsBatch
    <2> HIDE DEF batch
    <2>8. \A e \in I \ batch.gone : r.rows[e] # NoRow => queue'[e] # NoRow
      BY <2>2, <2>4, <2>5, <2>6 DEF RowsRemain
    <2>9. RowsRemain(bulk[b])'
      BY <2>1, <2>4, <2>6, <2>8 DEF RowsRemain
    <2> QED
      BY <2>1, <2>6, <2>7, <2>9 DEF r
  <1> HIDE DEF gone
  <1>4. BatchesOK'
    BY <1>2, <1>3 DEF BulkInv, BatchesOK, Bulks
  <1> QED
    BY <1>1, <1>2, <1>4 DEF BulkInv

LEMMA RowTurnsStaleKeeps ==
  ASSUME BulkInv, NEW e \in Evals, RowTurnsStale(e), UNCHANGED <<bulk, runs>>
  PROVE  BulkInv'
  <1>1. TablesOK'
    BY TypeReview DEF ReviewStep, HandlerStep, BulkInv
  <1>2. \A x \in Evals : queue[x] # NoRow => queue'[x] # NoRow
    <2>1. queue[e] \in QueueRow /\ [queue[e] EXCEPT !.stale = TRUE] \in QueueRow
      BY DEF RowTurnsStale, BulkInv, TablesOK, Rows, QueueRow
    <2> QED
      BY <2>1, NoRowAssumption DEF RowTurnsStale, BulkInv, TablesOK
  <1>3. \A b \in Bulks : bulk[b] # Idle => RowsRemain(bulk[b])'
    <2> SUFFICES ASSUME NEW b \in Bulks, bulk[b] # Idle PROVE RowsRemain(bulk[b])'
      OBVIOUS
    <2>1. IsBatch(b, bulk[b]) /\ RowsRemain(bulk[b])
      BY DEF BulkInv, BatchesOK
    <2>2. DOMAIN bulk[b].rows \subseteq Evals
      BY <2>1, BatchShape
    <2> QED
      BY <1>2, <2>1, <2>2 DEF RowsRemain
  <1> QED
    BY <1>1, <1>3 DEF BulkInv, BatchesOK, IsBatch

LEMMA BulkStep ==
  ASSUME BulkAssumption
  PROVE  BulkInv /\ [Next]_vars => BulkInv'
  <1> SUFFICES ASSUME BulkInv, [Next]_vars PROVE BulkInv'
    OBVIOUS
  <1>1. ASSUME NEW b \in Bulks, RollBack(b) PROVE BulkInv'
    BY <1>1, CloseKeeps DEF RollBack, BulkInv, TablesOK
  <1>2. CASE UNCHANGED vars
    BY <1>2 DEF vars, BulkInv, TablesOK, BatchesOK, IsBatch, RowsRemain
  <1> QED
    BY <1>1, <1>2, RobinSelectKeeps, RobinReadKeeps, RobinCommitKeeps, ScanSelectKeeps,
       ScanReadKeeps, ScanCommitKeeps, MeanwhileKeeps, RowTurnsStaleKeeps
    DEF Next

LEMMA BulkInvariance ==
  ASSUME BulkAssumption
  PROVE  Spec => []BulkInv
  <1>1. Init => BulkInv
    BY BulkInit
  <1>2. BulkInv /\ [Next]_vars => BulkInv'
    BY BulkStep
  <1> QED
    BY <1>1, <1>2, PTL DEF Spec

\* However many batches overlap with each other and with the handlers, the
\* tables hold rows: an item whose queue row is gone, or whose evaluation the
\* batch has not read, is in no commit.
THEOREM TypeCorrect ==
  ASSUME BulkAssumption
  PROVE  Spec => []TypeOK
  <1>1. BulkInv => TypeOK
    BY BatchTypes
  <1> QED
    BY <1>1, BulkInvariance, PTL

-----------------------------------------------------------------------------
(* Scans next to every handler.  The owner of an evaluation is kept by the *)
(* scan, which writes neither the owner nor the assignee, if the handlers  *)
(* keep it; resolve_audit_case deletes a row of the audit queue, which is  *)
(* no row of work in progress because only locked evaluations are audited. *)

Owned(ev, row, auditStatus) ==
  /\ OwnerAgrees(ev, row)
  /\ auditStatus # "NONE" => ev.state = "LOCKED"

AllOwned == \A e \in Evals : Owned(evals[e], queue[e], audit[e])

\* A handler sets the rows of one evaluation.
Sets(e, ev, row, a) ==
  /\ evals' = [evals EXCEPT ![e] = ev]
  /\ queue' = [queue EXCEPT ![e] = row]
  /\ audit' = [audit EXCEPT ![e] = a]

LEMMA OneRow ==
  ASSUME NEW e \in Evals, NEW ev, NEW row, NEW a, TablesOK, AllOwned,
         Sets(e, ev, row, a), Owned(ev, row, a)
  PROVE  AllOwned'
  <1>1. \A x \in Evals : /\ evals'[x] = IF x = e THEN ev ELSE evals[x]
                         /\ queue'[x] = IF x = e THEN row ELSE queue[x]
                         /\ audit'[x] = IF x = e THEN a ELSE audit[x]
    BY DEF TablesOK, Sets
  <1> QED
    BY <1>1 DEF AllOwned

LEMMA SameAudit ==
  ASSUME NEW e \in Evals, TablesOK
  PROVE  /\ audit = [audit EXCEPT ![e] = audit[e]]
         /\ evals = [evals EXCEPT ![e] = evals[e]]
  BY DEF TablesOK

LEMMA ReviewersOwn ==
  ASSUME NEW ev \in Evaluation, NEW row \in Rows, NEW a \in AuditStatus,
         Owned(ev, row, a), NEW u \in Users
  PROVE  /\ MayQaStart(ev, u) => Owned(QaStarted(ev, u), UpsertQueue("QA_QUEUE", u), a)
         /\ MayVerifierStart(ev) =>
              Owned(VerifierStarted(ev, u), UpsertQueue("VERIFIER_QUEUE", u), a)
         /\ MayVerify(ev, u) => Owned(Approved(ev), NoRow, a)
         /\ \A commented \in BOOLEAN :
              MayVerify(ev, u) => Owned(Rejected(ev, commented), RejectedQueue(row), a)
  <1>1. /\ UpsertQueue("QA_QUEUE", u) # NoRow /\ UpsertQueue("VERIFIER_QUEUE", u) # NoRow
        /\ u # NoUser
    BY QueueRows, NoRowAssumption, UsersAssumption DEF QueueType, People, Rows
  <1>2. ASSUME MayQaStart(ev, u)
        PROVE  Owned(QaStarted(ev, u), UpsertQueue("QA_QUEUE", u), a)
    <2>1. /\ QaStarted(ev, u).state = "QA_IN_PROGRESS" /\ QaStarted(ev, u).qaUser = u
          /\ UpsertQueue("QA_QUEUE", u).assigned = u
      BY DEF QaStarted, UpsertQueue, Evaluation
    <2> QED
      BY <1>1, <1>2, <2>1 DEF Owned, OwnerAgrees, MayQaStart, QaAssignable
  <1>3. ASSUME MayVerifierStart(ev)
        PROVE  Owned(VerifierStarted(ev, u), UpsertQueue("VERIFIER_QUEUE", u), a)
    <2>1. /\ VerifierStarted(ev, u).state = "VERIFIER_IN_PROGRESS"
          /\ VerifierStarted(ev, u).verUser = u
          /\ UpsertQueue("VERIFIER_QUEUE", u).assigned = u
      BY DEF VerifierStarted, UpsertQueue, Evaluation
    <2> QED
      BY <1>1, <1>3, <2>1 DEF Owned, OwnerAgrees, MayVerifierStart
  <1>4. ASSUME MayVerify(ev, u)
        PROVE  Owned(Approved(ev), NoRow, a)
    <2>1. Approved(ev).state = "LOCKED"
      BY DEF Approved, Evaluation
    <2> QED
      BY <2>1 DEF Owned, OwnerAgrees
  <1>5. ASSUME NEW commented \in BOOLEAN, MayVerify(ev, u)
        PROVE  Owned(Rejected(ev, commented), RejectedQueue(row), a)
    <2>1. Rejected(ev, commented).state = "QA_PENDING"
      BY DEF Rejected, Evaluation
    <2>2. RejectedQueue(row) = NoRow \/ RejectedQueue(row).assigned = NoUser
      BY DEF RejectedQueue, Rows, QueueRow
    <2> QED
      BY <1>5, <2>1, <2>2 DEF Owned, OwnerAgrees, MayVerify
  <1> QED
    BY <1>2, <1>3, <1>4, <1>5

LEMMA SubmissionIsOwned ==
  ASSUME NEW ev \in Evaluation, NEW score \in Scores, NEW critical \in BOOLEAN,
         NEW assignee \in People,
         assignee # NoUser => SubmitOutcome(ev.aiScore, score) = "verifier"
  PROVE  Owned(QaSubmitted(ev, score, critical, assignee),
               SubmittedQueue(SubmitOutcome(ev.aiScore, score), assignee), "NONE")
  <1> DEFINE outcome == SubmitOutcome(ev.aiScore, score)
             new == QaSubmitted(ev, score, critical, assignee)
             row == SubmittedQueue(outcome, assignee)
  <1>1. outcome \in {"escalate", "verifier", "complete"}
    BY Outcomes
  <1>2. CASE outcome = "complete"
    <2>1. new.state = "LOCKED"
      BY <1>2 DEF QaSubmitted, Evaluation
    <2> QED
      BY <2>1 DEF Owned, OwnerAgrees
  <1>3. CASE outcome = "escalate"
    <2>1. new.state = "QA_COMPLETED" /\ row.assigned = NoUser
      BY <1>3 DEF QaSubmitted, Evaluation, SubmittedQueue, UpsertQueue
    <2> QED
      BY <2>1 DEF Owned, OwnerAgrees
  <1>4. CASE outcome = "verifier" /\ assignee = NoUser
    <2>1. new.state = "QA_COMPLETED" /\ row.assigned = NoUser
      BY <1>4 DEF QaSubmitted, Evaluation, SubmittedQueue, UpsertQueue
    <2> QED
      BY <2>1 DEF Owned, OwnerAgrees
  <1>5. CASE outcome = "verifier" /\ assignee # NoUser
    <2>1. /\ new.state = "VERIFIER_IN_PROGRESS" /\ new.verUser = assignee
          /\ row = UpsertQueue("VERIFIER_QUEUE", assignee)
      BY <1>5 DEF QaSubmitted, Evaluation, SubmittedQueue
    <2>2. row # NoRow /\ row.assigned = assignee
      BY <2>1, QueueRows, NoRowAssumption DEF QueueType, Rows, UpsertQueue
    <2> HIDE DEF new, row
    <2>3. Owned(new, row, "NONE")
      BY <1>5, <2>1, <2>2 DEF Owned, OwnerAgrees
    <2> QED
      BY <2>3 DEF new, row
  <1> QED
    BY <1>1, <1>2, <1>3, <1>4, <1>5

LEMMA AdminsOwn ==
  ASSUME NEW ev \in Evaluation, NEW row \in Rows, NEW a \in AuditStatus,
         Owned(ev, row, a), NEW u \in Users
  PROVE  /\ MayAssignQa(ev, u) => Owned(AssignedQa(ev, u), UpsertQueue("QA_QUEUE", u), a)
         /\ MayAssignVerifier(ev, u) =>
              Owned(AssignedVerifier(ev, u), UpsertQueue("VERIFIER_QUEUE", u), a)
         /\ MayReassign(ev) => Owned(Reassigned(ev, u), ReassignedQueue(row, u), a)
  <1>1. /\ UpsertQueue("QA_QUEUE", u) # NoRow /\ UpsertQueue("VERIFIER_QUEUE", u) # NoRow
        /\ u # NoUser
    BY QueueRows, NoRowAssumption, UsersAssumption DEF QueueType, People, Rows
  <1>2. ASSUME MayAssignQa(ev, u)
        PROVE  Owned(AssignedQa(ev, u), UpsertQueue("QA_QUEUE", u), a)
    <2>1. /\ AssignedQa(ev, u).state = "QA_IN_PROGRESS" /\ AssignedQa(ev, u).qaUser = u
          /\ UpsertQueue("QA_QUEUE", u).assigned = u
      BY DEF AssignedQa, UpsertQueue, Evaluation
    <2> QED
      BY <1>1, <1>2, <2>1 DEF Owned, OwnerAgrees, MayAssignQa, QaAssignable
  <1>3. ASSUME MayAssignVerifier(ev, u)
        PROVE  Owned(AssignedVerifier(ev, u), UpsertQueue("VERIFIER_QUEUE", u), a)
    <2>1. /\ AssignedVerifier(ev, u).state = "VERIFIER_IN_PROGRESS"
          /\ AssignedVerifier(ev, u).verUser = u
          /\ UpsertQueue("VERIFIER_QUEUE", u).assigned = u
      BY DEF AssignedVerifier, UpsertQueue, Evaluation
    <2> QED
      BY <1>1, <1>3, <2>1 DEF Owned, OwnerAgrees, MayAssignVerifier, VerifierAssignable
  <1>4. ASSUME MayReassign(ev)
        PROVE  Owned(Reassigned(ev, u), ReassignedQueue(row, u), a)
    <2> DEFINE new == Reassigned(ev, u)
               newRow == ReassignedQueue(row, u)
    <2>1. /\ new.state = ev.state /\ ev.state \in InProgress
          /\ ev.state = "QA_IN_PROGRESS" => new.qaUser = u
          /\ ev.state = "VERIFIER_IN_PROGRESS" => new.verUser = u
      BY <1>4 DEF MayReassign, InProgress, Reassigned, Evaluation
    <2>2. row # NoRow
      BY <2>1 DEF Owned, OwnerAgrees, InProgress
    <2>3. newRow \in QueueRow /\ newRow.assigned = u
      BY <2>2 DEF ReassignedQueue, Rows, QueueRow
    <2> HIDE DEF new, newRow
    <2>4. Owned(new, newRow, a)
      BY <1>1, <2>1, <2>3, NoRowAssumption DEF Owned, OwnerAgrees, InProgress
    <2> QED
      BY <2>4 DEF new, newRow
  <1> QED
    BY <1>2, <1>3, <1>4

LEMMA HandlersKeepOwners ==
  ASSUME TablesOK, AllOwned, HandlerStep
  PROVE  AllOwned'
  <1>a. \A e \in Evals : /\ evals[e] \in Evaluation /\ queue[e] \in Rows
                         /\ audit[e] \in AuditStatus
                         /\ Owned(evals[e], queue[e], audit[e])
    BY DEF TablesOK, AllOwned
  <1>b. QaActors \subseteq Users /\ VerifierActors \subseteq Users
    BY Actors
  <1>1. ASSUME NEW e \in Evals, NEW u \in QaActors, QaStart(e, u)
        PROVE  AllOwned'
    <2>1. Owned(QaStarted(evals[e], u), UpsertQueue("QA_QUEUE", u), audit[e])
      BY <1>1, <1>a, <1>b, ReviewersOwn DEF QaStart
    <2>2. Sets(e, QaStarted(evals[e], u), UpsertQueue("QA_QUEUE", u), audit[e])
      BY <1>1, SameAudit DEF QaStart, Sets
    <2> QED
      BY <2>1, <2>2, OneRow
  <1>2. ASSUME NEW e \in Evals, NEW u \in QaActors, NEW score \in Scores,
               NEW critical \in BOOLEAN, QaSubmit(e, u, score, critical)
        PROVE  AllOwned'
    <2> DEFINE outcome == SubmitOutcome(evals[e].aiScore, score)
    <2>1. PICK assignee \in SubmitAssignees(outcome) :
            /\ evals' = [evals EXCEPT ![e] =
                           QaSubmitted(evals[e], score, critical, assignee)]
            /\ queue' = [queue EXCEPT ![e] = SubmittedQueue(outcome, assignee)]
      BY <1>2 DEF QaSubmit
    <2>2. assignee \in People /\ (assignee # NoUser => outcome = "verifier")
      BY Actors DEF SubmitAssignees
    <2>3. Owned(QaSubmitted(evals[e], score, critical, assignee),
                SubmittedQueue(outcome, assignee), "NONE")
      BY <1>a, <2>2, SubmissionIsOwned
    <2>4. audit' = audit /\ audit[e] = "NONE"
      BY <1>2, <1>a DEF QaSubmit, MayQaSubmit, Owned
    <2>5. Sets(e, QaSubmitted(evals[e], score, critical, assignee),
               SubmittedQueue(outcome, assignee), "NONE")
      BY <2>1, <2>4, SameAudit DEF Sets
    <2> QED
      BY <2>3, <2>5, OneRow
  <1>3. ASSUME NEW e \in Evals, NEW u \in VerifierActors, VerifierStart(e, u)
        PROVE  AllOwned'
    <2>1. Owned(VerifierStarted(evals[e], u), UpsertQueue("VERIFIER_QUEUE", u), audit[e])
      BY <1>3, <1>a, <1>b, ReviewersOwn DEF VerifierStart
    <2>2. Sets(e, VerifierStarted(evals[e], u), UpsertQueue("VERIFIER_QUEUE", u), audit[e])
      BY <1>3, SameAudit DEF VerifierStart, Sets
    <2> QED
      BY <2>1, <2>2, OneRow
  <1>4. ASSUME NEW e \in Evals, NEW u \in VerifierActors, VerifierApprove(e, u)
        PROVE  AllOwned'
    <2>1. Owned(Approved(evals[e]), NoRow, audit[e])
      BY <1>4, <1>a, <1>b, ReviewersOwn DEF VerifierApprove
    <2>2. Sets(e, Approved(evals[e]), NoRow, audit[e])
      BY <1>4, SameAudit DEF VerifierApprove, Sets
    <2> QED
      BY <2>1, <2>2, OneRow
  <1>5. ASSUME NEW e \in Evals, NEW u \in VerifierActors, NEW score \in Scores,
               NEW critical \in BOOLEAN, VerifierModify(e, u, score, critical)
        PROVE  AllOwned'
    <2>1. \A row, a : Owned(Modified(evals[e], score, critical), row, a)
      BY <1>a DEF Modified, Evaluation, Owned, OwnerAgrees
    <2>2. \E row, a : Sets(e, Modified(evals[e], score, critical), row, a)
      BY <1>5 DEF VerifierModify, Sets
    <2> QED
      BY <2>1, <2>2, OneRow
  <1>6. ASSUME NEW e \in Evals, NEW u \in VerifierActors, NEW commented \in BOOLEAN,
               VerifierReject(e, u, commented)
        PROVE  AllOwned'
    <2>1. Owned(Rejected(evals[e], commented), RejectedQueue(queue[e]), audit[e])
      BY <1>6, <1>a, <1>b, ReviewersOwn DEF VerifierReject
    <2>2. Sets(e, Rejected(evals[e], commented), RejectedQueue(queue[e]), audit[e])
      BY <1>6, SameAudit DEF VerifierReject, Sets
    <2> QED
      BY <2>1, <2>2, OneRow
  <1>7. ASSUME NEW e \in Evals, NEW status \in {"RESOLVED", "DISMISSED"},
               ResolveAuditCase(e, status)
        PROVE  AllOwned'
    <2>1. evals[e].state = "LOCKED"
      BY <1>7, <1>a DEF ResolveAuditCase, Owned
    <2>2. \A row, a : Owned(evals[e], row, a)
      BY <2>1 DEF Owned, OwnerAgrees
    <2>3. Sets(e, evals[e], ResolvedQueue(queue[e]), status)
      BY <1>7, SameAudit DEF ResolveAuditCase, Sets
    <2> QED
      BY <2>2, <2>3, OneRow
  <1>8. ASSUME NEW e \in Evals, NEW u \in Users, ManualAssign(e, u)
        PROVE  AllOwned'
    <2>1. CASE /\ MayAssignQa(evals[e], u)
               /\ evals' = [evals EXCEPT ![e] = AssignedQa(evals[e], u)]
               /\ queue' = [queue EXCEPT ![e] = UpsertQueue("QA_QUEUE", u)]
               /\ audit' = audit
      <3>1. Owned(AssignedQa(evals[e], u), UpsertQueue("QA_QUEUE", u), audit[e])
        BY <1>a, <2>1, AdminsOwn
      <3>2. Sets(e, AssignedQa(evals[e], u), UpsertQueue("QA_QUEUE", u), audit[e])
        BY <2>1, SameAudit DEF Sets
      <3> QED
        BY <3>1, <3>2, OneRow
    <2>2. CASE /\ MayAssignVerifier(evals[e], u)
               /\ evals' = [evals EXCEPT ![e] = AssignedVerifier(evals[e], u)]
               /\ queue' = [queue EXCEPT ![e] = UpsertQueue("VERIFIER_QUEUE", u)]
               /\ audit' = audit
      <3>1. Owned(AssignedVerifier(evals[e], u), UpsertQueue("VERIFIER_QUEUE", u), audit[e])
        BY <1>a, <2>2, AdminsOwn
      <3>2. Sets(e, AssignedVerifier(evals[e], u), UpsertQueue("VERIFIER_QUEUE", u), audit[e])
        BY <2>2, SameAudit DEF Sets
      <3> QED
        BY <3>1, <3>2, OneRow
    <2> QED
      BY <1>8, <2>1, <2>2 DEF ManualAssign
  <1>9. ASSUME NEW e \in Evals, NEW u \in Users, Reassign(e, u)
        PROVE  AllOwned'
    <2>1. Owned(Reassigned(evals[e], u), ReassignedQueue(queue[e], u), audit[e])
      BY <1>9, <1>a, AdminsOwn DEF Reassign
    <2>2. Sets(e, Reassigned(evals[e], u), ReassignedQueue(queue[e], u), audit[e])
      BY <1>9, SameAudit DEF Reassign, Sets
    <2> QED
      BY <2>1, <2>2, OneRow
  <1>10. ASSUME NEW e \in Evals, RowTurnsStale(e)
         PROVE  AllOwned'
    <2>1. /\ queue' = [queue EXCEPT ![e] = [queue[e] EXCEPT !.stale = TRUE]]
          /\ evals' = evals /\ audit' = audit /\ queue[e] \in QueueRow
      BY <1>10, <1>a DEF RowTurnsStale, Rows
    <2>2. /\ [queue[e] EXCEPT !.stale = TRUE] \in QueueRow
          /\ [queue[e] EXCEPT !.stale = TRUE].assigned = queue[e].assigned
      BY <2>1 DEF QueueRow
    <2>3. Owned(evals[e], [queue[e] EXCEPT !.stale = TRUE], audit[e])
      BY <1>a, <2>1, <2>2, NoRowAssumption DEF Owned, OwnerAgrees
    <2>4. Sets(e, evals[e], [queue[e] EXCEPT !.stale = TRUE], audit[e])
      BY <2>1, SameAudit DEF Sets
    <2> QED
      BY <2>3, <2>4, OneRow
  <1> QED
    BY <1>1, <1>2, <1>3, <1>4, <1>5, <1>6, <1>7, <1>8, <1>9, <1>10 DEF HandlerStep

LEMMA MeanwhileKeepsOwners ==
  ASSUME TablesOK, AllOwned, Meanwhile
  PROVE  AllOwned'
  <1>1. ASSUME NEW e \in Evals, ReAuditAi(e)
        PROVE  AllOwned'
    <2>1. Owned(ReAudited, NoRow, "NONE")
      BY DEF ReAudited, NewEvaluation, Owned, OwnerAgrees
    <2>2. Sets(e, ReAudited, NoRow, "NONE")
      BY <1>1, SameAudit DEF ReAuditAi, Sets
    <2> QED
      BY <2>1, <2>2, OneRow
  <1>2. ASSUME NEW e \in Evals, NEW u \in {NoUser} \cup QaActors, EvalProcess(e, u)
        PROVE  AllOwned'
    <2> DEFINE new == [evals[e] EXCEPT !.state = QaEntryState(u), !.qaUser = u]
               row == UpsertQueueViaPool(queue[e], "QA_QUEUE", u)
    <2>1. evals[e] \in Evaluation /\ queue[e] \in Rows /\ u \in People
      BY Actors DEF TablesOK, People
    <2>2. new.state = QaEntryState(u) /\ new.qaUser = u
      BY <2>1 DEF Evaluation
    <2>3. row \in QueueRow /\ row.assigned = u
      BY <2>1 DEF UpsertQueueViaPool, UpsertQueue, Rows, QueueRow, QueueType, People
    <2>4. audit[e] = "NONE" /\ audit' = audit
      BY <1>2 DEF EvalProcess, AllOwned, Owned, AiClaimable
    <2> HIDE DEF new, row
    <2>5. Owned(new, row, audit[e])
      BY <2>2, <2>3, <2>4, NoRowAssumption DEF Owned, OwnerAgrees, QaEntryState
    <2>6. Sets(e, new, row, audit[e])
      BY <1>2, SameAudit DEF EvalProcess, new, row, Sets
    <2> QED
      BY <2>5, <2>6, OneRow
  <1> QED
    BY <1>1, <1>2, HandlersKeepOwners DEF Meanwhile

LEMMA ScanKeepsOwners ==
  ASSUME NEW b \in Scans, BulkInv, AllOwned, ScanCommit(b)
  PROVE  AllOwned'
  <1> SUFFICES ASSUME NEW e \in Evals
               PROVE  Owned(evals'[e], queue'[e], audit'[e])
    BY DEF AllOwned
  <1>1. evals[e] \in Evaluation /\ Owned(evals[e], queue[e], audit[e]) /\ audit' = audit
    BY DEF BulkInv, TablesOK, AllOwned, ScanCommit, Close
  <1>2. CASE e \in Due(b)
    <2> DEFINE new == [evals[e] EXCEPT !.escalated = TRUE]
               row == [queue[e] EXCEPT !.type = "ESCALATION_QUEUE"]
    <2>1. evals'[e] = new /\ queue'[e] = row /\ queue[e] \in QueueRow
      BY <1>2, DueRows
    <2>2. new.state = evals[e].state /\ new.qaUser = evals[e].qaUser
          /\ new.verUser = evals[e].verUser
      BY <1>1 DEF Evaluation
    <2>3. row \in QueueRow /\ row.assigned = queue[e].assigned
      BY <2>1 DEF QueueRow, QueueType
    <2> HIDE DEF new, row
    <2> QED
      BY <1>1, <2>1, <2>2, <2>3, NoRowAssumption DEF Owned, OwnerAgrees
  <1>3. CASE e \notin Due(b)
    BY <1>1, <1>3, DueRows
  <1> QED
    BY <1>2, <1>3

LEMMA OwnersStep ==
  ASSUME BulkAssumption, Robins = {}
  PROVE  BulkInv /\ AllOwned /\ [Next]_vars => AllOwned'
  <1> SUFFICES ASSUME BulkInv, AllOwned, [Next]_vars PROVE AllOwned'
    OBVIOUS
  <1>1. ASSUME UNCHANGED <<evals, queue, audit>> PROVE AllOwned'
    BY <1>1 DEF AllOwned
  <1>2. ASSUME NEW b \in Scans, ScanSelect(b) PROVE AllOwned'
    BY <1>1, <1>2 DEF ScanSelect, Begin, tables
  <1>3. ASSUME NEW b \in Scans, NEW e \in Evals, ScanRead(b, e) PROVE AllOwned'
    BY <1>1, <1>3 DEF ScanRead
  <1>4. ASSUME NEW b \in Bulks, RollBack(b) PROVE AllOwned'
    BY <1>1, <1>4 DEF RollBack, Close
  <1>5. ASSUME NEW e \in Evals, RowTurnsStale(e) PROVE AllOwned'
    BY <1>5, HandlersKeepOwners DEF HandlerStep, BulkInv
  <1>6. CASE UNCHANGED vars
    BY <1>1, <1>6 DEF vars
  <1>7. CASE Meanwhile
    BY <1>7, MeanwhileKeepsOwners DEF BulkInv
  <1> QED
    BY <1>2, <1>3, <1>4, <1>5, <1>6, <1>7, ScanKeepsOwners DEF Next

\* Scans, which lock nothing, next to every handler: queue row and evaluation
\* name the same owner.
THEOREM AssignmentsAgree ==
  ASSUME BulkAssumption, Robins = {}
  PROVE  Spec => []AssignmentAgrees
  <1>1. Init => AllOwned
    <2>1. Owned(NewEvaluation("QA_PENDING", NoUser), UpsertQueue("QA_QUEUE", NoUser), "NONE")
      BY DEF Owned, OwnerAgrees, NewEvaluation, UpsertQueue
    <2>2. Init => \A e \in Evals : /\ evals[e] = NewEvaluation("QA_PENDING", NoUser)
                                   /\ queue[e] = UpsertQueue("QA_QUEUE", NoUser)
                                   /\ audit[e] = "NONE"
      BY DEF Init
    <2> QED
      BY <2>1, <2>2 DEF AllOwned
  <1>2. BulkInv /\ AllOwned /\ [Next]_vars => AllOwned'
    BY OwnersStep
  <1>3. AllOwned => AssignmentAgrees
    BY DEF AllOwned, Owned, AssignmentAgrees
  <1> QED
    BY <1>1, <1>2, <1>3, BulkInvariance, PTL DEF Spec

-----------------------------------------------------------------------------
(* Scans next to every handler: no decision is taken back.  A handler that *)
(* goes through has seen a state before the lock, or writes no row of      *)
(* evaluations, or is the re-audit; a scan only raises the flag.           *)

LEMMA HandlersSpareLocked ==
  ASSUME TablesOK, HandlerStep, NEW e \in Evals, evals[e].state = "LOCKED"
  PROVE  evals'[e] = evals[e]
  <1>1. ASSUME NEW x \in Evals, evals[x].state # "LOCKED", NEW ev,
               evals' = [evals EXCEPT ![x] = ev]
        PROVE  evals'[e] = evals[e]
    BY <1>1 DEF TablesOK
  <1>2. ASSUME NEW x \in Evals, NEW u \in QaActors,
               \/ QaStart(x, u)
               \/ \E score \in Scores, critical \in BOOLEAN : QaSubmit(x, u, score, critical)
        PROVE  evals'[e] = evals[e]
    BY <1>1, <1>2 DEF QaStart, MayQaStart, QaAssignable, QaSubmit, MayQaSubmit
  <1>3. ASSUME NEW x \in Evals, NEW u \in VerifierActors,
               \/ VerifierStart(x, u)
               \/ VerifierApprove(x, u)
               \/ \E score \in Scores, critical \in BOOLEAN :
                    VerifierModify(x, u, score, critical)
               \/ \E commented \in BOOLEAN : VerifierReject(x, u, commented)
        PROVE  evals'[e] = evals[e]
    BY <1>1, <1>3 DEF VerifierStart, MayVerifierStart, VerifierApprove, VerifierModify,
                      VerifierReject, MayVerify
  <1>4. ASSUME NEW x \in Evals, NEW u \in Users, ManualAssign(x, u) \/ Reassign(x, u)
        PROVE  evals'[e] = evals[e]
    BY <1>1, <1>4 DEF ManualAssign, MayAssignQa, MayAssignVerifier, QaAssignable,
                      VerifierAssignable, Reassign, MayReassign, InProgress
  <1>5. ASSUME NEW x \in Evals, NEW status, ResolveAuditCase(x, status)
        PROVE  evals'[e] = evals[e]
    BY <1>5 DEF ResolveAuditCase
  <1>6. ASSUME NEW x \in Evals, RowTurnsStale(x)
        PROVE  evals'[e] = evals[e]
    BY <1>6 DEF RowTurnsStale
  <1> QED
    BY <1>2, <1>3, <1>4, <1>5, <1>6 DEF HandlerStep

LEMMA DecisionsStep ==
  ASSUME BulkAssumption, Robins = {}
  PROVE  BulkInv /\ [Next]_vars => DecisionIsFinal
  <1> SUFFICES ASSUME BulkInv, [Next]_vars, NEW e \in Evals, evals[e].state = "LOCKED"
               PROVE  evals'[e] \in {evals[e], [evals[e] EXCEPT !.escalated = TRUE], ReAudited}
    BY DEF DecisionIsFinal
  <1>1. CASE UNCHANGED evals
    BY <1>1
  <1>2. ASSUME NEW b \in Scans, ScanCommit(b)
        PROVE  evals'[e] \in {evals[e], [evals[e] EXCEPT !.escalated = TRUE]}
    BY <1>2, DueRows
  <1>3. ASSUME NEW x \in Evals, ReAuditAi(x)
        PROVE  evals'[e] \in {evals[e], ReAudited}
    BY <1>3 DEF ReAuditAi, BulkInv, TablesOK
  <1>4. ASSUME NEW x \in Evals, NEW u, EvalProcess(x, u)
        PROVE  evals'[e] = evals[e]
    BY <1>4 DEF EvalProcess, AiClaimable, BulkInv, TablesOK
  <1>5. CASE Meanwhile
    BY <1>3, <1>4, <1>5, HandlersSpareLocked DEF Meanwhile, BulkInv
  <1>6. UNCHANGED evals \/ Meanwhile \/ \E b \in Scans : ScanCommit(b)
    BY DEF Next, ScanSelect, ScanRead, Begin, RollBack, RowTurnsStale, tables, vars
  <1> QED
    BY <1>1, <1>2, <1>5, <1>6

\* However late a scan commits what it has read, a verdict that was reached
\* meanwhile stays, whatever handlers and scans go on next to it.
THEOREM DecisionsStay ==
  ASSUME BulkAssumption, Robins = {}
  PROVE  Spec => [][DecisionIsFinal]_vars
  <1>1. BulkInv /\ [Next]_vars => [DecisionIsFinal]_vars
    BY DecisionsStep
  <1> QED
    BY <1>1, BulkInvariance, PTL DEF Spec

-----------------------------------------------------------------------------
(* Batches among themselves: the flag and the queue stay together.  Round  *)
(* robins write neither, although they merge old rows into new ones.       *)

LEMMA MergeKeepsFlag ==
  ASSUME NEW read \in Evaluation, NEW current \in Evaluation, NEW queueType, NEW u \in Users
  PROVE  MergeRow(read, RoundRobinRow(read, queueType, u), current).escalated
           = current.escalated
  <1>1. /\ QaStarted(read, u).escalated = read.escalated
        /\ VerifierStarted(read, u).escalated = read.escalated
    BY DEF QaStarted, VerifierStarted, Evaluation
  <1>2. "escalated" \in DOMAIN current
    BY DEF Evaluation
  <1> QED
    BY <1>1, <1>2 DEF RoundRobinRow, MergeRow

LEMMA MergeKeepsType ==
  ASSUME NEW read \in QueueRow, NEW current \in QueueRow, NEW u \in Users
  PROVE  MergeRow(read, [read EXCEPT !.assigned = u], current).type = current.type
  <1>1. [read EXCEPT !.assigned = u].type = read.type /\ "type" \in DOMAIN current
    BY DEF QueueRow
  <1> QED
    BY <1>1 DEF MergeRow

LEMMA RobinKeepsEscalated ==
  ASSUME BulkAssumption, NEW b \in Robins, BulkInv, EscalatedIsQueued, RobinCommit(b)
  PROVE  EscalatedIsQueued'
  <1> DEFINE r == bulk[b]
  <1>1. b \in Bulks /\ r # Idle /\ r.gone = {} /\ Items(b) = DOMAIN r.rows
    BY DEF RobinCommit, AllRead, Items, Bulks
  <1>2. IsBatch(b, r) /\ RowsRemain(r) /\ b \notin Scans
    BY <1>1 DEF BulkInv, BatchesOK, BulkAssumption
  <1>3. PICK I \in SUBSET Evals : r \in RobinOver(I)
    BY <1>2 DEF IsBatch
  <1>4. Items(b) = I
    BY <1>1, <1>3 DEF RobinOver
  <1> SUFFICES ASSUME NEW e \in Evals
               PROVE  /\ evals'[e].escalated = evals[e].escalated
                      /\ queue'[e] # NoRow <=> queue[e] # NoRow
                      /\ queue[e] # NoRow => queue'[e].type = queue[e].type
    BY DEF EscalatedIsQueued
  <1>5. evals'[e].escalated = evals[e].escalated
    <2>1. CASE e \in I
      <3>1. /\ r.evs[e] \in Evaluation /\ r.deal[e] \in Users /\ evals[e] \in Evaluation
            /\ evals'[e] = MergeRow(r.evs[e], RoundRobinRow(r.evs[e], r.type, r.deal[e]),
                                    evals[e])
        BY <1>3, <1>4, <2>1 DEF RobinCommit, AllRead, RobinOver, BulkInv, TablesOK
      <3> QED
        BY <3>1, MergeKeepsFlag
    <2>2. CASE e \notin I
      BY <1>4, <2>2 DEF RobinCommit
    <2> QED
      BY <2>1, <2>2
  <1>6. /\ queue'[e] # NoRow <=> queue[e] # NoRow
        /\ queue[e] # NoRow => queue'[e].type = queue[e].type
    <2>1. CASE e \in I /\ r.rows[e] # NoRow
      <3>1. /\ r.rows[e] \in QueueRow /\ r.deal[e] \in Users /\ queue[e] \in QueueRow
            /\ queue'[e] = MergeRow(r.rows[e], [r.rows[e] EXCEPT !.assigned = r.deal[e]],
                                    queue[e])
        BY <1>1, <1>2, <1>3, <1>4, <2>1
        DEF RobinCommit, RobinOver, RowsRemain, Rows, BulkInv, TablesOK
      <3>2. [r.rows[e] EXCEPT !.assigned = r.deal[e]] \in QueueRow
        BY <3>1 DEF QueueRow
      <3>3. queue'[e] \in QueueRow
        BY <3>1, <3>2, MergedQueueRow
      <3> QED
        BY <3>1, <3>3, MergeKeepsType, NoRowAssumption
    <2>2. CASE ~(e \in I /\ r.rows[e] # NoRow)
      BY <1>4, <2>2 DEF RobinCommit
    <2> QED
      BY <2>1, <2>2
  <1> QED
    BY <1>5, <1>6

LEMMA ScanKeepsEscalated ==
  ASSUME NEW b \in Scans, BulkInv, EscalatedIsQueued, ScanCommit(b)
  PROVE  EscalatedIsQueued'
  <1> SUFFICES ASSUME NEW e \in Evals
               PROVE  evals'[e].escalated <=>
                        queue'[e] # NoRow /\ queue'[e].type = "ESCALATION_QUEUE"
    BY DEF EscalatedIsQueued
  <1>1. CASE e \in Due(b)
    <2>1. /\ queue'[e] = [queue[e] EXCEPT !.type = "ESCALATION_QUEUE"]
          /\ evals'[e] = [evals[e] EXCEPT !.escalated = TRUE]
          /\ queue[e] \in QueueRow /\ evals[e] \in Evaluation
      BY <1>1, DueRows DEF BulkInv, TablesOK
    <2>2. /\ queue'[e] \in QueueRow /\ queue'[e].type = "ESCALATION_QUEUE"
          /\ evals'[e].escalated
      BY <2>1 DEF QueueRow, QueueType, Evaluation
    <2> QED
      BY <2>2, NoRowAssumption
  <1>2. CASE e \notin Due(b)
    BY <1>2, DueRows DEF EscalatedIsQueued
  <1> QED
    BY <1>1, <1>2

LEMMA StaleKeepsEscalated ==
  ASSUME NEW e \in Evals, BulkInv, EscalatedIsQueued, RowTurnsStale(e)
  PROVE  EscalatedIsQueued'
  <1>1. /\ queue' = [queue EXCEPT ![e] = [queue[e] EXCEPT !.stale = TRUE]]
        /\ evals' = evals /\ queue[e] \in QueueRow
    BY DEF RowTurnsStale, BulkInv, TablesOK, Rows
  <1>2. /\ [queue[e] EXCEPT !.stale = TRUE] \in QueueRow
        /\ [queue[e] EXCEPT !.stale = TRUE].type = queue[e].type
    BY <1>1 DEF QueueRow
  <1>3. \A x \in Evals : /\ queue'[x] # NoRow <=> queue[x] # NoRow
                         /\ queue[x] # NoRow => queue'[x].type = queue[x].type
    BY <1>1, <1>2, NoRowAssumption DEF BulkInv, TablesOK
  <1> QED
    BY <1>1, <1>3 DEF EscalatedIsQueued

LEMMA EscalatedStep ==
  ASSUME BulkAssumption, ~Handlers
  PROVE  BulkInv /\ EscalatedIsQueued /\ [Next]_vars => EscalatedIsQueued'
  <1> SUFFICES ASSUME BulkInv, EscalatedIsQueued, [Next]_vars PROVE EscalatedIsQueued'
    OBVIOUS
  <1>1. CASE UNCHANGED <<evals, queue>>
    BY <1>1 DEF EscalatedIsQueued
  <1>2. \/ UNCHANGED <<evals, queue>>
        \/ \E b \in Robins : RobinCommit(b)
        \/ \E b \in Scans : ScanCommit(b)
        \/ \E e \in Evals : RowTurnsStale(e)
    <2>1. \/ UNCHANGED vars
          \/ \E b \in Robins : RobinCommit(b)
          \/ \E b \in Scans : ScanSelect(b) \/ ScanCommit(b)
          \/ \E b \in Scans, e \in Evals : ScanRead(b, e)
          \/ \E b \in Robins, e \in Evals : RobinRead(b, e)
          \/ \E b \in Robins, queueType \in {"QA_QUEUE", "VERIFIER_QUEUE"} :
               \E items, deal : RobinSelect(b, queueType, items, deal)
          \/ \E b \in Bulks : RollBack(b)
          \/ \E e \in Evals : RowTurnsStale(e)
      BY DEF Next, Meanwhile
    <2> QED
      BY <2>1 DEF RobinSelect, RobinRead, ScanSelect, ScanRead, Begin, RollBack, tables, vars
  <1> QED
    BY <1>1, <1>2, RobinKeepsEscalated, ScanKeepsEscalated, StaleKeepsEscalated

\* However many round robins and scans overlap and wherever they fail, what is
\* flagged as escalated is what sits in the escalation queue.
THEOREM EscalatedAreQueued ==
  ASSUME BulkAssumption, ~Handlers
  PROVE  Spec => []EscalatedIsQueued
  <1>1. Init => EscalatedIsQueued
    <2>1. ~NewEvaluation("QA_PENDING", NoUser).escalated
      BY DEF NewEvaluation
    <2>2. UpsertQueue("QA_QUEUE", NoUser).type = "QA_QUEUE"
      BY DEF UpsertQueue
    <2>3. Init => \A e \in Evals : /\ evals[e] = NewEvaluation("QA_PENDING", NoUser)
                                   /\ queue[e] = UpsertQueue("QA_QUEUE", NoUser)
      BY DEF Init
    <2> QED
      BY <2>1, <2>2, <2>3 DEF EscalatedIsQueued
  <1>2. BulkInv /\ EscalatedIsQueued /\ [Next]_vars => EscalatedIsQueued'
    BY EscalatedStep
  <1> QED
    BY <1>1, <1>2, BulkInvariance, PTL DEF Spec
-----------------------------------------------------------------------------
(* Batches among themselves: the owner.  A round robin reads an evaluation *)
(* when its UPDATE of the queue row holds off the others, so that what it  *)
(* merges into the evaluation is what it has read of owner and state.      *)

\* Nothing but round robins has taken what waits for QA.
WaitsForQa(e) ==
  /\ queue[e] # NoRow /\ queue[e].type # "VERIFIER_QUEUE"
  /\ evals[e].state \in {"QA_PENDING", "QA_IN_PROGRESS"}
  /\ OwnerAgrees(evals[e], queue[e])

\* A round robin deals unassigned rows, and what it has read is still so.
Deals(r, table) ==
  /\ r.type = "QA_QUEUE" /\ r.gone = {}
  /\ \A e \in DOMAIN r.rows :
       /\ r.deal[e] # NoUser /\ r.rows[e] # NoRow /\ r.rows[e].assigned = NoUser
       /\ r.evs[e] # NotRead => /\ r.evs[e].state = table[e].state
                                /\ r.evs[e].qaUser = table[e].qaUser

DealInv ==
  /\ \A e \in Evals : WaitsForQa(e)
  /\ \A b \in Robins : bulk[b] # Idle => Deals(bulk[b], evals)
  /\ \A b, c \in Robins, e \in Evals : HoldsRow(b, e) /\ HoldsRow(c, e) => b = c

\* What a round robin has read it holds.
LEMMA ReadIsHeld ==
  ASSUME NEW b \in Robins, bulk[b] # Idle, Deals(bulk[b], evals),
         NEW e \in DOMAIN bulk[b].rows
  PROVE  HoldsRow(b, e) <=> bulk[b].evs[e] # NotRead
  BY DEF HoldsRow, Deals, Items

LEMMA MergeDeals ==
  ASSUME NEW read \in Evaluation, NEW current \in Evaluation, NEW u \in Users,
         read.state = current.state, read.qaUser = current.qaUser
  PROVE  /\ MergeRow(read, RoundRobinRow(read, "QA_QUEUE", u), current).state
              = "QA_IN_PROGRESS"
         /\ MergeRow(read, RoundRobinRow(read, "QA_QUEUE", u), current).qaUser = u
  <1>1. QaStarted(read, u).state = "QA_IN_PROGRESS" /\ QaStarted(read, u).qaUser = u
    BY DEF QaStarted, Evaluation
  <1>2. "state" \in DOMAIN current /\ "qaUser" \in DOMAIN current
    BY DEF Evaluation
  <1> QED
    BY <1>1, <1>2 DEF RoundRobinRow, MergeRow

LEMMA MergeAssigns ==
  ASSUME NEW read \in QueueRow, NEW current \in QueueRow, NEW u \in Users,
         read.assigned = NoUser, u # NoUser
  PROVE  MergeRow(read, [read EXCEPT !.assigned = u], current).assigned = u
  <1>1. [read EXCEPT !.assigned = u].assigned = u /\ "assigned" \in DOMAIN current
    BY DEF QueueRow
  <1> QED
    BY <1>1 DEF MergeRow

\* What a commit of a round robin makes of an item.
LEMMA RobinDeals ==
  ASSUME BulkAssumption, NEW b \in Robins, BulkInv, DealInv, RobinCommit(b), NEW e \in Evals
  PROVE  /\ queue'[e] # NoRow /\ queue'[e].type = queue[e].type
         /\ e \in Items(b) => /\ evals'[e].state = "QA_IN_PROGRESS"
                              /\ evals'[e].qaUser = queue'[e].assigned
                              /\ queue'[e].assigned # NoUser
                              /\ HoldsRow(b, e)
         /\ e \notin Items(b) => evals'[e] = evals[e] /\ queue'[e] = queue[e]
  <1> DEFINE r == bulk[b]
  <1>1. b \in Bulks /\ r # Idle /\ Items(b) = DOMAIN r.rows /\ Deals(r, evals)
    BY DEF RobinCommit, AllRead, Items, Bulks, DealInv
  <1>2. IsBatch(b, r) /\ b \notin Scans /\ queue[e] # NoRow
    BY <1>1 DEF BulkInv, BatchesOK, BulkAssumption, DealInv, WaitsForQa
  <1>3. PICK I \in SUBSET Evals : r \in RobinOver(I)
    BY <1>2 DEF IsBatch
  <1>4. Items(b) = I
    BY <1>1, <1>3 DEF RobinOver
  <1>5. CASE e \in I
    <2>1. /\ r.evs[e] \in Evaluation /\ r.deal[e] \in Users /\ r.rows[e] \in QueueRow
          /\ evals[e] \in Evaluation /\ queue[e] \in QueueRow
          /\ r.deal[e] # NoUser /\ r.rows[e].assigned = NoUser
          /\ r.evs[e].state = evals[e].state /\ r.evs[e].qaUser = evals[e].qaUser
          /\ r.type = "QA_QUEUE" /\ r.rows[e] # NoRow /\ r.evs[e] # NotRead
      BY <1>1, <1>2, <1>3, <1>4, <1>5
      DEF RobinCommit, AllRead, RobinOver, Rows, BulkInv, TablesOK, Deals
    <2>2. /\ evals'[e] = MergeRow(r.evs[e], RoundRobinRow(r.evs[e], "QA_QUEUE", r.deal[e]),
                                  evals[e])
          /\ queue'[e] = MergeRow(r.rows[e], [r.rows[e] EXCEPT !.assigned = r.deal[e]],
                                  queue[e])
      BY <1>4, <1>5, <2>1 DEF RobinCommit
    <2>3. evals'[e].state = "QA_IN_PROGRESS" /\ evals'[e].qaUser = r.deal[e]
      BY <2>1, <2>2, MergeDeals
    <2>4. queue'[e].assigned = r.deal[e]
      BY <2>1, <2>2, MergeAssigns
    <2>5. queue'[e].type = queue[e].type
      BY <2>1, <2>2, MergeKeepsType
    <2>6. [r.rows[e] EXCEPT !.assigned = r.deal[e]] \in QueueRow
      BY <2>1 DEF QueueRow
    <2>7. queue'[e] \in QueueRow
      BY <2>1, <2>2, <2>6, MergedQueueRow
    <2>8. HoldsRow(b, e)
      BY <1>1, <1>4, <1>5, <2>1, ReadIsHeld
    <2> QED
      BY <1>4, <1>5, <2>1, <2>3, <2>4, <2>5, <2>7, <2>8, NoRowAssumption
  <1>6. CASE e \notin I
    BY <1>2, <1>4, <1>6 DEF RobinCommit
  <1> QED
    BY <1>5, <1>6

\* A step that leaves the batches of all round robins but b, and what those that
\* stay have read.
LEMMA OthersDeal ==
  ASSUME NEW b, DealInv, BulkInv, \A e \in Evals : WaitsForQa(e)',
         \A c \in Robins \ {b} : bulk'[c] = bulk[c],
         b \in Robins => bulk'[b] = Idle,
         \A c \in Robins \ {b}, e \in Evals : HoldsRow(c, e) =>
           evals'[e].state = evals[e].state /\ evals'[e].qaUser = evals[e].qaUser
  PROVE  DealInv'
  <1>1. ASSUME NEW c \in Robins, bulk'[c] # Idle
        PROVE  Deals(bulk'[c], evals')
    <2>1. c # b /\ bulk'[c] = bulk[c] /\ bulk[c] # Idle /\ Deals(bulk[c], evals)
      BY <1>1 DEF DealInv
    <2>2. IsBatch(c, bulk[c]) /\ c \in Bulks
      BY <2>1 DEF BulkInv, BatchesOK, Bulks
    <2>3. DOMAIN bulk[c].rows \subseteq Evals
      BY <2>2, BatchShape
    <2>4. ASSUME NEW e \in DOMAIN bulk[c].rows, bulk[c].evs[e] # NotRead
          PROVE  evals'[e].state = evals[e].state /\ evals'[e].qaUser = evals[e].qaUser
      BY <1>1, <2>1, <2>3, <2>4, ReadIsHeld
    <2> QED
      BY <2>1, <2>4 DEF Deals
  <1>2. ASSUME NEW c \in Robins, NEW e \in Evals, HoldsRow(c, e)'
        PROVE  HoldsRow(c, e)
    BY <1>2 DEF HoldsRow, Items
  <1> QED
    BY <1>1, <1>2 DEF DealInv

LEMMA DealStep ==
  ASSUME BulkAssumption, ~Handlers
  PROVE  BulkInv /\ DealInv /\ [Next]_vars => DealInv'
  <1> SUFFICES ASSUME BulkInv, DealInv, [Next]_vars PROVE DealInv'
    OBVIOUS
  <1>0. \A b \in Bulks : \A batch : bulk' = [bulk EXCEPT ![b] = batch] =>
          \A c \in Bulks : bulk'[c] = IF c = b THEN batch ELSE bulk[c]
    BY DEF BulkInv, BatchesOK
  <1>1. ASSUME NEW b \in Robins, NEW queueType \in {"QA_QUEUE", "VERIFIER_QUEUE"},
               NEW items \in SUBSET Unassigned(queueType),
               NEW deal \in [items -> RoundRobinUsers(queueType)],
               RobinSelect(b, queueType, items, deal)
        PROVE  DealInv'
    <2> DEFINE batch == [type |-> queueType, deal |-> deal, rows |-> Opened(items).rows,
                         evs |-> Opened(items).evs, gone |-> {}]
    <2>1. /\ \A c \in Bulks : bulk'[c] = IF c = b THEN batch ELSE bulk[c]
          /\ UNCHANGED tables /\ items # {} /\ b \in Bulks /\ Robins \subseteq Bulks
      BY <1>0, <1>1 DEF RobinSelect, Begin, Bulks
    <2>2. queueType = "QA_QUEUE" /\ items \subseteq Evals
      BY <2>1 DEF Unassigned, DealInv, WaitsForQa
    <2>3. \A e \in items : /\ deal[e] # NoUser /\ queue[e] # NoRow
                           /\ queue[e].assigned = NoUser
      BY <2>2, Actors, UsersAssumption DEF Unassigned, RoundRobinUsers
    <2>4. Deals(batch, evals')
      BY <2>2, <2>3 DEF Deals, Opened
    <2>5. \A e \in Evals : ~HoldsRow(b, e)'
      <3>1. DOMAIN batch.rows = items /\ \A e \in items : batch.evs[e] = NotRead
        BY DEF Opened
      <3>2. bulk'[b] = batch
        BY <2>1
      <3> HIDE DEF batch
      <3>3. \A e \in DOMAIN bulk'[b].rows : bulk'[b].evs[e] = NotRead
        BY <3>1, <3>2
      <3> QED
        BY <3>3 DEF HoldsRow, Items
    <2>6. \A c \in Robins, e \in Evals : HoldsRow(c, e)' => c # b /\ HoldsRow(c, e)
      BY <2>1, <2>5 DEF HoldsRow, Items
    <2>7. \A e \in Evals : WaitsForQa(e)'
      BY <2>1 DEF DealInv, WaitsForQa, tables
    <2>8. ASSUME NEW c \in Robins, bulk'[c] # Idle PROVE Deals(bulk'[c], evals')
      <3>1. CASE c = b
        BY <2>1, <2>4, <3>1
      <3>2. CASE c # b
        BY <2>1, <2>8, <3>2 DEF DealInv, Deals, tables
      <3> QED
        BY <3>1, <3>2
    <2> QED
      BY <2>6, <2>7, <2>8 DEF DealInv
  <1>2. ASSUME NEW b \in Robins, NEW e \in Evals, RobinRead(b, e)
        PROVE  DealInv'
    <2> DEFINE r == bulk[b]
    <2>1. /\ r # Idle /\ e \in DOMAIN r.rows /\ r.evs[e] = NotRead /\ Deals(r, evals)
          /\ b \in Bulks /\ Robins \subseteq Bulks /\ UNCHANGED <<evals, queue>>
      BY <1>2 DEF RobinRead, Items, DealInv, Bulks
    <2>2. IsBatch(b, r) /\ b \notin Scans
      BY <2>1 DEF BulkInv, BatchesOK, BulkAssumption
    <2>3. PICK I \in SUBSET Evals : r \in RobinOver(I)
      BY <2>2 DEF IsBatch
    <2> DEFINE new == [r EXCEPT !.rows[e] = IF e \in r.gone THEN queue[e] ELSE @,
                                !.gone = @ \ {e}, !.evs[e] = evals[e]]
    <2>4. bulk' = [bulk EXCEPT ![b] = new]
      BY <1>2, <2>1 DEF RobinRead, BulkInv, BatchesOK
    <2>5. \A c \in Bulks : bulk'[c] = IF c = b THEN new ELSE bulk[c]
      <3> HIDE DEF new
      <3> QED
        BY <1>0, <2>1, <2>4
    <2>6. /\ new.type = r.type /\ new.deal = r.deal /\ new.rows = r.rows /\ new.gone = {}
          /\ new.evs = [r.evs EXCEPT ![e] = evals[e]] /\ DOMAIN r.rows = I
          /\ DOMAIN r.evs = I
      BY <2>1, <2>3 DEF RobinOver, Deals
    <2> HIDE DEF new
    <2>7. Deals(new, evals')
      BY <2>1, <2>6 DEF Deals
    <2>8. \A c \in Robins, x \in Evals : HoldsRow(c, x)' => HoldsRow(c, x) \/ (c = b /\ x = e)
      <3>1. ASSUME NEW c \in Robins, NEW x \in Evals, HoldsRow(c, x)', c # b
            PROVE  HoldsRow(c, x)
        <4>1. bulk'[c] = bulk[c]
          BY <2>1, <2>5, <3>1
        <4> QED
          BY <3>1, <4>1 DEF HoldsRow, Items
      <3>2. ASSUME NEW c \in Robins, NEW x \in Evals, HoldsRow(c, x)', c = b, x # e
            PROVE  HoldsRow(c, x)
        <4>1. bulk'[c] = new /\ bulk[c] = r
          BY <2>1, <2>5, <3>2
        <4>2. x \in DOMAIN r.rows /\ new.evs[x] # NotRead /\ new.rows[x] # NoRow
              /\ new.rows[x].assigned # new.deal[x]
          BY <3>2, <4>1, <2>6 DEF HoldsRow, Items
        <4>3. r.evs[x] # NotRead
          BY <2>6, <3>2, <4>2
        <4>4. r.rows[x] # NoRow /\ r.rows[x].assigned # r.deal[x]
          BY <2>6, <4>2
        <4>5. Items(c) = DOMAIN r.rows
          BY <2>1, <4>1 DEF Items
        <4> QED
          BY <4>1, <4>2, <4>3, <4>4, <4>5 DEF HoldsRow
      <3> QED
        BY <3>1, <3>2
    <2>9. \A c \in Robins : ~HoldsRow(c, e)
      BY <1>2 DEF RobinRead, RowIsFree
    <2>10. \A c, d \in Robins, x \in Evals : HoldsRow(c, x)' /\ HoldsRow(d, x)' => c = d
      BY <2>8, <2>9 DEF DealInv
    <2>11. \A x \in Evals : WaitsForQa(x)'
      BY <2>1 DEF DealInv, WaitsForQa
    <2>12. ASSUME NEW c \in Robins, bulk'[c] # Idle PROVE Deals(bulk'[c], evals')
      <3>1. CASE c = b
        BY <2>1, <2>5, <2>7, <3>1
      <3>2. CASE c # b
        BY <2>1, <2>5, <2>12, <3>2 DEF DealInv, Deals
      <3> QED
        BY <3>1, <3>2
    <2> QED
      BY <2>10, <2>11, <2>12 DEF DealInv
  <1>3. ASSUME NEW b \in Robins, RobinCommit(b) PROVE DealInv'
    <2>1. /\ b \in Bulks /\ Robins \subseteq Bulks
          /\ \A c \in Bulks : bulk'[c] = IF c = b THEN Idle ELSE bulk[c]
      BY <1>0, <1>3 DEF RobinCommit, Close, Bulks
    <2>2. ASSUME NEW e \in Evals PROVE WaitsForQa(e)'
      <3>1. CASE e \in Items(b)
        BY <1>3, <3>1, RobinDeals DEF WaitsForQa, OwnerAgrees, DealInv
      <3>2. CASE e \notin Items(b)
        BY <1>3, <3>2, RobinDeals DEF WaitsForQa, DealInv
      <3> QED
        BY <3>1, <3>2
    <2>3. ASSUME NEW c \in Robins \ {b}, NEW e \in Evals, HoldsRow(c, e)
          PROVE  evals'[e] = evals[e]
      <3>1. ~HoldsRow(b, e)
        BY <2>3 DEF DealInv
      <3> QED
        BY <1>3, <3>1, RobinDeals
    <2> QED
      BY <2>1, <2>2, <2>3, OthersDeal
  <1>4. ASSUME NEW b \in Scans, ScanCommit(b) PROVE DealInv'
    <2>1. b \in Bulks /\ b \notin Robins /\ Robins \subseteq Bulks
          /\ \A c \in Bulks : bulk'[c] = IF c = b THEN Idle ELSE bulk[c]
      BY <1>0, <1>4 DEF ScanCommit, Close, Bulks, BulkAssumption
    <2>2. ASSUME NEW e \in Evals
          PROVE  WaitsForQa(e)' /\ evals'[e].state = evals[e].state
                 /\ evals'[e].qaUser = evals[e].qaUser
      <3>0. WaitsForQa(e) /\ evals[e] \in Evaluation
        BY DEF DealInv, BulkInv, TablesOK
      <3>1. CASE e \in Due(b)
        <4> DEFINE new == [evals[e] EXCEPT !.escalated = TRUE]
                   row == [queue[e] EXCEPT !.type = "ESCALATION_QUEUE"]
        <4>1. evals'[e] = new /\ queue'[e] = row /\ queue[e] \in QueueRow
          BY <1>4, <3>1, DueRows
        <4>2. /\ new.state = evals[e].state /\ new.qaUser = evals[e].qaUser
              /\ new.verUser = evals[e].verUser
          BY <3>0 DEF Evaluation
        <4>3. /\ row \in QueueRow /\ row.assigned = queue[e].assigned
              /\ row.type = "ESCALATION_QUEUE"
          BY <4>1 DEF QueueRow, QueueType
        <4> HIDE DEF new, row
        <4> QED
          BY <3>0, <4>1, <4>2, <4>3, NoRowAssumption DEF WaitsForQa, OwnerAgrees
      <3>2. CASE e \notin Due(b)
        BY <1>4, <3>0, <3>2, DueRows DEF WaitsForQa
      <3> QED
        BY <3>1, <3>2
    <2> QED
      BY <2>1, <2>2, OthersDeal
  <1>5. ASSUME NEW b \in Bulks, RollBack(b) PROVE DealInv'
    <2>1. UNCHANGED <<evals, queue>> /\ Robins \subseteq Bulks
          /\ \A c \in Bulks : bulk'[c] = IF c = b THEN Idle ELSE bulk[c]
      BY <1>0, <1>5 DEF RollBack, Close, Bulks
    <2>2. \A e \in Evals : WaitsForQa(e)'
      BY <2>1 DEF WaitsForQa, DealInv
    <2> QED
      BY <2>1, <2>2, OthersDeal
  <1>6. ASSUME NEW e \in Evals, RowTurnsStale(e), UNCHANGED bulk PROVE DealInv'
    <2>1. /\ queue' = [queue EXCEPT ![e] = [queue[e] EXCEPT !.stale = TRUE]]
          /\ evals' = evals /\ queue[e] \in QueueRow
      BY <1>6 DEF RowTurnsStale, BulkInv, TablesOK, Rows
    <2>2. /\ [queue[e] EXCEPT !.stale = TRUE] \in QueueRow
          /\ [queue[e] EXCEPT !.stale = TRUE].type = queue[e].type
          /\ [queue[e] EXCEPT !.stale = TRUE].assigned = queue[e].assigned
      BY <2>1 DEF QueueRow
    <2>3. \A x \in Evals : /\ queue'[x] # NoRow /\ queue'[x].type = queue[x].type
                           /\ queue'[x].assigned = queue[x].assigned
      BY <2>1, <2>2, NoRowAssumption DEF BulkInv, TablesOK, DealInv, WaitsForQa
    <2>4. \A x \in Evals : WaitsForQa(x)'
      BY <2>1, <2>3 DEF DealInv, WaitsForQa, OwnerAgrees
    <2> QED
      BY <1>6, <2>1, <2>4 DEF DealInv, Deals, HoldsRow, Items
  <1>7. CASE UNCHANGED <<evals, queue>> /\ \A b \in Robins : bulk'[b] = bulk[b]
    <2>1. \A e \in Evals : WaitsForQa(e)'
      BY <1>7 DEF DealInv, WaitsForQa
    <2> QED
      BY <1>7, <2>1 DEF DealInv, Deals, HoldsRow, Items
  <1>8. ASSUME NEW b \in Scans, ScanSelect(b) \/ \E e \in Evals : ScanRead(b, e)
        PROVE  DealInv'
    <2>1. b \in Bulks /\ b \notin Robins /\ Robins \subseteq Bulks
      BY DEF Bulks, BulkAssumption
    <2>2. UNCHANGED <<evals, queue>> /\ \A c \in Robins : bulk'[c] = bulk[c]
      BY <1>8, <2>1 DEF ScanSelect, ScanRead, Begin, tables, BulkInv, BatchesOK
    <2> QED
      BY <1>7, <2>2
  <1>9. CASE UNCHANGED vars
    BY <1>7, <1>9 DEF vars
  <1> QED
    BY <1>1, <1>2, <1>3, <1>4, <1>5, <1>6, <1>8, <1>9 DEF Next, Meanwhile

\* However many round robins and scans overlap, no evaluation is dealt to one
\* user and its queue row to another.
THEOREM DealsAgree ==
  ASSUME BulkAssumption, ~Handlers
  PROVE  Spec => []AssignmentAgrees
  <1>1. Init => DealInv
    <2>1. /\ NewEvaluation("QA_PENDING", NoUser).state = "QA_PENDING"
          /\ UpsertQueue("QA_QUEUE", NoUser).type = "QA_QUEUE"
          /\ UpsertQueue("QA_QUEUE", NoUser).assigned = NoUser
      BY DEF NewEvaluation, UpsertQueue
    <2>2. UpsertQueue("QA_QUEUE", NoUser) # NoRow
      BY QueueRows, NoRowAssumption DEF QueueType, People, Rows
    <2>3. Init => \A e \in Evals : WaitsForQa(e)
      BY <2>1, <2>2 DEF Init, WaitsForQa, OwnerAgrees
    <2>4. Init => \A b \in Robins : bulk[b] = Idle
      BY DEF Init, Bulks
    <2> QED
      BY <2>3, <2>4 DEF DealInv, HoldsRow, Items
  <1>2. BulkInv /\ DealInv /\ [Next]_vars => DealInv'
    BY DealStep
  <1>3. DealInv => AssignmentAgrees
    BY DEF DealInv, WaitsForQa, AssignmentAgrees
  <1> QED
    BY <1>1, <1>2, <1>3, BulkInvariance, PTL DEF Spec

-----------------------------------------------------------------------------

\* What the code promises of batches: rows are rows; without round robins next to
\* every handler, and with any number of them next to each other and to scans,
\* queue and evaluation name one owner, and what is escalated is in its queue; and
\* no scan takes a decision back.
THEOREM BatchesAlwaysHold ==
  ASSUME BulkAssumption
  PROVE  Spec => []BatchesHold /\ [][Robins = {} => DecisionIsFinal]_vars
  <1>1. Spec => [](Robins = {} \/ ~Handlers => AssignmentAgrees)
    <2>1. CASE Robins = {}
      <3>1. AssignmentAgrees => (Robins = {} \/ ~Handlers => AssignmentAgrees)
        OBVIOUS
      <3> QED
        BY <2>1, <3>1, AssignmentsAgree, PTL
    <2>2. CASE ~Handlers
      <3>1. AssignmentAgrees => (Robins = {} \/ ~Handlers => AssignmentAgrees)
        OBVIOUS
      <3> QED
        BY <2>2, <3>1, DealsAgree, PTL
    <2>3. CASE Robins # {} /\ Handlers
      <3>1. Robins = {} \/ ~Handlers => AssignmentAgrees
        BY <2>3
      <3> QED
        BY <3>1, PTL
    <2> QED
      BY <2>1, <2>2, <2>3
  <1>2. Spec => [](~Handlers => EscalatedIsQueued)
    <2>1. CASE ~Handlers
      <3>1. EscalatedIsQueued => (~Handlers => EscalatedIsQueued)
        OBVIOUS
      <3> QED
        BY <2>1, <3>1, EscalatedAreQueued, PTL
    <2>2. CASE Handlers
      <3>1. ~Handlers => EscalatedIsQueued
        BY <2>2
      <3> QED
        BY <3>1, PTL
    <2> QED
      BY <2>1, <2>2
  <1>3. Spec => [][Robins = {} => DecisionIsFinal]_vars
    <2>1. CASE Robins = {}
      <3>1. DecisionIsFinal => (Robins = {} => DecisionIsFinal)
        OBVIOUS
      <3> QED
        BY <2>1, <3>1, DecisionsStay, PTL
    <2>2. CASE Robins # {}
      <3>1. Robins = {} => DecisionIsFinal
        BY <2>2
      <3> QED
        BY <3>1, PTL
    <2> QED
      BY <2>1, <2>2
  <1>4. /\ TypeOK
        /\ Robins = {} \/ ~Handlers => AssignmentAgrees
        /\ ~Handlers => EscalatedIsQueued
        => BatchesHold
    BY DEF BatchesHold
  <1> QED
    BY <1>1, <1>2, <1>3, <1>4, TypeCorrect, PTL
=============================================================================
