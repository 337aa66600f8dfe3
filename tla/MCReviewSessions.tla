------------------------- MODULE MCReviewSessions --------------------------
(***************************************************************************)
(* Small instances of ReviewSessions: one evaluation, requests of a few    *)
(* users overlapping.  Over the same tables, in behaviours of their own    *)
(* (part): the requests of reviewers only, three at a time; and the        *)
(* batches of BulkSessions, scans, one after the other, next to every      *)
(* handler, and two round robins next to a scan.                           *)
(***************************************************************************)
EXTENDS ReviewSessions, FiniteSets, TLC

CONSTANTS
  e1, q1, q2, v1, v2, w1, w2, s1, s2, s3,
  b1, b2, b3, b4,  \* batches
  NotRead,
  Parts

VARIABLES part, bulk, runs

MCScores == {35, 60}
MCVerifierRanges == {<<0, 40>>, <<90, 100>>}

Reviewers == INSTANCE ReviewSessions WITH
  Operations <- {"qa_start", "qa_submit", "verifier_start", "verifier_approve",
                 "verifier_modify", "verifier_reject"}

ScanBatches == INSTANCE BulkSessions WITH
  Robins <- {}, Scans <- {b3}, Handlers <- TRUE, MaxRuns <- 2

RobinBatches == INSTANCE BulkSessions WITH
  Robins <- {b1, b2, b4}, Scans <- {b3}, Handlers <- FALSE, MaxRuns <- 5

ASSUME
  /\ Parts \subseteq {"sessions", "reviewers", "scans", "robins"}
  /\ Reviewers!SessionsAssumption
  /\ ScanBatches!BulkAssumption /\ RobinBatches!BulkAssumption

MCInit ==
  /\ part \in Parts
  /\ Init
  /\ CASE part \in {"sessions", "reviewers"} -> bulk = <<>> /\ runs = 0
       [] part = "scans" -> ScanBatches!Init
       [] part = "robins" -> RobinBatches!Init

\* Bounds: two of the sessions are used at a time, for four requests.
Bounded == requests' <= 4 /\ Cardinality({s \in Sessions : session'[s] # Idle}) <= 2

\* A request commits or a batch does: neither waits for the other.
MCNext ==
  /\ UNCHANGED part
  /\ CASE part = "sessions" -> Next /\ Bounded /\ UNCHANGED <<bulk, runs>>
       [] part = "reviewers" -> Reviewers!Next /\ UNCHANGED <<bulk, runs>>
       [] part = "scans" -> ScanBatches!Next /\ UNCHANGED <<session, requests, jobs, worker>>
       [] part = "robins" -> RobinBatches!Next /\ UNCHANGED <<session, requests, jobs, worker>>

MCSpec == MCInit /\ [][MCNext]_<<vars, part, bulk, runs>>

\* As long as only reviewers act, overlapping requests leave no work in
\* progress without its owner and no locked evaluation without its verdict,
\* and no claim of QA is overwritten by another one.
ReviewHolds ==
  /\ [](part = "reviewers" => Reviewers!LockedHasVerdict /\ Reviewers!InProgressHasOwner)
  /\ [][part = "reviewers" => Reviewers!QaClaimHolds]_vars

\* BulkSessions: next to whatever handlers do, a scan keeps queue and
\* evaluation in agreement and takes no decision back; round robins that
\* overlap each other and a scan keep what is escalated in its queue.
BatchesHold ==
  /\ [](part = "scans" => ScanBatches!BatchesHold)
  /\ [](part = "robins" => RobinBatches!BatchesHold)
  /\ [][part = "scans" => ScanBatches!DecisionIsFinal]_<<evals, part>>

MCSymmetry == Permutations(QaUsers) \cup Permutations(VerifierUsers)
              \cup Permutations(Sessions) \cup Permutations(Workers)
              \cup Permutations({b1, b2, b4})
=============================================================================
