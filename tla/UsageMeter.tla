----------------------------- MODULE UsageMeter -----------------------------
(***************************************************************************)
(* Monthly usage of one tenant (usage_meter_service.py) with the two that  *)
(* write it: uploads, by file or by the ingest webhook, which check the    *)
(* plan's limit first and record after they have stored, and logins, which *)
(* count the month's active users.  The conversations live in the tenant's *)
(* own database, the metric in the master: they have no common             *)
(* transaction.  The worker's tokens are left out: the code that counts    *)
(* them is not reached.                                                    *)
(***************************************************************************)
EXTENDS Integers, FiniteSets, FiniteSetsExt

CONSTANTS
  Conversations, \* conversations to upload, by externalId
  Users,
  Cap,           \* conversationsPerMonth of the plan
  Months,        \* bounds the calendar
  Uploads,       \* slots of overlapping uploads
  Logins,        \* slots of overlapping logins
  Faulty         \* a process dies, or the metric cannot be written

UsageAssumption ==
  /\ Cap \in Nat
  /\ Months \in Nat \ {0}
  /\ Faulty \in BOOLEAN

VARIABLES
  now,      \* the calendar month
  metric,   \* usage_metrics, per period; a row comes with its first record
  stored,   \* conversations in the tenant's database
  last,     \* users.lastLoginAt, 0 for never
  seen,     \* history: the users who logged in, per period
  upload,   \* what each upload is doing
  login     \* what each login has loaded

vars == <<now, metric, stored, last, seen, upload, login>>

Periods == 1 .. Months

Idle == [at |-> "idle"]

\* The period's row, and a missing one, which readers take as zeros.
Empty == [conversations |-> 0, active |-> 0]

\* The caller's batch is not larger than what the month has left.
WithinLimit(batch) == Cardinality(batch) <= Cap - metric[now].conversations

\* Insert or add, in one statement.
Upsert(field, delta) == metric' = [metric EXCEPT ![now][field] = @ + delta]

-----------------------------------------------------------------------------
(* upload_conversations and ingest_conversations *)

Check(u, batch) ==
  /\ upload[u] = Idle
  /\ batch # {} /\ WithinLimit(batch)
  /\ upload' = [upload EXCEPT ![u] = [at |-> "checked", batch |-> batch]]
  /\ UNCHANGED <<now, metric, stored, last, seen, login>>

\* Conversations that are there already are skipped.
FindNew(u) ==
  /\ upload[u].at = "checked"
  /\ upload' = [upload EXCEPT ![u] =
       [at |-> "inserting", fresh |-> upload[u].batch \ stored]]
  /\ UNCHANGED <<now, metric, stored, last, seen, login>>

\* Mutant: the external id is not unique.
Store_Duplicates(u) ==
  /\ upload[u].at = "inserting"
  /\ stored' = stored \cup upload[u].fresh
  /\ upload' = [upload EXCEPT ![u] =
       [at |-> "stored", count |-> Cardinality(upload[u].fresh)]]
  /\ UNCHANGED <<now, metric, last, seen, login>>

\* The external id is unique: an upload whose conversation another one has
\* stored since fails as a whole.
Store(u) ==
  /\ upload[u].at = "inserting"
  /\ IF upload[u].fresh \cap stored # {}
     THEN /\ upload' = [upload EXCEPT ![u] = Idle]
          /\ UNCHANGED stored
     ELSE /\ stored' = stored \cup upload[u].fresh
          /\ upload' = [upload EXCEPT ![u] =
               [at |-> "stored", count |-> Cardinality(upload[u].fresh)]]
  /\ UNCHANGED <<now, metric, last, seen, login>>

\* An empty count writes nothing, not even the row.
Record(u) ==
  /\ upload[u].at = "stored"
  /\ Upsert("conversations", upload[u].count)
  /\ upload' = [upload EXCEPT ![u] = Idle]
  /\ UNCHANGED <<now, stored, last, seen, login>>

\* A failure of the record is logged and swallowed.
RecordFails(u) ==
  /\ Faulty
  /\ upload[u].at = "stored"
  /\ upload' = [upload EXCEPT ![u] = Idle]
  /\ UNCHANGED <<now, metric, stored, last, seen, login>>

\* The process dies; what is not committed is gone.
Crash(u) ==
  /\ Faulty
  /\ upload[u] # Idle
  /\ upload' = [upload EXCEPT ![u] = Idle]
  /\ UNCHANGED <<now, metric, stored, last, seen, login>>

-----------------------------------------------------------------------------
(* _complete_login *)

BeginLogin(s, u) ==
  /\ login[s] = Idle
  /\ login' = [login EXCEPT ![s] = [at |-> "loaded", user |-> u, previous |-> last[u]]]
  /\ UNCHANGED <<now, metric, stored, last, seen, upload>>

FirstThisMonth(previous) == previous < now

\* The login time and the metric are committed together.
CommitLogin(s) ==
  LET u == login[s].user IN
  /\ login[s].at = "loaded"
  /\ IF FirstThisMonth(login[s].previous) THEN Upsert("active", 1) ELSE UNCHANGED metric
  /\ last' = [last EXCEPT ![u] = now]
  /\ seen' = [seen EXCEPT ![now] = @ \cup {u}]
  /\ login' = [login EXCEPT ![s] = Idle]
  /\ UNCHANGED <<now, stored, upload>>

NextMonth ==
  /\ now < Months
  /\ now' = now + 1
  /\ UNCHANGED <<metric, stored, last, seen, upload, login>>

-----------------------------------------------------------------------------
Init ==
  /\ now = 1
  /\ metric = [m \in Periods |-> Empty]
  /\ stored = {}
  /\ last = [u \in Users |-> 0]
  /\ seen = [m \in Periods |-> {}]
  /\ upload = [u \in Uploads |-> Idle]
  /\ login = [s \in Logins |-> Idle]

Next ==
  \/ \E u \in Uploads : \/ \E batch \in SUBSET Conversations : Check(u, batch)
                        \/ FindNew(u) \/ Store(u)
                        \/ Record(u) \/ RecordFails(u) \/ Crash(u)
  \/ \E s \in Logins : CommitLogin(s) \/ \E u \in Users : BeginLogin(s, u)
  \/ NextMonth

Spec == Init /\ [][Next]_vars

-----------------------------------------------------------------------------
(* Properties *)

\* The metric has one row per period, and uploads and logins are at a point
\* their handlers have.
TypeOK ==
  /\ now \in Periods
  /\ metric \in [Periods -> [conversations : Nat, active : Nat]]
  /\ stored \subseteq Conversations
  /\ last \in [Users -> 0 .. Months]
  /\ seen \in [Periods -> SUBSET Users]
  /\ \A u \in Uploads : upload[u] \in {Idle}
       \cup [at : {"checked"}, batch : SUBSET Conversations]
       \cup [at : {"inserting"}, fresh : SUBSET Conversations]
       \cup [at : {"stored"}, count : 0 .. Cardinality(Conversations)]
  /\ \A s \in Logins : login[s] \in {Idle}
       \cup [at : {"loaded"}, user : Users, previous : 0 .. Months]

Recorded == SumFunction([m \in Periods |-> metric[m].conversations])

Unrecorded ==
  SumFunction([u \in Uploads |-> IF upload[u].at = "stored" THEN upload[u].count ELSE 0])

\* A tenant is never metered for more than it has stored, whatever overlaps,
\* is uploaded again or fails.
NeverOvercounted == Recorded + Unrecorded <= Cardinality(stored)

\* Without faults nothing is lost either, although uploads and logins share a row.
CountIsExact == Recorded + Unrecorded = Cardinality(stored)

\* "This upload would exceed your monthly limit": no month's count passes the
\* limit, also when the month turns between the check and the record.
WithinCap == \A m \in Periods : metric[m].conversations <= Cap

\* "Monthly active user metric": a user is counted once a month.
ActiveUsersAreDistinct == \A m \in Periods : metric[m].active = Cardinality(seen[m])

OneUpload == \A u, v \in Uploads : u = v

OneLogin == \A r, s \in Logins : r = s

\* However uploads overlap and fail, a tenant is metered for no more than it has,
\* and without faults for exactly that; one upload at a time, the limit is kept,
\* and one login at a time, a user is active once a month.
UsageHolds ==
  /\ TypeOK /\ NeverOvercounted
  /\ ~Faulty => CountIsExact
  /\ OneUpload => WithinCap
  /\ OneLogin => ActiveUsersAreDistinct
=============================================================================
