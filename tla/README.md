# Formal model of the QA admin backend

TLA+ models, TLC runs and TLAPS proofs for the multi-tenant QA evaluation
backend in `src/` (FastAPI, SQLAlchemy on PostgreSQL, Celery on Redis).

Conversations come in by webhook, upload or backfill; every one that matches a
published form gets an *evaluation*, which passes through an automatic stage,
QA review, and, depending on the score, verification, escalation or audit,
until it is locked with a verdict. Four tables of a tenant's database have to
stay in step (`evaluations`, `workflow_queues`, `audit_cases` and the status of
`conversations`), and they are written by about twenty handlers, two Celery
tasks and three intake paths. Around this core lie the master database (tenants,
users, sessions, settings, usage, billing), Redis (one-time codes, API keys,
jobs), Stripe and the receivers of outbound webhooks.

Almost every handler of the backend has one shape: read and check, then commit,
with no lock in between. The models keep the two apart wherever requests of one
component can overlap, so that each property is asked of the overlap, and not
of the handlers one by one.

## 1. Inventory

| Component | State it keeps | Operations | What is hard, what makes it correct |
|---|---|---|---|
| Review workflow (`evaluations_service.py`, `routers/evaluations.py`) | the four tables above, deviation records, audit log | qa start/submit, verifier start/approve/modify/reject, resolve audit, manual/round-robin assign, reassign, retry, (bulk) re-audit | each handler writes several tables; long sequences must keep owner, queue, status and verdict consistent; a lock is final; nobody's claim is taken |
| ... as overlapping requests | row locks of three handlers, none in the others | the same | check-then-commit without a lock; merge of column-wise UPDATEs |
| ... its answers | AI, QA and verifier layers of answers | submit, approve, modify, reject, re-audit | no edit of a round is lost; score and verdict are those of the final answers |
| ... its listings | none | four queues, list of evaluations, access check | predicates written apart must agree with each other and with the handlers |
| `eval.process` worker (`eval_process_task.py`, `celery_app.py`) | jobs in the broker, one claimed evaluation per worker | claim, skip, route, fail | at-least-once delivery, late ack, crash between two transactions, failure after the claim |
| Stale scan (`stale_queue_escalation_task.py`) | `isEscalated`, queue rows | one scan per minute and tenant | several rows in one transaction next to reviewers; a sticky flag |
| Upload, backfill (`conversations_service.py`) | conversations, evaluations, queue rows, jobs | upload, backfill, remap of corrupted forms | jobs sent before the commit; broker errors swallowed; backfill selects by a status four services write; backfills overlap |
| Webhook ingest (`webhooks_ingest_service.py`) | API keys in Redis, conversations, jobs | ingest, rotate and resolve a key | commit, then send: dying in between; a rotation of four calls |
| Routing (`department_routing.py`, `routing_service.py`, `departments_service.py`) | departments, mappings, settings, audits | resolve a department, CRUD | precedence of rules; a configuration that refers to departments that change |
| Scoring (`scoring_service.py`) | none | score answers against a form | weights, hidden and missing answers, critical failures, rounding |
| Provisioning, tenant pool (`provision_task.py`, `tenant_pool.py`) | tenant status, database, role and password, pooled engines | provision, connect, evict, reap | failure and retry between steps; rotated password against pooled engines |
| Authentication (`auth_service.py`, `security.py`, `deps.py`) | users, refresh tokens, one-time codes | signup, login with and without a code, refresh, logout, reset, invite | a token, a code or an invitation used by overlapping requests, or again |
| Users (`users_service.py`) | users | add, invite, update, deactivate | the last administrator, plan seats |
| Usage metering (`usage_meter_service.py`) | monthly counters | record, check | limit checked before and recorded after the upload; first record of a month |
| Billing (`billing_service.py`) | subscription, invoices, event log | checkout, cancel, resume, Stripe webhook | duplicated, reordered events; crash while PROCESSING; the platform sets the tenant's plan past it |
| Outbound webhooks (`outbound_webhooks_service.py`) | hooks, deliveries | create, deactivate, remove, deliver, retry | retry next to first attempt; a hook that goes while its event is delivered |
| Forms (`forms_service.py`) | form versions, statuses | create, update, publish, deprecate, archive, restore | version numbers and the one published form per channel |
| Tenant and LLM settings | single rows | get-or-create, patch | two first reads, two patches that are each valid |
| Platform administration (`routers/platform_admin.py`) | tenants, users of every tenant | status, plan, deletion, restoring | writes what the tenant's own handlers write |
| Notifications, analytics, application shell | none of the protocol | rendering, queries, start-up | no workflow state of their own |

Interactions: intake, retry and re-audit send `eval.process` jobs through
Redis; the worker reads the master database for departments and users and the
tenant's database for the rest; all services of a tenant share its database and
nothing else; there are no in-process callbacks. Signup calls provisioning;
uploads call routing and usage metering; status changes call outbound webhooks
after their commit. PostgreSQL runs at READ COMMITTED.

## 2. Modules

### The review pipeline

| Module | Models | State |
|---|---|---|
| `EvaluationStore` | row types (`models/tenant.py`), fresh rows, decisions computed from scores | constants only |
| `ReviewHandlers` | every handler of `evaluations_service.py` as functions of rows: `MayX` (complement of the early raises) and the row it leaves; `MergeRow`, a column-wise UPDATE | - |
| `ReviewWorkflow` | the handlers and the scan as one-step transactions; the invariants over the four tables | `evals`, `queue`, `conv`, `audit` |
| `EvaluationSystem` | ReviewWorkflow with intake, backfill, broker, worker, faults | + `jobs`, `toSend`, `tx`, `missing`, `worker`, `crashes`, `failures` |
| `AbstractReview` | what the workflow promises: stage, owner, verdict | `stage`, `owner`, `verdict` |
| `ReviewSessions` | the row-level handlers with read and commit apart | tables + `session`, `requests`, `jobs`, `worker` |
| `BulkSessions` | round robin and scan as select, reads and commit next to every handler | tables + `bulk`, `runs` |
| `QueueViews` | QA queue, verifier queue, list of evaluations and access check as sets over EvaluationSystem | - |
| `Scoring` | `scoring_service.py` as operators on forms and answers | - |
| `ScorePreview` | a form being filled in, with the score shown | `form`, `answers` |
| `ReviewAnswers` | the layers of answers of one evaluation through its rounds | `form`, `state`, `ai`, `qa`, `ver`, `final`, `passFail`, `edited` |

How state corresponds to code:

- `evals[e]` is the `evaluations` row of conversation `e` (the column is
  unique): `workflowState`, `qaUserId`, `verifierUserId`, `isEscalated`,
  `aiScore`, `qaScore`, `finalScore`, `passFail` and what `verifierFinalData`
  holds. State "NONE" means there is no row.
- `queue[e]` is the `workflow_queues` row (unique per evaluation) or `NoRow`;
  `stale` stands for `dueBy`/`createdAt` against the threshold.
- `conv[e]` is `conversations.status`, `audit[e]` the status of the audit case.
- `jobs[e]` counts messages in the broker. `toSend[e]` counts requests between
  their commit and their send (ingest, retry, re-audit). `tx[e]` is the open
  upload or backfill that has inserted the evaluation, sent its job and not
  committed; `missing[b]` the evaluation that backfill `b` has looked up, not found
  and is about to insert. Another backfill may have looked for it too: the unique
  `conversationId` makes its insert wait for the first (`BackfillSend`'s guard) and
  then fails it (`BackfillIsRefused`), and two that wait for each other end by
  the database's choice (`BackfillDeadlocks`).
  `worker[w]` is the evaluation a worker has claimed and not yet routed.
- `session[s]` (ReviewSessions) is a request between reading a row and
  committing: operation, user, and the row as read. `bulk[b]` (BulkSessions) is
  a batch: the queue rows selected, the evaluations read so far, and the rows
  that are gone since; `RollBack` is the StaleDataError of an UPDATE whose row is
  gone, or a deadlock, which takes the whole batch with it. The sessions of a
  tenant autoflush (`tenant_pool.py`), so the round robin's UPDATE of a queue row
  goes out before it reads that row's evaluation: `HoldsRow` is the row lock it
  has from then on, `RowIsFree` what whoever writes the row waits for.
- In `ReviewAnswers` a layer is a map from questions to a value and a reason,
  with its score, verdict and critical failure; `Merged` and `Adjusted` are the
  ways `verifier_modify` and `qa_submit` lay new answers over old ones, `Shown`
  is what the detail view computes.

A handler that raises changes nothing, so an action is enabled exactly when its
handler goes through. A handler's every write is in its one action.

Abstractions: answers (except in ReviewAnswers), section scores, texts,
timestamps, priorities, departments and audit-log rows are left out. Which
reviewer `select_least_loaded_user` picks, and whether the LLM percentage
selects a conversation, are free choices, which covers every load and setting.
`scoringStrategy`, `EscalationRule` and the roles are constants. The LLM
pipeline after `if True:` in `eval_process` cannot be reached and is left out;
therefore no code writes `aiScore`, and AI scores, as well as AI_FAILED rows,
exist only in rows the retired Nest API left in the shared database (`db.py`,
docstring): `Init` offers both. `Scoring` counts exactly, in fractions of a
point, where the code computes with floats.

### The modules around it

Each has a `request` (or `thread`, `worker`, `login`, ...) per slot, holding
what the request has loaded: `BeginX` reads and checks, `CommitX` writes. A commit writes
only the columns that differ from what was loaded (`Written` in several
modules), as SQLAlchemy does. Variables marked *history* are not in the code; they
record what a property speaks about.

| Module | Models | State |
|---|---|---|
| `Forms` | creation, update, publish, deprecate, archive, restore | `forms` |
| `Routing` | departments, mappings, fallback settings, users' departments, audit entries, the route of an upload | `dept`, `mapping`, `setting`, `member`, `audit` |
| `TenantSettings` | escalation rule, blind-review buckets, LLM configuration | `rule`, `blind`, `llm` |
| `UsageMeter` | uploads that check, store and record; logins; the turn of a month | `now`, `metric`, `stored`, `last`; history `seen` |
| `TenantProvisioning` | `tenant_provision` step by step, the pools of several processes, failures and restarts | `status`, `stored`, `configured`, `role`, `database`, `schema`, `form`, `pool`, `minted` |
| `Signup` | code, verification, signup, provisioning, session | `sent`, `otp`, `verified`, `tenant`; history `proved` |
| `LoginSessions` | logins with a code or without, invitations, refresh rotation and reuse detection, logout, reset, deactivation and changes of status of one user | `status`, `hasPassword`, `tenant`, `code`, `token`; history `invited`, `starts`, `breach` |
| `Accounts` | users of a tenant: add, invite, update, deactivate, reactivate, delete, restore; plan and upgrade request | `user`, `tenant` |
| `IngestKeys` | rotation of API keys, call by call | `owner`, `current`; history `used` |
| `StripeBilling` | webhook deliveries, cancel, resume, checkout next to Stripe, and the platform's change of the tenant's plan | `log`, `sub`, `tenantPlan`, `invoices`, `worker`, `acked`; at Stripe `stripe`, `sessions`, `customers`, `events`; history `overruled`, `applied` |
| `WebhookDelivery` | hooks, fan-outs, retries | `hook`, `delivery`, `fanout`, `retry`; history `posts`, `accepted`, `chosen` |

In particular:

- `Forms`: `BeginStatus` does the checks of `change_status` for the five
  transitions (`AppliesTo`, `NoClash`), `CommitStatus` writes status and dates;
  `UniqueKey` is the unique index on (formKey, version), by which an overlapping
  creation `Fail`s.
- `Routing`: `Route` is `department_routing.py`: the mapping of the application key,
  then the fallback mode; `Resolve` applies it to an upload, `Legacy` is the
  path without a key. `Accepts` is the database's part: unique pair, foreign key.
- `UsageMeter`: `Upsert` is the insert that a unique index turns into an update.
  `Record` runs after the upload has committed in the other database;
  `RecordFails` is its swallowed exception.
- `TenantProvisioning`: one action per `thread` stage (role, database, persist,
  schema, engine, seed, activate). Passwords are numbered in the order they
  are generated. `Connect` is `get_tenant_engine`, which provisions a tenant
  without a stored password itself.
- `Signup`, `IngestKeys`: one action per call to Redis or commit; keys expire
  by themselves.
- `LoginSessions`: a token belongs to the session (a login or an invitation) it
  descends from. `PassesLogin` is a right password; the login then sends a code
  (`SendCode`) or, with `skip2fa` in its body, completes at once (`SkipCode`).
  `Reactivate` is the commit that a login makes before it looks at the password.
  `SetStatus` is `update_user`, which writes any status: a user who is INVITED
  again can accept an invitation that has been used, so invitations are counted by
  `invited`, the times the user was made INVITED. `DetectReuse` revokes every
  live token of the user.
- `StripeBilling`: `Receive` and `Log` are the insert into
  `stripe_webhook_events` (`UniqueEvent`), `ApplyEvent` the dispatch by type
  with its commit, `Mark` PROCESSED, `Throw` the handler's exception and FAILED
  (whose commit takes along a status already assigned, `HalfDone`),
  `Settled` the statuses at which a redelivery is only acknowledged. `BeginModify`,
  `Modify` and `CommitModify` are `_toggle_cancel`; `SetPlan` is
  `update_tenant_plan`, which writes `tenants.plan` and nothing of the subscription.
- `WebhookDelivery`: `Open` commits the PENDING row, `PostFirst` posts,
  `CommitFirst` commits the outcome, once per hook in the order loaded; `Raise` is
  the exception that leaves the loop.

Four modules make the small instances for TLC: `MCEvaluationSystem` (the review
pipeline), `MCReviewSessions` (overlapping review requests and batches),
`MCTenant` (what administrates a tenant) and `MCServices` (billing, usage,
webhooks, answers). A fifth, `MCProgress`, is about what goes on until it is
done: events until they are applied, fan-outs until they have reached every hook,
a form that is filled in and scored on the way. The components of `MCTenant`, of
`MCServices` and of `MCProgress` share no row with one another, so a
behaviour picks one of them (`part`) and the others stay as they start; each
component is extended or an `INSTANCE` with its own constants, often several of
them: slots
`r1` and `r2` for requests that overlap, `r0` alone for one at a time. What a
component promises of either is one definition at the end of its module
(`AnswersHold`, `RoutesHold`, `BatchesHold`, ...), whose parts name what they
depend on (`OneSlot`, `~Crashes`, ...). The runs check it in every instance of
the component: as they stand where the run extends the component
(`AnswersHold`, `ScoresHold`), otherwise by a property that asks each instance
for its own in its part (`MCTenant!RoutesHold`, `MCServices!StripeHolds`, which
asks for `BillingHolds`). Section 4 proves the components' definitions.
`...Proofs` modules are section 4.

## 3. Runs

### Passing runs

| Run | Instance | What it shows |
|---|---|---|
| `SystemOne` | 1 evaluation, 2 QA, 2 verifiers, 1 admin, 2 workers, 3 jobs, 2 crashes, 2 failures | the four tables stay in step, locks are final, claims hold, listings, access check and handlers agree, and the system implements `AbstractReview` |
| `SystemTwo` | 2 evaluations, 1 verifier, 1 admin, 2 workers, 2 backfills, 1 job each, 1 crash | the same refinement with transactions over several rows: scan, round robin, two backfills that overlap; an open insert is new |
| `SystemLive` | 2 evaluations, 1 admin, 1 worker, duplicates, no failure | `RequestReachesQa` |
| `Sessions` | below | what FOR UPDATE guarantees next to handlers that do not lock, and what batches keep |
| `Tenant` | below | signup, sessions, accounts, provisioning, keys, forms, routing, settings |
| `Services` | below | billing, usage, outbound webhooks, answers |
| `Progress` | 4 events of Stripe whose handling may raise; 2 hooks and 2 events of webhooks; 36 forms of three questions, values from below to above the ranges | `EventuallyApplied`, `FanoutCompletes`; `ScoresHold` |

The parts of `Sessions` (`TypeOK` and `LockedReadStaysCurrent` hold in all):

| Part | Instance | Asked by |
|---|---|---|
| sessions | all nine handlers, 2 + 2 users, 2 sessions at a time, 4 requests, 1 worker | `LockedReadStaysCurrent` |
| reviewers | the six handlers of reviewers, 3 sessions, 6 requests | `ReviewHolds`: owner, verdict, QA's claim |
| scans | 1 scan that runs twice, every handler | `BatchesHold`: owner and assignee agree, no decision is taken back |
| robins | 3 round robins and a scan, 5 batches, no other handler | `BatchesHold`: owner and assignee agree, what is escalated stays in its queue |

The parts of `Tenant`. *Overlap* has two request slots; *alone* has one, where
the code makes a promise that it keeps only then:

| Component | Overlap | Alone | Property |
|---|---|---|---|
| Signup | 2 addresses, slugs and codes; expiry, crashes | | `SignupNeedsCode`, `SessionNeedsProvisioning` |
| LoginSessions | 3 tokens, one login (with a code or without), 2 invitations | the same | `SessionsHold`; `LoginsHold` |
| Accounts | 2 users, deletion and reactivation | 3 users, limits of 1 and 2 | `AccountsHold` |
| TenantProvisioning | 2 processes of 2 threads, 2 passwords, failure at every stage | 1 thread, 3 passwords, the same failures | `ProvisioningHolds` |
| IngestKeys | 2 tenants, 3 keys, with and without crashes | without crashes | `KeysHold` |
| Forms | 2 forms of 1 channel | 2 forms of 2 channels | `FormsHold` |
| Routing | 1 department, 1 key, 2 mappings | 2 departments with a user; 2 departments that stay | `MappingsHold`, `RoutesHold` |
| TenantSettings | 2 points of a range, no rule yet | 3 points, 2 rules | `SettingsHold` |

The parts of `Services`:

| Part | Instance | Property |
|---|---|---|
| failing stripe | 1 worker, 4 events in any order, exceptions and crashes | `AppliedBeforeProcessed`, `AppliedOnce`, `StripeHolds`: the plan |
| failing purchase | 2 plans, 1 worker, 4 events in order, exceptions and crashes | the same |
| stripe overlap | 2 workers, 5 events in any order: duplicate deliveries meet at the event's row and at the invoice's | the logs of `failing stripe`, not the plan |
| stripe | 2 plans, 2 subscriptions at Stripe, 6 events in order, 1 worker, no faults | `StripeHolds`: plan and status are those at Stripe |
| failing usage, shared usage, serial usage | 2 overlapping uploads with lost records; 2 uploads and a login without faults; one at a time, 3 conversations, 2 users, cap 2, two months | `UsageHolds`: never above what is stored; exact; within the cap |
| retries, fanouts | a fan-out and 2 overlapping retries of 3 attempts; 2 fan-outs to 2 hooks; crashes and hooks that go in both | `DeliveryHolds` |
| review | 2 questions of 2 values in 2 sections, one of which may be critical, any number of rounds | `AnswersHold` |

`AppliedOnce` holds next to exceptions because there is one worker: two
deliveries that both find the row FAILED would both take it up. The theorem of
section 4 has either no exceptions or one worker.

### Bounds

`MaxJobs` bounds the jobs of one evaluation waiting, being sent or
claimed: 3 allows an original, a duplicate and a second request's job while one
is claimed. `MaxCrashes` and `MaxFailures` of 2 let a fault hit the recovery
from an earlier one. `MaxRequests` bounds a behaviour of ReviewSessions: with 4,
three requests overlap and another one starts after the first has committed.
`MaxRuns` bounds the batches of BulkSessions: 2 let a scan meet what an earlier
scan has left; with 5 three round robins and a scan overlap and one of them
begins again. Three is the least that could split an owner: one commits, and of
two others that read next to it one meets what the other has made of that. One
evaluation is enough for SystemOne and Sessions because handlers touch rows of
one evaluation only and a batch treats each item by itself (the proofs have
batches of any size); SystemTwo takes two for the transactions that do not. The scores (35, 80, 95
with the default thresholds; 35 and 60 in Sessions) send every decision both
ways: below and above the pass mark, inside and outside the verifier ranges, far
enough apart to escalate or not, equal and different for an audit.

Elsewhere two overlapping requests are enough for a check that another request
outdates. Two rows (departments, forms of one channel, users, hooks) are the
least at which one row's change can break what holds of another; a third where
a property counts (seats, tokens). Identities that are only ever generated
(tokens, codes, keys, passwords, events, customers) are bounded by their set;
behaviours stop when it is used up, and the review really may stop (an
evaluation orphaned in AI_IN_PROGRESS), which is why deadlock is not checked.
`MayEmit` keeps room among Stripe's events for those that requests under way will cause, so
that the bound stops Stripe and never a request half-way. Five events are the
least with two invoices of one subscription. `Months` = 2 crosses one turn of a
month, the only place where a period matters. In MCTenant `AtMostOne` and
`NoneOf` keep two requests of one kind (updates of users; routing settings), or
requests that only read (uploads), out of the largest overlaps; each of these
kinds still overlaps with all the others or runs alone. `ScorePreview` takes
values below, at, inside and above a range, ranges of no width, and the three
rounding policies. `ReviewAnswers` has no bound on the rounds at all.

Reviewers of one role, workers, request slots and rows that no property names
are interchangeable; hence the symmetry sets. Runs with liveness use none.

### Fairness

- `EvaluationSystem`: a request that has committed goes on to its send (plain
  sequential code); a claimed evaluation is carried on with; workers poll a
  FIFO list without end, so a job that keeps being available is taken (strong
  fairness, since a busy worker disables the step); Celery beat starts the scan
  every minute. Reviewers owe nothing.
- `StripeBilling`: Stripe redelivers an event until it is answered with 2xx,
  so `Receive` is strongly fair. A worker goes on with what it has begun (weak,
  `GoOn`); the two steps an exception can take the place of, `Load` and
  `ApplyEvent`, are strongly fair: an exception at every single redelivery is
  excluded. There is no fairness for administrators, and no crash in `Progress`:
  a process that dies while the row says PROCESSING leaves an event that no
  redelivery applies, which is what the code does (`Settled`).
- `WebhookDelivery`: the fan-out's own sequential steps are weakly fair; the
  post has a timeout, so it returns.

`RequestReachesQa` is stated for a request whose send is outstanding: the
upload's job, sent before its commit, gives no such guarantee (below).

### Disagreements with the repository's own words

Each of these runs checks one statement of a docstring, comment, message or check and
ends in a counterexample. PROJECT.json quotes the lines.

| Run | Statement | What happens |
|---|---|---|
| `SystemUpload` | ingest's comment: send after the commit "so the worker can read the rows" | upload sends first; the job is consumed before the row is visible and the evaluation stays AI_PENDING (until a backfill or a re-audit) |
| `SystemFailedTask` | `eval_process`: "On failure → mark AI_FAILED ... re-raise to retry" | the code that runs has no such handler: the evaluation stays AI_IN_PROGRESS, which neither retry, re-audit nor redelivery accepts |
| `SystemStale` | the scan "promotes them to ESCALATION_QUEUE" | `isEscalated` survives a claim, and escalated evaluations are skipped from then on |
| `SessionsSerialised` | `_ensure_eval`: lock "to serialise concurrent claim/submit/approve" | submit and approve do not take it |
| `SessionsParallel` | duplicate jobs "exit early, preventing parallel LLM calls" | overlapping re-audits reset a claimed row and a second worker claims it |

Many statements hold of one request at a time and not of two. The passing runs
ask them of a part with one slot; asked of the overlapping part they have
counterexamples:

| Component | Statement | What two requests do |
|---|---|---|
| Forms | "one-published-form-per-(department, channel) invariant" | two publications both find the channel free |
| Routing | "cannot delete a department that still has assigned users" | a user moves in between count and delete |
| Settings | rules "are keyed by tenantId" | the column is not unique: two first reads leave two rows and later reads raise |
| Settings | "verifierMinRangeStart must be <= verifierMinRangeEnd" | two patches that are each valid |
| Settings | "Provide only the base Azure resource URL" | two saves leave one's provider with the other's endpoint |
| Usage | "This upload would exceed your monthly limit" | two uploads pass one check |
| Usage | "Monthly active user metric" | two first logins count twice |
| Provisioning | synchronous "to prevent race conditions" | a connection provisions next to the signup; stored and real password differ |
| Sessions | "Mark the token as used/revoked" | two refreshes of one token both succeed |
| Sessions | "Invite has already been used" | two requests accept one invitation |
| Sessions | "Honour suspension/deactivation that happened after the token was issued" | a refresh that overlaps with it stores a live token |
| Accounts | "Cannot change role or deactivate the only active admin" | two requests count two |
| Accounts | an upgrade request is stored "so Super Admin sees it" | a plan change clears one it has not seen |
| Keys | a new key is generated "revoking the previous one" | of two rotations one key stays valid for good |
| Billing | the customer id is "persisted and not orphaned" | two checkouts keep one of two customers |

And some statements fail without any overlap; the models show them, and no
property claims the opposite: an escalated evaluation that is taken or rejected is in a working queue and
in no listing; `verifier_approve` looks for a critical-failure key that
`qa_submit` does not store; archive, create, restore exceeds a plan's forms;
the check of overlapping channels returns at once; deleting the fallback
department leaves its mode; a mapped department can be deactivated;
provisioning with a stored password is never retried; deleted administrators
are counted as active; reactivation ignores the seats; inserting a delivery of
a removed hook raises and the hooks after it get nothing. Next to other
handlers a scan escalates what has been claimed since it was selected, and a round robin
deals it out. Overlapping assignments or re-audits can leave work in progress
with no owner; of two purchases that overlap the row can link one and keep the plan
of the other, and a plan set by the platform is not that of the subscription;
a login with `skip2fa` needs no code; a user who is set back to INVITED can accept
a used invitation; `reassign` accepts a target of any role and leaves an escalated
row in the escalation queue; backfill with the LLM enabled inserts QA_PENDING
evaluations without a queue row (the exception in `QueueMatchesState`), which
is why the conversation's status stays PENDING while QA works on them.

## 4. Proofs

Eight modules; everything in them is proved for every value of the constants
(any number of evaluations, users, workers, requests, tenants, keys, events),
from the named assumptions of the modules: null values are not members of the
sets they are null for, numbers are numbers. Where a module has an
`...Assumption` it is a hypothesis stated in the theorems; TLC evaluates it for
the instances it checks.

Some theorems have a hypothesis on who takes part. It is stated where the
property fails without it, and most often a run or section 3 has the
counterexample:

| Hypothesis | Theorems | Without it |
|---|---|---|
| `"exception" \notin Faults \/ OneWorker` | `EventsApplyOnce` | two deliveries find the row FAILED |
| `~Crashes` | `CurrentKeysWork`, `PreviousKeysGo` | a rotation stops between its calls to Redis |
| one request slot (`OneSlot`) | `SerialLoginsHold`, `RevocationsAreComplete`, `PreviousKeysGo` | the rows of Sessions and Keys in section 3 |
| `OneSlot` | `AdministratorsRemain`, `UpgradesAreNoticed`, `ChannelsHaveOneForm`, `PublishedFormsStay`, `SettingsStayValid`, `BucketsStay`, `RoutesLeadToWork`, `StaffedDepartmentsStay` | two requests have both read before either writes |
| `OneSlot`, `~Reorganised` | `FallbacksAreSet` | the above; a deleted department empties the fallback and leaves the mode |
| `OneSlot`, `~Reactivates` | `SeatsAreLimited` | the above; reactivation does not look at the limit |
| one worker (`OneWorker`) | `PlansAlwaysAgree` | a checkout of the plan it has read leaves the plan another has written |
| one worker, `Ordered`, `Faults = {}` (`InOrder`) | `SettledIsAsAtStripe` | an older event has the last word, or one that failed comes after newer ones |
| `OneThread` | `PasswordsStayCurrent` | two threads generate a password each |
| one upload, one login slot (`OneUpload`, `OneLogin`) | `LimitsAreKept`, `ActiveUsersAreCountedOnce` | the rows of Usage in section 3 |
| `~Faulty` | `UsageIsExact` | an upload that has committed is not recorded |
| `Retriers = {}` | `ErrorsAreFailures` | a retry that overlaps the first attempt |
| `Operations \subseteq Reviewing` | `LockedHaveVerdicts`, `WorkHasOwners`, `QaClaimsHold` | an administrator's handler empties a column |
| `Robins = {}` | `AssignmentsAgree` (batches), `DecisionsStay` | below |
| `~Handlers` | `EscalatedAreQueued`, `DealsAgree` | a scan escalates what was claimed since; a round robin deals it out |

`IsFiniteSet(Conversations)` and `IsFiniteSet(Uploads)` are needed for counting
at all, finite sets of questions and sections for summing. In `ScoresHold` full
answers make the full score where `WeightsArePositive`: the code does not
validate weights, and a section whose visible questions weigh nothing scores 0.

Every property a passing run checks, but for the three of liveness, is stated
by a theorem. Those of the pipeline, the locked reads, the listings, signup and
the log of Stripe's events are proved one by one. Of the other components the
theorem is about what the component promises as a whole, under the name it has
in its module (`SessionsAlwaysHold`, `LoginsAlwaysHold`, `KeysAlwaysHold`,
`AccountRowsHold` with `AccountStepsAlwaysHold`, `ProvisioningAlwaysHolds`,
`FormsAlwaysHold`, `MappingsAlwaysHold`, `RoutesAlwaysHold`,
`SettingsAlwaysHold`, `BillingAlwaysHolds`, `UsageAlwaysHolds`,
`DeliveriesAlwaysHold`, `AnswersAlwaysHold`, `ScoresAlwaysHold`, `BatchesAlwaysHold`, `ReviewAlwaysHolds`): it needs no
hypothesis on who takes part, since the definition says which of its parts
depend on that, and its action properties stand beside it or are part of it. Each
follows from the theorems below about its parts, by cases on the hypotheses of
the table.

**`ReviewRowsProofs`** has no theorem of its own: what the helpers and handlers
of the review return, and what a one-step handler keeps of the tables. The three
modules after it cite these lemmas, whether they split reads from commits or not.

**`ReviewProofs`**: `TypeCorrect`, by typing what each handler leaves
and then each action. The invariant

    IInv == TypeOK /\ ClaimIsExclusive /\ RowsConsistent /\ LookUpsAreReceived

is inductive (`Invariance`). `RowsConsistent` says of every evaluation that its
five values (row, queue row, conversation status, audit status, open
transaction) satisfy `Consistent`, the conjunction of the row-level parts of
the invariants. None of the parts is inductive alone:
`round_robin_assign` preserves the queue part only because unassigned rows of
the QA queue are never past QA (the owner part); backfill selects by
conversation status, so the status part is needed for the queue part; and the
worker's routing, which does not look at the state, needs `ClaimIsExclusive` to
know that the evaluation is still AI_IN_PROGRESS, which in turn needs that no
other step moves such an evaluation (`KeepsClaims`, shown with each step). What a
backfill has looked up must stay a received conversation until it is inserted
(`LookUpsAreReceived`, since `KeepsConversations`).
There is one lemma per handler about the values it leaves, and one step lemma
per group of actions. From `Invariance` follow `ClaimsAreExclusive`,
`AssignmentsAgree`, `QueuesMatchStates`, `OpenAuditsAreQueued`,
`ConversationsMatchStates`, `VerdictsAreLocked`, `VerifiersSeeSubmissions` and
`OpenInsertsAreNew`, which for backfills that overlap is the refusal of the
second insert, and for everything else that no step between insert and commit
gives the conversation an evaluation.

What follows from `IInv` is in three further parts.
Listings agree with the access check (`ListedCanBeRead`) and with the handlers
(`QueuesOfferWork`, `OwnersAreListed`); that what is listed but in progress has an
owner comes from `AssignmentsAgree`. Then the action properties `LocksAreFinal`
and `ClaimsAreNotStolen`: each step is described by how one evaluation row may
change (`KeepsLock`, `KeepsClaim`, together `Lawful`); the handlers' own checks
are enough for most steps, while round robin and the scan select by queue row and
need the queue and owner parts of the invariant, the worker's unchecked routing
needs `ClaimIsExclusive`, and an upload or backfill that commits late needs
`OpenInsertIsNew`. Last, `ReviewImplementsAbstract`: the initial states map to
initial states (`StartsAbstract`), and of every step, a batch or a crash too,
each row moves as the abstract workflow lets it (`Advances`, `StepsAdvance`),
which together make a step of `AbstractReview` or a stutter (`StepsMove`).
`Presentable` is what the mapping needs of a row and `IInv` gives.

**`ReviewSessionsProofs`**: `LockedReadsStayCurrent`, for any number of sessions and
workers. The invariant is the property with the shape of a session; a step
either is the locking session's own, or commits to another evaluation, or would
have had to wait for the lock (`RowIsUnlocked`), which every write of an
`evaluations` row does, locking handler or not. `TypeCorrect` needs nothing
else. The other three are about what is lost between a read without a lock and
its commit, where a commit writes the columns it has changed into whatever the
row has become (`MergeRow`). `ReviewInv` relates the row a session has read to
the row as it is: both are `Sound`, nothing the first had is gone from the
second (`Grown`), and the request is one its row lets through; `Safe` says that
a merge keeps this. It holds because reviewers never empty a score or verdict,
because a row that waits for QA has no verifier, and because the one handler that
takes an owner away has the row locked. `ReviewAlwaysHolds` is the three
together.

**`BulkSessionsProofs`**: scans and round robins that select first and commit
later, next to every handler. `BulkInv` types the batches and says that what is
left of a selection comes from it (`IsBatch`, `RowsRemain`); `AllOwned` is the
agreement of owner and assignee, row by row, with which `AssignmentsAgree`
follows for any number of scans. `DecisionsStay` needs that a late scan changes
nothing but the escalation columns of a row, `EscalatedAreQueued` that no batch
moves an escalated row. A round robin does write owners, from rows it has read
without FOR UPDATE. That any number of them still deal an evaluation to one user
(`DealsAgree`) rests on the row lock of the UPDATE that the autoflush sends
first: without `RowIsFree` in `RobinRead` three that overlap set the evaluation's
owner and the queue row's assignee apart, since each writes only the columns that
differ from what it has read. `DealInv` says that what a round robin has read of
state and owner is what the row has now (`Deals`), because whoever would change
it holds the queue row (`HoldsRow`), which two never do at once; and that the
tables are as round robins and scans leave them (`WaitsForQa`).

**`ServicesProofs`**, a part per service. *StripeBilling*: `MarksApplied` (a
handler that is about to mark has applied its event) gives `MarkedIsApplied` in
every order of deliveries, exceptions and crashes. `OneHandler` (an event whose
row says PROCESSING has at most one handler, and has been applied as often as
that handler has applied it) gives `EventsApplyOnce`. For one worker `PlanInv`
adds to the types that the row it has loaded is the stored one (`RowsAreCurrent`),
so that a commit leaves what it has made of it, and that the checkouts told and the
row have the plan of their subscription at Stripe (`Bought`), which nothing
changes there; in any order of the events, with exceptions and crashes, that gives
`PlansAlwaysAgree`. `SettledInv` goes on to what Stripe has told and the
row does not show yet: events are taken up in turn and once (`InTurn`); the last event
about a subscription tells its status (`EventsTell`); while nothing about the
linked one is to come, the row has its status (`LinkAgrees`); a checkout that waits
is of a subscription not linked yet (`CheckoutsWait`), and while a request waits
to commit Stripe's answer, the event of its change is still to come
(`AnswersWait`): without these the next link or commit would undo the agreement.
*ReviewAnswers*: `Typed`,
`SubmissionIsScored` (a waiting layer carries the score of its answers),
`FinalIsLayer` (what is final is one of the layers), `ReasonsAreGiven` and
`EditsStay` are inductive together; the scoring functions stay opaque, so the
theorems hold whatever they compute. *WebhookDelivery*: a row is not there, and
no retry holds it, before its hook's turn in the fan-out (`Unopened`); a retry holds no
more attempts than were made and never takes `deliveredAt` back (`RetryFits`);
with these `DeliveriesAreTrue` is inductive, and `ErrorsAreFailures` from it.
With one worker `OneHandler` needs no exclusion of exceptions, since nobody else
takes up the event that has failed.

**`CountingProofs`**, what is summed over sets. *UsageMeter*: `LimitsAreKept` from
`Fits` (what an upload carries is not more than the month has left, from check to
record, because nobody else adds to it and a new month starts at zero);
`ActiveUsersAreCountedOnce` from `LastIsSeen` (a user's `lastLoginAt` is in a
month exactly when the user is among that month's). `UsageIsNeverOvercounted` and
`UsageIsExact` compare the sum over the months, and over what uploads under way
have stored and not recorded, with the number of stored conversations: a step
moves one term of a sum, and the sum by as much. *ScorePreview*:
`ScoresStayInScale` and `BetterAnswersScoreMore`, together
`ScoresAlwaysHold`, for every form, through the sums
of a section's and a form's weighted scores, division and rounding. The library's
induction is out of the prover's reach; what a sum over a finite set does (it is
a number, it grows with its terms, one term can be split off) is therefore proved
by a minimal counterexample: the finite sets for which it fails have a minimal
one, by the well-foundedness of strict inclusion on finite sets, and that one is
empty or loses an element.

**`TenantProofs`**, a part per component. *Signup*: `TypeOK`, `OwnTenant` (a request in
the provisioning or after it is the one that inserted the tenant, so two never
share a slug), `CodesAreSent` and `AddressesAreProved` (a verification seen, in
Redis or by a request, was proved by a code sent to that address),
`SessionNeedsProvisioning`. From these `CodesAreNeeded`,
`SessionsNeedProvisioning`, `SlugsAreKept`, under every overlap, expiry and crash.
*TenantProvisioning*: what a run's stage has behind it exists (`Reached`), which
nothing ever drops, gives `ProvisioningIsComplete` for any number of processes and
threads. With one thread `PasswordInv` follows its password: the role's from CREATE
USER on, the stored one from its commit on, that of every engine built after.
*Forms*: `DenseKey` numbers the versions of a key; a creation keeps it because the
number it has read is the next one (`NumberFits`) or the unique index refuses it,
which gives `FormsAreNumbered` under overlap. The serial theorems need that what
the only request has checked is still so when it commits (`FormFits`). *Routing*:
`MappingsStayUnambiguous` under overlap, from `NamedExist` (only departments that
exist are named, also by requests that wait) and the database's part (`Accepts`).
With one slot, `SerialRoutes` adds `RouteFits`, what the only request has read is
still so and what it has routed is `Served`, since each of `Route`'s three
answers leads to a department it has seen active (`RoutesServe`).
*TenantSettings*: `ConfigurationsHaveKeys` under overlap, since a request that
inserts or updates carries a key when nothing was stored (`SettingsOpen`); the
others with `SettingsFit`, what the only request has loaded is what is stored.

**`AccessProofs`**: *LoginSessions*. `LoginInv` is the types, that a request
refers to tokens and codes it could have read (`Referring`), and
`SessionsAreStarted`; it is inductive under every overlap and gives
`SessionsNeedLogin`, `TokensStayEnded` and `RefreshesEndTokens`. With one slot, `SerialInv`
adds that what the request has read is still so (`Current`), which gives
`SerialLoginsHold` and `RevocationsAreComplete`. *IngestKeys*. Keys that are held are used (`HeldAreUsed`), which
makes `KeysStayRevoked` provable with crashes. `CurrentKeysWork`
adds that the keys of running rotations are new and pairwise different
(`NewKeysAreFresh`), and that a current key is the tenant's own and works;
`PreviousKeysGo` that between rotations the current key is the only one
(`OnlyKey`). *Accounts*. `AccountInv` (types, and requests that hold rows of
users there are) gives `DeletionsAreExplicit` under overlap. With one slot, `SerialAccounts` adds
`AccountFits` (the row loaded is the stored one, the seat counted is still free,
another administrator was seen), which gives `AdministratorsRemain`, `SeatsAreLimited`
and `UpgradesAreNoticed`; the numbers of seats are compared with the library's
facts on finite sets.

Model-checked only: liveness under fairness (`RequestReachesQa`,
`EventuallyApplied`, `FanoutCompletes`) and ENABLED, which are beyond the prover.

## 5. Not modelled, and gaps

- The LLM pipeline: everything behind the `if True: ... return` of
  `eval_process` is unreachable, the count of its tokens (`_upsert_usage_metric`) too.
- `billing_service.change_plan` has no caller: the route `/change-plan` only sets
  `pendingPlan` (`Accounts`) and sends a mail. A change of plan in Stripe's portal
  changes neither plan in the database, since subscription events carry no plan the
  code reads; the model's subscriptions keep the plan they were bought with.
- A backfill's inserts without the LLM (straight to QA, or QA_PENDING without a
  queue row) are looked up and inserted in the step that commits them; only inserts
  for the LLM, which send a job, lie apart from look-up and commit. Backfills that wait
  for one another in a longer circle than two are not ended.
- `routers/super_admin.py` is never mounted; `register_api_key` has no caller;
  `approve_tenant` asks for a Redis key `tenant_approval:` that nothing writes
  and always raises.
- Analytics, notifications, request schemas, metrics, health checks and
  migrations, including the column migration at start-up (`main.py`): queries,
  output or declarations, no protocol state.
- The escalation and the audit queue as listings: each lists its rows of
  `workflow_queues` to administrators, who can read everything; which rows there are
  is `QueueMatchesState` and `OpenAuditIsQueued`.
- Blind-review masking of listings and details: a rendering of what `QueueViews` lists.
- Authentication: lookup of a reset link, hashing, encoding of tokens,
  impersonation (a session without a login).
- Platform administration: the catalogue of plans, global notifications, listings.
- Settings: e-mail settings (one upsert), display thresholds and masking flags,
  connectivity test, cost figures.
- Outbound webhooks: the list of events of a hook is fixed, the secret and the
  signature are left out.
- Scoring: float error, text answers, a section whose visible questions have total
  weight 0.
- An upload or ingest batch is modelled one conversation per request; a job of
  conversation A sent before a later conversation of the batch fails is covered
  by `UploadAborts`.
- `remap_corrupted_qa_pending` changes form ids only, which the model has not;
  its statement has a parameter that is not bound.
- Audit resolution and retry are single steps in the session models; backfills are not
  among the transactions of `BulkSessions`.
- Master-database reads inside review handlers (users, rules) are taken as of the step.
- User deactivation: assignees of evaluations are constants, always active.

## 6. Plan

Done: the review pipeline with its faults, overlapping requests and bulk transactions,
answers and scoring, listings; forms, routing, settings, usage, provisioning,
signup, sessions, accounts, keys, billing and outbound webhooks; proofs of
the pipeline's consistency and of its refinement, of overlapping requests and batches,
listings, answers, scores, signup, provisioning, forms, routing, settings, accounts,
sessions, keys, billing, webhooks and usage: every safety and action property of
the passing runs.

Left, in this order:

1. Sessions for audit resolution and retry; the batch shape of an upload.
2. Blind review and the remaining settings.
