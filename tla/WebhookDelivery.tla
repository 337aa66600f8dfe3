-------------------------- MODULE WebhookDelivery --------------------------
(***************************************************************************)
(* Outbound webhooks of one tenant (outbound_webhooks_service.py): the     *)
(* hooks an administrator manages, the fan-out of an event to the hooks    *)
(* that want it, and the retries.  A fan-out posts to one hook after the   *)
(* other and commits before and after each post; sessions keep what they   *)
(* have loaded (expire_on_commit is off) and write the columns they        *)
(* changed.                                                                *)
(***************************************************************************)
EXTENDS Naturals, FiniteSets

CONSTANTS
  Hooks,
  NoHook,
  Events,      \* occurrences of an event, each fanned out once
  Retriers,    \* administrators' retries that may overlap
  MaxAttempts, \* bounds the posts per delivery
  Managed,     \* hooks are deactivated and removed while events are delivered
  MayCrash     \* the process of a fan-out or a retry may die

DeliveryAssumption ==
  /\ NoHook \notin Hooks
  /\ MaxAttempts \in Nat
  /\ Managed \in BOOLEAN /\ MayCrash \in BOOLEAN

VARIABLES
  hook,     \* outbound_webhooks: the status
  delivery, \* outbound_webhook_deliveries: per event and hook
  fanout,   \* what the fan-out of each event is doing
  retry,    \* what each retry is doing
  posts,    \* history: posts made for a delivery
  accepted, \* history: deliveries the receiver has answered with success
  chosen    \* history: the hooks a fan-out started with

vars == <<hook, delivery, fanout, retry, posts, accepted, chosen>>

HookStatus == {"ACTIVE", "INACTIVE"}

NoRow == [status |-> "none"]

DeliveryStatus == {"PENDING", "DELIVERED", "FAILED"}

\* httpStatus goes with deliveredAt, which matters by being set or not.
Delivery == [status : DeliveryStatus, attempts : 1 .. MaxAttempts + 1,
             error : BOOLEAN, delivered : BOOLEAN]

Idle == [at |-> "idle"]

Keys == Events \X Hooks

ActiveHooks == {h \in Hooks : hook[h] = "ACTIVE"}

\* SQLAlchemy writes the columns that differ from what was loaded.
Written(loaded, new, current) ==
  [c \in DOMAIN current |-> IF new[c] = loaded[c] THEN current[c] ELSE new[c]]

-----------------------------------------------------------------------------
(* create, update_status and remove *)

Create(h) ==
  /\ hook[h] = "none"
  /\ hook' = [hook EXCEPT ![h] = "ACTIVE"]
  /\ UNCHANGED <<delivery, fanout, retry, posts, accepted, chosen>>

UpdateStatus(h, status) ==
  /\ Managed
  /\ hook[h] \in HookStatus \ {status}
  /\ hook' = [hook EXCEPT ![h] = status]
  /\ UNCHANGED <<delivery, fanout, retry, posts, accepted, chosen>>

\* Mutant: the hook's deliveries stay.
Remove_KeepsDeliveries(h) ==
  /\ Managed
  /\ hook[h] \in HookStatus
  /\ hook' = [hook EXCEPT ![h] = "removed"]
  /\ UNCHANGED <<delivery, fanout, retry, posts, accepted, chosen>>

\* The deliveries go with the hook (ON DELETE CASCADE).
Remove(h) ==
  /\ Managed
  /\ hook[h] \in HookStatus
  /\ hook' = [hook EXCEPT ![h] = "removed"]
  /\ delivery' = [k \in Keys |-> IF k[2] = h THEN NoRow ELSE delivery[k]]
  /\ UNCHANGED <<fanout, retry, posts, accepted, chosen>>

-----------------------------------------------------------------------------
(* One post and what it makes of a row *)

\* The receiver answers with success or not, or not in time.
Post(k, ok) ==
  /\ posts[k] < MaxAttempts
  /\ posts' = [posts EXCEPT ![k] = @ + 1]
  /\ accepted' = IF ok THEN accepted \cup {k} ELSE accepted

AfterPost(row, ok) ==
  IF ok
  THEN [row EXCEPT !.status = "DELIVERED", !.error = FALSE, !.delivered = TRUE]
  ELSE [row EXCEPT !.status = "FAILED", !.error = TRUE]

-----------------------------------------------------------------------------
(* deliver *)

\* The active hooks are read once.
StartFanout(e) ==
  /\ fanout[e] = Idle /\ chosen[e] = {}
  /\ ActiveHooks # {}
  /\ fanout' = [fanout EXCEPT ![e] =
       [at |-> "open", left |-> ActiveHooks, now |-> NoHook, ok |-> FALSE]]
  /\ chosen' = [chosen EXCEPT ![e] = ActiveHooks]
  /\ UNCHANGED <<hook, delivery, retry, posts, accepted>>

Pending == [status |-> "PENDING", attempts |-> 1, error |-> FALSE, delivered |-> FALSE]

\* The row is committed before the post.
Open(e, h) ==
  /\ fanout[e].at = "open" /\ h \in fanout[e].left
  /\ hook[h] # "removed"
  /\ delivery' = [delivery EXCEPT ![<<e, h>>] = Pending]
  /\ fanout' = [fanout EXCEPT ![e] =
       [at |-> "post", left |-> @.left \ {h}, now |-> h, ok |-> FALSE]]
  /\ UNCHANGED <<hook, retry, posts, accepted, chosen>>

PostFirst(e, ok) ==
  /\ fanout[e].at = "post"
  /\ Post(<<e, fanout[e].now>>, ok)
  /\ fanout' = [fanout EXCEPT ![e].at = "commit", ![e].ok = ok]
  /\ UNCHANGED <<hook, delivery, retry, chosen>>

\* Mutant: the fan-out ends with the first hook that fails.
Following_StopsAtFailure(f) ==
  IF f.left = {} \/ ~f.ok THEN [f EXCEPT !.at = "done"] ELSE [f EXCEPT !.at = "open"]

\* On to the next hook, whatever became of this one.
Following(f) ==
  IF f.left = {} THEN [f EXCEPT !.at = "done"] ELSE [f EXCEPT !.at = "open"]

CommitFirst(e) ==
  /\ fanout[e].at = "commit"
  /\ LET k == <<e, fanout[e].now>>
     IN /\ delivery[k] # NoRow
        /\ delivery' = [delivery EXCEPT ![k] =
             Written(Pending, AfterPost(Pending, fanout[e].ok), @)]
  /\ fanout' = [fanout EXCEPT ![e] = Following(@)]
  /\ UNCHANGED <<hook, retry, posts, accepted, chosen>>

\* The hook has been removed since: inserting its delivery, or updating it
\* after the post, raises out of the loop.
Raise(e) ==
  /\ \/ fanout[e].at = "open" /\ \E h \in fanout[e].left : hook[h] = "removed"
     \/ fanout[e].at = "commit" /\ delivery[<<e, fanout[e].now>>] = NoRow
  /\ fanout' = [fanout EXCEPT ![e].at = "raised"]
  /\ UNCHANGED <<hook, delivery, retry, posts, accepted, chosen>>

-----------------------------------------------------------------------------
(* retry_delivery *)

\* Any delivery is taken, also one that is under way or delivered.
StartRetry(r, k) ==
  /\ retry[r] = Idle
  /\ delivery[k] # NoRow
  /\ retry' = [retry EXCEPT ![r] = [at |-> "post", key |-> k, row |-> delivery[k], ok |-> FALSE]]
  /\ UNCHANGED <<hook, delivery, fanout, posts, accepted, chosen>>

PostAgain(r, ok) ==
  /\ retry[r].at = "post"
  /\ Post(retry[r].key, ok)
  /\ retry' = [retry EXCEPT ![r].at = "commit", ![r].ok = ok]
  /\ UNCHANGED <<hook, delivery, fanout, chosen>>

Retried(row, ok) == [AfterPost(row, ok) EXCEPT !.attempts = @ + 1]

CommitRetry(r) ==
  /\ retry[r].at = "commit"
  /\ LET q == retry[r]
     IN IF delivery[q.key] = NoRow
        THEN UNCHANGED delivery
        ELSE delivery' = [delivery EXCEPT ![q.key] =
               Written(q.row, Retried(q.row, q.ok), @)]
  /\ retry' = [retry EXCEPT ![r] = Idle]
  /\ UNCHANGED <<hook, fanout, posts, accepted, chosen>>

-----------------------------------------------------------------------------

\* The process dies between two steps.
CrashFanout(e) ==
  /\ MayCrash
  /\ fanout[e].at \in {"open", "post", "commit"}
  /\ fanout' = [fanout EXCEPT ![e].at = "crashed"]
  /\ UNCHANGED <<hook, delivery, retry, posts, accepted, chosen>>

CrashRetry(r) ==
  /\ MayCrash
  /\ retry[r] # Idle
  /\ retry' = [retry EXCEPT ![r] = Idle]
  /\ UNCHANGED <<hook, delivery, fanout, posts, accepted, chosen>>

Init ==
  /\ hook = [h \in Hooks |-> "none"]
  /\ delivery = [k \in Keys |-> NoRow]
  /\ fanout = [e \in Events |-> Idle]
  /\ retry = [r \in Retriers |-> Idle]
  /\ posts = [k \in Keys |-> 0]
  /\ accepted = {}
  /\ chosen = [e \in Events |-> {}]

Manage(h) ==
  \/ Create(h) \/ Remove(h)
  \/ \E status \in HookStatus : UpdateStatus(h, status)

Fanout(e) ==
  \/ StartFanout(e) \/ CommitFirst(e) \/ Raise(e) \/ CrashFanout(e)
  \/ \E h \in Hooks : Open(e, h)
  \/ \E ok \in BOOLEAN : PostFirst(e, ok)

Retry(r) ==
  \/ \E k \in Keys : StartRetry(r, k)
  \/ \E ok \in BOOLEAN : PostAgain(r, ok)
  \/ CommitRetry(r) \/ CrashRetry(r)

Next ==
  \/ \E h \in Hooks : Manage(h)
  \/ \E e \in Events : Fanout(e)
  \/ \E r \in Retriers : Retry(r)

Spec == Init /\ [][Next]_vars

\* A fan-out that has started goes on; an administrator need not retry.
Fairness ==
  \A e \in Events :
    WF_vars(\/ \E h \in Hooks : Open(e, h)
            \/ \E ok \in BOOLEAN : PostFirst(e, ok)
            \/ CommitFirst(e) \/ Raise(e))

FairSpec == Spec /\ Fairness

-----------------------------------------------------------------------------

FanoutState ==
  [at : {"open", "post", "commit", "done", "raised", "crashed"},
   left : SUBSET Hooks, now : Hooks \cup {NoHook}, ok : BOOLEAN]

RetryState == [at : {"post", "commit"}, key : Keys, row : Delivery, ok : BOOLEAN]

\* Every variable has its type; a fan-out that posts or commits has a hook.
TypeOK ==
  /\ hook \in [Hooks -> HookStatus \cup {"none", "removed"}]
  /\ delivery \in [Keys -> Delivery \cup {NoRow}]
  /\ fanout \in [Events -> FanoutState \cup {Idle}]
  /\ retry \in [Retriers -> RetryState \cup {Idle}]
  /\ posts \in [Keys -> 0 .. MaxAttempts]
  /\ accepted \subseteq Keys
  /\ chosen \in [Events -> SUBSET Hooks]
  /\ \A e \in Events : fanout[e].at \in {"post", "commit"} => fanout[e].now \in Hooks

Rows == {k \in Keys : delivery[k] # NoRow}

\* A delivery shown as delivered has been accepted by the receiver, however
\* the first attempt and retries overlap, and crash.
DeliveredIsAccepted ==
  \A k \in Rows : delivery[k].status = "DELIVERED" => k \in accepted /\ delivery[k].delivered

\* The attempts shown are never more than the posts made, next to the one
\* under way (attemptCount starts with 1 before the first post).
AttemptsAreMade == \A k \in Rows : delivery[k].attempts <= posts[k] + 1

\* Deliveries go with their hook, also those a fan-out was about to write.
RowsHaveHooks == \A k \in Rows : hook[k[2]] \in HookStatus

\* A delivery shows an error exactly when it has failed: one attempt at a
\* time.
ErrorMeansFailed == \A k \in Rows : delivery[k].error <=> delivery[k].status = "FAILED"

\* A fan-out ends with a delivery for each hook that was active, and none of
\* them is pending; a hook that fails does not keep the others from theirs.
FanoutCompletes ==
  \A e \in Events :
    (chosen[e] # {}) ~>
      \A h \in chosen[e] : delivery[<<e, h>>].status \in {"DELIVERED", "FAILED"}

\* What is shown of deliveries is true however retries overlap them and
\* processes die; without retries an error is shown exactly on failure.
DeliveryHolds ==
  /\ TypeOK /\ DeliveredIsAccepted /\ AttemptsAreMade /\ RowsHaveHooks
  /\ Retriers = {} => ErrorMeansFailed
=============================================================================
