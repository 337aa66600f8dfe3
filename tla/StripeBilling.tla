--------------------------- MODULE StripeBilling ---------------------------
(***************************************************************************)
(* One tenant's subscription (billing_service.py) next to its subscription *)
(* at Stripe.  A worker (a thread or a uvicorn process) serves a webhook   *)
(* delivery or an administrator's request in several steps: it reads the   *)
(* row, calls Stripe, and commits the columns it has changed.  Stripe      *)
(* delivers an event until it is acknowledged.  The platform sets the      *)
(* plan of a tenant past its subscription (platform_admin.py).             *)
(***************************************************************************)
EXTENDS Naturals, Sequences, FiniteSets

CONSTANTS
  Plans,
  FirstPlan,    \* the plan of the trial
  SubIds,       \* ids of subscriptions at Stripe
  NoSub,        \* none: not linked, or not created at Stripe yet
  Workers,
  MaxEvents,    \* bounds what happens at Stripe
  MaxCustomers, \* bounds the customers created at Stripe
  Ordered,      \* Stripe delivers an event after the ones before it
  Faults        \* what may go wrong: "exception", "crash"

VARIABLES
  stripe,     \* the subscriptions at Stripe
  sessions,   \* checkout sessions the customer can complete
  customers,  \* how many customers have been created at Stripe
  events,     \* events Stripe has emitted; an event's id is its position
  acked,      \* events answered with 2xx
  log,        \* stripe_webhook_events: the status of each event's row
  sub,        \* the tenant's row in subscriptions
  tenantPlan, \* tenants.plan
  overruled,  \* history: the platform was the last to set tenants.plan
  invoices,   \* invoices: the one invoice kept per Stripe subscription
  worker,     \* what each worker is doing
  applied     \* history: how often each event was applied

remote == <<stripe, sessions, customers, events>>
plans == <<tenantPlan, overruled>>
local == <<log, sub, plans, invoices, applied>>
vars == <<stripe, sessions, customers, events, acked, log, sub, plans, invoices, worker, applied>>

StripeStatus == {"trialing", "active", "past_due", "unpaid", "incomplete", "canceled", "incomplete_expired"}

\* A subscription at Stripe.
RemoteState == [plan : Plans, status : StripeStatus, cancelling : BOOLEAN]

ASSUME StripeAssumption ==
  /\ FirstPlan \in Plans
  /\ NoSub \notin SubIds \cup RemoteState
  /\ MaxEvents \in Nat
  /\ MaxCustomers \in Nat
  /\ Ordered \in BOOLEAN
  /\ Faults \subseteq {"exception", "crash"}

SubStatus == {"TRIALING", "ACTIVE", "PAST_DUE", "CANCELLED"}

Ids == 1 .. MaxEvents

NoCustomer == 0

\* cancelledAt matters by being set or not; the period is left out.
Subscription ==
  [plan : Plans, status : SubStatus, cancelled : BOOLEAN,
   stripe : SubIds \cup {NoSub}, customer : 0 .. MaxCustomers]

Idle == [op |-> "idle"]

ToSubStatus(status) ==
  CASE status = "trialing" -> "TRIALING"
    [] status = "active" -> "ACTIVE"
    [] status \in {"past_due", "unpaid", "incomplete"} -> "PAST_DUE"
    [] status \in {"canceled", "incomplete_expired"} -> "CANCELLED"
    [] OTHER -> "ACTIVE"

ToInvoiceStatus(status) ==
  CASE status = "paid" -> "PAID"
    [] status = "open" -> "OPEN"
    [] status = "void" -> "VOID"
    [] status = "uncollectible" -> "UNCOLLECTIBLE"
    [] OTHER -> "DRAFT"

\* SQLAlchemy writes the columns that differ from what was loaded.
Written(loaded, new, current) ==
  [c \in DOMAIN current |-> IF new[c] = loaded[c] THEN current[c] ELSE new[c]]

-----------------------------------------------------------------------------
(* Stripe *)

Emit(es) ==
  /\ Len(events) + Len(es) <= MaxEvents
  /\ events' = events \o es

\* Requests whose call of Stripe will emit an event.
Modifying == {w \in Workers : worker[w].op \in {"cancel", "resume"}}

\* Bound: room for n more events, next to those of the requests under way.
MayEmit(n) == Len(events) + n + Cardinality(Modifying) <= MaxEvents

SubEvent(s, state) ==
  [type |-> "subscription", sub |-> s, status |-> state.status, cancelled |-> state.cancelling]

InvoiceEvent(s, status) ==
  [type |-> "invoice", sub |-> s, failed |-> status = "past_due",
   status |-> IF status = "active" THEN "paid" ELSE "open"]

\* The customer completes a checkout: a new subscription and its first paid
\* invoice, announced before or after the completed session.
CompleteCheckout(s, session) ==
  /\ session \in sessions
  /\ stripe[s] = NoSub
  /\ MayEmit(3)
  /\ LET state == [plan |-> session.plan, status |-> "active", cancelling |-> FALSE]
         done == [type |-> "checkout", sub |-> s, plan |-> session.plan,
                  customer |-> session.customer]
     IN /\ stripe' = [stripe EXCEPT ![s] = state]
        /\ \/ Emit(<<SubEvent(s, state), InvoiceEvent(s, "active"), done>>)
           \/ Emit(<<done, SubEvent(s, state), InvoiceEvent(s, "active")>>)
  /\ sessions' = sessions \ {session}
  /\ UNCHANGED <<customers, acked, worker, local>>

Alive(s) == stripe[s] # NoSub /\ stripe[s].status # "canceled"

\* A renewal is paid or fails.
Charge(s, status) ==
  /\ Alive(s) /\ stripe[s].status # status
  /\ MayEmit(2)
  /\ LET state == [stripe[s] EXCEPT !.status = status]
     IN /\ stripe' = [stripe EXCEPT ![s] = state]
        /\ Emit(<<SubEvent(s, state), InvoiceEvent(s, status)>>)
  /\ UNCHANGED <<sessions, customers, acked, worker, local>>

\* The subscription ends, at the end of the period or through the portal.
EndSubscription(s) ==
  /\ Alive(s)
  /\ MayEmit(1)
  /\ LET state == [stripe[s] EXCEPT !.status = "canceled", !.cancelling = TRUE]
     IN /\ stripe' = [stripe EXCEPT ![s] = state]
        /\ Emit(<<SubEvent(s, state)>>)
  /\ UNCHANGED <<sessions, customers, acked, worker, local>>

-----------------------------------------------------------------------------
(* handle_stripe_webhook *)

Deliverable(e) ==
  /\ e \in 1 .. Len(events) \ acked
  /\ Ordered => 1 .. e - 1 \subseteq acked

\* Mutant: an event that is being processed is processed again.
Settled_ProcessedOnly(e) == log[e] = "PROCESSED"

\* Mutant: a failed event is taken for one in progress.
Settled_FailedToo(e) == log[e] # "none"

\* The row says that there is nothing to do.
Settled(e) == log[e] \in {"PROCESSED", "PROCESSING"}

\* A delivery reads the event's row first.
Receive(w, e) ==
  /\ worker[w] = Idle /\ Deliverable(e)
  /\ IF Settled(e)
     THEN acked' = acked \cup {e} /\ UNCHANGED worker
     ELSE /\ worker' = [worker EXCEPT ![w] = [op |-> "read", event |-> e, seen |-> log[e]]]
          /\ UNCHANGED acked
  /\ UNCHANGED <<remote, local>>

\* The insert of a second row for the event fails.
UniqueEvent(e, seen) == seen = "none" => log[e] = "none"

\* Insert the row, or take a failed one up again.
Log(w) ==
  /\ worker[w].op = "read"
  /\ LET e == worker[w].event
     IN /\ UniqueEvent(e, worker[w].seen)
        /\ log' = [log EXCEPT ![e] = "PROCESSING"]
        /\ worker' = [worker EXCEPT ![w] = [op |-> "logged", event |-> e]]
  /\ UNCHANGED <<remote, acked, sub, plans, invoices, applied>>

Duplicate(w) ==
  /\ worker[w].op = "read"
  /\ ~UniqueEvent(worker[w].event, worker[w].seen)
  /\ worker' = [worker EXCEPT ![w] = Idle]
  /\ UNCHANGED <<remote, acked, local>>

\* _process_stripe_event reads the rows it will write.
Load(w) ==
  /\ worker[w].op = "logged"
  /\ LET e == worker[w].event
     IN worker' = [worker EXCEPT ![w] =
          [op |-> "loaded", event |-> e, row |-> sub, invoice |-> invoices[events[e].sub]]]
  /\ UNCHANGED <<remote, acked, local>>

\* Mutant: a checkout leaves the status of the trial or the old subscription.
AfterEvent_CheckoutKeepsStatus(row, event) ==
  IF event.type = "checkout"
  THEN [row EXCEPT !.plan = event.plan, !.stripe = event.sub, !.customer = event.customer]
  ELSE IF row.stripe # event.sub THEN row
  ELSE IF event.type = "subscription"
  THEN [row EXCEPT !.status = ToSubStatus(event.status), !.cancelled = event.cancelled]
  ELSE [row EXCEPT !.status = IF event.failed THEN "PAST_DUE" ELSE "ACTIVE"]

\* What an event makes of the subscription's row; an event of a subscription
\* that is not the linked one is dropped.
AfterEvent(row, event) ==
  CASE event.type = "checkout" ->
         [row EXCEPT !.plan = event.plan, !.status = "ACTIVE",
                     !.stripe = event.sub, !.customer = event.customer]
    [] event.type # "checkout" /\ row.stripe # event.sub -> row
    [] event.type = "subscription" /\ row.stripe = event.sub ->
         [row EXCEPT !.status = ToSubStatus(event.status), !.cancelled = event.cancelled]
    [] event.type = "invoice" /\ row.stripe = event.sub ->
         [row EXCEPT !.status = IF event.failed THEN "PAST_DUE" ELSE "ACTIVE"]

Invoiced(row, event) == event.type = "invoice" /\ row.stripe = event.sub

\* The commit of _process_stripe_event.  Of two handlers that insert one
\* invoice the second fails.
ApplyEvent(w) ==
  /\ worker[w].op = "loaded"
  /\ LET e == worker[w].event
         event == events[e]
         row == worker[w].row
     IN /\ Invoiced(row, event) => worker[w].invoice # "none" \/ invoices[event.sub] = "none"
        /\ sub' = Written(row, AfterEvent(row, event), sub)
        /\ IF event.type = "checkout"
           THEN tenantPlan' = event.plan /\ overruled' = FALSE
           ELSE UNCHANGED plans
        /\ invoices' = IF Invoiced(row, event)
                       THEN [invoices EXCEPT ![event.sub] = ToInvoiceStatus(event.status)]
                       ELSE invoices
        /\ applied' = [applied EXCEPT ![e] = @ + 1]
        /\ worker' = [worker EXCEPT ![w] = [op |-> "applied", event |-> e]]
  /\ UNCHANGED <<remote, acked, log>>

\* Mutant: the event is marked before it is applied.
Mark_Early(w) ==
  /\ worker[w].op \in {"logged", "applied"}
  /\ LET e == worker[w].event
     IN /\ log' = [log EXCEPT ![e] = "PROCESSED"]
        /\ acked' = acked \cup {e}
  /\ worker' = [worker EXCEPT ![w] = Idle]
  /\ UNCHANGED <<remote, sub, plans, invoices, applied>>

Mark(w) ==
  /\ worker[w].op = "applied"
  /\ LET e == worker[w].event
     IN /\ log' = [log EXCEPT ![e] = "PROCESSED"]
        /\ acked' = acked \cup {e}
  /\ worker' = [worker EXCEPT ![w] = Idle]
  /\ UNCHANGED <<remote, sub, plans, invoices, applied>>

\* What an event of the subscription has made of the row before its period is
\* found to be missing.
HalfDone(row, event) ==
  IF event.type = "subscription" /\ row.stripe = event.sub
  THEN [row EXCEPT !.status = ToSubStatus(event.status)]
  ELSE row

\* _process_stripe_event raises before its commit: FAILED and a 500.  The commit
\* of FAILED takes along what has been assigned to the row.
Throw(w) ==
  /\ "exception" \in Faults
  /\ worker[w].op \in {"logged", "loaded"}
  /\ LET e == worker[w].event
     IN /\ log' = [log EXCEPT ![e] = "FAILED"]
        /\ \/ UNCHANGED sub
           \/ /\ worker[w].op = "loaded"
              /\ sub' = Written(worker[w].row, HalfDone(worker[w].row, events[e]), sub)
  /\ worker' = [worker EXCEPT ![w] = Idle]
  /\ UNCHANGED <<remote, acked, plans, invoices, applied>>

\* The invoice's insert fails in the flush: the session can no longer commit
\* FAILED, and the event stays PROCESSING.
InvoiceClash(w) ==
  /\ worker[w].op = "loaded"
  /\ LET event == events[worker[w].event]
     IN /\ Invoiced(worker[w].row, event)
        /\ worker[w].invoice = "none" /\ invoices[event.sub] # "none"
  /\ worker' = [worker EXCEPT ![w] = Idle]
  /\ UNCHANGED <<remote, acked, local>>

-----------------------------------------------------------------------------
(* _toggle_cancel *)

\* A request reads the row, and needs a linked subscription.
BeginModify(w, op) ==
  /\ worker[w] = Idle
  /\ sub.stripe # NoSub
  /\ MayEmit(1)
  /\ worker' = [worker EXCEPT ![w] = [op |-> op, row |-> sub]]
  /\ UNCHANGED <<remote, acked, local>>

\* stripe.Subscription.modify; a cancelled subscription is refused.
Modify(w) ==
  /\ worker[w].op \in {"cancel", "resume"}
  /\ LET s == worker[w].row.stripe
         state == [stripe[s] EXCEPT !.cancelling = worker[w].op = "cancel"]
     IN /\ Alive(s)
        /\ stripe' = [stripe EXCEPT ![s] = state]
        /\ Emit(<<SubEvent(s, state)>>)
        /\ worker' = [worker EXCEPT ![w] =
             [op |-> "modified", row |-> worker[w].row, answer |-> state]]
  /\ UNCHANGED <<sessions, customers, acked, local>>

Refuse(w) ==
  /\ worker[w].op \in {"cancel", "resume"}
  /\ ~Alive(worker[w].row.stripe)
  /\ worker' = [worker EXCEPT ![w] = Idle]
  /\ UNCHANGED <<remote, acked, local>>

\* The row after Stripe's answer.
FromAnswer(row, answer) ==
  [row EXCEPT !.status = ToSubStatus(answer.status), !.cancelled = answer.cancelling]

CommitModify(w) ==
  /\ worker[w].op = "modified"
  /\ LET q == worker[w]
     IN sub' = Written(q.row, FromAnswer(q.row, q.answer), sub)
  /\ worker' = [worker EXCEPT ![w] = Idle]
  /\ UNCHANGED <<remote, acked, log, plans, invoices, applied>>

-----------------------------------------------------------------------------
(* create_checkout_session *)

\* The row is read; without a customer id one is created at Stripe.
BeginCheckout(w, plan) ==
  /\ worker[w] = Idle
  /\ IF sub.customer # NoCustomer
     THEN /\ worker' = [worker EXCEPT ![w] =
               [op |-> "session", plan |-> plan, customer |-> sub.customer]]
          /\ UNCHANGED customers
     ELSE /\ customers < MaxCustomers
          /\ customers' = customers + 1
          /\ worker' = [worker EXCEPT ![w] =
               [op |-> "customer", plan |-> plan, row |-> sub, customer |-> customers + 1]]
  /\ UNCHANGED <<stripe, sessions, events, acked, local>>

StoreCustomer(w) ==
  /\ worker[w].op = "customer"
  /\ LET q == worker[w]
     IN /\ sub' = Written(q.row, [q.row EXCEPT !.customer = q.customer], sub)
        /\ worker' = [worker EXCEPT ![w] =
             [op |-> "session", plan |-> q.plan, customer |-> q.customer]]
  /\ UNCHANGED <<remote, acked, log, plans, invoices, applied>>

OpenSession(w) ==
  /\ worker[w].op = "session"
  /\ sessions' = sessions \cup {[plan |-> worker[w].plan, customer |-> worker[w].customer]}
  /\ worker' = [worker EXCEPT ![w] = Idle]
  /\ UNCHANGED <<stripe, customers, events, acked, local>>

-----------------------------------------------------------------------------
(* update_tenant_plan of the platform *)

\* The tenant's plan alone is set, the subscription keeps its own.
SetPlan(plan) ==
  /\ tenantPlan' = plan
  /\ overruled' = TRUE
  /\ UNCHANGED <<remote, acked, log, sub, invoices, worker, applied>>

-----------------------------------------------------------------------------

\* The process dies, or the database is lost for the rest of the handler.
Crash(w) ==
  /\ "crash" \in Faults
  /\ worker[w] # Idle
  /\ worker' = [worker EXCEPT ![w] = Idle]
  /\ UNCHANGED <<remote, acked, local>>

Init ==
  /\ stripe = [s \in SubIds |-> NoSub]
  /\ sessions = {}
  /\ customers = 0
  /\ events = <<>>
  /\ acked = {}
  /\ log = [e \in Ids |-> "none"]
  /\ sub = [plan |-> FirstPlan, status |-> "TRIALING", cancelled |-> FALSE,
            stripe |-> NoSub, customer |-> NoCustomer]
  /\ tenantPlan = FirstPlan
  /\ overruled = FALSE
  /\ invoices = [s \in SubIds |-> "none"]
  /\ worker = [w \in Workers |-> Idle]
  /\ applied = [e \in Ids |-> 0]

Stripe ==
  \E s \in SubIds :
    \/ \E session \in sessions : CompleteCheckout(s, session)
    \/ \E status \in {"active", "past_due"} : Charge(s, status)
    \/ EndSubscription(s)

Webhook(w) ==
  \/ \E e \in Ids : Receive(w, e)
  \/ Log(w) \/ Duplicate(w) \/ Load(w) \/ ApplyEvent(w) \/ Mark(w)
  \/ Throw(w) \/ InvoiceClash(w)

Request(w) ==
  \/ \E plan \in Plans : BeginCheckout(w, plan)
  \/ \E op \in {"cancel", "resume"} : BeginModify(w, op)
  \/ Modify(w) \/ Refuse(w) \/ CommitModify(w)
  \/ StoreCustomer(w) \/ OpenSession(w)

Next ==
  \/ Stripe
  \/ \E plan \in Plans : SetPlan(plan)
  \/ \E w \in Workers : Webhook(w) \/ Request(w) \/ Crash(w)

Spec == Init /\ [][Next]_vars

\* The steps of a handler that nothing prevents.
GoOn(w) ==
  \/ Log(w) \/ Duplicate(w) \/ Mark(w) \/ InvoiceClash(w)
  \/ Modify(w) \/ Refuse(w) \/ CommitModify(w)
  \/ StoreCustomer(w) \/ OpenSession(w)

\* Stripe delivers again and again, a handler that has started goes on, and
\* an exception does not hit every attempt.
Fairness ==
  \A w \in Workers :
    /\ \A e \in Ids : SF_vars(Receive(w, e))
    /\ WF_vars(GoOn(w))
    /\ SF_vars(Load(w)) /\ SF_vars(ApplyEvent(w))

FairSpec == Spec /\ Fairness

-----------------------------------------------------------------------------

Event ==
  [type : {"checkout"}, sub : SubIds, plan : Plans, customer : 1 .. MaxCustomers]
  \cup [type : {"subscription"}, sub : SubIds, status : StripeStatus, cancelled : BOOLEAN]
  \cup [type : {"invoice"}, sub : SubIds, failed : BOOLEAN, status : {"paid", "open"}]

InvoiceStatus == {"none", "DRAFT", "OPEN", "PAID", "VOID", "UNCOLLECTIBLE"}

LogStatus == {"none", "PROCESSING", "PROCESSED", "FAILED"}

Task ==
  {Idle}
  \cup [op : {"read"}, event : Ids, seen : LogStatus]
  \cup [op : {"logged", "applied"}, event : Ids]
  \cup [op : {"loaded"}, event : Ids, row : Subscription, invoice : InvoiceStatus]
  \cup [op : {"cancel", "resume"}, row : Subscription]
  \cup [op : {"modified"}, row : Subscription, answer : RemoteState]
  \cup [op : {"customer"}, plan : Plans, row : Subscription, customer : 1 .. MaxCustomers]
  \cup [op : {"session"}, plan : Plans, customer : 1 .. MaxCustomers]

\* Every variable has its type; what a worker handles and what has a log row
\* was emitted; the subscription a request modifies exists at Stripe.
TypeOK ==
  /\ stripe \in [SubIds -> RemoteState \cup {NoSub}]
  /\ sessions \subseteq [plan : Plans, customer : 1 .. MaxCustomers]
  /\ customers \in 0 .. MaxCustomers
  /\ events \in Seq(Event) /\ Len(events) <= MaxEvents
  /\ acked \subseteq 1 .. Len(events)
  /\ log \in [Ids -> LogStatus]
  /\ sub \in Subscription
  /\ tenantPlan \in Plans
  /\ overruled \in BOOLEAN
  /\ invoices \in [SubIds -> InvoiceStatus]
  /\ worker \in [Workers -> Task]
  /\ applied \in [Ids -> Nat]
  /\ \A w \in Workers :
       /\ worker[w].op \in {"read", "logged", "loaded", "applied"} => worker[w].event <= Len(events)
       /\ worker[w].op \in {"cancel", "resume"} => worker[w].row.stripe # NoSub

\* An event is PROCESSED only once its changes are committed, whatever order
\* its deliveries, retries and crashes come in (handle_stripe_webhook).
AppliedBeforeProcessed == \A e \in Ids : log[e] = "PROCESSED" => applied[e] > 0

\* Duplicate and repeated deliveries do not apply an event twice: the row is
\* written before the work, and its key is unique.
AppliedOnce == \A e \in Ids : applied[e] <= 1

\* One worker at a time, the subscription and the tenant show one plan unless the
\* platform has set the tenant's since: a completed checkout writes both in one
\* commit.  (Of two workers, one whose checkout brings the plan it has read leaves
\* the row's plan as the other has written it, and writes its own into the tenant's.)
PlansAgree == overruled \/ sub.plan = tenantPlan

\* One worker at a time, the plan in the row is the one that was bought with the
\* linked subscription, between all steps, in any order of the events, with
\* exceptions and crashes.  (Two completed checkouts that overlap link the one
\* and keep the plan of the other.)
PlanIsBought == sub.stripe # NoSub => sub.plan = stripe[sub.stripe].plan

AllSettled ==
  /\ acked = 1 .. Len(events)
  /\ \A w \in Workers : worker[w] = Idle

\* When all events are answered, the status is that of the linked subscription at
\* Stripe, however requests and deliveries alternated.
SettledAgrees ==
  AllSettled /\ sub.stripe # NoSub => sub.status = ToSubStatus(stripe[sub.stripe].status)

\* Every event is applied in the end, although handling it may fail.
EventuallyApplied == \A e \in Ids : (Len(events) >= e) ~> (applied[e] > 0)

OneWorker == \A v, w \in Workers : v = w

\* Nothing fails, and Stripe's events come in order.
InOrder == OneWorker /\ Ordered /\ Faults = {}

\* With one worker the plans are those of subscription, tenant and purchase; with
\* nothing failing and events in order, the status is the one at Stripe.
BillingHolds ==
  TypeOK /\ (OneWorker => PlansAgree /\ PlanIsBought) /\ (InOrder => SettledAgrees)
=============================================================================
