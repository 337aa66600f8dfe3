---------------------------- MODULE ServicesProofs ---------------------------
(***************************************************************************)
(* Proofs about what the review does not touch, service after service.     *)
(*                                                                         *)
(* StripeBilling: for any number of events, workers, plans and             *)
(* subscriptions, in any order of delivery.  For the log of events what an *)
(* event makes of the rows is not looked into.  What the rows show is for  *)
(* one worker: it follows the plan from its purchase on, and what Stripe   *)
(* has told but the rows do not show yet.                                  *)
(*                                                                         *)
(* ReviewAnswers: for every set of questions, values and forms and any     *)
(* number of rounds.  How a score is computed is never looked into: the    *)
(* proofs hold for every function of form and answers.                     *)
(*                                                                         *)
(* WebhookDelivery: for any number of hooks, events and retries, with a    *)
(* process that may die at every step.                                     *)
(***************************************************************************)
EXTENDS StripeBilling, ReviewAnswers, FiniteSetTheorems, TLAPS

CONSTANTS Hooks, NoHook, Events, Retriers, MaxAttempts, Managed, MayCrash  \* WebhookDelivery

VARIABLES hook, delivery, fanout, retry, posts, accepted, chosen           \* WebhookDelivery

Hook == INSTANCE WebhookDelivery

-----------------------------------------------------------------------------
(* StripeBilling *)

\* The shape of the variables that count deliveries.
Shape ==
  /\ worker = [w \in Workers |-> worker[w]]
  /\ log = [e \in Ids |-> log[e]]
  /\ applied \in [Ids -> Nat]
  /\ \A w \in Workers :
       worker[w].op \in {"read", "logged", "loaded", "applied"} => worker[w].event \in Ids

\* A handler that comes to mark its event has applied it.
MarksApplied ==
  /\ AppliedBeforeProcessed
  /\ \A w \in Workers : worker[w].op = "applied" => applied[worker[w].event] > 0

RInv == Shape /\ MarksApplied

Handles(w) == worker[w].op \in {"logged", "loaded", "applied"}

\* Without exceptions an event has one handler at most, which holds its row at
\* PROCESSING and has applied it once, or not yet.
OneHandler ==
  /\ \A w \in Workers : worker[w].op = "read" => worker[w].seen = "none"
  /\ \A w \in Workers : Handles(w) =>
       /\ log[worker[w].event] = "PROCESSING"
       /\ applied[worker[w].event] = IF worker[w].op = "applied" THEN 1 ELSE 0
       /\ \A v \in Workers : Handles(v) /\ worker[v].event = worker[w].event => v = w
  /\ \A e \in Ids : /\ log[e] \in {"none", "PROCESSING", "PROCESSED"}
                    /\ log[e] = "none" => applied[e] = 0

IInv == RInv /\ OneHandler /\ AppliedOnce

-----------------------------------------------------------------------------
(* The steps of a delivery *)

\* Whatever a step does, it is one of these for the log and the handlers.
Progress(w, task) == worker' = [worker EXCEPT ![w] = task]

Untouched == UNCHANGED <<log, applied>>

DeliveryStep(w) ==
  \/ \E e \in Ids : /\ worker[w] = Idle
                    /\ ~Settled(e)
                    /\ Progress(w, [op |-> "read", event |-> e, seen |-> log[e]])
                    /\ Untouched
  \/ /\ worker[w].op = "read"
     /\ UniqueEvent(worker[w].event, worker[w].seen)
     /\ log' = [log EXCEPT ![worker[w].event] = "PROCESSING"]
     /\ Progress(w, [op |-> "logged", event |-> worker[w].event])
     /\ UNCHANGED applied
  \/ /\ worker[w].op = "logged"
     /\ Progress(w, [op |-> "loaded", event |-> worker[w].event, row |-> sub,
                     invoice |-> invoices[events[worker[w].event].sub]])
     /\ Untouched
  \/ /\ worker[w].op = "loaded"
     /\ applied' = [applied EXCEPT ![worker[w].event] = @ + 1]
     /\ Progress(w, [op |-> "applied", event |-> worker[w].event])
     /\ UNCHANGED log
  \/ /\ worker[w].op = "applied"
     /\ log' = [log EXCEPT ![worker[w].event] = "PROCESSED"]
     /\ Progress(w, Idle)
     /\ UNCHANGED applied
  \/ /\ "exception" \in Faults
     /\ worker[w].op \in {"logged", "loaded"}
     /\ log' = [log EXCEPT ![worker[w].event] = "FAILED"]
     /\ Progress(w, Idle)
     /\ UNCHANGED applied

\* A worker serves a request of an administrator, or ends.
OtherStep(w) ==
  /\ Untouched
  /\ \E task : /\ Progress(w, task)
               /\ task.op \notin {"read", "logged", "loaded", "applied"}

LEMMA OtherTask ==
  ASSUME NEW w \in Workers, NEW task, Progress(w, task), Untouched,
         task.op \notin {"read", "logged", "loaded", "applied"}
  PROVE  OtherStep(w)
  BY DEF OtherStep

LEMMA Steps ==
  ASSUME [Next]_vars
  PROVE  \/ UNCHANGED <<worker, log, applied>>
         \/ \E w \in Workers : DeliveryStep(w) \/ OtherStep(w)
<1> USE DEF Progress, Untouched, remote, local, plans
<1>1. CASE Stripe \/ (\E plan \in Plans : SetPlan(plan)) \/ UNCHANGED vars
  BY <1>1 DEF Stripe, CompleteCheckout, Charge, EndSubscription, SetPlan, vars
<1>2. ASSUME NEW w \in Workers, Webhook(w)
      PROVE  UNCHANGED <<worker, log, applied>> \/ DeliveryStep(w) \/ OtherStep(w)
  <2>1. ASSUME NEW e \in Ids, Receive(w, e)
        PROVE  UNCHANGED <<worker, log, applied>> \/ DeliveryStep(w)
    BY <2>1 DEF Receive, DeliveryStep
  <2>2. CASE Log(w)
    BY <2>2 DEF Log, DeliveryStep
  <2>3. CASE Duplicate(w) \/ InvoiceClash(w)
    <3>1. Progress(w, Idle) /\ Untouched
      BY <2>3 DEF Duplicate, InvoiceClash
    <3>2. Idle.op = "idle"
      BY DEF Idle
    <3> QED BY <3>1, <3>2, OtherTask
  <2>4. CASE Load(w)
    BY <2>4 DEF Load, DeliveryStep
  <2>5. CASE ApplyEvent(w)
    BY <2>5 DEF ApplyEvent, DeliveryStep
  <2>6. CASE Mark(w)
    BY <2>6 DEF Mark, DeliveryStep
  <2>7. CASE Throw(w)
    BY <2>7 DEF Throw, DeliveryStep
  <2> QED BY <1>2, <2>1, <2>2, <2>3, <2>4, <2>5, <2>6, <2>7 DEF Webhook
<1>3. ASSUME NEW w \in Workers, Request(w) PROVE OtherStep(w)
  <2> HIDE DEF Progress
  <2>0. Idle.op = "idle"
    BY DEF Idle
  <2>1. ASSUME NEW op \in {"cancel", "resume"}, BeginModify(w, op)
        PROVE  OtherStep(w)
    <3>1. Progress(w, [op |-> op, row |-> sub]) /\ Untouched
      BY <2>1 DEF BeginModify, Progress
    <3> QED BY <3>1, OtherTask
  <2>2. ASSUME NEW plan, BeginCheckout(w, plan) PROVE OtherStep(w)
    <3>1. /\ Untouched
          /\ \/ Progress(w, [op |-> "session", plan |-> plan, customer |-> sub.customer])
             \/ Progress(w, [op |-> "customer", plan |-> plan, row |-> sub,
                             customer |-> customers + 1])
      BY <2>2 DEF BeginCheckout, Progress
    <3> QED BY <3>1, OtherTask
  <2>3. CASE Modify(w)
    <3>1. PICK answer :
            Progress(w, [op |-> "modified", row |-> worker[w].row, answer |-> answer])
      BY <2>3 DEF Modify, Progress
    <3>2. Untouched
      BY <2>3 DEF Modify
    <3> QED BY <3>1, <3>2, OtherTask
  <2>4. CASE Refuse(w) \/ CommitModify(w) \/ OpenSession(w)
    <3>1. Progress(w, Idle) /\ Untouched
      BY <2>4 DEF Refuse, CommitModify, OpenSession, Progress
    <3> QED BY <2>0, <3>1, OtherTask
  <2>5. CASE StoreCustomer(w)
    <3>1. /\ Progress(w, [op |-> "session", plan |-> worker[w].plan,
                          customer |-> worker[w].customer])
          /\ Untouched
      BY <2>5 DEF StoreCustomer, Progress
    <3> QED BY <3>1, OtherTask
  <2> QED BY <1>3, <2>1, <2>2, <2>3, <2>4, <2>5 DEF Request
<1>4. ASSUME NEW w \in Workers, Crash(w) PROVE OtherStep(w)
  <2>1. Progress(w, Idle) /\ Untouched
    BY <1>4 DEF Crash
  <2>2. Idle.op = "idle"
    BY DEF Idle
  <2> QED BY <2>1, <2>2, OtherTask
<1> QED BY <1>1, <1>2, <1>3, <1>4 DEF Next

-----------------------------------------------------------------------------
(* Nothing is marked that was not applied *)

LEMMA RStep ==
  ASSUME RInv, [Next]_vars
  PROVE  RInv'
<1> USE DEF RInv, Shape, MarksApplied, AppliedBeforeProcessed
<1>1. CASE UNCHANGED <<worker, log, applied>>
  BY <1>1
<1>2. ASSUME NEW w \in Workers, DeliveryStep(w) PROVE RInv'
  BY <1>2 DEF DeliveryStep, Progress, Untouched, Idle
<1>3. ASSUME NEW w \in Workers, OtherStep(w) PROVE RInv'
  BY <1>3 DEF OtherStep, Progress, Untouched
<1> QED BY <1>1, <1>2, <1>3, Steps

-----------------------------------------------------------------------------
(* One handler for an event *)

LEMMA HandlerStep ==
  ASSUME "exception" \notin Faults, IInv, [Next]_vars
  PROVE  (OneHandler /\ AppliedOnce)'
<1> USE DEF IInv, RInv, Shape, OneHandler, AppliedOnce, Handles
<1>1. CASE UNCHANGED <<worker, log, applied>>
  BY <1>1
<1>2. ASSUME NEW w \in Workers, OtherStep(w) PROVE (OneHandler /\ AppliedOnce)'
  BY <1>2 DEF OtherStep, Progress, Untouched
<1>3. ASSUME NEW w \in Workers, DeliveryStep(w) PROVE (OneHandler /\ AppliedOnce)'
  <2>1. ASSUME NEW e \in Ids, worker[w] = Idle, ~Settled(e), Untouched,
               Progress(w, [op |-> "read", event |-> e, seen |-> log[e]])
        PROVE  (OneHandler /\ AppliedOnce)'
    BY <2>1 DEF Settled, Progress, Untouched
  <2>2. CASE /\ worker[w].op = "read"
             /\ UniqueEvent(worker[w].event, worker[w].seen)
             /\ log' = [log EXCEPT ![worker[w].event] = "PROCESSING"]
             /\ Progress(w, [op |-> "logged", event |-> worker[w].event])
             /\ UNCHANGED applied
    BY <2>2 DEF UniqueEvent, Progress
  <2>3. CASE /\ worker[w].op = "logged"
             /\ Progress(w, [op |-> "loaded", event |-> worker[w].event, row |-> sub,
                             invoice |-> invoices[events[worker[w].event].sub]])
             /\ Untouched
    BY <2>3 DEF Progress, Untouched
  <2>4. CASE /\ worker[w].op = "loaded"
             /\ applied' = [applied EXCEPT ![worker[w].event] = @ + 1]
             /\ Progress(w, [op |-> "applied", event |-> worker[w].event])
             /\ UNCHANGED log
    BY <2>4 DEF Progress
  <2>5. CASE /\ worker[w].op = "applied"
             /\ log' = [log EXCEPT ![worker[w].event] = "PROCESSED"]
             /\ Progress(w, Idle)
             /\ UNCHANGED applied
    BY <2>5 DEF Progress, Idle
  <2> QED BY <1>3, <2>1, <2>2, <2>3, <2>4, <2>5 DEF DeliveryStep
<1> QED BY <1>1, <1>2, <1>3, Steps

\* With one worker an event that failed, or whose row is only read, was not
\* applied, whatever exceptions and crashes came before.
LoneHandler ==
  /\ \A w \in Workers :
       /\ worker[w].op \in {"read", "logged", "loaded"} => applied[worker[w].event] = 0
       /\ worker[w].op = "applied" => applied[worker[w].event] = 1
       /\ Handles(w) => Settled(worker[w].event)
  /\ \A e \in Ids : ~Settled(e) => applied[e] = 0
  /\ AppliedOnce

LEMMA LoneStep ==
  ASSUME OneWorker, RInv, LoneHandler, [Next]_vars
  PROVE  LoneHandler'
<1> USE DEF RInv, Shape, LoneHandler, AppliedOnce, Handles, Settled
<1>1. CASE UNCHANGED <<worker, log, applied>>
  BY <1>1
<1>2. ASSUME NEW w \in Workers, OtherStep(w) PROVE LoneHandler'
  BY <1>2 DEF OtherStep, Progress, Untouched
<1>3. ASSUME NEW w \in Workers, DeliveryStep(w) PROVE LoneHandler'
  <2> USE DEF OneWorker
  <2>1. ASSUME NEW e \in Ids, ~Settled(e), Untouched,
               Progress(w, [op |-> "read", event |-> e, seen |-> log[e]])
        PROVE  LoneHandler'
    BY <2>1 DEF Progress, Untouched
  <2>2. CASE /\ worker[w].op = "read"
             /\ log' = [log EXCEPT ![worker[w].event] = "PROCESSING"]
             /\ Progress(w, [op |-> "logged", event |-> worker[w].event])
             /\ UNCHANGED applied
    BY <2>2 DEF Progress
  <2>3. CASE /\ worker[w].op = "logged"
             /\ Progress(w, [op |-> "loaded", event |-> worker[w].event, row |-> sub,
                             invoice |-> invoices[events[worker[w].event].sub]])
             /\ Untouched
    BY <2>3 DEF Progress, Untouched
  <2>4. CASE /\ worker[w].op = "loaded"
             /\ applied' = [applied EXCEPT ![worker[w].event] = @ + 1]
             /\ Progress(w, [op |-> "applied", event |-> worker[w].event])
             /\ UNCHANGED log
    BY <2>4 DEF Progress
  <2>5. CASE /\ worker[w].op = "applied"
             /\ log' = [log EXCEPT ![worker[w].event] = "PROCESSED"]
             /\ Progress(w, Idle)
             /\ UNCHANGED applied
    BY <2>5 DEF Progress, Idle
  <2>6. CASE /\ worker[w].op \in {"logged", "loaded"}
             /\ log' = [log EXCEPT ![worker[w].event] = "FAILED"]
             /\ Progress(w, Idle)
             /\ UNCHANGED applied
    BY <2>6 DEF Progress, Idle
  <2> QED BY <1>3, <2>1, <2>2, <2>3, <2>4, <2>5, <2>6 DEF DeliveryStep
<1> QED BY <1>1, <1>2, <1>3, Steps

-----------------------------------------------------------------------------
(* The theorems *)

LEMMA InitInv == Init => IInv
<1> SUFFICES ASSUME Init PROVE IInv
  OBVIOUS
<1> USE DEF Init, Idle
<1>1. Shape
  BY DEF Shape
<1>2. MarksApplied
  BY DEF MarksApplied, AppliedBeforeProcessed
<1>3. OneHandler /\ AppliedOnce
  BY DEF OneHandler, Handles, AppliedOnce
<1> QED BY <1>1, <1>2, <1>3 DEF IInv, RInv

\* No event is marked PROCESSED that was not applied, in whatever order its
\* deliveries, exceptions and crashes come.
THEOREM MarkedIsApplied == Spec => []AppliedBeforeProcessed
<1>1. Init => RInv
  BY InitInv DEF IInv
<1>2. RInv /\ [Next]_vars => RInv'
  BY RStep
<1>3. RInv => AppliedBeforeProcessed
  BY DEF RInv, MarksApplied
<1> QED BY <1>1, <1>2, <1>3, PTL DEF Spec

\* No event is applied twice: without exceptions however many workers share its
\* deliveries and wherever they crash, and by one worker next to exceptions too.
\* (Two that take a failed event up again may both apply it.)
THEOREM EventsApplyOnce ==
  ASSUME "exception" \notin Faults \/ OneWorker
  PROVE  Spec => []AppliedOnce
<1>1. CASE "exception" \notin Faults
  <2>1. IInv /\ [Next]_vars => IInv'
    BY <1>1, RStep, HandlerStep DEF IInv
  <2>2. IInv => AppliedOnce
    BY DEF IInv
  <2> QED BY <2>1, <2>2, InitInv, PTL DEF Spec
<1>2. CASE OneWorker
  <2>1. Init => RInv /\ LoneHandler
    BY InitInv DEF Init, IInv, LoneHandler, Handles, Idle
  <2>2. RInv /\ LoneHandler /\ [Next]_vars => (RInv /\ LoneHandler)'
    BY <1>2, RStep, LoneStep
  <2>3. LoneHandler => AppliedOnce
    BY DEF LoneHandler
  <2> QED BY <2>1, <2>2, <2>3, PTL DEF Spec
<1> QED BY <1>1, <1>2

-----------------------------------------------------------------------------
(* StripeBilling: tasks, events and rows *)

LEMMA TaskIs ==
  /\ Idle \in Task
  /\ \A e \in Ids : /\ \A s \in LogStatus : [op |-> "read", event |-> e, seen |-> s] \in Task
                    /\ [op |-> "logged", event |-> e] \in Task
                    /\ [op |-> "applied", event |-> e] \in Task
  /\ \A e \in Ids, row \in Subscription, i \in InvoiceStatus :
       [op |-> "loaded", event |-> e, row |-> row, invoice |-> i] \in Task
  /\ \A row \in Subscription :
       /\ \A op \in {"cancel", "resume"} : [op |-> op, row |-> row] \in Task
       /\ \A answer \in RemoteState : [op |-> "modified", row |-> row, answer |-> answer] \in Task
  /\ \A plan \in Plans, c \in 1 .. MaxCustomers :
       /\ [op |-> "session", plan |-> plan, customer |-> c] \in Task
       /\ \A row \in Subscription :
            [op |-> "customer", plan |-> plan, row |-> row, customer |-> c] \in Task
<1>1. Idle \in Task
  BY DEF Task
<1>2. ASSUME NEW e \in Ids
      PROVE  /\ \A s \in LogStatus : [op |-> "read", event |-> e, seen |-> s] \in Task
             /\ [op |-> "logged", event |-> e] \in Task
             /\ [op |-> "applied", event |-> e] \in Task
  BY DEF Task
<1>3. ASSUME NEW e \in Ids, NEW row \in Subscription, NEW i \in InvoiceStatus
      PROVE  [op |-> "loaded", event |-> e, row |-> row, invoice |-> i] \in Task
  BY DEF Task
<1>4. ASSUME NEW row \in Subscription
      PROVE  /\ \A op \in {"cancel", "resume"} : [op |-> op, row |-> row] \in Task
             /\ \A answer \in RemoteState :
                  [op |-> "modified", row |-> row, answer |-> answer] \in Task
  BY DEF Task
<1>5. ASSUME NEW plan \in Plans, NEW c \in 1 .. MaxCustomers
      PROVE  /\ [op |-> "session", plan |-> plan, customer |-> c] \in Task
             /\ \A row \in Subscription :
                  [op |-> "customer", plan |-> plan, row |-> row, customer |-> c] \in Task
  BY DEF Task
<1> QED
  BY <1>1, <1>2, <1>3, <1>4, <1>5

\* What a worker at each point of a handler holds.
LEMMA TaskHas ==
  ASSUME NEW t \in Task
  PROVE  /\ t.op \in {"read", "logged", "loaded", "applied"} => t.event \in Ids
         /\ t.op = "loaded" => t.row \in Subscription /\ t.invoice \in InvoiceStatus
         /\ t.op \in {"cancel", "resume"} => t.row \in Subscription
         /\ t.op = "modified" => t.row \in Subscription /\ t.answer \in RemoteState
         /\ t.op = "customer" =>
              t.plan \in Plans /\ t.row \in Subscription /\ t.customer \in 1 .. MaxCustomers
         /\ t.op = "session" => t.plan \in Plans /\ t.customer \in 1 .. MaxCustomers
  BY DEF Task, Idle

LEMMA EventHas ==
  ASSUME NEW event \in Event
  PROVE  /\ event.sub \in SubIds
         /\ event.type \in {"checkout", "subscription", "invoice"}
         /\ event.type = "checkout" => event.plan \in Plans /\ event.customer \in 1 .. MaxCustomers
         /\ event.type = "subscription" =>
              event.status \in StripeStatus /\ event.cancelled \in BOOLEAN
         /\ event.type = "invoice" =>
              event.failed \in BOOLEAN /\ event.status \in {"paid", "open"}
  BY DEF Event

LEMMA EventIs ==
  ASSUME NEW s \in SubIds, NEW becomes \in RemoteState, NEW status
  PROVE  SubEvent(s, becomes) \in Event /\ InvoiceEvent(s, status) \in Event
<1>1. SubEvent(s, becomes) \in Event
  BY DEF SubEvent, Event, RemoteState
<1>2. InvoiceEvent(s, status) \in Event
  BY DEF InvoiceEvent, Event
<1> QED
  BY <1>1, <1>2

LEMMA SubStatusIs == \A status : ToSubStatus(status) \in SubStatus
  BY DEF ToSubStatus, SubStatus

LEMMA InvoiceStatusIs == \A status : ToInvoiceStatus(status) \in InvoiceStatus
  BY DEF ToInvoiceStatus, InvoiceStatus

LEMMA WrittenIs ==
  ASSUME NEW loaded \in Subscription, NEW new \in Subscription, NEW current \in Subscription
  PROVE  /\ Written(loaded, new, current) \in Subscription
         /\ Written(current, new, current) = new
<1>1. Written(loaded, new, current) \in Subscription
  BY DEF Written, Subscription
<1>2. Written(current, new, current) = [c \in DOMAIN current |-> new[c]]
  BY DEF Written, Subscription
<1>3. DOMAIN current = DOMAIN new /\ new = [c \in DOMAIN new |-> new[c]]
  BY DEF Subscription
<1> QED
  BY <1>1, <1>2, <1>3

LEMMA AfterEventIs ==
  ASSUME NEW row \in Subscription, NEW event \in Event
  PROVE  AfterEvent(row, event) \in Subscription
<1>1. CASE event.type = "checkout"
  <2>1. AfterEvent(row, event)
          = [row EXCEPT !.plan = event.plan, !.status = "ACTIVE",
                        !.stripe = event.sub, !.customer = event.customer]
    BY <1>1 DEF AfterEvent
  <2>2. /\ event.plan \in Plans /\ event.sub \in SubIds \cup {NoSub}
        /\ event.customer \in 0 .. MaxCustomers /\ "ACTIVE" \in SubStatus
    BY <1>1, EventHas, StripeAssumption DEF SubStatus
  <2> QED
    BY <2>1, <2>2 DEF Subscription
<1>2. CASE event.type # "checkout" /\ row.stripe # event.sub
  BY <1>2 DEF AfterEvent
<1>3. CASE event.type = "subscription" /\ row.stripe = event.sub
  <2>1. AfterEvent(row, event)
          = [row EXCEPT !.status = ToSubStatus(event.status), !.cancelled = event.cancelled]
    BY <1>3 DEF AfterEvent
  <2>2. ToSubStatus(event.status) \in SubStatus /\ event.cancelled \in BOOLEAN
    BY <1>3, EventHas, SubStatusIs
  <2> QED
    BY <2>1, <2>2 DEF Subscription
<1>4. CASE event.type = "invoice" /\ row.stripe = event.sub
  <2>1. AfterEvent(row, event)
          = [row EXCEPT !.status = IF event.failed THEN "PAST_DUE" ELSE "ACTIVE"]
    BY <1>4 DEF AfterEvent
  <2> QED
    BY <1>4, <2>1 DEF Subscription, SubStatus
<1> QED
  BY <1>1, <1>2, <1>3, <1>4, EventHas

\* What is half done differs from the row in the status at most.
LEMMA HalfDoneIs ==
  ASSUME NEW row \in Subscription, NEW event \in Event
  PROVE  /\ HalfDone(row, event) \in Subscription
         /\ HalfDone(row, event).plan = row.plan /\ HalfDone(row, event).stripe = row.stripe
  BY SubStatusIs DEF HalfDone, Subscription

LEMMA FromAnswerIs ==
  ASSUME NEW row \in Subscription, NEW answer \in RemoteState
  PROVE  /\ FromAnswer(row, answer) \in Subscription
         /\ FromAnswer(row, answer).plan = row.plan /\ FromAnswer(row, answer).stripe = row.stripe
         /\ FromAnswer(row, answer).status = ToSubStatus(answer.status)
  BY SubStatusIs DEF FromAnswer, Subscription, RemoteState

\* The subscription at Stripe, to be cancelled or not.
Toggled(subscription, cancelling) == [subscription EXCEPT !.cancelling = cancelling]

LEMMA ToggledIs ==
  ASSUME NEW subscription \in RemoteState, NEW cancelling \in BOOLEAN
  PROVE  /\ Toggled(subscription, cancelling) \in RemoteState
         /\ Toggled(subscription, cancelling).status = subscription.status
         /\ Toggled(subscription, cancelling).plan = subscription.plan
  BY DEF Toggled, RemoteState

\* Events are only added.
LEMMA EmitAdds ==
  ASSUME TypeOK, NEW es \in Seq(Event), Emit(es)
  PROVE  /\ events' \in Seq(Event)
         /\ Len(events') = Len(events) + Len(es) /\ Len(events') <= MaxEvents
         /\ \A e \in 1 .. Len(events) : events'[e] = events[e]
         /\ \A i \in 1 .. Len(es) : events'[Len(events) + i] = es[i]
         /\ acked \subseteq 1 .. Len(events')
  BY DEF TypeOK, Emit

-----------------------------------------------------------------------------
(* StripeBilling: every variable has its type *)

\* What a worker does refers to what there is.
Placed(t) ==
  /\ t.op \in {"read", "logged", "loaded", "applied"} => t.event <= Len(events)
  /\ t.op \in {"cancel", "resume"} => t.row.stripe # NoSub

LEMMA WorkerMoves ==
  ASSUME TypeOK, NEW w \in Workers, NEW t \in Task, Placed(t), UNCHANGED events,
         worker' = [worker EXCEPT ![w] = t]
  PROVE  worker' \in [Workers -> Task] /\ \A v \in Workers : Placed(worker[v])'
  BY DEF TypeOK, Placed

LEMMA IdleIsPlaced == Placed(Idle)
  BY DEF Placed, Idle

\* Stripe acts on one subscription and tells it.
LEMMA RemoteTypes ==
  ASSUME TypeOK, NEW s \in SubIds, NEW becomes \in RemoteState, NEW es \in Seq(Event), Emit(es),
         stripe' = [stripe EXCEPT ![s] = becomes], sessions' \subseteq sessions,
         UNCHANGED <<customers, acked, local>>,
         worker' \in [Workers -> Task],
         \A v \in Workers : worker'[v] = worker[v] \/ worker'[v].op = "modified"
  PROVE  TypeOK'
<1>1. /\ events' \in Seq(Event) /\ Len(events') <= MaxEvents
      /\ Len(events) \in Nat /\ Len(events') >= Len(events) /\ acked \subseteq 1 .. Len(events')
  BY EmitAdds DEF TypeOK
<1>2. ASSUME NEW v \in Workers PROVE Placed(worker[v])'
  <2>1. Placed(worker[v])
    BY DEF TypeOK, Placed
  <2>2. CASE worker'[v] = worker[v] /\ worker[v].op \in {"read", "logged", "loaded", "applied"}
    <3>1. worker[v].event \in Nat
      BY <2>2, TaskHas DEF TypeOK, Ids
    <3> QED
      BY <1>1, <2>1, <2>2, <3>1 DEF Placed
  <2>3. CASE worker'[v] = worker[v] /\ worker[v].op \notin {"read", "logged", "loaded", "applied"}
    BY <2>1, <2>3 DEF Placed
  <2>4. CASE worker'[v].op = "modified"
    BY <2>4 DEF Placed
  <2> QED
    BY <2>2, <2>3, <2>4
<1>3. stripe' \in [SubIds -> RemoteState \cup {NoSub}]
  BY DEF TypeOK
<1> QED
  BY <1>1, <1>2, <1>3 DEF TypeOK, local, plans, Placed

LEMMA StripeTypes ==
  ASSUME TypeOK, Stripe
  PROVE  TypeOK'
<1>1. worker \in [Workers -> Task] /\ stripe \in [SubIds -> RemoteState \cup {NoSub}]
  BY DEF TypeOK
<1>2. ASSUME NEW s \in SubIds, NEW session \in sessions, CompleteCheckout(s, session)
      PROVE  TypeOK'
  <2> DEFINE becomes == [plan |-> session.plan, status |-> "active", cancelling |-> FALSE]
             done == [type |-> "checkout", sub |-> s, plan |-> session.plan,
                      customer |-> session.customer]
             update == SubEvent(s, becomes)
             paid == InvoiceEvent(s, "active")
  <2>1. session.plan \in Plans /\ session.customer \in 1 .. MaxCustomers
    BY <1>2 DEF TypeOK
  <2>2. becomes \in RemoteState /\ done \in Event
    BY <2>1 DEF RemoteState, StripeStatus, Event
  <2>3. update \in Event /\ paid \in Event
    BY <2>2, EventIs
  <2>4. /\ \/ Emit(<<update, paid, done>>) \/ Emit(<<done, update, paid>>)
        /\ stripe' = [stripe EXCEPT ![s] = becomes] /\ sessions' \subseteq sessions
        /\ UNCHANGED <<customers, acked, worker, local>>
    BY <1>2 DEF CompleteCheckout
  <2> HIDE DEF becomes, done, update, paid
  <2>5. <<update, paid, done>> \in Seq(Event) /\ <<done, update, paid>> \in Seq(Event)
    BY <2>2, <2>3
  <2>6. UNCHANGED <<customers, acked, local>>
    BY <2>4
  <2>7. worker' \in [Workers -> Task] /\ \A v \in Workers : worker'[v] = worker[v]
    BY <2>4, <1>1
  <2> QED
    BY <2>2, <2>4, <2>5, <2>6, <2>7, RemoteTypes
<1>3. ASSUME NEW s \in SubIds, NEW status \in {"active", "past_due"}, Charge(s, status)
      PROVE  TypeOK'
  <2> DEFINE becomes == [stripe[s] EXCEPT !.status = status]
  <2>1. stripe[s] \in RemoteState
    BY <1>1, <1>3 DEF Charge, Alive
  <2>2. becomes \in RemoteState
    BY <2>1 DEF RemoteState, StripeStatus
  <2>3. <<SubEvent(s, becomes), InvoiceEvent(s, status)>> \in Seq(Event)
    BY <2>2, EventIs
  <2>4. /\ Emit(<<SubEvent(s, becomes), InvoiceEvent(s, status)>>)
        /\ stripe' = [stripe EXCEPT ![s] = becomes] /\ sessions' \subseteq sessions
        /\ UNCHANGED <<customers, acked, local>> /\ UNCHANGED worker
    BY <1>3 DEF Charge
  <2> HIDE DEF becomes
  <2>5. worker' \in [Workers -> Task] /\ \A v \in Workers : worker'[v] = worker[v]
    BY <2>4, <1>1
  <2> QED
    BY <2>2, <2>3, <2>4, <2>5, RemoteTypes
<1>4. ASSUME NEW s \in SubIds, EndSubscription(s)
      PROVE  TypeOK'
  <2> DEFINE becomes == [stripe[s] EXCEPT !.status = "canceled", !.cancelling = TRUE]
  <2>1. stripe[s] \in RemoteState
    BY <1>1, <1>4 DEF EndSubscription, Alive
  <2>2. becomes \in RemoteState
    BY <2>1 DEF RemoteState, StripeStatus
  <2>3. <<SubEvent(s, becomes)>> \in Seq(Event)
    BY <2>2, EventIs
  <2>4. /\ Emit(<<SubEvent(s, becomes)>>)
        /\ stripe' = [stripe EXCEPT ![s] = becomes] /\ sessions' \subseteq sessions
        /\ UNCHANGED <<customers, acked, local>> /\ UNCHANGED worker
    BY <1>4 DEF EndSubscription
  <2> HIDE DEF becomes
  <2>5. worker' \in [Workers -> Task] /\ \A v \in Workers : worker'[v] = worker[v]
    BY <2>4, <1>1
  <2> QED
    BY <2>2, <2>3, <2>4, <2>5, RemoteTypes
<1> QED
  BY <1>2, <1>3, <1>4 DEF Stripe

LEMMA WebhookTypes ==
  ASSUME TypeOK, NEW w \in Workers, Webhook(w)
  PROVE  TypeOK'
<1> USE DEF remote, local, plans
<1>0. /\ worker[w] \in Task /\ Placed(worker[w]) /\ Idle \in Task /\ Placed(Idle)
      /\ Len(events) \in Nat
  BY TaskIs, IdleIsPlaced DEF TypeOK, Placed
<1>1. ASSUME NEW e \in Ids, Receive(w, e) PROVE TypeOK'
  <2>1. e \in 1 .. Len(events)
    BY <1>1 DEF Receive, Deliverable
  <2>2. CASE Settled(e)
    BY <1>1, <2>1, <2>2 DEF Receive, TypeOK
  <2>3. CASE ~Settled(e)
    <3> DEFINE t == [op |-> "read", event |-> e, seen |-> log[e]]
    <3>1. t \in Task
      BY TaskIs DEF TypeOK
    <3>2. Placed(t)
      BY <2>1 DEF Placed
    <3>3. worker' = [worker EXCEPT ![w] = t] /\ UNCHANGED <<remote, acked, local>>
      BY <1>1, <2>3 DEF Receive
    <3> HIDE DEF t
    <3> QED
      BY <3>1, <3>2, <3>3, WorkerMoves DEF TypeOK, Placed
  <2> QED
    BY <2>2, <2>3
<1>2. CASE Log(w)
  <2> DEFINE e == worker[w].event
             t == [op |-> "logged", event |-> e]
  <2>1. e \in Ids /\ e <= Len(events)
    BY <1>0, <1>2, TaskHas DEF Log, Placed
  <2>2. t \in Task /\ Placed(t)
    BY <2>1, TaskIs DEF Placed
  <2>3. /\ worker' = [worker EXCEPT ![w] = t] /\ log' = [log EXCEPT ![e] = "PROCESSING"]
        /\ UNCHANGED <<remote, acked, sub, plans, invoices, applied>>
    BY <1>2 DEF Log
  <2> HIDE DEF t
  <2> QED
    BY <2>2, <2>3, WorkerMoves DEF TypeOK, Placed, LogStatus
<1>3. CASE Duplicate(w) \/ InvoiceClash(w)
  <2>1. worker' = [worker EXCEPT ![w] = Idle] /\ UNCHANGED <<remote, acked, local>>
    BY <1>3 DEF Duplicate, InvoiceClash
  <2> QED
    BY <1>0, <2>1, WorkerMoves DEF TypeOK, Placed
<1>4. CASE Load(w)
  <2> DEFINE e == worker[w].event
             t == [op |-> "loaded", event |-> e, row |-> sub, invoice |-> invoices[events[e].sub]]
  <2>1. e \in Ids /\ e <= Len(events) /\ e \in 1 .. Len(events)
    BY <1>0, <1>4, TaskHas DEF Load, Placed, Ids
  <2>2. invoices[events[e].sub] \in InvoiceStatus
    BY <2>1, EventHas DEF TypeOK
  <2>3. t \in Task /\ Placed(t)
    BY <2>1, <2>2, TaskIs DEF Placed, TypeOK
  <2>4. worker' = [worker EXCEPT ![w] = t] /\ UNCHANGED <<remote, acked, local>>
    BY <1>4 DEF Load
  <2> HIDE DEF t
  <2> QED
    BY <2>3, <2>4, WorkerMoves DEF TypeOK, Placed
<1>5. CASE ApplyEvent(w)
  <2> DEFINE e == worker[w].event
             event == events[e]
             row == worker[w].row
             t == [op |-> "applied", event |-> e]
  <2>1. e \in Ids /\ e <= Len(events) /\ e \in 1 .. Len(events) /\ row \in Subscription
    BY <1>0, <1>5, TaskHas DEF ApplyEvent, Placed, Ids
  <2>2. event \in Event
    BY <2>1 DEF TypeOK
  <2>3. t \in Task /\ Placed(t)
    BY <2>1, TaskIs DEF Placed
  <2>4. /\ sub' = Written(row, AfterEvent(row, event), sub)
        /\ tenantPlan' = IF event.type = "checkout" THEN event.plan ELSE tenantPlan
        /\ overruled' = IF event.type = "checkout" THEN FALSE ELSE overruled
        /\ invoices' = IF Invoiced(row, event)
                       THEN [invoices EXCEPT ![event.sub] = ToInvoiceStatus(event.status)]
                       ELSE invoices
        /\ applied' = [applied EXCEPT ![e] = @ + 1]
        /\ worker' = [worker EXCEPT ![w] = t]
        /\ UNCHANGED <<remote, acked, log>>
    BY <1>5 DEF ApplyEvent
  <2> HIDE DEF t, event, row, e
  <2>5. sub' \in Subscription
    BY <2>1, <2>2, <2>4, AfterEventIs, WrittenIs DEF TypeOK
  <2>6. tenantPlan' \in Plans /\ overruled' \in BOOLEAN
    BY <2>2, <2>4, EventHas DEF TypeOK
  <2>7. invoices' \in [SubIds -> InvoiceStatus]
    BY <2>4, InvoiceStatusIs DEF TypeOK
  <2>8. applied' \in [Ids -> Nat]
    BY <2>1, <2>4 DEF TypeOK
  <2>9. worker' \in [Workers -> Task] /\ \A v \in Workers : Placed(worker[v])'
    BY <2>3, <2>4, WorkerMoves
  <2> QED
    BY <2>4, <2>5, <2>6, <2>7, <2>8, <2>9 DEF TypeOK, Placed
<1>6. CASE Mark(w)
  <2> DEFINE e == worker[w].event
  <2>1. e \in Ids /\ e <= Len(events) /\ e \in 1 .. Len(events)
    BY <1>0, <1>6, TaskHas DEF Mark, Placed, Ids
  <2>2. /\ worker' = [worker EXCEPT ![w] = Idle] /\ log' = [log EXCEPT ![e] = "PROCESSED"]
        /\ acked' = acked \cup {e}
        /\ UNCHANGED <<remote, sub, plans, invoices, applied>>
    BY <1>6 DEF Mark
  <2> HIDE DEF e
  <2> QED
    BY <1>0, <2>1, <2>2, WorkerMoves DEF TypeOK, Placed, LogStatus
<1>7. CASE Throw(w)
  <2> DEFINE e == worker[w].event
             half == HalfDone(worker[w].row, events[e])
  <2>1. /\ worker' = [worker EXCEPT ![w] = Idle]
        /\ log' = [log EXCEPT ![e] = "FAILED"]
        /\ UNCHANGED <<remote, acked, plans, invoices, applied>>
    BY <1>7 DEF Throw
  <2>2. sub' \in Subscription
    <3>1. CASE UNCHANGED sub
      BY <3>1 DEF TypeOK
    <3>2. CASE /\ worker[w].op = "loaded"
               /\ sub' = Written(worker[w].row, half, sub)
      <4>1. e \in Ids /\ e \in 1 .. Len(events) /\ worker[w].row \in Subscription
        BY <1>0, <3>2, TaskHas DEF Placed, Ids
      <4>2. events[e] \in Event
        BY <4>1 DEF TypeOK
      <4> HIDE DEF e
      <4>3. half \in Subscription
        BY <4>1, <4>2, HalfDoneIs
      <4> HIDE DEF half
      <4> QED
        BY <3>2, <4>1, <4>3, WrittenIs DEF TypeOK
    <3> QED
      BY <1>7, <3>1, <3>2 DEF Throw
  <2> HIDE DEF e, half
  <2> QED
    BY <1>0, <2>1, <2>2, WorkerMoves DEF TypeOK, Placed, LogStatus
<1> QED
  BY <1>1, <1>2, <1>3, <1>4, <1>5, <1>6, <1>7 DEF Webhook

LEMMA RequestTypes ==
  ASSUME TypeOK, NEW w \in Workers, Request(w)
  PROVE  TypeOK'
<1> USE DEF remote, local, plans
<1>0. /\ worker[w] \in Task /\ Placed(worker[w]) /\ Idle \in Task /\ Placed(Idle)
      /\ sub \in Subscription
  BY TaskIs, IdleIsPlaced DEF TypeOK, Placed
<1>1. ASSUME NEW op \in {"cancel", "resume"}, BeginModify(w, op) PROVE TypeOK'
  <2> DEFINE t == [op |-> op, row |-> sub]
  <2>1. t \in Task
    BY <1>0, TaskIs
  <2>2. Placed(t)
    BY <1>1 DEF Placed, BeginModify
  <2>3. worker' = [worker EXCEPT ![w] = t] /\ UNCHANGED <<remote, acked, local>>
    BY <1>1 DEF BeginModify
  <2> HIDE DEF t
  <2> QED
    BY <2>1, <2>2, <2>3, WorkerMoves DEF TypeOK, Placed
<1>2. ASSUME NEW plan \in Plans, BeginCheckout(w, plan) PROVE TypeOK'
  <2>1. CASE sub.customer # NoCustomer
    <3> DEFINE t == [op |-> "session", plan |-> plan, customer |-> sub.customer]
    <3>1. sub.customer \in 1 .. MaxCustomers
      BY <1>0, <2>1, StripeAssumption DEF Subscription, NoCustomer
    <3>2. t \in Task /\ Placed(t)
      BY <3>1, TaskIs DEF Placed
    <3>3. worker' = [worker EXCEPT ![w] = t] /\ UNCHANGED <<remote, acked, local>>
      BY <1>2, <2>1 DEF BeginCheckout
    <3> HIDE DEF t
    <3> QED
      BY <3>2, <3>3, WorkerMoves DEF TypeOK, Placed
  <2>2. CASE sub.customer = NoCustomer
    <3> DEFINE t == [op |-> "customer", plan |-> plan, row |-> sub, customer |-> customers + 1]
    <3>1. /\ customers < MaxCustomers /\ customers' = customers + 1
          /\ worker' = [worker EXCEPT ![w] = t]
          /\ UNCHANGED <<stripe, sessions, events, acked, local>>
      BY <1>2, <2>2 DEF BeginCheckout
    <3>2. customers + 1 \in 1 .. MaxCustomers /\ customers' \in 0 .. MaxCustomers
      BY <3>1, StripeAssumption DEF TypeOK
    <3>3. t \in Task /\ Placed(t)
      BY <1>0, <3>2, TaskIs DEF Placed
    <3> HIDE DEF t
    <3> QED
      BY <3>1, <3>2, <3>3, WorkerMoves DEF TypeOK, Placed
  <2> QED
    BY <2>1, <2>2
<1>3. CASE Modify(w)
  <2> DEFINE q == worker[w]
             s == q.row.stripe
             becomes == Toggled(stripe[s], q.op = "cancel")
             t == [op |-> "modified", row |-> q.row, answer |-> becomes]
  <2>1. q.op \in {"cancel", "resume"} /\ q.row \in Subscription /\ s # NoSub /\ Alive(s)
    BY <1>0, <1>3, TaskHas DEF Modify, Placed
  <2>2. s \in SubIds /\ stripe[s] \in RemoteState
    BY <2>1 DEF Subscription, TypeOK, Alive
  <2>3. /\ stripe' = [stripe EXCEPT ![s] = becomes] /\ Emit(<<SubEvent(s, becomes)>>)
        /\ worker' = [worker EXCEPT ![w] = t]
        /\ UNCHANGED <<sessions, customers, acked, local>>
    BY <1>3 DEF Modify, Toggled
  <2> HIDE DEF q
  <2>4. becomes \in RemoteState
    BY <2>2, ToggledIs
  <2>5. t \in Task
    BY <2>1, <2>4, TaskIs
  <2>6. t.op = "modified"
    OBVIOUS
  <2> HIDE DEF s, becomes, t
  <2>7. <<SubEvent(s, becomes)>> \in Seq(Event)
    BY <2>2, <2>4, EventIs
  <2>8. /\ worker' \in [Workers -> Task]
        /\ \A v \in Workers : worker'[v] = worker[v] \/ worker'[v].op = "modified"
    BY <2>3, <2>5, <2>6 DEF TypeOK
  <2>9. sessions' \subseteq sessions /\ UNCHANGED <<customers, acked, local>>
    BY <2>3
  <2> QED
    BY <2>2, <2>3, <2>4, <2>7, <2>8, <2>9, RemoteTypes
<1>4. CASE Refuse(w)
  <2>1. worker' = [worker EXCEPT ![w] = Idle] /\ UNCHANGED <<remote, acked, local>>
    BY <1>4 DEF Refuse
  <2> QED
    BY <1>0, <2>1, WorkerMoves DEF TypeOK, Placed
<1>5. CASE CommitModify(w)
  <2> DEFINE q == worker[w]
  <2>1. q.row \in Subscription /\ q.answer \in RemoteState
    BY <1>0, <1>5, TaskHas DEF CommitModify
  <2>2. /\ sub' = Written(q.row, FromAnswer(q.row, q.answer), sub)
        /\ worker' = [worker EXCEPT ![w] = Idle]
        /\ UNCHANGED <<remote, acked, log, plans, invoices, applied>>
    BY <1>5 DEF CommitModify
  <2> HIDE DEF q
  <2>3. sub' \in Subscription
    BY <1>0, <2>1, <2>2, FromAnswerIs, WrittenIs
  <2> QED
    BY <1>0, <2>2, <2>3, WorkerMoves DEF TypeOK, Placed
<1>6. CASE StoreCustomer(w)
  <2> DEFINE q == worker[w]
             t == [op |-> "session", plan |-> q.plan, customer |-> q.customer]
             new == [q.row EXCEPT !.customer = q.customer]
  <2>1. q.plan \in Plans /\ q.row \in Subscription /\ q.customer \in 1 .. MaxCustomers
    BY <1>0, <1>6, TaskHas DEF StoreCustomer
  <2>2. /\ sub' = Written(q.row, new, sub)
        /\ worker' = [worker EXCEPT ![w] = t]
        /\ UNCHANGED <<remote, acked, log, plans, invoices, applied>>
    BY <1>6 DEF StoreCustomer
  <2> HIDE DEF q
  <2>3. t \in Task /\ Placed(t)
    BY <2>1, TaskIs DEF Placed
  <2>4. new \in Subscription
    BY <2>1, StripeAssumption DEF Subscription
  <2> HIDE DEF t, new
  <2>5. sub' \in Subscription
    BY <1>0, <2>1, <2>2, <2>4, WrittenIs
  <2> QED
    BY <2>2, <2>3, <2>5, WorkerMoves DEF TypeOK, Placed
<1>7. CASE OpenSession(w)
  <2>1. worker[w].plan \in Plans /\ worker[w].customer \in 1 .. MaxCustomers
    BY <1>0, <1>7, TaskHas DEF OpenSession
  <2>2. /\ sessions' = sessions \cup {[plan |-> worker[w].plan, customer |-> worker[w].customer]}
        /\ worker' = [worker EXCEPT ![w] = Idle]
        /\ UNCHANGED <<stripe, customers, events, acked, local>>
    BY <1>7 DEF OpenSession
  <2> QED
    BY <1>0, <2>1, <2>2, WorkerMoves DEF TypeOK, Placed
<1> QED
  BY <1>1, <1>2, <1>3, <1>4, <1>5, <1>6, <1>7, StripeAssumption DEF Request

LEMMA CrashTypes ==
  ASSUME TypeOK, NEW w \in Workers, Crash(w)
  PROVE  TypeOK'
<1>1. worker' = [worker EXCEPT ![w] = Idle] /\ UNCHANGED <<remote, acked, local>>
  BY DEF Crash
<1> QED
  BY <1>1, TaskIs, IdleIsPlaced, WorkerMoves DEF TypeOK, Placed, remote, local, plans

LEMMA InitTypes == Init => TypeOK
<1> SUFFICES ASSUME Init PROVE TypeOK
  OBVIOUS
<1>1. sub \in Subscription
  BY StripeAssumption DEF Init, Subscription, SubStatus, NoCustomer
<1>2. worker \in [Workers -> Task] /\ \A w \in Workers : Placed(worker[w])
  BY TaskIs, IdleIsPlaced DEF Init
<1>3. events \in Seq(Event) /\ Len(events) = 0
  BY DEF Init
<1>4. stripe \in [SubIds -> RemoteState \cup {NoSub}] /\ sessions = {} /\ customers = 0 /\ acked = {}
  BY DEF Init
<1>5. log \in [Ids -> LogStatus] /\ invoices \in [SubIds -> InvoiceStatus] /\ applied \in [Ids -> Nat]
  BY DEF Init, LogStatus, InvoiceStatus
<1>6. tenantPlan \in Plans /\ overruled \in BOOLEAN
  BY StripeAssumption DEF Init
<1> QED
  BY <1>1, <1>2, <1>3, <1>4, <1>5, <1>6, StripeAssumption DEF TypeOK, Placed

LEMMA BillingTypes == TypeOK /\ [Next]_vars => TypeOK'
<1> SUFFICES ASSUME TypeOK, [Next]_vars PROVE TypeOK'
  OBVIOUS
<1>1. CASE UNCHANGED vars
  <2>1. /\ UNCHANGED <<stripe, sessions, customers, events, acked, log, sub>>
        /\ UNCHANGED <<tenantPlan, overruled, invoices, worker, applied>>
    BY <1>1 DEF vars, plans
  <2> QED
    BY <2>1 DEF TypeOK
<1>2. CASE Stripe
  BY <1>2, StripeTypes
<1>3. ASSUME NEW w \in Workers, Webhook(w) \/ Request(w) \/ Crash(w) PROVE TypeOK'
  BY <1>3, WebhookTypes, RequestTypes, CrashTypes
<1>4. ASSUME NEW plan \in Plans, SetPlan(plan) PROVE TypeOK'
  BY <1>4 DEF SetPlan, TypeOK, remote
<1> QED
  BY <1>1, <1>2, <1>3, <1>4 DEF Next

-----------------------------------------------------------------------------
(* StripeBilling: what Stripe tells *)

\* The status an event stands for.
Implied(event) ==
  CASE event.type = "checkout" -> "ACTIVE"
    [] event.type = "subscription" -> ToSubStatus(event.status)
    [] event.type = "invoice" -> IF event.failed THEN "PAST_DUE" ELSE "ACTIVE"

\* Stripe puts s into a state and tells it; only a checkout brings a plan.
Tells(s, becomes, es) ==
  /\ s \in SubIds /\ becomes \in RemoteState /\ es \in Seq(Event) /\ Len(es) >= 1
  /\ Emit(es) /\ stripe' = [stripe EXCEPT ![s] = becomes]
  /\ stripe[s] # NoSub => becomes.plan = stripe[s].plan
  /\ \A i \in 1 .. Len(es) : es[i].sub = s
  /\ Implied(es[Len(es)]) = ToSubStatus(becomes.status)
  /\ \A i \in 1 .. Len(es) : es[i].type = "checkout" =>
       stripe[s] = NoSub /\ es[i].plan = becomes.plan
  /\ \A i, j \in 1 .. Len(es) : es[i].type = "checkout" /\ es[j].type = "checkout" => i = j

\* An event is an old one, or one of those just told.
Adds(es) ==
  /\ Len(events) \in Nat /\ Len(es) \in Nat /\ Len(events') = Len(events) + Len(es)
  /\ \A e \in 1 .. Len(events) :
       events'[e] = events[e] /\ e \in 1 .. Len(events') /\ events[e] \in Event
  /\ \A i \in 1 .. Len(es) :
       events'[Len(events) + i] = es[i] /\ Len(events) + i \in 1 .. Len(events')
  /\ \A e \in 1 .. Len(events') :
       e \in 1 .. Len(events) \/ \E i \in 1 .. Len(es) : e = Len(events) + i

LEMMA OldOrTold ==
  ASSUME TypeOK, NEW s, NEW becomes, NEW es, Tells(s, becomes, es)
  PROVE  Adds(es)
<1>1. /\ Len(events) \in Nat /\ Len(es) \in Nat /\ Len(events') = Len(events) + Len(es)
      /\ \A e \in 1 .. Len(events) : events'[e] = events[e]
      /\ \A i \in 1 .. Len(es) : events'[Len(events) + i] = es[i]
  BY EmitAdds DEF TypeOK, Tells
<1>2. ASSUME NEW e \in 1 .. Len(events')
      PROVE  e \in 1 .. Len(events) \/ \E i \in 1 .. Len(es) : e = Len(events) + i
  <2>1. e \in 1 .. Len(events) \/ e - Len(events) \in 1 .. Len(es)
    BY <1>1
  <2>2. e = Len(events) + (e - Len(events))
    BY <1>1
  <2> QED
    BY <2>1, <2>2
<1>3. \A e \in 1 .. Len(events) : e \in 1 .. Len(events') /\ events[e] \in Event
  BY <1>1 DEF TypeOK
<1>4. \A i \in 1 .. Len(es) : Len(events) + i \in 1 .. Len(events')
  BY <1>1
<1> QED
  BY <1>1, <1>2, <1>3, <1>4 DEF Adds

\* Of other subscriptions nothing changes at Stripe.
LEMMA OthersStay ==
  ASSUME TypeOK, NEW s, NEW becomes, NEW es, Tells(s, becomes, es)
  PROVE  /\ stripe'[s] = becomes /\ stripe'[s] # NoSub
         /\ \A o \in SubIds : o # s => stripe'[o] = stripe[o]
  BY StripeAssumption DEF TypeOK, Tells

LEMMA ImpliedOf ==
  /\ \A s, becomes : Implied(SubEvent(s, becomes)) = ToSubStatus(becomes.status)
  /\ \A s, status :
       Implied(InvoiceEvent(s, status)) = IF status = "past_due" THEN "PAST_DUE" ELSE "ACTIVE"
  /\ \A event : event.type = "checkout" => Implied(event) = "ACTIVE"
<1>1. ASSUME NEW s, NEW becomes
      PROVE  Implied(SubEvent(s, becomes)) = ToSubStatus(becomes.status)
  <2>1. SubEvent(s, becomes).type = "subscription" /\ SubEvent(s, becomes).status = becomes.status
    BY DEF SubEvent
  <2> QED
    BY <2>1 DEF Implied
<1>2. ASSUME NEW s, NEW status
      PROVE  Implied(InvoiceEvent(s, status)) = IF status = "past_due" THEN "PAST_DUE" ELSE "ACTIVE"
  <2>1. /\ InvoiceEvent(s, status).type = "invoice"
        /\ InvoiceEvent(s, status).failed = (status = "past_due")
    BY DEF InvoiceEvent
  <2>2. Implied(InvoiceEvent(s, status))
          = IF InvoiceEvent(s, status).failed THEN "PAST_DUE" ELSE "ACTIVE"
    BY <2>1 DEF Implied
  <2> QED
    BY <2>1, <2>2
<1>3. ASSUME NEW event, event.type = "checkout" PROVE Implied(event) = "ACTIVE"
  BY <1>3 DEF Implied
<1> QED
  BY <1>1, <1>2, <1>3

LEMMA SubEventHas ==
  ASSUME NEW s, NEW becomes
  PROVE  SubEvent(s, becomes).sub = s /\ SubEvent(s, becomes).type = "subscription"
  BY DEF SubEvent

LEMMA InvoiceEventHas ==
  ASSUME NEW s, NEW status
  PROVE  InvoiceEvent(s, status).sub = s /\ InvoiceEvent(s, status).type = "invoice"
  BY DEF InvoiceEvent

\* One event about the subscription alone.
LEMMA TellsOne ==
  ASSUME NEW s \in SubIds, NEW becomes \in RemoteState, Emit(<<SubEvent(s, becomes)>>),
         stripe' = [stripe EXCEPT ![s] = becomes],
         stripe[s] # NoSub => becomes.plan = stripe[s].plan
  PROVE  Tells(s, becomes, <<SubEvent(s, becomes)>>)
<1> DEFINE update == SubEvent(s, becomes)
           es == <<update>>
<1>1. update \in Event
  BY EventIs
<1>2. update.sub = s /\ update.type = "subscription"
  BY SubEventHas
<1>3. Implied(update) = ToSubStatus(becomes.status)
  BY ImpliedOf
<1> HIDE DEF update
<1>4. es \in Seq(Event) /\ Len(es) = 1 /\ es[1] = update
  BY <1>1
<1>5. Emit(es)
  BY DEF update
<1> HIDE DEF es
<1>6. \A i \in 1 .. Len(es) : i = 1
  BY <1>4
<1>7. \A i \in 1 .. Len(es) : es[i].sub = s /\ es[i].type # "checkout"
  BY <1>2, <1>4, <1>6
<1>8. Tells(s, becomes, es)
  BY <1>3, <1>4, <1>5, <1>6, <1>7 DEF Tells
<1> QED
  BY <1>8 DEF es, update

LEMMA CheckoutTells ==
  ASSUME TypeOK, NEW s \in SubIds, NEW session \in sessions, CompleteCheckout(s, session)
  PROVE  \E becomes, es : Tells(s, becomes, es)
<1> DEFINE becomes == [plan |-> session.plan, status |-> "active", cancelling |-> FALSE]
           done == [type |-> "checkout", sub |-> s, plan |-> session.plan,
                    customer |-> session.customer]
           update == SubEvent(s, becomes)
           paid == InvoiceEvent(s, "active")
<1>1. session.plan \in Plans /\ session.customer \in 1 .. MaxCustomers
  BY DEF TypeOK
<1>2. becomes \in RemoteState /\ done \in Event
  BY <1>1 DEF RemoteState, StripeStatus, Event
<1>3. update \in Event /\ paid \in Event
  BY <1>2, EventIs
<1>4. /\ Emit(<<update, paid, done>>) \/ Emit(<<done, update, paid>>)
      /\ stripe[s] = NoSub /\ stripe' = [stripe EXCEPT ![s] = becomes]
  BY DEF CompleteCheckout
<1>5. /\ done.sub = s /\ done.type = "checkout" /\ done.plan = becomes.plan
      /\ update.sub = s /\ update.type = "subscription"
      /\ paid.sub = s /\ paid.type = "invoice"
  BY SubEventHas, InvoiceEventHas
<1>6. becomes.status = "active" /\ ToSubStatus(becomes.status) = "ACTIVE"
  BY DEF ToSubStatus
<1>7. Implied(done) = "ACTIVE" /\ Implied(paid) = "ACTIVE"
  BY <1>5, ImpliedOf
<1> HIDE DEF becomes, done, update, paid
<1>8. CASE Emit(<<update, paid, done>>)
  <2> DEFINE es == <<update, paid, done>>
  <2>1. es \in Seq(Event) /\ Len(es) = 3 /\ es[1] = update /\ es[2] = paid /\ es[3] = done
    BY <1>2, <1>3
  <2> HIDE DEF es
  <2>2. \A i \in 1 .. Len(es) : i = 1 \/ i = 2 \/ i = 3
    BY <2>1
  <2>3. /\ \A i \in 1 .. Len(es) : es[i].sub = s
        /\ \A i \in 1 .. Len(es) : es[i].type = "checkout" => i = 3 /\ es[i].plan = becomes.plan
    BY <1>5, <2>1, <2>2
  <2>4. Emit(es)
    BY <1>8 DEF es
  <2>5. Tells(s, becomes, es)
    BY <1>2, <1>4, <1>6, <1>7, <2>1, <2>3, <2>4 DEF Tells
  <2> QED
    BY <2>5
<1>9. CASE Emit(<<done, update, paid>>)
  <2> DEFINE es == <<done, update, paid>>
  <2>1. es \in Seq(Event) /\ Len(es) = 3 /\ es[1] = done /\ es[2] = update /\ es[3] = paid
    BY <1>2, <1>3
  <2> HIDE DEF es
  <2>2. \A i \in 1 .. Len(es) : i = 1 \/ i = 2 \/ i = 3
    BY <2>1
  <2>3. /\ \A i \in 1 .. Len(es) : es[i].sub = s
        /\ \A i \in 1 .. Len(es) : es[i].type = "checkout" => i = 1 /\ es[i].plan = becomes.plan
    BY <1>5, <2>1, <2>2
  <2>4. Emit(es)
    BY <1>9 DEF es
  <2>5. Tells(s, becomes, es)
    BY <1>2, <1>4, <1>6, <1>7, <2>1, <2>3, <2>4 DEF Tells
  <2> QED
    BY <2>5
<1> QED
  BY <1>4, <1>8, <1>9

LEMMA ChargeTells ==
  ASSUME TypeOK, NEW s \in SubIds, NEW status \in {"active", "past_due"}, Charge(s, status)
  PROVE  \E becomes, es : Tells(s, becomes, es)
<1> DEFINE becomes == [stripe[s] EXCEPT !.status = status]
           update == SubEvent(s, becomes)
           charged == InvoiceEvent(s, status)
           es == <<update, charged>>
<1>1. stripe[s] \in RemoteState
  BY DEF TypeOK, Charge, Alive
<1>2. becomes \in RemoteState /\ becomes.plan = stripe[s].plan /\ becomes.status = status
  BY <1>1 DEF RemoteState, StripeStatus
<1>3. update \in Event /\ charged \in Event
  BY <1>2, EventIs
<1>4. Emit(es) /\ stripe' = [stripe EXCEPT ![s] = becomes]
  BY DEF Charge
<1>5. /\ update.sub = s /\ update.type = "subscription"
      /\ charged.sub = s /\ charged.type = "invoice"
  BY SubEventHas, InvoiceEventHas
<1>6. Implied(charged) = ToSubStatus(status)
  BY ImpliedOf DEF ToSubStatus
<1> HIDE DEF becomes, update, charged
<1>7. es \in Seq(Event) /\ Len(es) = 2 /\ es[1] = update /\ es[2] = charged
  BY <1>3
<1> HIDE DEF es
<1>8. \A i \in 1 .. Len(es) : i = 1 \/ i = 2
  BY <1>7
<1>9. \A i \in 1 .. Len(es) : es[i].sub = s /\ es[i].type # "checkout"
  BY <1>5, <1>7, <1>8
<1>10. Tells(s, becomes, es)
  BY <1>2, <1>4, <1>6, <1>7, <1>9 DEF Tells
<1> QED
  BY <1>10

LEMMA EndTells ==
  ASSUME TypeOK, NEW s \in SubIds, EndSubscription(s)
  PROVE  \E becomes, es : Tells(s, becomes, es)
<1> DEFINE becomes == [stripe[s] EXCEPT !.status = "canceled", !.cancelling = TRUE]
<1>1. stripe[s] \in RemoteState
  BY DEF TypeOK, EndSubscription, Alive
<1>2. becomes \in RemoteState /\ becomes.plan = stripe[s].plan
  BY <1>1 DEF RemoteState, StripeStatus
<1>3. Emit(<<SubEvent(s, becomes)>>) /\ stripe' = [stripe EXCEPT ![s] = becomes]
  BY DEF EndSubscription
<1> HIDE DEF becomes
<1>4. Tells(s, becomes, <<SubEvent(s, becomes)>>)
  BY <1>2, <1>3, TellsOne
<1> QED
  BY <1>4

LEMMA StripeTells ==
  ASSUME TypeOK, Stripe
  PROVE  /\ \E s, becomes, es : Tells(s, becomes, es)
         /\ UNCHANGED <<acked, worker, local>>
<1>1. \E s, becomes, es : Tells(s, becomes, es)
  BY CheckoutTells, ChargeTells, EndTells DEF Stripe
<1>2. UNCHANGED <<acked, worker, local>>
  BY DEF Stripe, CompleteCheckout, Charge, EndSubscription
<1> QED
  BY <1>1, <1>2

LEMMA ModifyTells ==
  ASSUME TypeOK, NEW w \in Workers, Modify(w)
  PROVE  \E becomes, es :
           /\ Tells(worker[w].row.stripe, becomes, es)
           /\ worker' = [worker EXCEPT ![w] =
                [op |-> "modified", row |-> worker[w].row, answer |-> becomes]]
           /\ UNCHANGED <<acked, local>>
<1>1. PICK q, s : q = worker[w] /\ s = q.row.stripe
  OBVIOUS
<1>2. PICK becomes : becomes = Toggled(stripe[s], q.op = "cancel")
  OBVIOUS
<1>3. q \in Task /\ Placed(q)
  BY <1>1 DEF TypeOK, Placed
<1>4. q.op \in {"cancel", "resume"} /\ q.row \in Subscription /\ s # NoSub /\ Alive(s)
  BY <1>1, <1>3, TaskHas DEF Modify, Placed
<1>5. s \in SubIds /\ stripe[s] \in RemoteState
  BY <1>1, <1>4 DEF Subscription, TypeOK, Alive
<1>6. /\ stripe' = [stripe EXCEPT ![s] = becomes] /\ Emit(<<SubEvent(s, becomes)>>)
      /\ worker' = [worker EXCEPT ![w] = [op |-> "modified", row |-> q.row, answer |-> becomes]]
      /\ UNCHANGED <<acked, local>>
  BY <1>1, <1>2 DEF Modify, Toggled
<1>7. becomes \in RemoteState /\ becomes.plan = stripe[s].plan
  BY <1>2, <1>5, ToggledIs
<1>8. Tells(s, becomes, <<SubEvent(s, becomes)>>)
  BY <1>5, <1>6, <1>7, TellsOne
<1> QED
  BY <1>1, <1>6, <1>8

-----------------------------------------------------------------------------
(* StripeBilling: one worker, one plan *)

\* What the only worker has loaded is the row as it is.
RowIsCurrent(t) ==
  t.op \in {"loaded", "cancel", "resume", "modified", "customer"} => t.row = sub

RowsAreCurrent == \A w \in Workers : RowIsCurrent(worker[w])

\* A completed checkout and the row have the plan of their subscription at Stripe.
Bought ==
  /\ \A e \in 1 .. Len(events) : events[e].type = "checkout" =>
       stripe[events[e].sub] # NoSub /\ events[e].plan = stripe[events[e].sub].plan
  /\ sub.stripe # NoSub => stripe[sub.stripe] # NoSub /\ sub.plan = stripe[sub.stripe].plan

PlanInv == TypeOK /\ RowsAreCurrent /\ PlansAgree /\ Bought

\* The only worker moves on.
LEMMA OneMoves ==
  ASSUME OneWorker, TypeOK, NEW w \in Workers, NEW t, worker' = [worker EXCEPT ![w] = t]
  PROVE  \A v \in Workers : v = w /\ worker'[v] = t
  BY DEF OneWorker, TypeOK

LEMMA RowsStay ==
  ASSUME OneWorker, PlanInv, NEW w \in Workers, NEW t, worker' = [worker EXCEPT ![w] = t],
         RowIsCurrent(t), UNCHANGED <<stripe, events, sub, tenantPlan, overruled>>
  PROVE  (RowsAreCurrent /\ PlansAgree /\ Bought)'
<1>1. \A v \in Workers : RowIsCurrent(worker[v])'
  BY OneMoves DEF PlanInv, RowIsCurrent
<1>2. Bought'
  BY DEF PlanInv, Bought
<1> QED
  BY <1>1, <1>2 DEF PlanInv, PlansAgree, RowsAreCurrent

LEMMA IdleIsCurrent == RowIsCurrent(Idle)
  BY DEF RowIsCurrent, Idle

\* What the only worker commits is what it has made of the row.
LEMMA RowIsWritten ==
  ASSUME OneWorker, PlanInv, NEW w \in Workers, RowIsCurrent(worker[w]),
         worker[w].op \in {"loaded", "modified", "customer"}, NEW new \in Subscription
  PROVE  worker[w].row = sub /\ Written(worker[w].row, new, sub) = new
<1>1. worker[w].row = sub /\ sub \in Subscription
  BY DEF RowIsCurrent, PlanInv, TypeOK
<1> QED
  BY <1>1, WrittenIs

\* A commit that leaves plan and link.
LEMMA RowsChange ==
  ASSUME OneWorker, PlanInv, NEW w \in Workers, NEW t, worker' = [worker EXCEPT ![w] = t],
         t.op \in {"idle", "applied", "session"},
         sub'.plan = sub.plan, sub'.stripe = sub.stripe,
         UNCHANGED <<stripe, events, tenantPlan, overruled>>
  PROVE  (RowsAreCurrent /\ PlansAgree /\ Bought)'
<1>1. \A v \in Workers : RowIsCurrent(worker[v])'
  BY OneMoves DEF PlanInv, RowIsCurrent
<1>2. Bought'
  BY DEF PlanInv, Bought
<1> QED
  BY <1>1, <1>2 DEF PlanInv, RowsAreCurrent, PlansAgree

\* What Stripe does leaves the plan of a subscription that there is.
LEMMA BoughtStays ==
  ASSUME PlanInv, NEW s, NEW becomes, NEW es, Tells(s, becomes, es), UNCHANGED sub
  PROVE  Bought'
<1>0. Adds(es) /\ TypeOK
  BY OldOrTold DEF PlanInv
<1>1. /\ stripe'[s] = becomes /\ stripe'[s] # NoSub
      /\ \A o \in SubIds : o # s => stripe'[o] = stripe[o]
      /\ stripe[s] # NoSub => becomes.plan = stripe[s].plan
  BY <1>0, OthersStay DEF Tells
<1>2. \A o \in SubIds : stripe[o] # NoSub => stripe'[o] # NoSub /\ stripe'[o].plan = stripe[o].plan
  BY <1>1
<1>3. ASSUME NEW e \in 1 .. Len(events'), events'[e].type = "checkout"
      PROVE  stripe'[events'[e].sub] # NoSub /\ events'[e].plan = stripe'[events'[e].sub].plan
  <2>1. CASE e \in 1 .. Len(events)
    <3>1. events'[e] = events[e] /\ events[e].sub \in SubIds
      BY <1>0, <2>1, EventHas DEF Adds
    <3>2. stripe[events[e].sub] # NoSub /\ events[e].plan = stripe[events[e].sub].plan
      BY <1>3, <2>1, <3>1 DEF PlanInv, Bought
    <3> QED
      BY <1>2, <3>1, <3>2
  <2>2. ASSUME NEW i \in 1 .. Len(es), e = Len(events) + i
        PROVE  stripe'[events'[e].sub] # NoSub /\ events'[e].plan = stripe'[events'[e].sub].plan
    <3>1. events'[e] = es[i] /\ es[i].sub = s
      BY <1>0, <2>2 DEF Adds, Tells
    <3>2. es[i].plan = becomes.plan
      BY <1>3, <3>1 DEF Tells
    <3> QED
      BY <1>1, <3>1, <3>2
  <2> QED
    BY <1>0, <2>1, <2>2 DEF Adds
<1>4. sub.stripe # NoSub => stripe'[sub.stripe] # NoSub /\ sub.plan = stripe'[sub.stripe].plan
  <2>1. sub.stripe \in SubIds \cup {NoSub}
    BY <1>0 DEF TypeOK, Subscription
  <2> QED
    BY <1>2, <2>1 DEF PlanInv, Bought
<1> QED
  BY <1>3, <1>4 DEF Bought

\* What an event makes of the row: it links, or it brings a status.
LEMMA RowAfterEvent ==
  ASSUME NEW row \in Subscription, NEW event \in Event
  PROVE  LET new == AfterEvent(row, event)
         IN /\ event.type = "checkout" =>
                 new.stripe = event.sub /\ new.plan = event.plan /\ new.status = Implied(event)
            /\ event.type # "checkout" => new.stripe = row.stripe /\ new.plan = row.plan
            /\ event.type # "checkout" /\ row.stripe = event.sub => new.status = Implied(event)
            /\ event.type # "checkout" /\ row.stripe # event.sub => new = row
<1>1. CASE event.type = "checkout"
  <2>1. AfterEvent(row, event)
          = [row EXCEPT !.plan = event.plan, !.status = "ACTIVE",
                        !.stripe = event.sub, !.customer = event.customer]
    BY <1>1 DEF AfterEvent
  <2>2. Implied(event) = "ACTIVE"
    BY <1>1, ImpliedOf
  <2> QED
    BY <1>1, <2>1, <2>2 DEF Subscription
<1>2. CASE event.type # "checkout" /\ row.stripe # event.sub
  <2>1. AfterEvent(row, event) = row
    BY <1>2 DEF AfterEvent
  <2> QED
    BY <1>2, <2>1
<1>3. CASE event.type = "subscription" /\ row.stripe = event.sub
  <2>1. AfterEvent(row, event)
          = [row EXCEPT !.status = ToSubStatus(event.status), !.cancelled = event.cancelled]
    BY <1>3 DEF AfterEvent
  <2>2. Implied(event) = ToSubStatus(event.status)
    BY <1>3 DEF Implied
  <2> QED
    BY <1>3, <2>1, <2>2 DEF Subscription
<1>4. CASE event.type = "invoice" /\ row.stripe = event.sub
  <2>1. AfterEvent(row, event)
          = [row EXCEPT !.status = IF event.failed THEN "PAST_DUE" ELSE "ACTIVE"]
    BY <1>4 DEF AfterEvent
  <2>2. Implied(event) = IF event.failed THEN "PAST_DUE" ELSE "ACTIVE"
    BY <1>4 DEF Implied
  <2> QED
    BY <1>4, <2>1, <2>2 DEF Subscription
<1> QED
  BY <1>1, <1>2, <1>3, <1>4, EventHas

LEMMA PlanStep ==
  ASSUME OneWorker, PlanInv, [Next]_vars
  PROVE  (RowsAreCurrent /\ PlansAgree /\ Bought)'
<1> USE DEF remote, local, plans
<1>0. Idle.op = "idle" /\ sub \in Subscription
  BY DEF Idle, PlanInv, TypeOK
<1>1. CASE UNCHANGED <<stripe, events, sub, tenantPlan, overruled, worker>>
  BY <1>1 DEF PlanInv, RowsAreCurrent, RowIsCurrent, PlansAgree, Bought
<1>2. CASE Stripe
  <2>1. UNCHANGED <<sub, tenantPlan, overruled, worker>> /\ \E s, becomes, es : Tells(s, becomes, es)
    BY <1>2, StripeTells DEF PlanInv
  <2>2. Bought'
    BY <2>1, BoughtStays
  <2> QED
    BY <2>1, <2>2 DEF PlanInv, RowsAreCurrent, RowIsCurrent, PlansAgree
<1>3. ASSUME NEW w \in Workers, Webhook(w) PROVE (RowsAreCurrent /\ PlansAgree /\ Bought)'
  <2>0. RowIsCurrent(worker[w]) /\ worker[w] \in Task /\ Placed(worker[w])
    BY DEF PlanInv, RowsAreCurrent, TypeOK, Placed
  <2>1. CASE Duplicate(w) \/ InvoiceClash(w) \/ Mark(w)
    <3>1. /\ worker' = [worker EXCEPT ![w] = Idle]
          /\ UNCHANGED <<stripe, events, sub, tenantPlan, overruled>>
      BY <2>1 DEF Duplicate, InvoiceClash, Mark
    <3> QED
      BY <3>1, IdleIsCurrent, RowsStay
  <2>2. ASSUME NEW e \in Ids, Receive(w, e) PROVE (RowsAreCurrent /\ PlansAgree /\ Bought)'
    <3> DEFINE t == [op |-> "read", event |-> e, seen |-> log[e]]
    <3>1. CASE Settled(e)
      BY <1>1, <2>2, <3>1 DEF Receive
    <3>2. CASE ~Settled(e)
      <4>1. /\ worker' = [worker EXCEPT ![w] = t]
            /\ UNCHANGED <<stripe, events, sub, tenantPlan, overruled>>
        BY <2>2, <3>2 DEF Receive
      <4>2. RowIsCurrent(t)
        BY DEF RowIsCurrent
      <4> HIDE DEF t
      <4> QED
        BY <4>1, <4>2, RowsStay
    <3> QED
      BY <3>1, <3>2
  <2>3. CASE Log(w)
    <3> DEFINE t == [op |-> "logged", event |-> worker[w].event]
    <3>1. /\ worker' = [worker EXCEPT ![w] = t]
          /\ UNCHANGED <<stripe, events, sub, tenantPlan, overruled>>
      BY <2>3 DEF Log
    <3>2. RowIsCurrent(t)
      BY DEF RowIsCurrent
    <3> HIDE DEF t
    <3> QED
      BY <3>1, <3>2, RowsStay
  <2>4. CASE Load(w)
    <3> DEFINE t == [op |-> "loaded", event |-> worker[w].event, row |-> sub,
                     invoice |-> invoices[events[worker[w].event].sub]]
    <3>1. /\ worker' = [worker EXCEPT ![w] = t]
          /\ UNCHANGED <<stripe, events, sub, tenantPlan, overruled>>
      BY <2>4 DEF Load
    <3>2. RowIsCurrent(t)
      BY DEF RowIsCurrent
    <3> HIDE DEF t
    <3> QED
      BY <3>1, <3>2, RowsStay
  <2>5. CASE ApplyEvent(w)
    <3> DEFINE e == worker[w].event
               event == events[e]
               new == AfterEvent(worker[w].row, event)
               t == [op |-> "applied", event |-> e]
    <3>1. worker[w].op = "loaded" /\ worker[w].row = sub
      BY <2>0, <2>5 DEF ApplyEvent, RowIsCurrent
    <3>2. e \in 1 .. Len(events)
      BY <2>0, <3>1, TaskHas DEF Placed, Ids, PlanInv, TypeOK
    <3>3. event \in Event
      BY <3>2 DEF PlanInv, TypeOK
    <3>4. /\ sub' = Written(worker[w].row, new, sub)
          /\ IF event.type = "checkout"
             THEN tenantPlan' = event.plan
             ELSE UNCHANGED <<tenantPlan, overruled>>
          /\ worker' = [worker EXCEPT ![w] = t] /\ UNCHANGED <<stripe, events>>
      BY <2>5 DEF ApplyEvent
    <3>5. new \in Subscription
      BY <1>0, <3>1, <3>3, AfterEventIs
    <3>6. /\ event.type = "checkout" => new.stripe = event.sub /\ new.plan = event.plan
          /\ event.type # "checkout" => new.stripe = sub.stripe /\ new.plan = sub.plan
      BY <1>0, <3>1, <3>3, RowAfterEvent
    <3>7. t.op = "applied"
      OBVIOUS
    <3>8. event.type = "checkout" => stripe[event.sub] # NoSub /\ event.plan = stripe[event.sub].plan
      BY <3>2 DEF PlanInv, Bought
    <3> HIDE DEF e, event, new, t
    <3>9. sub' = new
      BY <2>0, <3>1, <3>4, <3>5, RowIsWritten
    <3>10. CASE event.type # "checkout"
      BY <3>4, <3>6, <3>7, <3>9, <3>10, RowsChange
    <3>11. CASE event.type = "checkout"
      <4>1. \A v \in Workers : RowIsCurrent(worker[v])'
        BY <3>4, <3>7, OneMoves DEF PlanInv, RowIsCurrent
      <4>2. PlansAgree'
        BY <3>4, <3>6, <3>9, <3>11 DEF PlansAgree
      <4>3. Bought'
        BY <3>4, <3>6, <3>8, <3>9, <3>11 DEF PlanInv, Bought
      <4> QED
        BY <4>1, <4>2, <4>3 DEF RowsAreCurrent
    <3> QED
      BY <3>10, <3>11
  <2>6. CASE Throw(w)
    <3> DEFINE e == worker[w].event
               half == HalfDone(worker[w].row, events[e])
    <3>1. /\ worker' = [worker EXCEPT ![w] = Idle]
          /\ UNCHANGED <<stripe, events, tenantPlan, overruled>>
      BY <2>6 DEF Throw
    <3>2. CASE UNCHANGED sub
      BY <3>1, <3>2, IdleIsCurrent, RowsStay
    <3>3. CASE worker[w].op = "loaded" /\ sub' = Written(worker[w].row, half, sub)
      <4>1. worker[w].row = sub /\ e \in 1 .. Len(events)
        BY <2>0, <3>3, TaskHas DEF RowIsCurrent, Placed, Ids, PlanInv, TypeOK
      <4>2. half \in Subscription /\ half.plan = sub.plan /\ half.stripe = sub.stripe
        BY <1>0, <4>1, HalfDoneIs DEF PlanInv, TypeOK
      <4> HIDE DEF half
      <4>3. sub' = half
        BY <2>0, <3>3, <4>2, RowIsWritten
      <4> QED
        BY <1>0, <3>1, <4>2, <4>3, RowsChange
    <3> QED
      BY <2>6, <3>2, <3>3 DEF Throw
  <2> QED
    BY <1>3, <2>1, <2>2, <2>3, <2>4, <2>5, <2>6 DEF Webhook
<1>4. ASSUME NEW w \in Workers, Request(w) PROVE (RowsAreCurrent /\ PlansAgree /\ Bought)'
  <2>0. RowIsCurrent(worker[w]) /\ worker[w] \in Task
    BY DEF PlanInv, RowsAreCurrent, TypeOK
  <2>1. CASE Refuse(w) \/ OpenSession(w)
    <3>1. /\ worker' = [worker EXCEPT ![w] = Idle]
          /\ UNCHANGED <<stripe, events, sub, tenantPlan, overruled>>
      BY <2>1 DEF Refuse, OpenSession
    <3> QED
      BY <3>1, IdleIsCurrent, RowsStay
  <2>2. ASSUME NEW op, BeginModify(w, op)
        PROVE  (RowsAreCurrent /\ PlansAgree /\ Bought)'
    <3> DEFINE t == [op |-> op, row |-> sub]
    <3>1. /\ worker' = [worker EXCEPT ![w] = t]
          /\ UNCHANGED <<stripe, events, sub, tenantPlan, overruled>>
      BY <2>2 DEF BeginModify
    <3>2. RowIsCurrent(t)
      BY DEF RowIsCurrent
    <3> HIDE DEF t
    <3> QED
      BY <3>1, <3>2, RowsStay
  <2>3. ASSUME NEW plan, BeginCheckout(w, plan) PROVE (RowsAreCurrent /\ PlansAgree /\ Bought)'
    <3> DEFINE t1 == [op |-> "session", plan |-> plan, customer |-> sub.customer]
               t2 == [op |-> "customer", plan |-> plan, row |-> sub, customer |-> customers + 1]
    <3>1. /\ worker' = [worker EXCEPT ![w] = t1] \/ worker' = [worker EXCEPT ![w] = t2]
          /\ UNCHANGED <<stripe, events, sub, tenantPlan, overruled>>
      BY <2>3 DEF BeginCheckout
    <3>2. RowIsCurrent(t1) /\ RowIsCurrent(t2)
      BY DEF RowIsCurrent
    <3> HIDE DEF t1, t2
    <3> QED
      BY <3>1, <3>2, RowsStay
  <2>4. CASE Modify(w)
    <3>1. PICK becomes, es :
            /\ Tells(worker[w].row.stripe, becomes, es)
            /\ worker' = [worker EXCEPT ![w] =
                 [op |-> "modified", row |-> worker[w].row, answer |-> becomes]]
            /\ UNCHANGED <<acked, local>>
      BY <2>4, ModifyTells DEF PlanInv
    <3>2. Bought'
      BY <3>1, BoughtStays
    <3>3. worker[w].row = sub
      BY <2>0, <2>4 DEF RowIsCurrent, Modify
    <3>4. UNCHANGED <<sub, tenantPlan, overruled>>
      BY <3>1 DEF local, plans
    <3>5. \A v \in Workers : RowIsCurrent(worker[v])'
      <4> DEFINE t == [op |-> "modified", row |-> worker[w].row, answer |-> becomes]
      <4>1. t.row = sub'
        BY <3>3, <3>4
      <4>2. worker' = [worker EXCEPT ![w] = t]
        BY <3>1
      <4> HIDE DEF t
      <4>3. \A v \in Workers : worker'[v] = t
        BY <4>2, OneMoves DEF PlanInv
      <4> QED
        BY <4>1, <4>3 DEF RowIsCurrent
    <3> QED
      BY <3>2, <3>4, <3>5 DEF PlanInv, PlansAgree, RowsAreCurrent
  <2>5. CASE CommitModify(w)
    <3> DEFINE q == worker[w]
               new == FromAnswer(q.row, q.answer)
    <3>1. q.op = "modified" /\ q.row = sub /\ q.answer \in RemoteState
      BY <2>0, <2>5, TaskHas DEF CommitModify, RowIsCurrent
    <3>2. /\ sub' = Written(q.row, new, sub)
          /\ worker' = [worker EXCEPT ![w] = Idle]
          /\ UNCHANGED <<stripe, events, tenantPlan, overruled>>
      BY <2>5 DEF CommitModify
    <3>3. new \in Subscription /\ new.plan = sub.plan /\ new.stripe = sub.stripe
      BY <1>0, <3>1, FromAnswerIs
    <3> HIDE DEF new
    <3>4. sub' = new
      BY <2>0, <3>1, <3>2, <3>3, RowIsWritten
    <3> QED
      BY <1>0, <3>2, <3>3, <3>4, RowsChange
  <2>6. CASE StoreCustomer(w)
    <3> DEFINE q == worker[w]
               new == [q.row EXCEPT !.customer = q.customer]
               t == [op |-> "session", plan |-> q.plan, customer |-> q.customer]
    <3>1. q.op = "customer" /\ q.row = sub /\ q.customer \in 1 .. MaxCustomers
      BY <2>0, <2>6, TaskHas DEF StoreCustomer, RowIsCurrent
    <3>2. /\ sub' = Written(q.row, new, sub)
          /\ worker' = [worker EXCEPT ![w] = t]
          /\ UNCHANGED <<stripe, events, tenantPlan, overruled>>
      BY <2>6 DEF StoreCustomer
    <3>3. new \in Subscription /\ new.plan = sub.plan /\ new.stripe = sub.stripe
      BY <1>0, <3>1, StripeAssumption DEF Subscription
    <3>4. t.op = "session"
      OBVIOUS
    <3> HIDE DEF new, t
    <3>5. sub' = new
      BY <2>0, <3>1, <3>2, <3>3, RowIsWritten
    <3> QED
      BY <3>2, <3>3, <3>4, <3>5, RowsChange
  <2> QED
    BY <1>4, <2>1, <2>2, <2>3, <2>4, <2>5, <2>6 DEF Request
<1>5. ASSUME NEW w \in Workers, Crash(w) PROVE (RowsAreCurrent /\ PlansAgree /\ Bought)'
  <2>1. /\ worker' = [worker EXCEPT ![w] = Idle]
        /\ UNCHANGED <<stripe, events, sub, tenantPlan, overruled>>
    BY <1>5 DEF Crash
  <2> QED
    BY <2>1, IdleIsCurrent, RowsStay
<1>6. ASSUME NEW plan, SetPlan(plan) PROVE (RowsAreCurrent /\ PlansAgree /\ Bought)'
  <2>1. overruled' /\ UNCHANGED <<stripe, events, sub, worker>>
    BY <1>6 DEF SetPlan
  <2> QED
    BY <2>1 DEF PlanInv, RowsAreCurrent, RowIsCurrent, PlansAgree, Bought
<1>7. CASE UNCHANGED vars
  BY <1>1, <1>7 DEF vars
<1> QED
  BY <1>2, <1>3, <1>4, <1>5, <1>6, <1>7 DEF Next

LEMMA PlanInvariance == ASSUME OneWorker PROVE Spec => []PlanInv
<1>1. Init => PlanInv
  <2> SUFFICES ASSUME Init PROVE PlanInv
    OBVIOUS
  <2>1. RowsAreCurrent
    BY IdleIsCurrent DEF Init, RowsAreCurrent
  <2>2. PlansAgree
    BY DEF Init, PlansAgree
  <2>3. Bought
    BY DEF Init, Bought
  <2> QED
    BY <2>1, <2>2, <2>3, InitTypes DEF PlanInv
<1>2. PlanInv /\ [Next]_vars => PlanInv'
  BY BillingTypes, PlanStep DEF PlanInv
<1> QED
  BY <1>1, <1>2, PTL DEF Spec

\* Served one at a time, deliveries and requests leave subscription and tenant
\* with one plan, unless the platform sets the tenant's, and the row with the plan
\* that was bought with the linked subscription, in whatever order the events come
\* and with exceptions and crashes.
THEOREM PlansAlwaysAgree == ASSUME OneWorker PROVE Spec => [](PlansAgree /\ PlanIsBought)
<1>1. PlanInv => PlansAgree /\ PlanIsBought
  BY DEF PlanInv, Bought, PlanIsBought
<1> QED
  BY <1>1, PlanInvariance, PTL

-----------------------------------------------------------------------------
(* StripeBilling: one worker, events in order *)

\* The event has been applied.
Past(e) == e \in acked \/ \E w \in Workers : worker[w].op = "applied" /\ worker[w].event = e

\* Stripe has something to say about s that is not applied yet.
Undone(s) == \E e \in 1 .. Len(events) : events[e].sub = s /\ ~Past(e)

\* A delivery is of the first event that is not answered, its first.
IsNext(t) ==
  /\ t.op \in {"read", "logged", "loaded", "applied"} =>
       t.event \notin acked /\ 1 .. t.event - 1 \subseteq acked
  /\ t.op = "read" => t.seen = "none"
  /\ t.op = "loaded" => t.invoice = invoices[events[t.event].sub]

\* What has a row in the log is answered or being handled.
Accounted(e) == e \in acked \/ \E w \in Workers : Handles(w) /\ worker[w].event = e

\* Events are handled one after the other, each once.
InTurn ==
  /\ \A e \in acked : 1 .. e - 1 \subseteq acked
  /\ \A w \in Workers : IsNext(worker[w])
  /\ \A e \in Ids : log[e] # "none" => Accounted(e)

\* The last event about a subscription tells its status, and one its creation.
EventsTell ==
  /\ \A e \in 1 .. Len(events) :
       /\ stripe[events[e].sub] # NoSub
       /\ (\A f \in 1 .. Len(events) : f > e => events[f].sub # events[e].sub)
            => Implied(events[e]) = ToSubStatus(stripe[events[e].sub].status)
  /\ \A e, f \in 1 .. Len(events) :
       events[e].type = "checkout" /\ events[f].type = "checkout" /\ events[e].sub = events[f].sub
         => e = f

\* A completed checkout that waits is of a subscription not linked yet.
CheckoutsWait ==
  \A e \in 1 .. Len(events) : events[e].type = "checkout" /\ ~Past(e) =>
    events[e].sub # sub.stripe

\* The status is that of the linked subscription but for what is under way.
LinkAgrees ==
  sub.stripe # NoSub /\ ~Undone(sub.stripe) => sub.status = ToSubStatus(stripe[sub.stripe].status)

\* When a request waits to commit, the event of what it has changed at Stripe is
\* still to come.
AnswersWait ==
  \A w \in Workers : worker[w].op = "modified" => sub.stripe # NoSub /\ Undone(sub.stripe)

Linked == CheckoutsWait /\ LinkAgrees /\ AnswersWait

SettledInv == PlanInv /\ InTurn /\ EventsTell /\ Linked

LEMMA TellsMore ==
  ASSUME TypeOK, EventsTell, NEW s, NEW becomes, NEW es, Tells(s, becomes, es)
  PROVE  EventsTell'
<1>0. Adds(es)
  BY OldOrTold
<1>a. /\ stripe'[s] = becomes /\ stripe'[s] # NoSub
      /\ \A o \in SubIds : o # s => stripe'[o] = stripe[o]
  BY OthersStay
<1>1. ASSUME NEW e \in 1 .. Len(events') PROVE stripe'[events'[e].sub] # NoSub
  <2>1. CASE e \in 1 .. Len(events)
    <3>1. events'[e] = events[e] /\ events[e].sub \in SubIds /\ stripe[events[e].sub] # NoSub
      BY <1>0, <2>1, EventHas DEF Adds, EventsTell
    <3> QED
      BY <1>a, <3>1
  <2>2. ASSUME NEW i \in 1 .. Len(es), e = Len(events) + i
        PROVE  stripe'[events'[e].sub] # NoSub
    <3>1. events'[e] = es[i] /\ es[i].sub = s
      BY <1>0, <2>2 DEF Adds, Tells
    <3> QED
      BY <1>a, <3>1
  <2> QED
    BY <1>0, <2>1, <2>2 DEF Adds
<1>2. ASSUME NEW e \in 1 .. Len(events'),
             \A f \in 1 .. Len(events') : f > e => events'[f].sub # events'[e].sub
      PROVE  Implied(events'[e]) = ToSubStatus(stripe'[events'[e].sub].status)
  <2> DEFINE k == Len(events) + Len(es)
  <2>1. k \in 1 .. Len(events') /\ events'[k] = es[Len(es)] /\ events'[k].sub = s
    <3>1. Len(es) \in 1 .. Len(es) /\ es[Len(es)].sub = s
      BY <1>0 DEF Adds, Tells
    <3> QED
      BY <1>0, <3>1 DEF Adds
  <2>2. CASE e \in 1 .. Len(events)
    <3>1. events'[e] = events[e] /\ events[e].sub \in SubIds
      BY <1>0, <2>2, EventHas DEF Adds
    <3>2. events[e].sub # s
      <4>1. k > e
        BY <1>0, <2>2 DEF Adds, Tells
      <4> QED
        BY <1>2, <2>1, <3>1, <4>1
    <3>3. \A f \in 1 .. Len(events) : f > e => events[f].sub # events[e].sub
      BY <1>0, <1>2, <3>1 DEF Adds
    <3>4. Implied(events[e]) = ToSubStatus(stripe[events[e].sub].status)
      BY <2>2, <3>3 DEF EventsTell
    <3>5. stripe'[events[e].sub] = stripe[events[e].sub]
      BY <1>a, <3>1, <3>2
    <3> QED
      BY <3>1, <3>4, <3>5
  <2>3. ASSUME NEW i \in 1 .. Len(es), e = Len(events) + i
        PROVE  Implied(events'[e]) = ToSubStatus(stripe'[events'[e].sub].status)
    <3>1. events'[e] = es[i] /\ es[i].sub = s
      BY <1>0, <2>3 DEF Adds, Tells
    <3>2. ~(k > e)
      BY <1>2, <2>1, <3>1
    <3>3. i = Len(es)
      BY <1>0, <2>3, <3>2 DEF Adds
    <3> QED
      BY <1>a, <3>1, <3>3 DEF Tells
  <2> QED
    BY <1>0, <1>2, <2>2, <2>3 DEF Adds
<1>3. ASSUME NEW e \in 1 .. Len(events'), NEW f \in 1 .. Len(events'),
             events'[e].type = "checkout", events'[f].type = "checkout",
             events'[e].sub = events'[f].sub
      PROVE  e = f
  <2>1. ASSUME NEW a \in 1 .. Len(events), NEW i \in 1 .. Len(es), es[i].type = "checkout"
        PROVE  events[a].sub # es[i].sub
    <3>1. es[i].sub = s /\ stripe[s] = NoSub
      BY <2>1 DEF Tells
    <3>2. stripe[events[a].sub] # NoSub
      BY DEF EventsTell
    <3> QED
      BY <3>1, <3>2
  <2>2. CASE e \in 1 .. Len(events) /\ f \in 1 .. Len(events)
    <3>1. events'[e] = events[e] /\ events'[f] = events[f]
      BY <1>0, <2>2 DEF Adds
    <3> QED
      BY <1>3, <2>2, <3>1 DEF EventsTell
  <2>3. ASSUME NEW i \in 1 .. Len(es), NEW j \in 1 .. Len(es),
               e = Len(events) + i, f = Len(events) + j
        PROVE  e = f
    <3>1. events'[e] = es[i] /\ events'[f] = es[j]
      BY <1>0, <2>3 DEF Adds
    <3> QED
      BY <1>3, <2>3, <3>1 DEF Tells
  <2>4. CASE e \in 1 .. Len(events) /\ f \notin 1 .. Len(events)
    <3>1. PICK j \in 1 .. Len(es) : f = Len(events) + j
      BY <1>0, <2>4 DEF Adds
    <3>2. events'[e] = events[e] /\ events'[f] = es[j]
      BY <1>0, <2>4, <3>1 DEF Adds
    <3> QED
      BY <1>3, <2>1, <2>4, <3>2
  <2>5. CASE e \notin 1 .. Len(events) /\ f \in 1 .. Len(events)
    <3>1. PICK j \in 1 .. Len(es) : e = Len(events) + j
      BY <1>0, <2>5 DEF Adds
    <3>2. events'[f] = events[f] /\ events'[e] = es[j]
      BY <1>0, <2>5, <3>1 DEF Adds
    <3> QED
      BY <1>3, <2>1, <2>5, <3>2
  <2> QED
    BY <1>0, <2>2, <2>3, <2>4, <2>5 DEF Adds
<1> QED
  BY <1>1, <1>2, <1>3 DEF EventsTell

LEMMA PastAreTold ==
  ASSUME TypeOK, NEW e, Past(e)
  PROVE  e \in 1 .. Len(events)
<1>1. CASE e \in acked
  BY <1>1 DEF TypeOK
<1>2. ASSUME NEW w \in Workers, worker[w].op = "applied", worker[w].event = e
      PROVE  e \in 1 .. Len(events)
  <2>1. worker[w].event \in Ids /\ worker[w].event <= Len(events)
    BY <1>2, TaskHas DEF TypeOK
  <2> QED
    BY <1>2, <2>1 DEF Ids, TypeOK
<1> QED
  BY <1>1, <1>2 DEF Past

\* What Stripe tells is still to be applied.
LEMMA TellsUndone ==
  ASSUME TypeOK, NEW s, NEW becomes, NEW es, Tells(s, becomes, es),
         \A e : Past(e)' <=> Past(e)
  PROVE  /\ Undone(s)'
         /\ \A o : Undone(o) => Undone(o)'
         /\ \A o : o # s /\ Undone(o)' => Undone(o)
<1>0. Adds(es)
  BY OldOrTold
<1>1. Undone(s)'
  <2>1. 1 \in 1 .. Len(es) /\ es[1].sub = s
    BY <1>0 DEF Adds, Tells
  <2>2. /\ Len(events) + 1 \in 1 .. Len(events') /\ events'[Len(events) + 1].sub = s
        /\ Len(events) + 1 \notin 1 .. Len(events)
    BY <1>0, <2>1 DEF Adds
  <2>3. ~Past(Len(events) + 1)
    BY <2>2, PastAreTold
  <2> QED
    BY <2>2, <2>3 DEF Undone
<1>2. ASSUME NEW o, Undone(o) PROVE Undone(o)'
  BY <1>0, <1>2 DEF Adds, Undone
<1>3. ASSUME NEW o, o # s, Undone(o)' PROVE Undone(o)
  <2>1. PICK e \in 1 .. Len(events') : events'[e].sub = o /\ ~Past(e)
    BY <1>3 DEF Undone
  <2>2. e \in 1 .. Len(events)
    <3>1. ASSUME NEW i \in 1 .. Len(es), e = Len(events) + i PROVE FALSE
      BY <1>0, <1>3, <2>1, <3>1 DEF Adds, Tells
    <3> QED
      BY <1>0, <3>1 DEF Adds
  <2>3. events'[e] = events[e]
    BY <1>0, <2>2 DEF Adds
  <2> QED
    BY <2>1, <2>2, <2>3 DEF Undone
<1> QED
  BY <1>1, <1>2, <1>3

\* What Stripe tells leaves the checkouts that wait; one of s links it first.
LEMMA TellsCheckouts ==
  ASSUME PlanInv, CheckoutsWait, NEW s, NEW becomes, NEW es, Tells(s, becomes, es),
         \A e : Past(e)' <=> Past(e), UNCHANGED sub
  PROVE  CheckoutsWait'
<1>0. Adds(es) /\ s # NoSub
  BY OldOrTold, StripeAssumption DEF PlanInv, Tells
<1>1. SUFFICES ASSUME NEW e \in 1 .. Len(events'), events'[e].type = "checkout", ~Past(e)
      PROVE  events'[e].sub # sub.stripe
  BY DEF CheckoutsWait
<1>2. CASE e \in 1 .. Len(events)
  BY <1>0, <1>1, <1>2 DEF Adds, CheckoutsWait
<1>3. ASSUME NEW i \in 1 .. Len(es), e = Len(events) + i PROVE events'[e].sub # sub.stripe
  <2>1. events'[e] = es[i] /\ es[i].sub = s
    BY <1>0, <1>3 DEF Adds, Tells
  <2>2. stripe[s] = NoSub
    BY <1>1, <2>1 DEF Tells
  <2> QED
    BY <1>0, <2>1, <2>2 DEF PlanInv, Bought
<1> QED
  BY <1>0, <1>2, <1>3 DEF Adds

\* A step of Stripe alone.
LEMMA StripeLinks ==
  ASSUME PlanInv, Linked, NEW s, NEW becomes, NEW es, Tells(s, becomes, es),
         UNCHANGED <<acked, worker, sub>>
  PROVE  Linked'
<1>0. TypeOK
  BY DEF PlanInv
<1>1. \A o \in SubIds : o # s => stripe'[o] = stripe[o]
  BY <1>0, OthersStay
<1>2. \A e : Past(e)' <=> Past(e)
  BY DEF Past
<1>3. /\ Undone(s)'
      /\ \A o : Undone(o) => Undone(o)'
      /\ \A o : o # s /\ Undone(o)' => Undone(o)
  BY <1>0, <1>2, TellsUndone
<1>4. sub.stripe \in SubIds \cup {NoSub}
  BY <1>0 DEF TypeOK, Subscription
<1>5. CheckoutsWait'
  BY <1>2, TellsCheckouts DEF Linked
<1>6. LinkAgrees'
  <2>1. SUFFICES ASSUME sub.stripe # NoSub, ~Undone(sub.stripe)'
        PROVE  sub.status = ToSubStatus(stripe'[sub.stripe].status)
    BY DEF LinkAgrees
  <2>2. sub.stripe # s
    BY <1>3, <2>1
  <2> QED
    BY <1>1, <1>3, <1>4, <2>1, <2>2 DEF Linked, LinkAgrees
<1>7. AnswersWait'
  BY <1>3 DEF Linked, AnswersWait
<1> QED
  BY <1>5, <1>6, <1>7 DEF Linked

\* Deliveries keep their turn when Stripe tells more.
LEMMA TurnsStay ==
  ASSUME TypeOK, InTurn, NEW s, NEW becomes, NEW es, Tells(s, becomes, es),
         UNCHANGED <<acked, local>>,
         \A v \in Workers : worker'[v] = worker[v] \/ (~Handles(v) /\ worker'[v].op = "modified")
  PROVE  InTurn'
<1>1. \A e \in 1 .. Len(events) : events'[e] = events[e]
  BY OldOrTold DEF Adds
<1>2. ASSUME NEW v \in Workers PROVE IsNext(worker[v])'
  <2>1. CASE worker'[v] = worker[v] /\ worker[v].op # "loaded"
    BY <2>1 DEF InTurn, IsNext
  <2>2. CASE worker'[v] = worker[v] /\ worker[v].op = "loaded"
    <3>1. worker[v].event \in 1 .. Len(events)
      BY <2>2, TaskHas DEF TypeOK, Ids
    <3> QED
      BY <1>1, <2>2, <3>1 DEF InTurn, IsNext, local
  <2>3. CASE worker'[v].op = "modified"
    BY <2>3 DEF IsNext
  <2> QED
    BY <2>1, <2>2, <2>3
<1>3. ASSUME NEW e \in Ids, log'[e] # "none" PROVE Accounted(e)'
  <2>1. Accounted(e)
    BY <1>3 DEF InTurn, local
  <2> QED
    BY <2>1 DEF Accounted, Handles
<1> QED
  BY <1>2, <1>3 DEF InTurn

Settling == (InTurn /\ EventsTell /\ Linked)'

LEMMA StripeSettles ==
  ASSUME SettledInv, Stripe
  PROVE  Settling
<1>1. PICK s, becomes, es : Tells(s, becomes, es) /\ UNCHANGED <<acked, worker, local>>
  BY StripeTells DEF SettledInv, PlanInv
<1>2. UNCHANGED <<acked, worker, sub>>
  BY <1>1 DEF local
<1>3. PlanInv /\ TypeOK /\ InTurn /\ EventsTell /\ Linked
  BY DEF SettledInv, PlanInv
<1>4. EventsTell'
  BY <1>1, <1>3, TellsMore
<1>5. InTurn'
  <2>1. \A v \in Workers : worker'[v] = worker[v] \/ (~Handles(v) /\ worker'[v].op = "modified")
    BY <1>1
  <2> QED
    BY <1>1, <1>3, <2>1, TurnsStay
<1>6. Linked'
  BY <1>1, <1>2, <1>3, StripeLinks
<1> QED
  BY <1>4, <1>5, <1>6 DEF Settling

\* A request has changed the linked subscription at Stripe; the event that says so
\* is still to come when it commits.
LEMMA ModifySettles ==
  ASSUME OneWorker, SettledInv, NEW w \in Workers, Modify(w)
  PROVE  Settling
<1>0. PlanInv /\ TypeOK /\ InTurn /\ EventsTell /\ Linked
  BY DEF SettledInv, PlanInv
<1>1. PICK s : s = sub.stripe
  OBVIOUS
<1>2. worker[w].op \in {"cancel", "resume"} /\ worker[w].row = sub
  BY DEF Modify, SettledInv, PlanInv, RowsAreCurrent, RowIsCurrent
<1>3. PICK becomes, es :
        /\ Tells(s, becomes, es)
        /\ worker' = [worker EXCEPT ![w] =
             [op |-> "modified", row |-> worker[w].row, answer |-> becomes]]
        /\ UNCHANGED <<acked, local>>
  BY <1>0, <1>1, <1>2, ModifyTells
<1>4. PICK t : t = [op |-> "modified", row |-> worker[w].row, answer |-> becomes]
  OBVIOUS
<1>5. t.op = "modified" /\ worker' = [worker EXCEPT ![w] = t]
  BY <1>3, <1>4
<1>6. \A v \in Workers : v = w /\ worker'[v] = t
  BY <1>0, <1>5, OneMoves
<1>7. InTurn'
  <2>1. \A v \in Workers : ~Handles(v) /\ worker'[v].op = "modified"
    BY <1>2, <1>5, <1>6 DEF Handles
  <2> QED
    BY <1>0, <1>3, <2>1, TurnsStay
<1>8. EventsTell'
  BY <1>0, <1>3, TellsMore
<1>9. UNCHANGED sub /\ UNCHANGED acked
  BY <1>3 DEF local
<1>10. \A e : Past(e)' <=> Past(e)
  BY <1>2, <1>5, <1>6, <1>9 DEF Past
<1>11. Undone(s)' /\ s # NoSub
  BY <1>0, <1>3, <1>10, TellsUndone, StripeAssumption DEF Tells
<1>12. Undone(sub.stripe)' /\ sub'.stripe # NoSub
  BY <1>1, <1>9, <1>11
<1>13. CheckoutsWait'
  BY <1>0, <1>3, <1>9, <1>10, TellsCheckouts DEF Linked
<1>14. LinkAgrees' /\ AnswersWait'
  BY <1>12 DEF LinkAgrees, AnswersWait
<1> QED
  BY <1>7, <1>8, <1>13, <1>14 DEF Settling, Linked

\* A step that neither applies, answers nor commits.
LEMMA QuietLinks ==
  ASSUME OneWorker, TypeOK, Linked, NEW w \in Workers, NEW t, worker' = [worker EXCEPT ![w] = t],
         worker[w].op \notin {"applied", "modified"}, t.op \notin {"applied", "modified"},
         UNCHANGED <<stripe, events, acked>>,
         sub'.stripe = sub.stripe, sub'.status = sub.status
  PROVE  Linked'
<1>1. \A v \in Workers : v = w /\ worker'[v] = t
  BY OneMoves
<1>2. \A e : Past(e)' <=> Past(e)
  BY <1>1 DEF Past
<1>3. Undone(sub.stripe)' <=> Undone(sub.stripe)
  BY <1>2 DEF Undone
<1>4. CheckoutsWait'
  BY <1>2 DEF Linked, CheckoutsWait
<1>5. LinkAgrees'
  BY <1>3 DEF Linked, LinkAgrees
<1>6. AnswersWait'
  BY <1>1 DEF AnswersWait
<1> QED
  BY <1>4, <1>5, <1>6 DEF Linked

LEMMA QuietTells ==
  ASSUME EventsTell, UNCHANGED <<stripe, events>>
  PROVE  EventsTell'
  BY DEF EventsTell

\* The only worker goes on with its event, or takes another one up.
LEMMA QuietTurns ==
  ASSUME OneWorker, TypeOK, InTurn, NEW w \in Workers, NEW t, worker' = [worker EXCEPT ![w] = t],
         IsNext(t)', UNCHANGED acked,
         Handles(w) => t.op \in {"logged", "loaded", "applied"} /\ t.event = worker[w].event,
         \A e \in Ids : log'[e] # "none" =>
           log[e] # "none" \/ (t.op \in {"logged", "loaded", "applied"} /\ t.event = e)
  PROVE  InTurn'
<1>1. \A v \in Workers : v = w /\ worker'[v] = t
  BY OneMoves
<1>2. \A v \in Workers : IsNext(worker[v])'
  BY <1>1 DEF IsNext
<1>3. ASSUME NEW e \in Ids, log'[e] # "none" PROVE Accounted(e)'
  BY <1>1, <1>3 DEF InTurn, Accounted, Handles
<1> QED
  BY <1>2, <1>3 DEF InTurn

\* Only the next event is taken up, and no event meets its own row.
LEMMA TakenUpOnce ==
  ASSUME OneWorker, SettledInv, NEW w \in Workers, NEW e \in Ids, e \notin acked, ~Handles(w)
  PROVE  log[e] = "none"
<1>1. \A v \in Workers : v = w
  BY DEF OneWorker
<1> QED
  BY <1>1 DEF SettledInv, InTurn, Accounted

LEMMA DeliverySettles ==
  ASSUME InOrder, SettledInv, NEW w \in Workers,
         \/ \E e \in Ids : Receive(w, e)
         \/ Log(w) \/ Duplicate(w) \/ Load(w)
         \/ Throw(w) \/ InvoiceClash(w) \/ Crash(w)
  PROVE  Settling
<1> USE DEF remote, local, plans
<1>0. /\ OneWorker /\ TypeOK /\ InTurn /\ EventsTell /\ Linked
      /\ worker[w] \in Task /\ Placed(worker[w]) /\ IsNext(worker[w])
  BY DEF InOrder, SettledInv, PlanInv, TypeOK, Placed, InTurn
<1>1. ASSUME NEW e \in Ids, Receive(w, e) PROVE Settling
  <2>1. /\ worker[w] = Idle /\ e \notin acked /\ 1 .. e - 1 \subseteq acked
    BY <1>1 DEF Receive, Deliverable, InOrder
  <2>2. worker[w].op = "idle"
    BY <2>1 DEF Idle
  <2>3. log[e] = "none"
    BY <1>0, <2>1, <2>2, TakenUpOnce DEF Handles
  <2>4. PICK t : t = [op |-> "read", event |-> e, seen |-> log[e]]
    OBVIOUS
  <2>5. worker' = [worker EXCEPT ![w] = t] /\ UNCHANGED <<remote, acked, local>>
    BY <1>1, <2>3, <2>4 DEF Receive, Settled
  <2>6. t.op = "read" /\ t.event = e /\ t.seen = "none"
    BY <2>3, <2>4
  <2>7. IsNext(t)'
    BY <2>1, <2>5, <2>6 DEF IsNext
  <2>8. InTurn'
    BY <1>0, <2>2, <2>5, <2>6, <2>7, QuietTurns DEF Handles
  <2>9. Linked'
    BY <1>0, <2>2, <2>5, <2>6, QuietLinks
  <2> QED
    BY <1>0, <2>5, <2>8, <2>9, QuietTells DEF Settling
<1>2. CASE Log(w)
  <2>1. PICK e : e = worker[w].event
    OBVIOUS
  <2>2. PICK t : t = [op |-> "logged", event |-> e]
    OBVIOUS
  <2>3. worker[w].op = "read" /\ e \in Ids
    BY <1>0, <1>2, <2>1, TaskHas DEF Log
  <2>4. /\ worker' = [worker EXCEPT ![w] = t] /\ log' = [log EXCEPT ![e] = "PROCESSING"]
        /\ UNCHANGED <<remote, acked, sub>>
    BY <1>2, <2>1, <2>2 DEF Log
  <2>5. t.op = "logged" /\ t.event = e
    BY <2>2
  <2>6. IsNext(t)'
    BY <1>0, <2>1, <2>3, <2>4, <2>5 DEF IsNext
  <2>7. InTurn'
    <3>1. \A f \in Ids : log'[f] # "none" => log[f] # "none" \/ t.event = f
      BY <1>0, <2>4, <2>5 DEF TypeOK
    <3> QED
      BY <1>0, <2>3, <2>4, <2>5, <2>6, <3>1, QuietTurns DEF Handles
  <2>8. Linked'
    BY <1>0, <2>3, <2>4, <2>5, QuietLinks
  <2> QED
    BY <1>0, <2>4, <2>7, <2>8, QuietTells DEF Settling
<1>3. CASE Duplicate(w)
  <2>1. worker[w].op = "read" /\ worker[w].event \in Ids
    BY <1>0, <1>3, TaskHas DEF Duplicate
  <2>2. worker[w].seen = "none" /\ worker[w].event \notin acked
    BY <1>0, <2>1 DEF IsNext
  <2>3. log[worker[w].event] = "none"
    BY <1>0, <2>1, <2>2, TakenUpOnce DEF Handles
  <2> QED
    BY <1>3, <2>3 DEF Duplicate, UniqueEvent
<1>4. CASE Load(w)
  <2>1. PICK e : e = worker[w].event
    OBVIOUS
  <2>2. PICK t : t = [op |-> "loaded", event |-> e, row |-> sub,
                      invoice |-> invoices[events[e].sub]]
    OBVIOUS
  <2>3. worker[w].op = "logged"
    BY <1>4 DEF Load
  <2>4. worker' = [worker EXCEPT ![w] = t] /\ UNCHANGED <<remote, acked, local>>
    BY <1>4, <2>1, <2>2 DEF Load
  <2>5. t.op = "loaded" /\ t.event = e /\ t.invoice = invoices[events[e].sub]
    BY <2>2
  <2>6. IsNext(t)'
    BY <1>0, <2>1, <2>3, <2>4, <2>5 DEF IsNext
  <2>7. InTurn'
    BY <1>0, <2>1, <2>3, <2>4, <2>5, <2>6, QuietTurns DEF Handles
  <2>8. Linked'
    BY <1>0, <2>3, <2>4, <2>5, QuietLinks
  <2> QED
    BY <1>0, <2>4, <2>7, <2>8, QuietTells DEF Settling
<1>5. CASE Throw(w) \/ Crash(w)
  BY <1>5 DEF Throw, Crash, InOrder
<1>6. CASE InvoiceClash(w)
  BY <1>0, <1>6 DEF InvoiceClash, IsNext
<1> QED
  BY <1>1, <1>2, <1>3, <1>4, <1>5, <1>6

\* The event that is applied next: of what is told about its subscription nothing
\* is left, or the event has the last word.
LEMMA LastWord ==
  ASSUME OneWorker, TypeOK, InTurn, EventsTell, NEW w \in Workers,
         worker[w].op = "loaded", NEW e, e = worker[w].event,
         NEW t, t.op = "applied", t.event = e, worker' = [worker EXCEPT ![w] = t],
         UNCHANGED <<stripe, events, acked>>
  PROVE  /\ ~Past(e) /\ Past(e)'
         /\ \A f : f # e => (Past(f)' <=> Past(f))
         /\ ~Undone(events[e].sub)'
              => Implied(events[e]) = ToSubStatus(stripe[events[e].sub].status)
<1>0. e \in 1 .. Len(events) /\ e \notin acked /\ Len(events) \in Nat
  BY TaskHas DEF TypeOK, InTurn, IsNext, Ids
<1>1. \A v \in Workers : v = w /\ worker'[v] = t
  BY OneMoves
<1>2. ~Past(e) /\ Past(e)'
  BY <1>0, <1>1 DEF Past
<1>3. \A f : f # e => (Past(f)' <=> Past(f))
  BY <1>1 DEF Past
<1>4. ASSUME ~Undone(events[e].sub)'
      PROVE  Implied(events[e]) = ToSubStatus(stripe[events[e].sub].status)
  <2>1. ASSUME NEW f \in 1 .. Len(events), f > e PROVE events[f].sub # events[e].sub
    <3>1. f \notin acked
      <4>1. f \in acked => 1 .. f - 1 \subseteq acked
        BY DEF InTurn
      <4>2. e \in 1 .. f - 1
        BY <1>0, <2>1
      <4> QED
        BY <1>0, <4>1, <4>2
    <3>2. ~Past(f)'
      BY <1>0, <1>1, <2>1, <3>1 DEF Past
    <3> QED
      BY <1>4, <3>2 DEF Undone
  <2> QED
    BY <1>0, <2>1 DEF EventsTell
<1> QED
  BY <1>2, <1>3, <1>4

\* An event is applied: its row shows what it says, which is how things are at
\* Stripe unless more about the subscription is to come.
LEMMA ApplyLinks ==
  ASSUME OneWorker, TypeOK, InTurn, EventsTell, Linked, NEW w \in Workers,
         worker[w].op = "loaded", NEW e, e = worker[w].event,
         NEW t, t.op = "applied", t.event = e, worker' = [worker EXCEPT ![w] = t],
         UNCHANGED <<stripe, events, acked>>, sub' = AfterEvent(sub, events[e])
  PROVE  Linked'
<1>0. /\ e \in 1 .. Len(events) /\ events[e] \in Event /\ events[e].sub \in SubIds
      /\ events[e].sub # NoSub /\ sub \in Subscription
  <2>1. e \in 1 .. Len(events)
    BY TaskHas DEF TypeOK, Ids
  <2> QED
    BY <2>1, EventHas, StripeAssumption DEF TypeOK
<1>1. /\ ~Past(e) /\ Past(e)'
      /\ \A f : f # e => (Past(f)' <=> Past(f))
      /\ ~Undone(events[e].sub)'
           => Implied(events[e]) = ToSubStatus(stripe[events[e].sub].status)
  BY LastWord
<1>2. \A v \in Workers : v = w /\ worker'[v] = t
  BY OneMoves
<1>4. /\ events[e].type = "checkout" =>
           sub'.stripe = events[e].sub /\ sub'.status = Implied(events[e])
      /\ events[e].type # "checkout" => sub'.stripe = sub.stripe
      /\ events[e].type # "checkout" /\ sub.stripe = events[e].sub =>
           sub'.status = Implied(events[e])
      /\ events[e].type # "checkout" /\ sub.stripe # events[e].sub => sub' = sub
  BY <1>0, RowAfterEvent
<1>6. \A f \in 1 .. Len(events) : events[f].type = "checkout" /\ ~Past(f)' =>
        f # e /\ events[f].sub # sub.stripe
  BY <1>1 DEF Linked, CheckoutsWait
<1>7. CASE events[e].type = "checkout"
  <2>2. CheckoutsWait'
    <3>1. \A f \in 1 .. Len(events) : events[f].type = "checkout" /\ f # e =>
            events[f].sub # events[e].sub
      BY <1>0, <1>7 DEF EventsTell
    <3> QED
      BY <1>4, <1>6, <1>7, <3>1 DEF CheckoutsWait
  <2>3. PICK s : s = events[e].sub
    OBVIOUS
  <2>4. Undone(sub.stripe)' <=> Undone(s)'
    BY <1>4, <1>7, <2>3
  <2>5. Undone(s)' <=> Undone(events[e].sub)'
    BY <2>3 DEF Undone
  <2>6. LinkAgrees'
    BY <1>1, <1>4, <1>7, <2>4, <2>5 DEF LinkAgrees
  <2>7. AnswersWait'
    BY <1>2 DEF AnswersWait
  <2> QED
    BY <2>2, <2>6, <2>7 DEF Linked
<1>8. CASE events[e].type # "checkout"
  <2>1. CheckoutsWait'
    BY <1>4, <1>6, <1>8 DEF CheckoutsWait
  <2>2. PICK s : s = sub.stripe
    OBVIOUS
  <2>3. Undone(sub.stripe)' <=> Undone(s)'
    BY <1>4, <1>8, <2>2
  <2>4. LinkAgrees'
    <3>1. CASE s = events[e].sub
      <4>1. Undone(s)' <=> Undone(events[e].sub)'
        BY <3>1 DEF Undone
      <4> QED
        BY <1>1, <1>4, <1>8, <2>2, <2>3, <3>1, <4>1 DEF LinkAgrees
    <3>2. CASE s # events[e].sub
      <4>1. Undone(s) => Undone(s)'
        BY <1>1, <3>2 DEF Undone
      <4>2. sub' = sub
        BY <1>4, <1>8, <2>2, <3>2
      <4> QED
        BY <2>2, <2>3, <4>1, <4>2 DEF Linked, LinkAgrees
    <3> QED
      BY <3>1, <3>2
  <2>5. AnswersWait'
    BY <1>2 DEF AnswersWait
  <2> QED
    BY <2>1, <2>4, <2>5 DEF Linked
<1> QED
  BY <1>7, <1>8

LEMMA ApplySettles ==
  ASSUME InOrder, SettledInv, NEW w \in Workers, ApplyEvent(w)
  PROVE  Settling
<1>0. /\ OneWorker /\ TypeOK /\ InTurn /\ EventsTell /\ Linked /\ PlanInv
      /\ worker[w] \in Task /\ Placed(worker[w]) /\ IsNext(worker[w]) /\ RowIsCurrent(worker[w])
  BY DEF InOrder, SettledInv, PlanInv, TypeOK, Placed, InTurn, RowsAreCurrent
<1>1. PICK e : e = worker[w].event
  OBVIOUS
<1>2. PICK t : t = [op |-> "applied", event |-> e]
  OBVIOUS
<1>3. worker[w].op = "loaded" /\ e \in 1 .. Len(events) /\ worker[w].row = sub
  BY <1>0, <1>1, TaskHas DEF ApplyEvent, Placed, Ids, TypeOK, RowIsCurrent
<1>4. events[e] \in Event /\ sub \in Subscription
  BY <1>0, <1>3 DEF TypeOK
<1>5. /\ sub' = Written(worker[w].row, AfterEvent(worker[w].row, events[e]), sub)
      /\ worker' = [worker EXCEPT ![w] = t]
      /\ UNCHANGED <<stripe, events, acked>> /\ UNCHANGED log
  BY <1>1, <1>2 DEF ApplyEvent, remote
<1>6. AfterEvent(sub, events[e]) \in Subscription
  BY <1>4, AfterEventIs
<1>7. sub' = AfterEvent(sub, events[e])
  BY <1>3, <1>4, <1>5, <1>6, WrittenIs
<1>8. t.op = "applied" /\ t.event = e
  BY <1>2
<1>9. IsNext(t)'
  BY <1>0, <1>1, <1>3, <1>5, <1>8 DEF IsNext
<1>10. InTurn'
  BY <1>0, <1>1, <1>5, <1>8, <1>9, QuietTurns DEF Handles
<1>11. Linked'
  BY <1>0, <1>1, <1>3, <1>5, <1>7, <1>8, ApplyLinks
<1> QED
  BY <1>0, <1>5, <1>10, <1>11, QuietTells DEF Settling

LEMMA MarkSettles ==
  ASSUME InOrder, SettledInv, NEW w \in Workers, Mark(w)
  PROVE  Settling
<1>0. /\ OneWorker /\ TypeOK /\ InTurn /\ EventsTell /\ Linked
      /\ worker[w] \in Task /\ IsNext(worker[w])
  BY DEF InOrder, SettledInv, PlanInv, TypeOK, InTurn
<1>1. PICK e : e = worker[w].event
  OBVIOUS
<1>2. worker[w].op = "applied" /\ e \in Ids /\ 1 .. e - 1 \subseteq acked
  BY <1>0, <1>1, TaskHas DEF Mark, IsNext
<1>3. /\ worker' = [worker EXCEPT ![w] = Idle] /\ log' = [log EXCEPT ![e] = "PROCESSED"]
      /\ acked' = acked \cup {e} /\ UNCHANGED <<stripe, events>> /\ UNCHANGED sub
  BY <1>1 DEF Mark, remote
<1>4. Idle.op = "idle"
  BY DEF Idle
<1>5. \A v \in Workers : v = w /\ worker'[v] = Idle
  BY <1>0, <1>3, OneMoves
<1>6. \A f : Past(f)' <=> Past(f)
  BY <1>1, <1>2, <1>3, <1>4, <1>5 DEF Past
<1>7. InTurn'
  <2>1. ASSUME NEW f \in acked' PROVE 1 .. f - 1 \subseteq acked'
    BY <1>0, <1>2, <1>3 DEF InTurn
  <2>2. ASSUME NEW v \in Workers PROVE IsNext(worker[v])'
    BY <1>4, <1>5 DEF IsNext
  <2>3. ASSUME NEW f \in Ids, log'[f] # "none" PROVE Accounted(f)'
    <3>1. f = e \/ log[f] # "none"
      BY <1>0, <1>3, <2>3 DEF TypeOK
    <3>2. log[f] # "none" => f \in acked \/ f = e
      BY <1>0, <1>1, <1>5 DEF InTurn, Accounted
    <3> QED
      BY <1>3, <3>1, <3>2 DEF Accounted
  <2> QED
    BY <2>1, <2>2, <2>3 DEF InTurn
<1>8. Undone(sub.stripe)' <=> Undone(sub.stripe)
  BY <1>3, <1>6 DEF Undone
<1>10. CheckoutsWait'
  BY <1>0, <1>3, <1>6 DEF Linked, CheckoutsWait
<1>11. LinkAgrees'
  BY <1>0, <1>3, <1>8 DEF Linked, LinkAgrees
<1>12. AnswersWait'
  BY <1>4, <1>5 DEF AnswersWait
<1> QED
  BY <1>0, <1>3, <1>7, <1>10, <1>11, <1>12, QuietTells DEF Settling, Linked

LEMMA RequestSettles ==
  ASSUME InOrder, SettledInv, NEW w \in Workers, Request(w)
  PROVE  Settling
<1> USE DEF remote, local, plans
<1>0. /\ OneWorker /\ TypeOK /\ InTurn /\ EventsTell /\ Linked /\ PlanInv
      /\ worker[w] \in Task /\ RowIsCurrent(worker[w]) /\ sub \in Subscription
  BY DEF InOrder, SettledInv, PlanInv, TypeOK, RowsAreCurrent
\* What a request does before and after its call of Stripe changes nothing here.
<1>1. ASSUME NEW t, worker' = [worker EXCEPT ![w] = t], ~Handles(w), worker[w].op # "modified",
             t.op \in {"cancel", "resume", "customer", "session", "idle"},
             UNCHANGED <<stripe, events, acked, log>>,
             sub'.stripe = sub.stripe, sub'.status = sub.status
      PROVE  Settling
  <2>1. IsNext(t)'
    BY <1>1 DEF IsNext
  <2>2. InTurn'
    BY <1>0, <1>1, <2>1, QuietTurns
  <2>3. Linked'
    BY <1>0, <1>1, QuietLinks DEF Handles
  <2> QED
    BY <1>0, <1>1, <2>2, <2>3, QuietTells DEF Settling
<1>2. Idle.op = "idle"
  BY DEF Idle
<1>3. ASSUME NEW op \in {"cancel", "resume"}, BeginModify(w, op) PROVE Settling
  <2>1. PICK t : t = [op |-> op, row |-> sub]
    OBVIOUS
  <2>2. /\ worker' = [worker EXCEPT ![w] = t] /\ UNCHANGED <<stripe, events, acked, log>>
        /\ UNCHANGED sub /\ worker[w] = Idle
    BY <1>3, <2>1 DEF BeginModify
  <2>3. t.op = op
    BY <2>1
  <2> QED
    BY <1>1, <1>2, <2>2, <2>3 DEF Handles
<1>4. ASSUME NEW plan, BeginCheckout(w, plan) PROVE Settling
  <2>1. PICK t1, t2 :
          /\ t1 = [op |-> "session", plan |-> plan, customer |-> sub.customer]
          /\ t2 = [op |-> "customer", plan |-> plan, row |-> sub, customer |-> customers + 1]
    OBVIOUS
  <2>2. /\ worker' = [worker EXCEPT ![w] = t1] \/ worker' = [worker EXCEPT ![w] = t2]
        /\ UNCHANGED <<stripe, events, acked, log>> /\ UNCHANGED sub /\ worker[w] = Idle
    BY <1>4, <2>1 DEF BeginCheckout
  <2>3. t1.op = "session" /\ t2.op = "customer"
    BY <2>1
  <2> QED
    BY <1>1, <1>2, <2>2, <2>3 DEF Handles
<1>5. CASE Modify(w)
  BY <1>0, <1>5, ModifySettles
<1>6. CASE Refuse(w) \/ OpenSession(w)
  <2>1. /\ worker' = [worker EXCEPT ![w] = Idle] /\ UNCHANGED <<stripe, events, acked, log>>
        /\ UNCHANGED sub /\ worker[w].op \in {"cancel", "resume", "session"}
    BY <1>6 DEF Refuse, OpenSession
  <2> QED
    BY <1>1, <1>2, <2>1 DEF Handles
<1>7. CASE StoreCustomer(w)
  <2>1. PICK q : q = worker[w]
    OBVIOUS
  <2>2. PICK new : new = [q.row EXCEPT !.customer = q.customer]
    OBVIOUS
  <2>3. PICK t : t = [op |-> "session", plan |-> q.plan, customer |-> q.customer]
    OBVIOUS
  <2>4. q.op = "customer" /\ q.row = sub /\ q.customer \in 1 .. MaxCustomers
    BY <1>0, <1>7, <2>1, TaskHas DEF StoreCustomer, RowIsCurrent
  <2>5. /\ sub' = Written(q.row, new, sub) /\ worker' = [worker EXCEPT ![w] = t]
        /\ UNCHANGED <<stripe, events, acked, log>>
    BY <1>7, <2>1, <2>2, <2>3 DEF StoreCustomer
  <2>6. new \in Subscription /\ new.stripe = sub.stripe /\ new.status = sub.status
    BY <1>0, <2>2, <2>4, StripeAssumption DEF Subscription
  <2>7. sub' = new
    BY <1>0, <2>4, <2>5, <2>6, WrittenIs
  <2>8. t.op = "session"
    BY <2>3
  <2> QED
    BY <1>1, <2>1, <2>4, <2>5, <2>6, <2>7, <2>8 DEF Handles
<1>8. CASE CommitModify(w)
  <2>1. PICK q : q = worker[w]
    OBVIOUS
  <2>2. PICK new : new = FromAnswer(q.row, q.answer)
    OBVIOUS
  <2>3. q.op = "modified" /\ q.row = sub /\ q.answer \in RemoteState
    BY <1>0, <1>8, <2>1, TaskHas DEF CommitModify, RowIsCurrent
  <2>4. /\ sub' = Written(q.row, new, sub) /\ worker' = [worker EXCEPT ![w] = Idle]
        /\ UNCHANGED <<stripe, events, acked, log>>
    BY <1>8, <2>1, <2>2 DEF CommitModify
  <2>5. new \in Subscription
    BY <1>0, <2>2, <2>3, FromAnswerIs
  <2>6. sub' = new
    BY <1>0, <2>3, <2>4, <2>5, WrittenIs
  <2>7. sub'.stripe = sub.stripe
    BY <1>0, <2>2, <2>3, <2>6, FromAnswerIs
  <2>8. \A v \in Workers : v = w /\ worker'[v] = Idle
    BY <1>0, <2>4, OneMoves
  <2>9. InTurn'
    BY <1>0, <1>2, <2>1, <2>3, <2>4, QuietTurns DEF Handles, IsNext
  <2>10. \A f : Past(f)' <=> Past(f)
    BY <1>2, <2>1, <2>3, <2>4, <2>8 DEF Past
  <2>11. Undone(sub.stripe) /\ sub.stripe # NoSub
    BY <1>0, <2>1, <2>3 DEF Linked, AnswersWait
  <2>12. Undone(sub.stripe)'
    BY <2>4, <2>7, <2>10, <2>11 DEF Undone
  <2>13. CheckoutsWait'
    BY <1>0, <2>4, <2>7, <2>10 DEF Linked, CheckoutsWait
  <2>14. LinkAgrees'
    BY <2>7, <2>12 DEF LinkAgrees
  <2>15. AnswersWait'
    BY <1>2, <2>8 DEF AnswersWait
  <2> QED
    BY <1>0, <2>4, <2>9, <2>13, <2>14, <2>15, QuietTells DEF Settling, Linked
<1> QED
  BY <1>3, <1>4, <1>5, <1>6, <1>7, <1>8 DEF Request

LEMMA SettledStep ==
  ASSUME InOrder, SettledInv, [Next]_vars
  PROVE  Settling
<1>1. CASE UNCHANGED <<stripe, events, acked, log, sub, worker, invoices>>
  <2>1. InTurn'
    BY <1>1 DEF SettledInv, InTurn, IsNext, Accounted, Handles
  <2>2. \A f : Past(f)' <=> Past(f)
    BY <1>1 DEF Past
  <2>3. Undone(sub.stripe)' <=> Undone(sub.stripe)
    BY <1>1, <2>2 DEF Undone
  <2>4. Linked'
    BY <1>1, <2>2, <2>3 DEF SettledInv, Linked, CheckoutsWait, LinkAgrees, AnswersWait
  <2> QED
    BY <1>1, <2>1, <2>4, QuietTells DEF SettledInv, Settling
<1>2. CASE Stripe
  BY <1>2, StripeSettles
<1>3. ASSUME NEW w \in Workers, Webhook(w) \/ Request(w) \/ Crash(w) PROVE Settling
  BY <1>3, DeliverySettles, ApplySettles, MarkSettles, RequestSettles DEF Webhook
<1>4. ASSUME NEW plan, SetPlan(plan) PROVE Settling
  <2>1. UNCHANGED <<stripe, events, acked, log, sub, worker, invoices>>
    BY <1>4 DEF SetPlan, remote
  <2> QED
    BY <1>1, <2>1
<1>5. CASE UNCHANGED vars
  BY <1>1, <1>5 DEF vars
<1> QED
  BY <1>2, <1>3, <1>4, <1>5 DEF Next

LEMMA SettledInvariance == ASSUME InOrder PROVE Spec => []SettledInv
<1>1. Init => SettledInv
  <2> SUFFICES ASSUME Init PROVE SettledInv
    OBVIOUS
  <2>1. /\ events = <<>> /\ Len(events) = 0 /\ acked = {} /\ sub.stripe = NoSub
        /\ \A w \in Workers : worker[w] = Idle
        /\ \A e \in Ids : log[e] = "none"
    BY DEF Init
  <2>2. PlanInv
    BY <2>1, InitTypes, IdleIsCurrent DEF Init, PlanInv, PlansAgree, RowsAreCurrent, Bought
  <2>3. InTurn
    BY <2>1 DEF InTurn, IsNext, Idle
  <2>4. EventsTell
    BY <2>1 DEF EventsTell
  <2>5. Linked
    BY <2>1 DEF Linked, CheckoutsWait, LinkAgrees, AnswersWait, Idle
  <2> QED
    BY <2>2, <2>3, <2>4, <2>5 DEF SettledInv
<1>2. SettledInv /\ [Next]_vars => SettledInv'
  BY BillingTypes, PlanStep, SettledStep DEF SettledInv, PlanInv, Settling, InOrder
<1> QED
  BY <1>1, <1>2, PTL DEF Spec

\* Served one at a time and in order, with nothing going wrong: when all events are
\* answered, the status is that of the linked subscription at Stripe, however
\* deliveries, requests and what happens at Stripe have alternated.
THEOREM SettledIsAsAtStripe == ASSUME InOrder PROVE Spec => []SettledAgrees
<1>1. SettledInv => SettledAgrees
  <2> SUFFICES ASSUME SettledInv, AllSettled, sub.stripe # NoSub
               PROVE  sub.status = ToSubStatus(stripe[sub.stripe].status)
    BY DEF SettledAgrees
  <2>1. ~Undone(sub.stripe)
    BY DEF AllSettled, Undone, Past
  <2> QED
    BY <2>1 DEF SettledInv, Linked, LinkAgrees
<1> QED
  BY <1>1, SettledInvariance, PTL

\* What the code promises of the subscription: served one at a time it keeps the
\* plan that was bought, and the tenant's with it until the platform sets that
\* one; with nothing failing and events in order it has the status at Stripe; rows
\* and tasks are of their tables however many workers there are.
THEOREM BillingAlwaysHolds == Spec => []BillingHolds
<1>1. Spec => []TypeOK
  BY InitTypes, BillingTypes, PTL DEF Spec
<1>2. CASE ~OneWorker
  <2>1. TypeOK => BillingHolds
    BY <1>2 DEF BillingHolds, InOrder
  <2> QED
    BY <1>1, <2>1, PTL
<1>3. CASE OneWorker /\ ~InOrder
  <2>1. TypeOK /\ PlansAgree /\ PlanIsBought => BillingHolds
    BY <1>3 DEF BillingHolds
  <2>2. Spec => [](PlansAgree /\ PlanIsBought)
    BY <1>3, PlansAlwaysAgree
  <2> QED
    BY <1>1, <2>1, <2>2, PTL
<1>4. CASE InOrder
  <2>1. TypeOK /\ PlansAgree /\ PlanIsBought /\ SettledAgrees => BillingHolds
    BY DEF BillingHolds
  <2>2. Spec => [](PlansAgree /\ PlanIsBought) /\ []SettledAgrees
    BY <1>4, PlansAlwaysAgree, SettledIsAsAtStripe DEF InOrder
  <2> QED
    BY <1>1, <2>1, <2>2, PTL
<1> QED
  BY <1>2, <1>3, <1>4

-----------------------------------------------------------------------------
(* ReviewAnswers *)

\* The assumption comes along: it is one of constants.
LayersTyped ==
  /\ AnswersAssumption
  /\ form \in Forms
  /\ state \in {"QA", "VERIFIER", "LOCKED"}
  /\ ai \in [Questions -> Values \cup {None}]
  /\ qa \in Layers \cup {None}
  /\ ver \in Layers \cup {None}
  /\ edited \in [Questions -> Values \cup {None}]

ScoreOf(answers) == OverallScore(form, ValuesOf(answers))

\* The submission that a verifier judges is there and has its own score.
SubmissionIsScored ==
  /\ qa # None => qa.score = ScoreOf(qa.answers)
  /\ state = "VERIFIER" => qa # None

\* What is final is the last layer of the verifier.
FinalIsLayer ==
  Locked =>
    /\ ver # None
    /\ final = ScoreOf(ver.answers)
    /\ ~CriticalFailure(form, ValuesOf(ver.answers))
         => passFail = PassFail(form, ValuesOf(ver.answers))

Reasons(answers) ==
  \A q \in Questions :
    ai[q] # None /\ answers[q] # None /\ answers[q].value # ai[q] => answers[q].reason

ReasonsAreGiven == /\ qa # None => Reasons(qa.answers)
                   /\ ver # None => Reasons(ver.answers)

Kept(q) == IF edited[q] # None THEN edited[q] ELSE ai[q]

\* Each of QA's answers has the value that was last given to it.
EditsStay ==
  IF qa = None THEN edited = NoAnswers
  ELSE \A q \in Questions :
         IF qa.answers[q] = None THEN Kept(q) = None ELSE Kept(q) = qa.answers[q].value

AnswersInv == LayersTyped /\ SubmissionIsScored /\ FinalIsLayer /\ ReasonsAreGiven /\ EditsStay

LEMMA NoneIsApart ==
  ASSUME LayersTyped
  PROVE  /\ None \notin Values
         /\ None \notin Answer
         /\ None \notin Layers
  BY DEF LayersTyped, AnswersAssumption, ScoringAssumption

-----------------------------------------------------------------------------
(* Layers of answers *)

LEMMA LayerKind ==
  ASSUME LayersTyped, NEW a \in Answers
  PROVE  /\ Layer(a) \in Layers
         /\ Layer(a) # None
         /\ Layer(a).answers = a
         /\ Layer(a).score = ScoreOf(a)
         /\ Layer(a).passFail = PassFail(form, ValuesOf(a))
<1>1. PassFail(form, ValuesOf(a)) \in BOOLEAN
  BY DEF PassFail
<1>2. OverallScore(form, ValuesOf(a))
        \in {OverallScore(f, ValuesOf(b)) : f \in Forms, b \in Answers}
  BY DEF LayersTyped
<1>3. Layer(a) \in Layers
  BY <1>1, <1>2 DEF Layer, Layers
<1> QED BY <1>3, NoneIsApart DEF Layer, ScoreOf

\* A request gives answers to questions.
LEMMA ChangeKind ==
  ASSUME NEW change \in Changes
  PROVE  \A q \in DOMAIN change : q \in Questions /\ change[q] \in Answer
  BY DEF Changes

LEMMA BaselineKind ==
  ASSUME LayersTyped
  PROVE  Baseline \in Answers
<1>1. AiAnswers \in Answers
  BY DEF LayersTyped, AiAnswers, Answers, Answer
<1>2. qa # None => qa.answers \in Answers
  BY DEF LayersTyped, Layers
<1> QED BY <1>1, <1>2 DEF Baseline

LEMMA AdjustedKind ==
  ASSUME LayersTyped, NEW change \in Changes
  PROVE  Adjusted(change) \in Answers
<1> SUFFICES ASSUME NEW q \in Questions, q \in DOMAIN change
             PROVE  [value |-> change[q].value,
                     reason |-> ~(ai[q] # None /\ ai[q] = change[q].value)
                                /\ Reasoned(change, q)] \in Answer
  BY BaselineKind DEF Adjusted, Answers
<1>1. change[q].value \in Values
  BY ChangeKind DEF Answer
<1>2. (~(ai[q] # None /\ ai[q] = change[q].value) /\ Reasoned(change, q)) \in BOOLEAN
  OBVIOUS
<1> QED BY <1>1, <1>2 DEF Answer

LEMMA MergedKind ==
  ASSUME LayersTyped, qa # None, NEW change \in Changes
  PROVE  Merged(change) \in Answers
<1>1. qa.answers \in Answers
  BY DEF LayersTyped, Layers
<1> QED BY <1>1, ChangeKind DEF Merged, Answers

-----------------------------------------------------------------------------
(* Reasons and values *)

\* The answers a round starts from have their reasons.
LEMMA BaselineReasons ==
  ASSUME LayersTyped, ReasonsAreGiven
  PROVE  Reasons(Baseline)
<1>1. Reasons(AiAnswers)
  BY DEF Reasons, AiAnswers
<1> QED BY <1>1 DEF Baseline, ReasonsAreGiven

\* So have the answers it leaves.
LEMMA AdjustedReasons ==
  ASSUME LayersTyped, ReasonsAreGiven, NEW change \in Changes,
         MayAdjust(change)
  PROVE  Reasons(Adjusted(change))
<1> SUFFICES ASSUME NEW q \in Questions, ai[q] # None, Adjusted(change)[q] # None,
                    Adjusted(change)[q].value # ai[q]
             PROVE  Adjusted(change)[q].reason
  BY DEF Reasons
<1>1. CASE q \notin DOMAIN change
  <2>1. Adjusted(change)[q] = Baseline[q]
    BY <1>1 DEF Adjusted
  <2> QED BY <2>1, BaselineReasons DEF Reasons
<1>2. CASE q \in DOMAIN change
  <2> DEFINE kept == ~(ai[q] # None /\ ai[q] = change[q].value) /\ Reasoned(change, q)
  <2>1. Adjusted(change)[q] = [value |-> change[q].value, reason |-> kept]
    BY <1>2 DEF Adjusted
  <2> HIDE DEF kept
  <2>2. /\ Adjusted(change)[q].value = change[q].value
        /\ Adjusted(change)[q].reason = kept
    BY <2>1
  <2>3. Reasoned(change, q)
    BY <1>2, <2>2 DEF MayAdjust, OverridesAi
  <2>4. kept
    BY <2>2, <2>3 DEF kept
  <2> QED BY <2>2, <2>4
<1> QED BY <1>1, <1>2

\* The verifier's answers come with reasons.
LEMMA MergedReasons ==
  ASSUME LayersTyped, ReasonsAreGiven, qa # None,
         NEW change \in Changes, Commented(change)
  PROVE  Reasons(Merged(change))
<1>1. ASSUME NEW q \in Questions
      PROVE  Merged(change)[q] = IF q \in DOMAIN change THEN change[q] ELSE qa.answers[q]
  BY DEF Merged
<1> QED BY <1>1 DEF Reasons, ReasonsAreGiven, Commented

\* The values a round starts from are those last given.
LEMMA BaselineValues ==
  ASSUME LayersTyped, EditsStay, NEW q \in Questions
  PROVE  IF Baseline[q] = None THEN Kept(q) = None
         ELSE Kept(q) = Baseline[q].value
<1>1. CASE qa # None /\ qa.answers # NoAnswers
  BY <1>1 DEF Baseline, EditsStay
<1>2. ASSUME edited[q] = None
      PROVE  IF AiAnswers[q] = None THEN Kept(q) = None
             ELSE Kept(q) = AiAnswers[q].value
  <2>1. CASE ai[q] = None
    BY <1>2, <2>1 DEF AiAnswers, Kept
  <2>2. CASE ai[q] # None
    <3>1. AiAnswers[q] = [value |-> ai[q], reason |-> FALSE]
      BY <2>2 DEF AiAnswers
    <3>2. AiAnswers[q] \in Answer
      BY <2>2, <3>1 DEF LayersTyped, Answer
    <3>3. AiAnswers[q] # None
      BY <3>2, NoneIsApart
    <3>4. Kept(q) = AiAnswers[q].value
      BY <1>2, <3>1 DEF Kept
    <3> QED BY <3>3, <3>4
  <2> QED BY <2>1, <2>2
<1>3. CASE qa = None
  BY <1>2, <1>3 DEF Baseline, EditsStay, NoAnswers
<1>4. CASE qa # None /\ qa.answers = NoAnswers
  <2>1. Kept(q) = None
    BY <1>4 DEF EditsStay, NoAnswers
  <2>2. edited[q] = None
    BY <2>1 DEF Kept
  <2> QED BY <1>2, <1>4, <2>2 DEF Baseline
<1> QED BY <1>1, <1>3, <1>4

-----------------------------------------------------------------------------
(* The steps *)

LEMMA AnswersStart == ASSUME AnswersAssumption PROVE AnswersInit => AnswersInv
<1> SUFFICES ASSUME AnswersInit PROVE AnswersInv
  OBVIOUS
<1>1. LayersTyped
  BY DEF AnswersInit, LayersTyped, NoAnswers
<1>2. SubmissionIsScored /\ FinalIsLayer /\ ReasonsAreGiven /\ EditsStay
  BY DEF AnswersInit, SubmissionIsScored, FinalIsLayer, Locked, ReasonsAreGiven,
     EditsStay
<1> QED BY <1>1, <1>2 DEF AnswersInv

LEMMA QaSubmitInv ==
  ASSUME AnswersInv, NEW change \in Changes, NEW toVerifier \in BOOLEAN,
         QaSubmit(change, toVerifier)
  PROVE  AnswersInv'
<1> DEFINE a == Adjusted(change)
<1>0. LayersTyped /\ ReasonsAreGiven /\ EditsStay
  BY DEF AnswersInv
<1>1. /\ state' \in {"VERIFIER", "LOCKED"}
      /\ qa' = Layer(a) /\ form' = form /\ ai' = ai
      /\ edited' = [q \in Questions |->
                      IF q \in DOMAIN change THEN change[q].value ELSE edited[q]]
      /\ state' = "VERIFIER" => ver' = None
      /\ state' = "LOCKED" => /\ ver' = Layer(a)
                              /\ final' = Layer(a).score
                              /\ passFail' = Layer(a).passFail
  BY DEF QaSubmit
<1>2. /\ a \in Answers
      /\ Layer(a) \in Layers
      /\ Layer(a) # None
      /\ Layer(a).answers = a
      /\ Layer(a).score = ScoreOf(a)
      /\ Layer(a).passFail = PassFail(form, ValuesOf(a))
  BY <1>0, AdjustedKind, LayerKind
<1> HIDE DEF a
<1>3. LayersTyped'
  <2>1. \A q \in DOMAIN change : change[q].value \in Values
    BY ChangeKind DEF Answer
  <2>2. edited' \in [Questions -> Values \cup {None}]
    BY <1>0, <1>1, <2>1 DEF LayersTyped
  <2>3. ver' \in Layers \cup {None}
    BY <1>1, <1>2
  <2> QED BY <1>0, <1>1, <1>2, <2>2, <2>3 DEF LayersTyped
<1>4. SubmissionIsScored'
  BY <1>1, <1>2 DEF SubmissionIsScored, ScoreOf
<1>5. FinalIsLayer'
  BY <1>1, <1>2 DEF FinalIsLayer, Locked, ScoreOf
<1>6. ReasonsAreGiven'
  <2>1. Reasons(a)
    BY <1>0, AdjustedReasons DEF a, QaSubmit
  <2> QED BY <1>1, <1>2, <2>1 DEF ReasonsAreGiven, Reasons
<1>7. EditsStay'
  <2>1. ASSUME NEW q \in Questions
        PROVE  IF a[q] = None THEN Kept(q)' = None ELSE Kept(q)' = a[q].value
    <3>1. CASE q \in DOMAIN change
      <4>1. a[q] \in Answer /\ a[q].value = change[q].value
        <5>1. a[q] = [value |-> change[q].value,
                      reason |-> ~(ai[q] # None /\ ai[q] = change[q].value)
                                 /\ Reasoned(change, q)]
          BY <3>1 DEF a, Adjusted
        <5> QED BY <5>1, ChangeKind, <3>1 DEF Answer
      <4>2. edited'[q] = change[q].value /\ change[q].value \in Values
        BY <1>1, <3>1, ChangeKind DEF Answer
      <4> QED BY <1>0, <4>1, <4>2, NoneIsApart DEF Kept
    <3>2. CASE q \notin DOMAIN change
      <4>1. a[q] = Baseline[q]
        BY <3>2 DEF a, Adjusted
      <4>2. edited'[q] = edited[q] /\ ai'[q] = ai[q]
        BY <1>1, <3>2
      <4> QED BY <1>0, <4>1, <4>2, BaselineValues DEF Kept
    <3> QED BY <3>1, <3>2
  <2> QED BY <1>1, <1>2, <2>1 DEF EditsStay, Kept
<1> QED BY <1>3, <1>4, <1>5, <1>6, <1>7 DEF AnswersInv

\* What is not critical passes exactly at the mark.
LEMMA ApprovesIsVerdict ==
  ASSUME NEW answers, ~CriticalFailure(form, answers)
  PROVE  Approves(OverallScore(form, answers)) = PassFail(form,
  answers)
  BY DEF Approves, PassFail

LEMMA ApproveInv ==
  ASSUME AnswersInv, VerifierApprove
  PROVE  AnswersInv'
<1>0. LayersTyped /\ qa # None /\ qa \in Layers /\ qa.score = ScoreOf(qa.answers)
  BY DEF AnswersInv, LayersTyped, SubmissionIsScored, VerifierApprove
<1>1. /\ state' = "LOCKED" /\ final' = qa.score /\ passFail' = Approves(qa.score)
      /\ ver' = [qa EXCEPT !.passFail = passFail']
      /\ UNCHANGED <<form, ai, qa, edited>>
  BY DEF VerifierApprove
<1>2. passFail' \in BOOLEAN
  BY <1>1 DEF Approves
<1>3. /\ ver' \in Layers
      /\ ver'.answers = qa.answers
  BY <1>0, <1>1, <1>2 DEF Layers
<1>4. LayersTyped'
  BY <1>0, <1>1, <1>3 DEF LayersTyped
<1>5. SubmissionIsScored'
  BY <1>0, <1>1 DEF SubmissionIsScored, ScoreOf
<1>6. FinalIsLayer'
  <2>1. ~CriticalFailure(form, ValuesOf(qa.answers))
          => Approves(qa.score) = PassFail(form, ValuesOf(qa.answers))
    BY <1>0, ApprovesIsVerdict DEF ScoreOf
  <2>2. ver' # None
    BY <1>0, <1>3, NoneIsApart
  <2> QED BY <1>0, <1>1, <1>3, <2>1, <2>2 DEF FinalIsLayer, ScoreOf
<1>7. ReasonsAreGiven'
  BY <1>0, <1>1, <1>3 DEF AnswersInv, ReasonsAreGiven, Reasons
<1>8. EditsStay'
  BY <1>1 DEF AnswersInv, EditsStay, Kept
<1> QED BY <1>4, <1>5, <1>6, <1>7, <1>8 DEF AnswersInv

LEMMA ModifyInv ==
  ASSUME AnswersInv, NEW change \in Changes, VerifierModify(change)
  PROVE  AnswersInv'
<1> DEFINE a == Merged(change)
<1>0. LayersTyped /\ qa # None /\ ReasonsAreGiven
  BY DEF AnswersInv, SubmissionIsScored, VerifierModify
<1>1. /\ state' = "LOCKED" /\ ver' = Layer(a)
      /\ final' = ver'.score /\ passFail' = ver'.passFail
      /\ UNCHANGED <<form, ai, qa, edited>>
  BY DEF VerifierModify
<1>2. /\ Layer(a) \in Layers
      /\ Layer(a) # None
      /\ Layer(a).answers = a
      /\ Layer(a).score = ScoreOf(a)
      /\ Layer(a).passFail = PassFail(form, ValuesOf(a))
  BY <1>0, MergedKind, LayerKind
<1>3. Reasons(a)
  BY <1>0, MergedReasons DEF VerifierModify
<1> HIDE DEF a
<1>4. LayersTyped'
  BY <1>0, <1>1, <1>2 DEF LayersTyped
<1>5. SubmissionIsScored'
  BY <1>0, <1>1 DEF AnswersInv, SubmissionIsScored, ScoreOf
<1>6. FinalIsLayer'
  BY <1>1, <1>2 DEF FinalIsLayer, ScoreOf
<1>7. ReasonsAreGiven'
  BY <1>0, <1>1, <1>2, <1>3 DEF ReasonsAreGiven, Reasons
<1>8. EditsStay'
  BY <1>1 DEF AnswersInv, EditsStay, Kept
<1> QED BY <1>4, <1>5, <1>6, <1>7, <1>8 DEF AnswersInv

LEMMA RejectInv ==
  ASSUME AnswersInv, NEW change \in Changes, VerifierReject(change)
  PROVE  AnswersInv'
<1> DEFINE a == Merged(change)
<1>0. LayersTyped /\ qa # None /\ qa \in Layers /\ ReasonsAreGiven
  BY DEF AnswersInv, LayersTyped, SubmissionIsScored, VerifierReject
<1>1. /\ state' = "QA"
      /\ \/ ver' = ver
         \/ ver' = [qa EXCEPT !.answers = a]
      /\ UNCHANGED <<form, ai, qa, final, passFail, edited>>
  BY DEF VerifierReject
<1>2. a \in Answers /\ Reasons(a)
  BY <1>0, MergedKind, MergedReasons DEF VerifierReject
<1> HIDE DEF a
<1>3. /\ [qa EXCEPT !.answers = a] \in Layers
      /\ [qa EXCEPT !.answers = a].answers = a
  BY <1>0, <1>2 DEF Layers
<1>4. LayersTyped'
  BY <1>0, <1>1, <1>3 DEF LayersTyped
<1>5. SubmissionIsScored'
  BY <1>1 DEF AnswersInv, SubmissionIsScored, ScoreOf
<1>6. FinalIsLayer'
  BY <1>1 DEF FinalIsLayer, Locked
<1>7. ReasonsAreGiven'
  BY <1>0, <1>1, <1>2, <1>3 DEF ReasonsAreGiven, Reasons
<1>8. EditsStay'
  BY <1>1 DEF AnswersInv, EditsStay, Kept
<1> QED BY <1>4, <1>5, <1>6, <1>7, <1>8 DEF AnswersInv

LEMMA ReAuditInv ==
  ASSUME AnswersInv, ReAudit
  PROVE  AnswersInv'
<1>1. LayersTyped'
  BY DEF AnswersInv, ReAudit, LayersTyped, NoAnswers
<1>2. SubmissionIsScored' /\ FinalIsLayer' /\ ReasonsAreGiven' /\ EditsStay'
  BY DEF ReAudit, SubmissionIsScored, FinalIsLayer, Locked, ReasonsAreGiven,
     EditsStay, NoAnswers
<1> QED BY <1>1, <1>2 DEF AnswersInv

LEMMA StutterInv ==
  ASSUME AnswersInv, UNCHANGED answersVars
  PROVE  AnswersInv'
  BY DEF AnswersInv, answersVars, LayersTyped, SubmissionIsScored, ScoreOf, FinalIsLayer,
     Locked, ReasonsAreGiven, Reasons, EditsStay, Kept

LEMMA AnswersInvariance == ASSUME AnswersAssumption PROVE AnswersSpec => []AnswersInv
<1>1. AnswersInv /\ [AnswersNext]_answersVars => AnswersInv'
  BY QaSubmitInv, ApproveInv, ModifyInv, RejectInv, ReAuditInv, StutterInv DEF AnswersNext
<1>2. AnswersInit => AnswersInv
  BY AnswersStart
<1> QED BY <1>1, <1>2, PTL DEF AnswersSpec

-----------------------------------------------------------------------------
(* The theorems *)

\* After any number of rounds, no answer of QA's or of what is final differs
\* from the AI's without a reason.
THEOREM OverridesHaveReasons ==
  ASSUME AnswersAssumption PROVE AnswersSpec => []OverridesAreReasoned
<1>1. AnswersInv => OverridesAreReasoned
  BY DEF AnswersInv, ReasonsAreGiven, Reasons, OverridesAreReasoned
<1>2. AnswersSpec => []AnswersInv
  BY AnswersInvariance
<1> QED BY <1>1, <1>2, PTL

\* A round that edits some questions loses none of the earlier rounds' edits.
THEOREM EditsSurvive ==
  ASSUME AnswersAssumption PROVE AnswersSpec => []EditsAreKept
<1>1. AnswersInv => EditsAreKept
  BY DEF AnswersInv, EditsStay, Kept, EditsAreKept, ValuesOf
<1>2. AnswersSpec => []AnswersInv
  BY AnswersInvariance
<1> QED BY <1>1, <1>2, PTL

\* The final score is that of the answers that are final, whichever of a QA
\* submission, an approval or a modification made them so.
THEOREM FinalScoresMatch ==
  ASSUME AnswersAssumption PROVE AnswersSpec => []FinalScoreMatches
<1>1. AnswersInv => FinalScoreMatches
  BY DEF AnswersInv, FinalIsLayer, ScoreOf, FinalScoreMatches
<1>2. AnswersSpec => []AnswersInv
  BY AnswersInvariance
<1> QED BY <1>1, <1>2, PTL

\* Where nothing critical fails, the verdict stored and the verdict shown are
\* those of the final answers.
THEOREM VerdictsAreScored ==
  ASSUME AnswersAssumption PROVE AnswersSpec => []VerdictIsScored
<1>1. AnswersInv => VerdictIsScored
  <2> SUFFICES ASSUME AnswersInv, Locked,
                      ~CriticalFailure(form, ValuesOf(ver.answers))
               PROVE  {passFail, Shown}
                        = {PassFail(form, ValuesOf(ver.answers))}
    BY DEF VerdictIsScored
  <2>1. /\ final = OverallScore(form, ValuesOf(ver.answers))
        /\ passFail = PassFail(form, ValuesOf(ver.answers))
    BY DEF AnswersInv, FinalIsLayer, ScoreOf
  <2>2. Shown = PassFail(form, ValuesOf(ver.answers))
    BY <2>1, ApprovesIsVerdict DEF Shown
  <2> QED BY <2>1, <2>2
<1>2. AnswersSpec => []AnswersInv
  BY AnswersInvariance
<1> QED BY <1>1, <1>2, PTL

\* What the code promises of the answers, after any number of rounds: overrides
\* have reasons, edits survive, and score and verdict are those of what is final.
THEOREM AnswersAlwaysHold ==
  ASSUME AnswersAssumption PROVE AnswersSpec => []AnswersHold
<1>1. /\ OverridesAreReasoned /\ EditsAreKept
      /\ FinalScoreMatches /\ VerdictIsScored
      => AnswersHold
  BY DEF AnswersHold
<1> QED
  BY <1>1, OverridesHaveReasons, EditsSurvive, FinalScoresMatch, VerdictsAreScored, PTL

-----------------------------------------------------------------------------
(* Outbound webhooks *)

\* A delivery is inserted once: until its hook's turn it has no row, and no
\* retry has taken it.
Unopened(e, h) == fanout[e] = Hook!Idle \/ h \in fanout[e].left

FanoutFits(e) ==
  /\ fanout[e].at = "commit" /\ fanout[e].ok => <<e, fanout[e].now>> \in accepted
  /\ fanout[e] # Hook!Idle => \A h \in fanout[e].left : hook[h] # "none"
  /\ \A h \in Hooks : Unopened(e, h) =>
       /\ delivery[<<e, h>>] = Hook!NoRow
       /\ \A r \in Retriers : retry[r] # Hook!Idle => retry[r].key # <<e, h>>

\* A retry holds attempts that were made, and deliveredAt is never taken back.
RetryFits(q) ==
  /\ q.row.attempts <= posts[q.key] + 1
  /\ q.at = "commit" => /\ q.row.attempts <= posts[q.key]
                        /\ q.ok => q.key \in accepted
  /\ q.row.delivered /\ delivery[q.key] # Hook!NoRow => delivery[q.key].delivered

DeliveryInv ==
  /\ Hook!TypeOK
  /\ \A e \in Events : FanoutFits(e)
  /\ \A r \in Retriers : retry[r] # Hook!Idle => RetryFits(retry[r])
  /\ Hook!DeliveredIsAccepted
  /\ Hook!AttemptsAreMade
  /\ Hook!RowsHaveHooks

-----------------------------------------------------------------------------
(* Rows *)

LEMMA RowKinds ==
  ASSUME Hook!DeliveryAssumption
  PROVE  /\ Hook!NoRow \notin Hook!Delivery /\ Hook!Pending \in Hook!Delivery
         /\ Hook!Idle \notin Hook!FanoutState /\ Hook!Idle \notin Hook!RetryState
  BY DEF Hook!DeliveryAssumption, Hook!NoRow, Hook!Delivery, Hook!DeliveryStatus,
     Hook!Pending, Hook!Idle, Hook!FanoutState,
         Hook!RetryState

LEMMA WrittenRow ==
  ASSUME NEW loaded \in Hook!Delivery, NEW new \in Hook!Delivery,
         NEW current \in Hook!Delivery
  PROVE  /\ Hook!Written(loaded, new, current) \in Hook!Delivery
         /\ \A c \in {"status", "attempts", "error", "delivered"} :
              Hook!Written(loaded, new, current)[c] =
                IF new[c] = loaded[c] THEN current[c] ELSE new[c]
  BY DEF Hook!Written, Hook!Delivery

LEMMA AnsweredRow ==
  ASSUME NEW row \in Hook!Delivery, NEW ok \in BOOLEAN
  PROVE  /\ Hook!AfterPost(row, ok) \in Hook!Delivery
         /\ Hook!AfterPost(row, ok).status = IF ok THEN "DELIVERED" ELSE "FAILED"
         /\ Hook!AfterPost(row, ok).error = ~ok
         /\ Hook!AfterPost(row, ok).delivered = (ok \/ row.delivered)
         /\ Hook!AfterPost(row, ok).attempts = row.attempts
  BY DEF Hook!AfterPost, Hook!Delivery, Hook!DeliveryStatus

LEMMA RetriedRow ==
  ASSUME Hook!DeliveryAssumption, NEW row \in Hook!Delivery, NEW ok \in BOOLEAN,
         row.attempts <= MaxAttempts
  PROVE  /\ Hook!Retried(row, ok) \in Hook!Delivery
         /\ Hook!Retried(row, ok).status = IF ok THEN "DELIVERED" ELSE "FAILED"
         /\ Hook!Retried(row, ok).error = ~ok
         /\ Hook!Retried(row, ok).delivered = (ok \/ row.delivered)
         /\ Hook!Retried(row, ok).attempts = row.attempts + 1
  <1> DEFINE answered == Hook!AfterPost(row, ok)
  <1>1. /\ answered \in Hook!Delivery
        /\ answered.status = IF ok THEN "DELIVERED" ELSE "FAILED"
        /\ answered.error = ~ok
        /\ answered.delivered = (ok \/ row.delivered)
        /\ answered.attempts = row.attempts
    BY AnsweredRow
  <1>2. Hook!Retried(row, ok) = [answered EXCEPT !.attempts = answered.attempts + 1]
    BY DEF Hook!Retried
  <1>3. row.attempts \in 1 .. MaxAttempts
    BY DEF Hook!Delivery, Hook!DeliveryAssumption
  <1> HIDE DEF answered
  <1> QED
    BY <1>1, <1>2, <1>3 DEF Hook!Delivery, Hook!DeliveryAssumption

-----------------------------------------------------------------------------
(* The steps *)

LEMMA DeliveryInit ==
  ASSUME Hook!DeliveryAssumption
  PROVE  Hook!Init => DeliveryInv
  BY DEF Hook!DeliveryAssumption, Hook!Init, DeliveryInv, Hook!TypeOK, FanoutFits,
     Unopened, Hook!Idle, Hook!Keys, Hook!Rows,
         Hook!NoRow, Hook!DeliveredIsAccepted, Hook!AttemptsAreMade, Hook!RowsHaveHooks

\* A hook that an administrator makes or switches does not go.
LEMMA ManageKeeps ==
  ASSUME Hook!DeliveryAssumption, DeliveryInv, NEW h \in Hooks,
         Hook!Create(h) \/ \E status \in Hook!HookStatus : Hook!UpdateStatus(h, status)
  PROVE  DeliveryInv'
  <1>1. /\ UNCHANGED <<delivery, fanout, retry, posts, accepted, chosen>>
        /\ hook' \in [Hooks -> Hook!HookStatus \cup {"none", "removed"}]
        /\ \A x \in Hooks : /\ hook[x] # "none" => hook'[x] # "none"
                            /\ hook[x] \in Hook!HookStatus => hook'[x] \in Hook!HookStatus
    BY DEF Hook!Create, Hook!UpdateStatus, DeliveryInv, Hook!TypeOK, Hook!HookStatus
  <1>2. Hook!TypeOK'
    BY <1>1 DEF DeliveryInv, Hook!TypeOK
  <1>3. \A e \in Events : FanoutFits(e)'
    <2> SUFFICES ASSUME NEW e \in Events PROVE FanoutFits(e)'
      OBVIOUS
    <2>1. FanoutFits(e) /\ (fanout[e] # Hook!Idle => fanout[e].left \subseteq Hooks)
      BY DEF DeliveryInv, Hook!TypeOK, Hook!FanoutState
    <2> QED
      BY <1>1, <2>1 DEF FanoutFits, Unopened
  <1>4. \A r \in Retriers : retry'[r] # Hook!Idle => RetryFits(retry[r])'
    BY <1>1 DEF DeliveryInv, RetryFits
  <1>5. Hook!RowsHaveHooks'
    BY <1>1 DEF DeliveryInv, Hook!RowsHaveHooks, Hook!Rows, Hook!Keys
  <1>6. Hook!DeliveredIsAccepted' /\ Hook!AttemptsAreMade'
    BY <1>1 DEF DeliveryInv, Hook!DeliveredIsAccepted, Hook!AttemptsAreMade, Hook!Rows
  <1> QED
    BY <1>1, <1>2, <1>3, <1>4, <1>5, <1>6 DEF DeliveryInv

LEMMA RemoveKeeps ==
  ASSUME Hook!DeliveryAssumption, DeliveryInv, NEW h \in Hooks, Hook!Remove(h)
  PROVE  DeliveryInv'
  <1>1. /\ UNCHANGED <<fanout, retry, posts, accepted, chosen>>
        /\ hook' \in [Hooks -> Hook!HookStatus \cup {"none", "removed"}]
        /\ \A x \in Hooks : /\ hook[x] # "none" => hook'[x] # "none"
                            /\ x # h => hook'[x] = hook[x]
        /\ delivery' \in [Hook!Keys -> Hook!Delivery \cup {Hook!NoRow}]
        /\ \A k \in Hook!Keys : delivery'[k] = IF k[2] = h THEN Hook!NoRow ELSE delivery[k]
    BY DEF Hook!Remove, DeliveryInv, Hook!TypeOK, Hook!HookStatus
  <1>2. Hook!TypeOK'
    BY <1>1 DEF DeliveryInv, Hook!TypeOK
  <1>3. \A e \in Events : FanoutFits(e)'
    <2> SUFFICES ASSUME NEW e \in Events PROVE FanoutFits(e)'
      OBVIOUS
    <2>1. FanoutFits(e) /\ (fanout[e] # Hook!Idle => fanout[e].left \subseteq Hooks)
      BY DEF DeliveryInv, Hook!TypeOK, Hook!FanoutState
    <2> QED
      BY <1>1, <2>1 DEF FanoutFits, Unopened, Hook!Keys
  <1>4. \A r \in Retriers : retry'[r] # Hook!Idle => RetryFits(retry[r])'
    <2> SUFFICES ASSUME NEW r \in Retriers, retry[r] # Hook!Idle PROVE RetryFits(retry[r])'
      BY <1>1
    <2>1. RetryFits(retry[r]) /\ retry[r].key \in Hook!Keys
      BY DEF DeliveryInv, Hook!TypeOK, Hook!RetryState
    <2> QED
      BY <1>1, <2>1 DEF RetryFits
  <1>5. Hook!Rows' \subseteq Hook!Rows /\ \A k \in Hook!Rows' : delivery'[k] = delivery[k] /\ k[2] # h
    BY <1>1 DEF Hook!Rows
  <1>6. Hook!DeliveredIsAccepted' /\ Hook!AttemptsAreMade'
    BY <1>1, <1>5 DEF DeliveryInv, Hook!DeliveredIsAccepted, Hook!AttemptsAreMade
  <1>7. Hook!RowsHaveHooks'
    BY <1>1, <1>5 DEF DeliveryInv, Hook!RowsHaveHooks, Hook!Rows, Hook!Keys
  <1> QED
    BY <1>1, <1>2, <1>3, <1>4, <1>6, <1>7 DEF DeliveryInv

\* A step of a fan-out that writes no row: it gets no hook back.
LEMMA FanoutMoves ==
  ASSUME Hook!DeliveryAssumption, DeliveryInv, NEW e \in Events, NEW f \in Hook!FanoutState,
         UNCHANGED <<hook, delivery, retry>>,
         fanout' = [fanout EXCEPT ![e] = f], chosen' \in [Events -> SUBSET Hooks],
         posts' \in [Hook!Keys -> 0 .. MaxAttempts],
         \A k \in Hook!Keys : posts'[k] >= posts[k],
         accepted' \subseteq Hook!Keys, accepted \subseteq accepted',
         f.at \in {"post", "commit"} => f.now \in Hooks,
         f.at = "commit" /\ f.ok => <<e, f.now>> \in accepted',
         \A h \in f.left : hook[h] # "none" /\ Unopened(e, h)
  PROVE  DeliveryInv'
  <1>1. \A x \in Events : fanout'[x] = IF x = e THEN f ELSE fanout[x]
    BY DEF DeliveryInv, Hook!TypeOK
  <1>2. fanout' \in [Events -> Hook!FanoutState \cup {Hook!Idle}]
    BY DEF DeliveryInv, Hook!TypeOK
  <1>3. Hook!TypeOK'
    BY <1>1, <1>2 DEF DeliveryInv, Hook!TypeOK
  <1>4. \A x \in Events : FanoutFits(x)'
    <2> SUFFICES ASSUME NEW x \in Events PROVE FanoutFits(x)'
      OBVIOUS
    <2>1. FanoutFits(x)
      BY DEF DeliveryInv
    <2>2. CASE x = e
      <3>1. fanout'[x] = f /\ f # Hook!Idle /\ f.left \subseteq Hooks
        BY <1>1, <2>2, RowKinds DEF Hook!FanoutState
      <3> QED
        BY <2>1, <2>2, <3>1 DEF FanoutFits, Unopened
    <2>3. CASE x # e
      <3>1. fanout'[x] = fanout[x]
        BY <1>1, <2>3
      <3> QED
        BY <2>1, <3>1 DEF FanoutFits, Unopened
    <2> QED
      BY <2>2, <2>3
  <1>5. \A r \in Retriers : retry'[r] # Hook!Idle => RetryFits(retry[r])'
    <2> SUFFICES ASSUME NEW r \in Retriers, retry[r] # Hook!Idle PROVE RetryFits(retry[r])'
      OBVIOUS
    <2>1. /\ RetryFits(retry[r]) /\ retry[r].key \in Hook!Keys /\ retry[r].row.attempts \in Nat
          /\ posts[retry[r].key] \in Nat /\ posts'[retry[r].key] \in Nat
      BY DEF DeliveryInv, Hook!TypeOK, Hook!RetryState, Hook!Delivery
    <2> QED
      BY <2>1 DEF RetryFits
  <1>6. Hook!DeliveredIsAccepted' /\ Hook!RowsHaveHooks'
    BY DEF DeliveryInv, Hook!DeliveredIsAccepted, Hook!RowsHaveHooks, Hook!Rows
  <1>7. Hook!AttemptsAreMade'
    <2> SUFFICES ASSUME NEW k \in Hook!Rows PROVE delivery[k].attempts <= posts'[k] + 1
      BY DEF Hook!AttemptsAreMade, Hook!Rows
    <2>1. /\ k \in Hook!Keys /\ delivery[k].attempts \in Nat /\ posts[k] \in Nat /\ posts'[k] \in Nat
          /\ delivery[k].attempts <= posts[k] + 1
      BY DEF DeliveryInv, Hook!TypeOK, Hook!Delivery, Hook!Rows, Hook!AttemptsAreMade
    <2> QED
      BY <2>1
  <1> QED
    BY <1>3, <1>4, <1>5, <1>6, <1>7 DEF DeliveryInv

\* What a post does to the histories.
LEMMA PostEffect ==
  ASSUME Hook!DeliveryAssumption, DeliveryInv, NEW k \in Hook!Keys, NEW ok \in BOOLEAN,
         Hook!Post(k, ok)
  PROVE  /\ posts' \in [Hook!Keys -> 0 .. MaxAttempts]
         /\ \A x \in Hook!Keys : posts'[x] >= posts[x]
         /\ posts'[k] = posts[k] + 1
         /\ accepted' \subseteq Hook!Keys /\ accepted \subseteq accepted'
         /\ ok => k \in accepted'
  BY DEF Hook!DeliveryAssumption, DeliveryInv, Hook!TypeOK, Hook!Post

LEMMA NoPost ==
  ASSUME Hook!DeliveryAssumption, DeliveryInv, UNCHANGED <<posts, accepted>>
  PROVE  /\ posts' \in [Hook!Keys -> 0 .. MaxAttempts]
         /\ \A x \in Hook!Keys : posts'[x] >= posts[x]
         /\ accepted' \subseteq Hook!Keys /\ accepted \subseteq accepted'
  BY DEF Hook!DeliveryAssumption, DeliveryInv, Hook!TypeOK

LEMMA FanoutStepKeeps ==
  ASSUME Hook!DeliveryAssumption, DeliveryInv, NEW e \in Events,
         \/ Hook!StartFanout(e) \/ Hook!Raise(e) \/ Hook!CrashFanout(e)
         \/ \E ok \in BOOLEAN : Hook!PostFirst(e, ok)
  PROVE  DeliveryInv'
  <1>1. FanoutFits(e) /\ fanout[e] \in Hook!FanoutState \cup {Hook!Idle}
    BY DEF DeliveryInv, Hook!TypeOK
  <1>2. CASE Hook!StartFanout(e)
    <2> DEFINE f == [at |-> "open", left |-> Hook!ActiveHooks, now |-> NoHook, ok |-> FALSE]
    <2>1. f \in Hook!FanoutState
      BY DEF Hook!FanoutState, Hook!ActiveHooks
    <2>2. \A h \in f.left : hook[h] # "none" /\ Unopened(e, h)
      BY <1>2 DEF Hook!StartFanout, Hook!ActiveHooks, Unopened
    <2>3. chosen' \in [Events -> SUBSET Hooks]
      BY <1>2 DEF Hook!StartFanout, Hook!ActiveHooks, DeliveryInv, Hook!TypeOK
    <2>4. fanout' = [fanout EXCEPT ![e] = f] /\ f.at = "open"
      BY <1>2 DEF Hook!StartFanout
    <2>5. UNCHANGED <<hook, delivery, retry, posts, accepted>>
      BY <1>2 DEF Hook!StartFanout
    <2> HIDE DEF f
    <2> QED
      BY <2>1, <2>2, <2>3, <2>4, <2>5, NoPost, FanoutMoves
  <1>3. ASSUME NEW at \in {"raised", "crashed"}, fanout[e].at \in {"open", "post",
  "commit"},
               fanout' = [fanout EXCEPT ![e].at = at],
               UNCHANGED <<hook, delivery, retry, posts, accepted, chosen>>
        PROVE  DeliveryInv'
    <2> DEFINE f == [fanout[e] EXCEPT !.at = at]
    <2>1. fanout[e] \in Hook!FanoutState /\ fanout[e] # Hook!Idle
      BY <1>1, <1>3 DEF Hook!Idle
    <2>2. f \in Hook!FanoutState /\ f.at = at /\ f.left = fanout[e].left
      BY <2>1 DEF Hook!FanoutState
    <2>3. fanout' = [fanout EXCEPT ![e] = f]
      BY <1>3
    <2> HIDE DEF f
    <2>4. \A h \in f.left : hook[h] # "none" /\ Unopened(e, h)
      BY <1>1, <2>1, <2>2 DEF FanoutFits, Unopened
    <2>5. chosen' \in [Events -> SUBSET Hooks]
      BY <1>3 DEF DeliveryInv, Hook!TypeOK
    <2> QED
      BY <1>3, <2>2, <2>3, <2>4, <2>5, NoPost, FanoutMoves
  <1>4. ASSUME NEW ok \in BOOLEAN, Hook!PostFirst(e, ok)
        PROVE  DeliveryInv'
    <2> DEFINE f == [fanout[e] EXCEPT !.at = "commit", !.ok = ok]
    <2>0. fanout[e].at = "post"
      BY <1>4 DEF Hook!PostFirst
    <2>1. fanout[e] \in Hook!FanoutState /\ fanout[e] # Hook!Idle /\ fanout[e].now \in Hooks
      BY <1>1, <2>0 DEF Hook!Idle, DeliveryInv, Hook!TypeOK
    <2>2. /\ f \in Hook!FanoutState /\ f.at = "commit" /\ f.ok = ok
          /\ f.left = fanout[e].left /\ f.now = fanout[e].now
      BY <2>1 DEF Hook!FanoutState
    <2>3. fanout' = [fanout EXCEPT ![e] = f] /\ UNCHANGED <<hook, delivery, retry, chosen>>
      BY <1>4 DEF Hook!PostFirst
    <2>4. <<e, f.now>> \in Hook!Keys /\ Hook!Post(<<e, f.now>>, ok)
      BY <1>4, <2>1, <2>2 DEF Hook!PostFirst, Hook!Keys
    <2> HIDE DEF f
    <2>5. \A h \in f.left : hook[h] # "none" /\ Unopened(e, h)
      BY <1>1, <2>1, <2>2 DEF FanoutFits, Unopened
    <2>6. chosen' \in [Events -> SUBSET Hooks]
      BY <2>3 DEF DeliveryInv, Hook!TypeOK
    <2> QED
      BY <2>1, <2>2, <2>3, <2>4, <2>5, <2>6, PostEffect, FanoutMoves
  <1> QED
    BY <1>2, <1>3, <1>4 DEF Hook!Raise, Hook!CrashFanout

\* The fan-out writes the row of the hook whose turn it is.
LEMMA OpenKeeps ==
  ASSUME Hook!DeliveryAssumption, DeliveryInv, NEW e \in Events, NEW h \in Hooks,
         Hook!Open(e, h)
  PROVE  DeliveryInv'
  <1> DEFINE k == <<e, h>>
             f == [at |-> "post", left |-> fanout[e].left \ {h}, now |-> h, ok |-> FALSE]
  <1>1. /\ fanout[e].at = "open" /\ h \in fanout[e].left /\ hook[h] # "removed"
        /\ delivery' = [delivery EXCEPT ![k] = Hook!Pending]
        /\ fanout' = [fanout EXCEPT ![e] = f]
        /\ UNCHANGED <<hook, retry, posts, accepted, chosen>> /\ k \in Hook!Keys
    BY DEF Hook!Open, Hook!Keys
  <1>2. fanout[e] \in Hook!FanoutState /\ fanout[e] # Hook!Idle
    BY <1>1 DEF DeliveryInv, Hook!TypeOK, Hook!Idle
  <1>3. FanoutFits(e)
    BY DEF DeliveryInv
  <1>4. hook[h] \in Hook!HookStatus
    BY <1>1, <1>2, <1>3 DEF FanoutFits, DeliveryInv, Hook!TypeOK
  <1>5. /\ f \in Hook!FanoutState /\ f # Hook!Idle /\ f.at = "post"
        /\ f.left = fanout[e].left \ {h} /\ f.now = h
    <2>1. fanout[e].left \ {h} \in SUBSET Hooks
      BY <1>2 DEF Hook!FanoutState
    <2>2. f \in Hook!FanoutState
      BY <2>1 DEF Hook!FanoutState
    <2> QED
      BY <2>2, RowKinds
  <1>6. /\ Hook!Pending \in Hook!Delivery /\ Hook!Pending # Hook!NoRow /\ Hook!Pending.status = "PENDING"
        /\ Hook!Pending.attempts = 1
    BY RowKinds DEF Hook!Pending
  <1> HIDE DEF f
  <1>7. \A x \in Events : fanout'[x] = IF x = e THEN f ELSE fanout[x]
    BY <1>1 DEF DeliveryInv, Hook!TypeOK
  <1>8. \A x \in Hook!Keys : delivery'[x] = IF x = k THEN Hook!Pending ELSE delivery[x]
    BY <1>1 DEF DeliveryInv, Hook!TypeOK
  <1>9. Hook!TypeOK'
    BY <1>1, <1>5, <1>6, <1>7 DEF DeliveryInv, Hook!TypeOK
  <1>10. \A x \in Events : FanoutFits(x)'
    <2> SUFFICES ASSUME NEW x \in Events PROVE FanoutFits(x)'
      OBVIOUS
    <2>1. FanoutFits(x)
      BY DEF DeliveryInv
    <2>2. CASE x = e
      <3>1. \A g \in Hooks : g \in f.left => delivery'[<<e, g>>] = Hook!NoRow
        BY <1>2, <1>3, <1>5, <1>8 DEF FanoutFits, Unopened, Hook!Keys
      <3>2. fanout'[e] = f
        BY <1>7
      <3> QED
        BY <1>1, <1>2, <1>3, <1>5, <2>2, <3>1, <3>2 DEF FanoutFits, Unopened
    <2>3. CASE x # e
      <3>1. /\ fanout'[x] = fanout[x]
            /\ \A g \in Hooks : delivery'[<<x, g>>] = delivery[<<x, g>>]
        BY <1>7, <1>8, <2>3 DEF Hook!Keys
      <3> QED
        BY <1>1, <2>1, <3>1 DEF FanoutFits, Unopened
    <2> QED
      BY <2>2, <2>3
  <1>11. \A r \in Retriers : retry'[r] # Hook!Idle => RetryFits(retry[r])'
    <2> SUFFICES ASSUME NEW r \in Retriers, retry[r] # Hook!Idle PROVE RetryFits(retry[r])'
      BY <1>1
    <2>1. RetryFits(retry[r]) /\ retry[r].key \in Hook!Keys
      BY DEF DeliveryInv, Hook!TypeOK, Hook!RetryState
    <2>2. retry[r].key # k
      BY <1>1, <1>3 DEF FanoutFits, Unopened
    <2> QED
      BY <1>1, <1>8, <2>1, <2>2 DEF RetryFits
  <1>12. \A x \in Hook!Rows' : x = k \/ (x \in Hook!Rows /\ delivery'[x] = delivery[x])
    BY <1>8 DEF Hook!Rows
  <1>13. posts[k] \in Nat
    BY <1>1 DEF DeliveryInv, Hook!TypeOK
  <1>14. delivery'[k] = Hook!Pending
    BY <1>1, <1>8
  <1>15. Hook!DeliveredIsAccepted'
    BY <1>1, <1>6, <1>12, <1>14 DEF DeliveryInv, Hook!DeliveredIsAccepted
  <1>16. Hook!AttemptsAreMade'
    BY <1>1, <1>6, <1>12, <1>13, <1>14 DEF DeliveryInv, Hook!AttemptsAreMade
  <1>17. Hook!RowsHaveHooks'
    BY <1>1, <1>4, <1>12 DEF DeliveryInv, Hook!RowsHaveHooks
  <1> QED
    BY <1>9, <1>10, <1>11, <1>15, <1>16, <1>17 DEF DeliveryInv

\* What a commit may make of a row that is still there.
RowCommits(k, row) ==
  /\ delivery[k] # Hook!NoRow
  /\ delivery' = [delivery EXCEPT ![k] = row]
  /\ row.attempts <= posts[k] + 1
  /\ row.status = "DELIVERED" => k \in accepted /\ row.delivered
  /\ delivery[k].delivered => row.delivered
  /\ UNCHANGED <<hook, posts, accepted, chosen>>

LEMMA CommitKeepsRows ==
  ASSUME Hook!DeliveryAssumption, DeliveryInv, NEW k \in Hook!Keys,
         NEW row \in Hook!Delivery,
         RowCommits(k, row)
  PROVE  /\ delivery' \in [Hook!Keys -> Hook!Delivery \cup {Hook!NoRow}]
         /\ \A x \in Hook!Keys : /\ delivery'[x] = Hook!NoRow <=> delivery[x] = Hook!NoRow
                                 /\ delivery[x].delivered => delivery'[x].delivered
         /\ Hook!DeliveredIsAccepted' /\ Hook!AttemptsAreMade' /\ Hook!RowsHaveHooks'
  <1>1. \A x \in Hook!Keys : delivery'[x] = IF x = k THEN row ELSE delivery[x]
    BY DEF RowCommits, DeliveryInv, Hook!TypeOK
  <1>2. delivery' \in [Hook!Keys -> Hook!Delivery \cup {Hook!NoRow}]
    BY DEF RowCommits, DeliveryInv, Hook!TypeOK
  <1>3. row # Hook!NoRow
    BY RowKinds
  <1>4. Hook!Rows' = Hook!Rows /\ k \in Hook!Rows
    BY <1>1, <1>3 DEF Hook!Rows, RowCommits
  <1>5. Hook!DeliveredIsAccepted' /\ Hook!AttemptsAreMade' /\ Hook!RowsHaveHooks'
    BY <1>1, <1>4 DEF RowCommits, DeliveryInv, Hook!DeliveredIsAccepted,
       Hook!AttemptsAreMade,
                      Hook!RowsHaveHooks, Hook!Rows
  <1> QED
    BY <1>1, <1>2, <1>3, <1>5 DEF RowCommits

LEMMA CommitFirstKeeps ==
  ASSUME Hook!DeliveryAssumption, DeliveryInv, NEW e \in Events, Hook!CommitFirst(e)
  PROVE  DeliveryInv'
  <1> DEFINE k == <<e, fanout[e].now>>
             ok == fanout[e].ok
             row == Hook!Written(Hook!Pending, Hook!AfterPost(Hook!Pending, ok),
             delivery[k])
             f == Hook!Following(fanout[e])
  <1>1. /\ fanout[e].at = "commit" /\ delivery[k] # Hook!NoRow
        /\ delivery' = [delivery EXCEPT ![k] = row]
        /\ fanout' = [fanout EXCEPT ![e] = f]
        /\ UNCHANGED <<hook, retry, posts, accepted, chosen>>
    BY DEF Hook!CommitFirst
  <1>2. fanout[e] \in Hook!FanoutState /\ fanout[e] # Hook!Idle /\ fanout[e].now \in Hooks
    BY <1>1 DEF DeliveryInv, Hook!TypeOK, Hook!Idle
  <1>3. /\ k \in Hook!Keys /\ ok \in BOOLEAN /\ delivery[k] \in Hook!Delivery
        /\ k \in Hook!Rows
    BY <1>1, <1>2 DEF Hook!Keys, Hook!Rows, Hook!FanoutState, DeliveryInv, Hook!TypeOK
  <1>4. FanoutFits(e)
    BY DEF DeliveryInv
  <1>5. RowCommits(k, row) /\ row \in Hook!Delivery
    <2> DEFINE new == Hook!AfterPost(Hook!Pending, ok)
    <2>1. /\ Hook!Pending \in Hook!Delivery /\ new \in Hook!Delivery
          /\ new.status = IF ok THEN "DELIVERED" ELSE "FAILED"
          /\ new.delivered = (ok \/ Hook!Pending.delivered)
          /\ new.attempts = Hook!Pending.attempts
      BY <1>3, RowKinds, AnsweredRow
    <2>2. Hook!Pending.status = "PENDING" /\ Hook!Pending.delivered = FALSE
      BY DEF Hook!Pending
    <2> HIDE DEF new
    <2>3. /\ row \in Hook!Delivery
          /\ row.status = new.status
          /\ row.attempts = delivery[k].attempts
          /\ row.delivered = IF new.delivered = Hook!Pending.delivered THEN delivery[k].delivered
                             ELSE new.delivered
      BY <1>3, <2>1, <2>2, WrittenRow DEF new
    <2>4. /\ row.status = "DELIVERED" => ok
          /\ ok => row.delivered
          /\ delivery[k].delivered => row.delivered
      BY <1>3, <2>1, <2>2, <2>3
    <2>5. ok => k \in accepted
      BY <1>1, <1>4 DEF FanoutFits
    <2>6. delivery[k].attempts <= posts[k] + 1
      BY <1>3 DEF DeliveryInv, Hook!AttemptsAreMade
    <2> HIDE DEF row, k, ok
    <2> QED
      BY <1>1, <2>3, <2>4, <2>5, <2>6 DEF RowCommits
  <1>6. /\ f \in Hook!FanoutState /\ f # Hook!Idle /\ f.left = fanout[e].left
        /\ f.at \in {"done", "open"}
    BY <1>2, RowKinds DEF Hook!Following, Hook!FanoutState
  <1> HIDE DEF k, row, f, ok
  <1>7. \A x \in Events : fanout'[x] = IF x = e THEN f ELSE fanout[x]
    BY <1>1 DEF DeliveryInv, Hook!TypeOK
  <1>8. /\ delivery' \in [Hook!Keys -> Hook!Delivery \cup {Hook!NoRow}]
        /\ \A x \in Hook!Keys : /\ delivery'[x] = Hook!NoRow <=> delivery[x] = Hook!NoRow
                                /\ delivery[x].delivered => delivery'[x].delivered
        /\ Hook!DeliveredIsAccepted' /\ Hook!AttemptsAreMade' /\ Hook!RowsHaveHooks'
    BY <1>3, <1>5, CommitKeepsRows
  <1>9. Hook!TypeOK'
    BY <1>1, <1>6, <1>7, <1>8 DEF DeliveryInv, Hook!TypeOK
  <1>10. \A x \in Events : FanoutFits(x)'
    <2> SUFFICES ASSUME NEW x \in Events PROVE FanoutFits(x)'
      OBVIOUS
    <2>1. FanoutFits(x) /\ \A g \in Hooks : <<x, g>> \in Hook!Keys
      BY DEF DeliveryInv, Hook!Keys
    <2>2. CASE x = e
      <3>1. fanout'[x] = f /\ fanout[x] # Hook!Idle
        BY <1>2, <1>7, <2>2
      <3> QED
        BY <1>1, <1>6, <1>8, <2>1, <2>2, <3>1 DEF FanoutFits, Unopened
    <2>3. CASE x # e
      <3>1. fanout'[x] = fanout[x]
        BY <1>7, <2>3
      <3> QED
        BY <1>1, <1>8, <2>1, <3>1 DEF FanoutFits, Unopened
    <2> QED
      BY <2>2, <2>3
  <1>11. \A r \in Retriers : retry'[r] # Hook!Idle => RetryFits(retry[r])'
    <2> SUFFICES ASSUME NEW r \in Retriers, retry[r] # Hook!Idle PROVE RetryFits(retry[r])'
      BY <1>1
    <2>1. RetryFits(retry[r]) /\ retry[r].key \in Hook!Keys
      BY DEF DeliveryInv, Hook!TypeOK, Hook!RetryState
    <2> QED
      BY <1>1, <1>8, <2>1 DEF RetryFits
  <1> QED
    BY <1>8, <1>9, <1>10, <1>11 DEF DeliveryInv

\* A step of a retry that writes no row, and takes one that is there.
LEMMA RetryMoves ==
  ASSUME Hook!DeliveryAssumption, DeliveryInv, NEW r \in Retriers,
         NEW q \in Hook!RetryState,
         UNCHANGED <<hook, delivery, fanout, chosen>>,
         retry' = [retry EXCEPT ![r] = q],
         posts' \in [Hook!Keys -> 0 .. MaxAttempts],
         \A k \in Hook!Keys : posts'[k] >= posts[k],
         accepted' \subseteq Hook!Keys, accepted \subseteq accepted',
         RetryFits(q)',
         delivery[q.key] # Hook!NoRow \/ (retry[r] # Hook!Idle /\ retry[r].key = q.key)
  PROVE  DeliveryInv'
  <1>1. \A x \in Retriers : retry'[x] = IF x = r THEN q ELSE retry[x]
    BY DEF DeliveryInv, Hook!TypeOK
  <1>2. Hook!TypeOK'
    BY DEF DeliveryInv, Hook!TypeOK
  <1>3. \A x \in Events : FanoutFits(x)'
    <2> SUFFICES ASSUME NEW x \in Events PROVE FanoutFits(x)'
      OBVIOUS
    <2>1. FanoutFits(x)
      BY DEF DeliveryInv
    <2>2. \A g \in Hooks : Unopened(x, g) => q.key # <<x, g>>
      BY <2>1 DEF FanoutFits
    <2> QED
      BY <1>1, <2>1, <2>2 DEF FanoutFits, Unopened
  <1>4. \A x \in Retriers : retry'[x] # Hook!Idle => RetryFits(retry[x])'
    <2> SUFFICES ASSUME NEW x \in Retriers, retry'[x] # Hook!Idle PROVE RetryFits(retry[x])'
      OBVIOUS
    <2>0. CASE x = r
      BY <1>1, <2>0 DEF RetryFits
    <2> SUFFICES ASSUME x # r, retry[x] # Hook!Idle PROVE RetryFits(retry[x])'
      BY <1>1, <2>0
    <2>1. /\ RetryFits(retry[x]) /\ retry[x].key \in Hook!Keys /\ retry[x].row.attempts \in Nat
          /\ posts[retry[x].key] \in Nat /\ posts'[retry[x].key] \in Nat
      BY DEF DeliveryInv, Hook!TypeOK, Hook!RetryState, Hook!Delivery
    <2>2. retry'[x] = retry[x]
      BY <1>1
    <2> QED
      BY <2>1, <2>2 DEF RetryFits
  <1>5. Hook!DeliveredIsAccepted' /\ Hook!RowsHaveHooks'
    BY DEF DeliveryInv, Hook!DeliveredIsAccepted, Hook!RowsHaveHooks, Hook!Rows
  <1>6. Hook!AttemptsAreMade'
    <2> SUFFICES ASSUME NEW k \in Hook!Rows PROVE delivery[k].attempts <= posts'[k] + 1
      BY DEF Hook!AttemptsAreMade, Hook!Rows
    <2>1. /\ k \in Hook!Keys /\ delivery[k].attempts \in Nat /\ posts[k] \in Nat /\ posts'[k] \in Nat
          /\ delivery[k].attempts <= posts[k] + 1
      BY DEF DeliveryInv, Hook!TypeOK, Hook!Delivery, Hook!Rows, Hook!AttemptsAreMade
    <2> QED
      BY <2>1
  <1> QED
    BY <1>2, <1>3, <1>4, <1>5, <1>6 DEF DeliveryInv

LEMMA StartRetryKeeps ==
  ASSUME Hook!DeliveryAssumption, DeliveryInv, NEW r \in Retriers, NEW k \in Hook!Keys,
         Hook!StartRetry(r, k)
  PROVE  DeliveryInv'
  <1> DEFINE q == [at |-> "post", key |-> k, row |-> delivery[k], ok |-> FALSE]
  <1>1. PICK s : s = q
    OBVIOUS
  <1>2. /\ delivery[k] \in Hook!Delivery /\ k \in Hook!Rows
        /\ UNCHANGED <<hook, delivery, fanout, posts, accepted, chosen>>
        /\ retry' = [retry EXCEPT ![r] = s]
    BY <1>1 DEF Hook!StartRetry, DeliveryInv, Hook!TypeOK, Hook!Rows
  <1>3. /\ s \in Hook!RetryState /\ s.at = "post" /\ s.key = k /\ s.row = delivery[k]
    BY <1>1, <1>2 DEF Hook!RetryState
  <1> HIDE DEF q
  <1>4. delivery[k].attempts <= posts[k] + 1 /\ delivery[s.key] # Hook!NoRow
    BY <1>2, <1>3 DEF DeliveryInv, Hook!AttemptsAreMade, Hook!Rows
  <1>5. RetryFits(s)'
    BY <1>2, <1>3, <1>4 DEF RetryFits
  <1>6. chosen' = chosen
    BY <1>2
  <1> QED
    BY <1>2, <1>3, <1>4, <1>5, NoPost, RetryMoves

LEMMA PostAgainKeeps ==
  ASSUME Hook!DeliveryAssumption, DeliveryInv, NEW r \in Retriers, NEW ok \in BOOLEAN,
         Hook!PostAgain(r, ok)
  PROVE  DeliveryInv'
  <1>1. PICK s : s = [retry[r] EXCEPT !.at = "commit", !.ok = ok]
    OBVIOUS
  <1>2. retry[r].at = "post"
    BY DEF Hook!PostAgain
  <1>3. retry[r] \in Hook!RetryState /\ retry[r] # Hook!Idle
    BY <1>2 DEF DeliveryInv, Hook!TypeOK, Hook!Idle
  <1>4. RetryFits(retry[r])
    BY <1>3 DEF DeliveryInv
  <1>5. /\ s \in Hook!RetryState /\ s.at = "commit" /\ s.ok = ok
        /\ s.key = retry[r].key /\ s.row = retry[r].row /\ s.key \in Hook!Keys
    BY <1>1, <1>3 DEF Hook!RetryState
  <1>6. /\ Hook!Post(s.key, ok) /\ UNCHANGED <<hook, delivery, fanout, chosen>>
        /\ retry' = [retry EXCEPT ![r] = s]
    BY <1>1, <1>5 DEF Hook!PostAgain
  <1>7. /\ posts' \in [Hook!Keys -> 0 .. MaxAttempts]
        /\ \A x \in Hook!Keys : posts'[x] >= posts[x]
        /\ posts'[s.key] = posts[s.key] + 1
        /\ accepted' \subseteq Hook!Keys /\ accepted \subseteq accepted'
        /\ ok => s.key \in accepted'
    BY <1>5, <1>6, PostEffect
  <1>8. s.row.attempts \in Nat /\ posts[s.key] \in Nat
    BY <1>5 DEF Hook!RetryState, Hook!Delivery, DeliveryInv, Hook!TypeOK
  <1>9. RetryFits(s)'
    BY <1>4, <1>5, <1>6, <1>7, <1>8 DEF RetryFits
  <1> QED
    BY <1>3, <1>5, <1>6, <1>7, <1>9, RetryMoves

\* A retry that ends; the row may be written before.
LEMMA RetryEnds ==
  ASSUME Hook!DeliveryAssumption, DeliveryInv, NEW r \in Retriers,
         retry' = [retry EXCEPT ![r] = Hook!Idle],
         UNCHANGED <<hook, fanout, posts, accepted, chosen>>,
         delivery' \in [Hook!Keys -> Hook!Delivery \cup {Hook!NoRow}],
         \A x \in Hook!Keys : /\ delivery'[x] = Hook!NoRow <=> delivery[x] = Hook!NoRow
                              /\ delivery[x].delivered => delivery'[x].delivered,
         Hook!DeliveredIsAccepted', Hook!AttemptsAreMade', Hook!RowsHaveHooks'
  PROVE  DeliveryInv'
  <1>1. \A x \in Retriers : retry'[x] = IF x = r THEN Hook!Idle ELSE retry[x]
    BY DEF DeliveryInv, Hook!TypeOK
  <1>2. Hook!TypeOK'
    BY DEF DeliveryInv, Hook!TypeOK
  <1>3. \A x \in Events : FanoutFits(x)'
    <2> SUFFICES ASSUME NEW x \in Events PROVE FanoutFits(x)'
      OBVIOUS
    <2>1. FanoutFits(x) /\ \A g \in Hooks : <<x, g>> \in Hook!Keys
      BY DEF DeliveryInv, Hook!Keys
    <2> QED
      BY <1>1, <2>1 DEF FanoutFits, Unopened
  <1>4. \A x \in Retriers : retry'[x] # Hook!Idle => RetryFits(retry[x])'
    <2> SUFFICES ASSUME NEW x \in Retriers, x # r,
    retry[x] # Hook!Idle PROVE RetryFits(retry[x])'
      BY <1>1
    <2>1. RetryFits(retry[x]) /\ retry[x].key \in Hook!Keys /\ retry'[x] = retry[x]
      BY <1>1 DEF DeliveryInv, Hook!TypeOK, Hook!RetryState
    <2> QED
      BY <2>1 DEF RetryFits
  <1> QED
    BY <1>2, <1>3, <1>4 DEF DeliveryInv

LEMMA CommitRetryKeeps ==
  ASSUME Hook!DeliveryAssumption, DeliveryInv, NEW r \in Retriers, Hook!CommitRetry(r)
  PROVE  DeliveryInv'
  <1> DEFINE k == retry[r].key
             old == retry[r].row
             ok == retry[r].ok
             row == Hook!Written(old, Hook!Retried(old, ok), delivery[k])
  <1>1. /\ retry[r].at = "commit" /\ retry' = [retry EXCEPT ![r] = Hook!Idle]
        /\ UNCHANGED <<hook, fanout, posts, accepted, chosen>>
    BY DEF Hook!CommitRetry
  <1>2. retry[r] \in Hook!RetryState /\ retry[r] # Hook!Idle
    BY <1>1 DEF DeliveryInv, Hook!TypeOK, Hook!Idle
  <1>3. /\ k \in Hook!Keys /\ old \in Hook!Delivery /\ ok \in BOOLEAN
    BY <1>2 DEF Hook!RetryState
  <1>4. RetryFits(retry[r])
    BY <1>2 DEF DeliveryInv
  <1>5. CASE delivery[k] = Hook!NoRow
    <2>1. delivery' = delivery
      BY <1>5 DEF Hook!CommitRetry
    <2>2. Hook!DeliveredIsAccepted' /\ Hook!AttemptsAreMade' /\ Hook!RowsHaveHooks'
      BY <1>1, <2>1 DEF DeliveryInv, Hook!DeliveredIsAccepted, Hook!AttemptsAreMade,
         Hook!RowsHaveHooks, Hook!Rows
    <2>3. delivery' \in [Hook!Keys -> Hook!Delivery \cup {Hook!NoRow}]
      BY <2>1 DEF DeliveryInv, Hook!TypeOK
    <2> QED
      BY <1>1, <2>1, <2>2, <2>3, RetryEnds
  <1>6. CASE delivery[k] # Hook!NoRow
    <2>1. delivery[k] \in Hook!Delivery /\ k \in Hook!Rows
      BY <1>3, <1>6 DEF DeliveryInv, Hook!TypeOK, Hook!Rows
    <2>2. /\ posts[k] \in 0 .. MaxAttempts /\ MaxAttempts \in Nat
          /\ old.attempts \in Nat /\ old.attempts <= posts[k]
          /\ ok => k \in accepted
          /\ old.delivered => delivery[k].delivered
      BY <1>1, <1>3, <1>4, <1>6 DEF RetryFits, DeliveryInv, Hook!TypeOK, Hook!Delivery,
                                    Hook!DeliveryAssumption
    <2> DEFINE new == Hook!Retried(old, ok)
    <2>3. /\ new \in Hook!Delivery
          /\ new.status = IF ok THEN "DELIVERED" ELSE "FAILED"
          /\ new.delivered = (ok \/ old.delivered)
          /\ new.attempts = old.attempts + 1
      <3>1. old.attempts <= MaxAttempts
        BY <2>2
      <3> QED
        BY <1>3, <3>1, RetriedRow
    <2>4. delivery' = [delivery EXCEPT ![k] = row]
      BY <1>6 DEF Hook!CommitRetry
    <2> HIDE DEF new, old, ok, k
    <2>5. /\ row \in Hook!Delivery
          /\ row.status = IF new.status = old.status THEN delivery[k].status ELSE new.status
          /\ row.attempts = IF new.attempts = old.attempts THEN delivery[k].attempts
                            ELSE new.attempts
          /\ row.delivered = IF new.delivered = old.delivered THEN delivery[k].delivered
                             ELSE new.delivered
      BY <1>3, <2>1, <2>3, WrittenRow DEF new
    <2> HIDE DEF row
    <2>6. row.attempts <= posts[k] + 1
      BY <2>2, <2>3, <2>5
    <2>7. \A d \in Hook!Delivery : d.delivered \in BOOLEAN
      BY DEF Hook!Delivery
    <2>8. delivery[k].status = "DELIVERED" => k \in accepted /\ delivery[k].delivered
      BY <2>1 DEF DeliveryInv, Hook!DeliveredIsAccepted
    <2>9. /\ row.status = "DELIVERED" => k \in accepted /\ row.delivered
          /\ delivery[k].delivered => row.delivered
      BY <1>3, <2>1, <2>2, <2>3, <2>5, <2>7, <2>8
    <2>10. RowCommits(k, row)
      BY <1>1, <1>6, <2>4, <2>6, <2>9 DEF RowCommits
    <2> QED
      BY <1>1, <1>3, <2>5, <2>10, CommitKeepsRows, RetryEnds
  <1> QED
    BY <1>5, <1>6

LEMMA DeliveryInvStep ==
  ASSUME Hook!DeliveryAssumption
  PROVE  DeliveryInv /\ [Hook!Next]_(Hook!vars) => DeliveryInv'
  <1> SUFFICES ASSUME DeliveryInv, [Hook!Next]_(Hook!vars) PROVE DeliveryInv'
    OBVIOUS
  <1>1. ASSUME NEW h \in Hooks, Hook!Manage(h) PROVE DeliveryInv'
    BY <1>1, ManageKeeps, RemoveKeeps DEF Hook!Manage
  <1>2. ASSUME NEW e \in Events, Hook!Fanout(e) PROVE DeliveryInv'
    BY <1>2, FanoutStepKeeps, OpenKeeps, CommitFirstKeeps DEF Hook!Fanout
  <1>3. ASSUME NEW r \in Retriers, Hook!CrashRetry(r) PROVE DeliveryInv'
    <2>1. /\ retry' = [retry EXCEPT ![r] = Hook!Idle]
          /\ UNCHANGED <<hook, delivery, fanout, posts, accepted, chosen>>
      BY <1>3 DEF Hook!CrashRetry
    <2>2. Hook!DeliveredIsAccepted' /\ Hook!AttemptsAreMade' /\ Hook!RowsHaveHooks'
      BY <2>1 DEF DeliveryInv, Hook!DeliveredIsAccepted, Hook!AttemptsAreMade,
         Hook!RowsHaveHooks, Hook!Rows
    <2>3. delivery' \in [Hook!Keys -> Hook!Delivery \cup {Hook!NoRow}]
      BY <2>1 DEF DeliveryInv, Hook!TypeOK
    <2> QED
      BY <2>1, <2>2, <2>3, RetryEnds
  <1>4. ASSUME NEW r \in Retriers, Hook!Retry(r) PROVE DeliveryInv'
    BY <1>3, <1>4, StartRetryKeeps, PostAgainKeeps, CommitRetryKeeps DEF Hook!Retry
  <1>5. CASE UNCHANGED Hook!vars
    BY <1>5 DEF Hook!vars, DeliveryInv, Hook!TypeOK, FanoutFits, Unopened, RetryFits,
                Hook!DeliveredIsAccepted, Hook!AttemptsAreMade, Hook!RowsHaveHooks,
                Hook!Rows
  <1> QED
    BY <1>1, <1>2, <1>4, <1>5 DEF Hook!Next

LEMMA DeliveryInvariance ==
  ASSUME Hook!DeliveryAssumption
  PROVE  Hook!Spec => []DeliveryInv
  <1>1. Hook!Init => DeliveryInv
    BY DeliveryInit
  <1>2. DeliveryInv /\ [Hook!Next]_(Hook!vars) => DeliveryInv'
    BY DeliveryInvStep
  <1> QED
    BY <1>1, <1>2, PTL DEF Hook!Spec

\* However the first attempt, retries, crashes and the removal of a hook meet:
\* what is shown as delivered was accepted, no attempt is made up, and rows go
\* with their hook.
THEOREM DeliveriesAreTrue ==
  ASSUME Hook!DeliveryAssumption
  PROVE  Hook!Spec => [](/\ Hook!TypeOK /\ Hook!DeliveredIsAccepted
                         /\ Hook!AttemptsAreMade /\ Hook!RowsHaveHooks)
  <1>1. DeliveryInv => /\ Hook!TypeOK /\ Hook!DeliveredIsAccepted
                       /\ Hook!AttemptsAreMade /\ Hook!RowsHaveHooks
    BY DEF DeliveryInv
  <1> QED
    BY <1>1, DeliveryInvariance, PTL

-----------------------------------------------------------------------------
(* Without retries a row is written by its fan-out only, once. *)

FirstAttempts ==
  /\ Hook!ErrorMeansFailed
  /\ \A e \in Events : LET k == <<e, fanout[e].now>> IN
       fanout[e].at \in {"post", "commit"} => delivery[k] \in {Hook!Pending, Hook!NoRow}

LEMMA FirstAttemptsStep ==
  ASSUME Hook!DeliveryAssumption, Retriers = {}
  PROVE  DeliveryInv /\ FirstAttempts /\ [Hook!Next]_(Hook!vars) => FirstAttempts'
  <1> SUFFICES ASSUME DeliveryInv, FirstAttempts, [Hook!Next]_(Hook!vars)
               PROVE  FirstAttempts'
    OBVIOUS
  <1> DEFINE Own(e) == <<e, fanout[e].now>>
             Early(e) == fanout[e].at \in {"post",
             "commit"} => delivery[Own(e)] \in {Hook!Pending, Hook!NoRow}
  <1>a. /\ fanout = [e \in Events |-> fanout[e]] /\ delivery = [k \in Hook!Keys |-> delivery[k]]
        /\ \A e \in Events : fanout[e].at \in {"post", "commit"} => Own(e) \in Hook!Keys
        /\ \A e \in Events : Early(e)
    BY DEF DeliveryInv, Hook!TypeOK, FirstAttempts, Hook!Keys
  <1>b. ~Hook!Pending.error /\ Hook!Pending.status = "PENDING" /\ Hook!Pending \in Hook!Delivery /\ Hook!Pending # Hook!NoRow
    BY RowKinds DEF Hook!Pending
  <1>1. ASSUME UNCHANGED <<delivery, fanout>> PROVE FirstAttempts'
    BY <1>1 DEF FirstAttempts, Hook!ErrorMeansFailed, Hook!Rows
  <1>2. ASSUME NEW h \in Hooks, Hook!Remove(h) PROVE FirstAttempts'
    <2>1. /\ fanout' = fanout
          /\ \A k \in Hook!Keys : delivery'[k] = IF k[2] = h THEN Hook!NoRow ELSE delivery[k]
      BY <1>2 DEF Hook!Remove
    <2>2. Hook!ErrorMeansFailed'
      BY <2>1 DEF FirstAttempts, Hook!ErrorMeansFailed, Hook!Rows
    <2> QED
      BY <1>a, <2>1, <2>2 DEF FirstAttempts
  <1>3. ASSUME NEW e \in Events, NEW f, fanout' = [fanout EXCEPT ![e] = f],
               f.at \in {"post", "commit"} =>
                 fanout[e].at \in {"post", "commit"} /\ f.now = fanout[e].now,
               delivery' = delivery
        PROVE  FirstAttempts'
    <2>1. Hook!ErrorMeansFailed'
      BY <1>3 DEF FirstAttempts, Hook!ErrorMeansFailed, Hook!Rows
    <2>2. \A x \in Events : fanout'[x] = IF x = e THEN f ELSE fanout[x]
      BY <1>3, <1>a
    <2> QED
      BY <1>3, <1>a, <2>1, <2>2 DEF FirstAttempts
  <1>4. ASSUME NEW e \in Events, NEW h \in Hooks, Hook!Open(e, h) PROVE FirstAttempts'
    <2> DEFINE k == <<e, h>>
               f == [at |-> "post", left |-> fanout[e].left \ {h}, now |-> h, ok |-> FALSE]
    <2>1. /\ delivery' = [delivery EXCEPT ![k] = Hook!Pending]
          /\ fanout' = [fanout EXCEPT ![e] = f] /\ k \in Hook!Keys
      BY <1>4 DEF Hook!Open, Hook!Keys
    <2>2. f.now = h
      OBVIOUS
    <2> HIDE DEF f
    <2>3. /\ \A x \in Events : fanout'[x] = IF x = e THEN f ELSE fanout[x]
          /\ \A x \in Hook!Keys : delivery'[x] = IF x = k THEN Hook!Pending ELSE delivery[x]
      BY <1>a, <2>1
    <2>4. Hook!ErrorMeansFailed'
      BY <1>b, <2>3 DEF FirstAttempts, Hook!ErrorMeansFailed, Hook!Rows
    <2>5. \A x \in Events : fanout'[x].at \in {"post", "commit"} =>
            delivery'[<<x, fanout'[x].now>>] \in {Hook!Pending, Hook!NoRow}
      BY <1>a, <2>1, <2>2, <2>3
    <2> QED
      BY <2>4, <2>5 DEF FirstAttempts
  <1>5. ASSUME NEW e \in Events, Hook!CommitFirst(e) PROVE FirstAttempts'
    <2> DEFINE k == Own(e)
               ok == fanout[e].ok
               new == Hook!AfterPost(Hook!Pending, ok)
               row == Hook!Written(Hook!Pending, new, delivery[k])
               f == Hook!Following(fanout[e])
    <2>1. /\ fanout[e].at = "commit" /\ delivery[k] # Hook!NoRow
          /\ delivery' = [delivery EXCEPT ![k] = row]
          /\ fanout' = [fanout EXCEPT ![e] = f]
      BY <1>5 DEF Hook!CommitFirst
    <2>2. fanout[e] \in Hook!FanoutState
      BY <2>1 DEF DeliveryInv, Hook!TypeOK, Hook!Idle
    <2>3. f.at \in {"done", "open"} /\ ok \in BOOLEAN
      BY <2>2 DEF Hook!Following, Hook!FanoutState
    <2>4. k \in Hook!Keys /\ delivery[k] = Hook!Pending
      BY <1>a, <2>1
    <2>5. row.error <=> row.status = "FAILED"
      <3>1. /\ new \in Hook!Delivery /\ new.error = ~ok
            /\ new.status = IF ok THEN "DELIVERED" ELSE "FAILED"
        BY <1>b, <2>3, AnsweredRow
      <3> HIDE DEF new
      <3>2. /\ row.status = IF new.status = Hook!Pending.status THEN Hook!Pending.status ELSE new.status
            /\ row.error = IF new.error = Hook!Pending.error THEN Hook!Pending.error ELSE new.error
        BY <1>b, <2>4, <3>1, WrittenRow
      <3> QED
        BY <1>b, <3>1, <3>2
    <2> HIDE DEF row, f, k
    <2>6. /\ \A x \in Events : fanout'[x] = IF x = e THEN f ELSE fanout[x]
          /\ \A x \in Hook!Keys : delivery'[x] = IF x = k THEN row ELSE delivery[x]
      BY <1>a, <2>1
    <2>7. Hook!ErrorMeansFailed'
      BY <2>5, <2>6 DEF FirstAttempts, Hook!ErrorMeansFailed, Hook!Rows
    <2>8. \A x \in Events : x # e /\ fanout[x].at \in {"post", "commit"} =>
            delivery'[<<x, fanout[x].now>>] = delivery[<<x, fanout[x].now>>]
      BY <1>a, <2>6 DEF k
    <2> QED
      BY <1>a, <2>3, <2>6, <2>7, <2>8 DEF FirstAttempts
  <1>6. ASSUME NEW e \in Events, Hook!StartFanout(e) \/ Hook!Raise(e) \/ Hook!CrashFanout(e)
        PROVE  FirstAttempts'
    <2>1. ASSUME NEW f, fanout' = [fanout EXCEPT ![e] = f], f.at \notin {"post", "commit"},
                 delivery' = delivery
          PROVE  FirstAttempts'
      BY <1>3, <2>1
    <2>2. CASE Hook!StartFanout(e)
      BY <2>1, <2>2 DEF Hook!StartFanout
    <2>3. ASSUME NEW at \in {"raised", "crashed"}, fanout[e].at \in {"open", "post",
    "commit"},
                 fanout' = [fanout EXCEPT ![e].at = at], delivery' = delivery
          PROVE  FirstAttempts'
      <3>1. fanout[e] \in Hook!FanoutState
        BY <2>3 DEF DeliveryInv, Hook!TypeOK, Hook!Idle
      <3>2. [fanout[e] EXCEPT !.at = at].at = at
        BY <3>1 DEF Hook!FanoutState
      <3>3. fanout' = [fanout EXCEPT ![e] = [fanout[e] EXCEPT !.at = at]]
        BY <2>3
      <3> QED
        BY <2>1, <2>3, <3>2, <3>3
    <2> QED
      BY <1>6, <2>2, <2>3 DEF Hook!Raise, Hook!CrashFanout
  <1>7. ASSUME NEW e \in Events, NEW ok \in BOOLEAN, Hook!PostFirst(e,
  ok) PROVE FirstAttempts'
    <2>1. fanout[e].at = "post"
      BY <1>7 DEF Hook!PostFirst
    <2>2. fanout[e] \in Hook!FanoutState
      BY <2>1 DEF DeliveryInv, Hook!TypeOK, Hook!Idle
    <2> DEFINE f == [fanout[e] EXCEPT !.at = "commit", !.ok = ok]
    <2>3. f.now = fanout[e].now
      BY <2>2 DEF Hook!FanoutState
    <2>4. fanout' = [fanout EXCEPT ![e] = f] /\ delivery' = delivery
      BY <1>7 DEF Hook!PostFirst
    <2> HIDE DEF f
    <2> QED
      BY <1>3, <2>1, <2>3, <2>4
  <1>8. ASSUME NEW h \in Hooks, Hook!Manage(h) PROVE FirstAttempts'
    BY <1>1, <1>2, <1>8 DEF Hook!Manage, Hook!Create, Hook!UpdateStatus
  <1>9. ASSUME NEW e \in Events, Hook!Fanout(e) PROVE FirstAttempts'
    BY <1>4, <1>5, <1>6, <1>7, <1>9 DEF Hook!Fanout
  <1>10. CASE UNCHANGED Hook!vars
    BY <1>1, <1>10 DEF Hook!vars
  <1> QED
    BY <1>8, <1>9, <1>10 DEF Hook!Next

\* Without retries a delivery shows an error exactly when it has failed, however
\* many fan-outs there are and wherever they stop.
THEOREM ErrorsAreFailures ==
  ASSUME Hook!DeliveryAssumption, Retriers = {}
  PROVE  Hook!Spec => []Hook!ErrorMeansFailed
  <1>1. Hook!Init => FirstAttempts
    BY DEF Hook!Init, FirstAttempts, Hook!ErrorMeansFailed, Hook!Rows, Hook!Idle
  <1>2. DeliveryInv /\ FirstAttempts /\ [Hook!Next]_(Hook!vars) => FirstAttempts'
    BY FirstAttemptsStep
  <1>3. FirstAttempts => Hook!ErrorMeansFailed
    BY DEF FirstAttempts
  <1> QED
    BY <1>1, <1>2, <1>3, DeliveryInvariance, PTL DEF Hook!Spec

\* What the code promises of outbound webhooks: what is shown as delivered was
\* accepted, no attempt is made up, and deliveries go with their hook; without
\* retries a delivery shows an error exactly when it has failed.
THEOREM DeliveriesAlwaysHold ==
  ASSUME Hook!DeliveryAssumption
  PROVE  Hook!Spec => []Hook!DeliveryHolds
  <1>1. CASE Retriers = {}
    <2>1. /\ Hook!TypeOK /\ Hook!DeliveredIsAccepted /\ Hook!AttemptsAreMade
          /\ Hook!RowsHaveHooks /\ Hook!ErrorMeansFailed
          => Hook!DeliveryHolds
      BY DEF Hook!DeliveryHolds
    <2>2. Hook!Spec => []Hook!ErrorMeansFailed
      BY <1>1, ErrorsAreFailures
    <2> QED
      BY <2>1, <2>2, DeliveriesAreTrue, PTL
  <1>2. CASE Retriers # {}
    <2>1. /\ Hook!TypeOK /\ Hook!DeliveredIsAccepted /\ Hook!AttemptsAreMade
          /\ Hook!RowsHaveHooks
          => Hook!DeliveryHolds
      BY <1>2 DEF Hook!DeliveryHolds
    <2> QED
      BY <2>1, DeliveriesAreTrue, PTL
  <1> QED
    BY <1>1, <1>2
=============================================================================
