----------------------------- MODULE MCServices -----------------------------
(***************************************************************************)
(* Small instances of what the review does not touch: the subscription at  *)
(* Stripe, the usage that is metered, outbound webhooks, and the answers   *)
(* of one evaluation.  They share no row, so a behaviour runs one of them  *)
(* (part), and what holds of each alone holds of them together.            *)
(***************************************************************************)
EXTENDS StripeBilling, ReviewAnswers, TLC

CONSTANTS
  Basic, Pro, w1,
  s0, s1, s2,      \* subscriptions at Stripe
  c1, c2, c3,      \* conversations
  ann, ben,
  r0, r1, r2,      \* slots of workers, uploads, logins and retries
  h0, h1, h2, e0, e1, e2,  \* hooks and events
  q1, q2, sA, sB

VARIABLES
  part,
  now, metric, stored, last, seen, upload, login,                \* UsageMeter
  hook, delivery, fanout, retry, posts, accepted, chosen         \* WebhookDelivery

usage == <<now, metric, stored, last, seen, upload, login>>
webhooks == <<hook, delivery, fanout, retry, posts, accepted, chosen>>
serviceVars == <<part, vars, usage, webhooks, answersVars>>

-----------------------------------------------------------------------------
(* The parts; the constants of the .cfg are of "failing stripe" and "review" *)

\* Nothing fails, and events come in order.
StripeInOrder == INSTANCE StripeBilling WITH
  Plans <- {Basic, Pro}, SubIds <- {s1, s2}, MaxEvents <- 6, Ordered <- TRUE,
  Faults <- {}

\* The worker fails and crashes around a purchase that may change the plan.
FailingPurchase == INSTANCE StripeBilling WITH
  Plans <- {Basic, Pro}, Ordered <- TRUE

\* Two workers, and events in any order.
StripeOverlap == INSTANCE StripeBilling WITH
  MaxEvents <- 5, Workers <- {r1, r2}, Faults <- {}

\* Uploads overlap, and what is recorded may be lost.
FailingUsage == INSTANCE UsageMeter WITH
  Conversations <- {c1, c2}, Users <- {}, Cap <- 3, Months <- 2,
  Uploads <- {r1, r2}, Logins <- {}, Faulty <- TRUE

\* Two uploads and a login write one row.
SharedUsage == INSTANCE UsageMeter WITH
  Conversations <- {c1, c2}, Users <- {ann}, Cap <- 2, Months <- 2,
  Uploads <- {r1, r2}, Logins <- {r0}, Faulty <- FALSE

\* One upload and one login at a time, over the turn of a month.
SerialUsage == INSTANCE UsageMeter WITH
  Conversations <- {c1, c2, c3}, Users <- {ann, ben}, Cap <- 2, Months <- 2,
  Uploads <- {r0}, Logins <- {r0}, Faulty <- FALSE

\* A fan-out, two retries that overlap, crashes, a hook that goes.
Retries == INSTANCE WebhookDelivery WITH
  Hooks <- {h0}, NoHook <- None, Events <- {e0}, Retriers <- {r1, r2},
  MaxAttempts <- 3, Managed <- TRUE, MayCrash <- TRUE

\* Two fan-outs and no retries.
Fanouts == INSTANCE WebhookDelivery WITH
  Hooks <- {h1, h2}, NoHook <- None, Events <- {e1, e2}, Retriers <- {},
  MaxAttempts <- 1, Managed <- TRUE, MayCrash <- TRUE

\* Two sections with one question each, one of which may be critical; one full
\* answer makes exactly the pass mark.
AnsweredForms ==
  {[section |-> (q1 :> sA @@ q2 :> sB),
    weight |-> (q1 :> 1 @@ q2 :> 1 @@ sA :> 1 @@ sB :> 1),
    range |-> [q \in {q1, q2} |-> [min |-> 0, max |-> 1]],
    showIf |-> [q \in {q1, q2} |-> None],
    critical |-> critical, passMark |-> 50, policy |-> "round"] : critical \in {{}, {q2}}}

Parts ==
  {"failing stripe", "failing purchase", "stripe", "stripe overlap",
   "failing usage", "shared usage", "serial usage", "retries", "fanouts", "review"}

ASSUME
  /\ StripeInOrder!StripeAssumption /\ StripeOverlap!StripeAssumption
  /\ FailingPurchase!StripeAssumption
  /\ FailingUsage!UsageAssumption /\ SharedUsage!UsageAssumption
  /\ SerialUsage!UsageAssumption
  /\ Retries!DeliveryAssumption /\ Fanouts!DeliveryAssumption
  /\ AnswersAssumption

-----------------------------------------------------------------------------

\* A part that does not run stays as it starts.
MCInit ==
  /\ part \in Parts
  /\ CASE part = "stripe" -> StripeInOrder!Init
       [] part = "stripe overlap" -> StripeOverlap!Init
       [] part = "failing purchase" -> FailingPurchase!Init
       [] OTHER -> Init
  /\ CASE part = "failing usage" -> FailingUsage!Init
       [] part = "shared usage" -> SharedUsage!Init
       [] OTHER -> SerialUsage!Init
  /\ IF part = "retries" THEN Retries!Init ELSE Fanouts!Init
  /\ AnswersInit
  /\ part # "review" => ai = NoAnswers /\ form.critical = {}

MCNext ==
  /\ UNCHANGED part
  /\ CASE part = "failing stripe" -> Next
       [] part = "stripe" -> StripeInOrder!Next
       [] part = "stripe overlap" -> StripeOverlap!Next
       [] part = "failing purchase" -> FailingPurchase!Next
       [] OTHER -> UNCHANGED vars
  /\ CASE part = "failing usage" -> FailingUsage!Next
       [] part = "shared usage" -> SharedUsage!Next
       [] part = "serial usage" -> SerialUsage!Next
       [] OTHER -> UNCHANGED usage
  /\ CASE part = "retries" -> Retries!Next
       [] part = "fanouts" -> Fanouts!Next
       [] OTHER -> UNCHANGED webhooks
  /\ IF part = "review" THEN AnswersNext ELSE UNCHANGED answersVars

MCSpec == MCInit /\ [][MCNext]_serviceVars

-----------------------------------------------------------------------------
(* Properties *)

\* StripeBilling.  With one worker the row's plan is always the one bought with the
\* linked subscription, and the tenant's unless the platform has set that one;
\* when all events are answered in order, the status is the one at Stripe.
StripeHolds ==
  /\ [](part = "failing stripe" => BillingHolds)
  /\ [](part = "failing purchase" => FailingPurchase!BillingHolds)
  /\ [](part = "stripe" => StripeInOrder!BillingHolds)
  /\ [](part = "stripe overlap" => StripeOverlap!BillingHolds)

\* UsageMeter.  A tenant is never metered for more than it has stored, and
\* without faults for exactly that.  One upload and one login at a time, the
\* plan's limit is kept, and a user is active once a month.
UsageHolds ==
  /\ [](part = "failing usage" => FailingUsage!UsageHolds)
  /\ [](part = "shared usage" => SharedUsage!UsageHolds)
  /\ [](part = "serial usage" => SerialUsage!UsageHolds)

\* WebhookDelivery.  What is shown as delivered was accepted, no attempt is
\* made up, and deliveries go with their hook, however retries overlap.  Without
\* retries a delivery shows an error exactly when it has failed.
DeliveryHolds ==
  /\ [](part = "retries" => Retries!DeliveryHolds)
  /\ [](part = "fanouts" => Fanouts!DeliveryHolds)

MCSymmetry == Permutations({c1, c2}) \cup Permutations({r1, r2})
=============================================================================
