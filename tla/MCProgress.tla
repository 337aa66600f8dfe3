----------------------------- MODULE MCProgress -----------------------------
(***************************************************************************)
(* What goes on until it is done: events of Stripe until they are applied, *)
(* fan-outs until every hook has its delivery, and a form that is filled   *)
(* in, scored after each answer.  They share no row, so a behaviour runs   *)
(* one of them (part); the others stay as they start, where none of their  *)
(* fair actions is enabled.                                                *)
(***************************************************************************)
EXTENDS ScorePreview, TLC

CONSTANTS
  Basic, NoSub, s1, w1,   \* StripeBilling
  h1, h2, NoHook, e1, e2, \* WebhookDelivery
  q1, q2, q3, sA, sB

VARIABLES
  part,
  stripe, sessions, customers, events, acked, log, sub,          \* StripeBilling
  tenantPlan, overruled, invoices, worker, applied,
  hook, delivery, fanout, retry, posts, accepted, chosen         \* WebhookDelivery

billingVars ==
  <<stripe, sessions, customers, events, acked, log, sub, tenantPlan, overruled,
    invoices, worker, applied>>
deliveryVars == <<hook, delivery, fanout, retry, posts, accepted, chosen>>

-----------------------------------------------------------------------------
(* The parts; the constants of the .cfg are of "preview" *)

\* Four events, handled by one worker that may fail.
Stripe == INSTANCE StripeBilling WITH
  Plans <- {Basic}, FirstPlan <- Basic, SubIds <- {s1}, Workers <- {w1},
  MaxEvents <- 4, MaxCustomers <- 1, Ordered <- TRUE, Faults <- {"exception"}

\* Hooks that stay, and no crash.
Delivery == INSTANCE WebhookDelivery WITH
  Hooks <- {h1, h2}, Events <- {e1, e2}, Retriers <- {},
  MaxAttempts <- 2, Managed <- FALSE, MayCrash <- FALSE

\* q2 is asked after a good answer to q1; q3 unless that answer is the best.
Always == [q \in {q1, q2, q3} |-> None]

Conditions ==
  {Always,
   [Always EXCEPT ![q2] = [key |-> q1, operator |-> "gt", value |-> 1]],
   [Always EXCEPT ![q2] = [key |-> q1, operator |-> "eq", value |-> 2],
                  ![q3] = [key |-> q1, operator |-> "neq", value |-> 2]]}

\* Weights that make thirds, each rounding policy, several critical parts.
PreviewForms ==
  {[section |-> (q1 :> sA @@ q2 :> sA @@ q3 :> sB),
    weight |-> (q1 :> 1 @@ q2 :> 2 @@ q3 :> 5 @@ sA :> 3 @@ sB :> 1),
    range |-> (q1 :> [min |-> 0, max |-> 2] @@ q2 :> [min |-> 0, max |-> 1]
                 @@ q3 :> [min |-> 1, max |-> 4]),
    showIf |-> showIf, critical |-> critical, passMark |-> 70, policy |-> policy] :
     showIf \in Conditions, critical \in {{}, {q2}, {q3}, {sA}},
     policy \in {"round", "floor", "ceil"}}

ASSUME
  Stripe!StripeAssumption /\ Delivery!DeliveryAssumption /\ PreviewAssumption

-----------------------------------------------------------------------------

\* A part that does not run stays as it starts.
MCInit ==
  /\ part \in {"stripe", "delivery", "preview"}
  /\ Stripe!Init /\ Delivery!Init /\ Init
  /\ part # "preview" => /\ form.showIf = Always /\ form.critical = {}
                         /\ form.policy = "round"

MCNext ==
  /\ UNCHANGED part
  /\ IF part = "stripe" THEN Stripe!Next ELSE UNCHANGED billingVars
  /\ IF part = "delivery" THEN Delivery!Next ELSE UNCHANGED deliveryVars
  /\ IF part = "preview" THEN Next ELSE UNCHANGED vars

MCSpec ==
  /\ MCInit /\ [][MCNext]_<<part, billingVars, deliveryVars, vars>>
  /\ Stripe!Fairness /\ Delivery!Fairness

-----------------------------------------------------------------------------
(* Properties *)

\* StripeBilling.  An event that Stripe sends, and sends again until it is
\* answered, is applied in the end.
EventuallyApplied == Stripe!EventuallyApplied

\* WebhookDelivery.  A fan-out ends with a delivery for each hook that was
\* active, none of them pending.
FanoutCompletes == Delivery!FanoutCompletes
=============================================================================
