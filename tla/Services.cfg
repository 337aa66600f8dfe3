\* One tenant; Stripe's events in any order, with one worker that fails and
\* crashes, where it is the part "failing stripe".
CONSTANTS
  Basic = Basic  Pro = Pro  None = None  w1 = w1  s0 = s0  s1 = s1  s2 = s2
  c1 = c1  c2 = c2  c3 = c3  ann = ann  ben = ben  r0 = r0  r1 = r1  r2 = r2
  h0 = h0  h1 = h1  h2 = h2  e0 = e0  e1 = e1  e2 = e2
  q1 = q1  q2 = q2  sA = sA  sB = sB
  Plans = {Basic}
  FirstPlan = Basic
  SubIds = {s0}
  NoSub = None
  Workers = {w1}
  MaxEvents = 4
  MaxCustomers = 1
  Ordered = FALSE
  Faults = {"exception", "crash"}
  Questions = {q1, q2}
  Sections = {sA, sB}
  Scale = 100
  Unit = 1
  Forms <- AnsweredForms
  Values = {0, 1}
SPECIFICATION MCSpec
SYMMETRY MCSymmetry
INVARIANTS
  AppliedBeforeProcessed
  AppliedOnce
  AnswersHold
PROPERTIES
  StripeHolds
  UsageHolds
  DeliveryHolds
CHECK_DEADLOCK FALSE
