\* Four events of Stripe whose handling may fail; two fan-outs to two hooks; forms
\* with three questions in two sections.
CONSTANTS
  Basic = Basic  NoSub = NoSub  s1 = s1  w1 = w1
  h1 = h1  h2 = h2  NoHook = NoHook  e1 = e1  e2 = e2
  q1 = q1  q2 = q2  q3 = q3  sA = sA  sB = sB
  Questions = {q1, q2, q3}
  Sections = {sA, sB}
  None = None
  Scale = 100
  Unit = 6
  Forms <- PreviewForms
  Values = {0, 1, 2, 5}
SPECIFICATION MCSpec
PROPERTIES
  EventuallyApplied
  FanoutCompletes
  ScoresHold
CHECK_DEADLOCK FALSE
