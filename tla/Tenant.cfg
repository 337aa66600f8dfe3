\* Two overlapping requests, or one at a time, in each part.
CONSTANTS
  e1 = e1  e2 = e2  c1 = c1  c2 = c2  ann = ann  ben = ben  cyd = cyd
  k1 = k1  k2 = k2  k3 = k3  support = support  Chat = Chat  Email = Email  Pro = Pro
  r0 = r0  r1 = r1  r2 = r2  x0 = x0  x1 = x1  x2 = x2  x3 = x3
  Emails = {e1, e2}
  Slugs = {x1, x2}
  Codes = {c1, c2}
  None = None
  Requests = {r1, r2}
SPECIFICATION MCSpec
SYMMETRY MCSymmetry
INVARIANTS
  SignupNeedsCode
  SessionNeedsProvisioning
PROPERTIES
  SessionsHold
  LoginsHold
  AccountsHold
  ProvisioningHolds
  KeysHold
  FormsHold
  MappingsHold
  RoutesHold
  SettingsHold
CHECK_DEADLOCK FALSE
