SPECIFICATION Spec
CONSTANTS
  Browsers = {b1}
  Requests = {p1, p2}
  Sids = {s1, s2}
  States = {x1, x2}
  Users = {u1}
  NULL = NULL
  b1 = b1
  p1 = p1
  p2 = p2
  s1 = s1
  s2 = s2
  x1 = x1
  x2 = x2
  u1 = u1
SYMMETRY Symmetry
INVARIANT IInv
INVARIANT UndisturbedFlowsAreHonoured
INVARIANT LogoutEndsFlows
INVARIANT LoggedOutStaysOut
