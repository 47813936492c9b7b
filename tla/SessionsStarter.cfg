SPECIFICATION Spec
CONSTANTS
  Browsers = {b1}
  Requests = {p1}
  Sids = {s1}
  States = {x1, x2, x3}
  Users = {u1, u2}
  NULL = NULL
  b1 = b1
  p1 = p1
  s1 = s1
  x1 = x1
  x2 = x2
  x3 = x3
  u1 = u1
  u2 = u2
SYMMETRY Symmetry
PROPERTY SavedForTheStarter
