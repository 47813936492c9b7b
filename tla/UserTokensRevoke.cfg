SPECIFICATION Spec
CONSTANTS
  Users = {u1}
  Procs = {p1, p2}
  Savers = {p1, p2}
  Tokens = {t1, t2, t3}
  RowIds = {r1, r2}
  LookupFaults = FALSE
  NULL = NULL
  u1 = u1
  p1 = p1
  p2 = p2
  t1 = t1
  t2 = t2
  t3 = t3
  r1 = r1
  r2 = r2
SYMMETRY Symmetry
INVARIANT RevokedGrantsStayOut
