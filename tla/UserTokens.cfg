SPECIFICATION Spec
CONSTANTS
  Users = {u1, u2}
  Procs = {p1, p2}
  Savers = {p1, p2}
  Tokens = {t1, t2, t3}
  RowIds = {r1, r2}
  LookupFaults = TRUE
  NULL = NULL
  u1 = u1
  u2 = u2
  p1 = p1
  p2 = p2
  t1 = t1
  t2 = t2
  t3 = t3
  r1 = r1
  r2 = r2
SYMMETRY Symmetry
INVARIANT IInv
INVARIANT FilingsKeptApart
INVARIANT DuplicatesOnlyByRace
INVARIANT UpdateFindsRow
INVARIANT RefreshExtendsStoredGrant
PROPERTY RowsOnlyFromCallbacks
