SPECIFICATION Spec
CONSTANTS
  Calls = {c1, c2, c3}
  Users = {}
  Limit = 1
  Retention = 2
  Ranges = {1}
  MaxTime = 3
  MaxPage = 3
  NULL = NULL
  c1 = c1
  c2 = c2
  c3 = c3
  Filters <- SomeFilters
SYMMETRY Symmetry
INVARIANT IInv
INVARIANT NothingSkipped
PROPERTY ViewAddsUp
PROPERTY RetentionIsKept
