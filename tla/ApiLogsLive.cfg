SPECIFICATION FairSpec
CONSTANTS
  Calls = {c1, c2}
  Users = {u1}
  Limit = 1
  Retention = 2
  Ranges = {1}
  Filters = {}
  MaxTime = 5
  MaxPage = 1
  NULL = NULL
  c1 = c1
  c2 = c2
  u1 = u1
PROPERTY OldEntriesGo
