SPECIFICATION FairSpec
CONSTANTS
  Users = {u1, u2}
  Rows = {w1, w2}
  Runs = {r1, r2}
  MaxCrashes = 1
  NULL = NULL
  u1 = u1
  u2 = u2
  w1 = w1
  w2 = w2
  r1 = r1
  r2 = r2
INVARIANT IInv
INVARIANT EveryListedUserHadATurn
PROPERTY TokensAreUsed
