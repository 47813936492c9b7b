SPECIFICATION FairSpec
CONSTANTS
  Handlers = {h1, h2}
  Slots = {r1, r2}
  h1 = h1
  h2 = h2
  r1 = r1
  r2 = r2
INVARIANT IInv
INVARIANT DatabaseOutlivesWork
INVARIANT CleanExitIsComplete
PROPERTY ExitFollows
