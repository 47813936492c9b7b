SPECIFICATION Spec
CONSTANTS
  Calls = {c1, c2, c3}
  Answers = {200, 302, 404}
  Paths <- SomePaths
  Ids = {"alice", "bob"}
  Took <- SomeTimes
  NULL = NULL
  c1 = c1
  c2 = c2
  c3 = c3
SYMMETRY Symmetry
INVARIANT IInv
INVARIANT OutcomesAreCounted
INVARIANT OperationsShareARow
INVARIANT EnginesAgree
PROPERTY PageAddsUp
