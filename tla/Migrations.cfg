SPECIFICATION FairSpec
CONSTANTS
  Procs = {p1, p2}
  None = None
  DownSteps <- Downs
  ForceTo <- Forced
  Engine = "mysql"
  p1 = p1
  p2 = p2
INVARIANT VersionTellsSchema
INVARIANT DirtyIsRecoverable
INVARIANT AbandonedStaysDirty
INVARIANT SuccessIsReal
INVARIANT IInv
PROPERTY CommandsEnd
