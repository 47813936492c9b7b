SPECIFICATION FairSpec
CONSTANTS
  Redirects <- SomeRedirects
  Layouts <- SomeLayouts
  SlowAnswers = {4}
  Timeout <- ChartTimeouts
  Threshold = 2
INVARIANT NoGroundlessFailure
INVARIANT ReadyIsEarned
INVARIANT OneFaultIsAnswered
INVARIANT WarningsSuffice
INVARIANT IInv
PROPERTY TrafficReturns
