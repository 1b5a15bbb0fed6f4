SPECIFICATION FairSpec
CONSTANTS
  MaxSteps = 3
  StepLimits <- Tightened
  MaxFailures = 2
  StallWindows <- ShrinkingWindow
  RetryLimit = 3
  RepairLimit = 3
  MayDefer = TRUE
  MaxStarts = 1
  MaxCrashes = 1
  MaxTasks = 2
  MaxRequests = 1
  NoSession = NoSession
INVARIANTS StepBudget FailureRunBounded FaultedStaysStopped CheckpointDurable
PROPERTIES SessionEnds
