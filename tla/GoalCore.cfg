SPECIFICATION Spec
CONSTANTS
  a = a
  b = b
  c = c
  Goals = {a, b, c}
  NoGoal = NoGoal
  DependsOn <- Branches
  Rank <- Ranks
  RetryBudget <- Twice
  SymbolGoals <- SymbolB
  WritesFile <- FilesA
  Capped = TRUE
  MaxVersion = 14
  MaxCrashes = 1
  MaxReruns = 0
  MaxCommands = 1
CHECK_DEADLOCK FALSE
INVARIANTS OrderedByDependencies DoneMeansAchieved RollbackRestores FailureContained
PROPERTY CompletedNeverRerun
VIEW AllButOldSnapshots
