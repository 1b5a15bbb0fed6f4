SPECIFICATION Spec
CONSTANTS
  a = a
  b = b
  c = c
  Goals = {a, b, c}
  NoGoal = NoGoal
  DependsOn <- Chain
  Rank <- Ranks
  RetryBudget <- Never
  SymbolGoals <- NoSymbols
  WritesFile <- FilesA
  Capped = FALSE
  MaxVersion = 30
  MaxCrashes = 0
  MaxReruns = 1
  MaxCommands = 0
CHECK_DEADLOCK FALSE
PROPERTY CompletedNeverRerun
