SPECIFICATION FairSpec
CONSTANTS
  a = a
  b = b
  c = c
  Goals = {a, b, c}
  NoGoal = NoGoal
  DependsOn <- Join
  Rank <- Ranks
  RetryBudget <- Once
  SymbolGoals <- NoSymbols
  WritesFile <- FilesA
  Capped = TRUE
  MaxVersion = 15
  MaxCrashes = 0
  MaxReruns = 1
  MaxCommands = 0
CHECK_DEADLOCK FALSE
INVARIANTS NothingStranded
PROPERTIES RunEnds
