SPECIFICATION Spec
CONSTANTS
  t1 = t1
  t2 = t2
  Tasks = {t1, t2}
  NoTask = NoTask
  Priority <- EqualPriority
  InitialPlans <- Short
  RepairCounts = {0, 1}
  MaxRetries = 1
  MaxReflectRetries = 2
  Reflection = TRUE
  PlanReview = TRUE
  SkillTasks = {t1}
  IdleThreshold = 2
  PromotionBudget = 1
  MaxSteps = 4
  MaxCrashes = 1
  MaxRequeues = 0
INVARIANTS TypeOK WritesAllowed InFlightOwned DependencyOrder NoDuplicateExecution RetryBudget
PROPERTIES DoneOnlyWhenEveryStepRan
