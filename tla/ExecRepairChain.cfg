SPECIFICATION Spec
CONSTANTS
  t1 = t1
  t2 = t2
  Tasks = {t1}
  NoTask = NoTask
  Priority <- EqualPriority
  InitialPlans <- Single
  RepairCounts = {2, 3}
  MaxRetries = 1
  MaxReflectRetries = 2
  Reflection = TRUE
  PlanReview = FALSE
  SkillTasks = {}
  IdleThreshold = 1
  PromotionBudget = 1
  MaxSteps = 6
  MaxCrashes = 0
  MaxRequeues = 0
INVARIANTS DependencyOrder
