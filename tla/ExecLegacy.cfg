SPECIFICATION FairSpec
CONSTANTS
  t1 = t1
  t2 = t2
  Tasks = {t1, t2}
  NoTask = NoTask
  Priority <- SecondFirst
  InitialPlans <- Short
  RepairCounts = {}
  MaxRetries = 2
  MaxReflectRetries = 3
  Reflection = FALSE
  PlanReview = FALSE
  SkillTasks = {}
  IdleThreshold = 1
  PromotionBudget = 1
  MaxSteps = 2
  MaxCrashes = 0
  MaxRequeues = 1
PROPERTIES EveryTaskSettles
