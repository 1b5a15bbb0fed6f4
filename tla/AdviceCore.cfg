\* What past plans, lessons, sessions, tasks and answers of a model lead to.
CONSTANTS
  None = None
  Subjects <- MCSubjects
  Confidences <- MCConfidences
  PlanSet <- MCPlanSet
  Histories <- MCHistories
  Numbers <- MCNumbers
  NameOf <- MCNameOf
  Seeds <- MCSeeds
  Suite <- MCSuite
  Baseline <- MCBaseline
  Tasks <- MCTasks
  Tools <- MCTools
  TaskSet <- MCTaskSet
  ToolNames <- MCToolNames
  ModelAnswers <- MCModelAnswers
  Renderings <- MCRenderings
  EvidenceSet <- MCEvidenceSet
  Extras <- MCExtras
  SkillSet <- MCSkillSet
  GatedTools <- MCGatedTools
  Frontiers = {f1}
  Profiles <- MCProfiles
  Configured <- MCConfigured
  Ttl = 0
  MaxLessons = 2
  MaxDays = 1
  MaxRewrites = 1
  MaxTears = 1
  MinRecurrence = 2
  MaxRepairs = 0
  Budget = 1
  MaxLog = 3
  MinSupport = 2
  HistoryCap = 3
  MaxRecords = 4
  MaxRestarts = 1
  MaxVersion = 2
  Files <- MCFiles
  Root <- MCRoot
  Cwds <- MCCwds
  Resolve <- MCResolve
  InRoot <- MCInRoot
  Failing <- MCFailing
  Chars <- MCChars
  Contents <- MCContents
  Answers <- MCAnswers
  MaxFiles = 1
  MaxProposals = 2
  MaxDrift = 1
  MaxDepth = 1
  MaxHypotheses = 4
  MaxFanIn = 7
  Floor = 60
  MaxThoughts = 2
SPECIFICATION Spec
INVARIANTS
  NothingForgotten
  MinedReproduces
  LoneFailureKeepsSkill
  BestOfTheMatching
  HoldRespected
  RestartKeepsAdvice
  AppliedAsTested
  ModelFillsGaps
  PlainFloor
CHECK_DEADLOCK FALSE
