\* The perimeter and the research engine; the reliability of sources.
CONSTANTS
  None = None
  Nil = Nil
  Domains <- MCDomains
  Allowlist <- MCAllowlist
  Primary <- MCPrimary
  Queries <- MCQueries
  SearchMap <- MCSearchMap
  Probes <- MCProbes
  Pages <- MCPages
  Failures <- MCFailures
  Sources = {s1, s2}
  RequestBudget = 3
  SizeBudget = 4
  RateBudget = 2
  RateWindow = 1
  RedirectCap = 2
  CacheCap = 1
  MaxTime = 2
  MaxActs = 3
  HistoryCap = 3
  MaxJournal = 4
  MaxMonths = 2
  MaxCrashes = 2
SPECIFICATION Spec
INVARIANTS
  EgressJustified
  EvidenceIsJournaled
  WithdrawnNotPreferred
  LostOnlyByCrash
CHECK_DEADLOCK FALSE
