SPECIFICATION Spec
CONSTANTS
  s1 = s1
  s2 = s2
  r1 = r1
  x = x
  y = y
  Submitters = {s1, s2}
  Runners = {r1}
  Texts = {x, y}
  SubmitsText <- SharedText
  Urgency <- NoUrgency
  MaxRecords = 5
CHECK_DEADLOCK FALSE
INVARIANTS OwnTaskEach
PROPERTIES ImplementsTaskQueue
