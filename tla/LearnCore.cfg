SPECIFICATION Spec
CONSTANTS
  c1 = c1
  c2 = c2
  list = list
  write = write
  read = read
  Callers = {c1, c2}
  Keywords = {list, write, read}
  CaseCount = 6
  Passes <- Suite
  KeywordOf <- FirstWord
  NoKeyword = NoKeyword
  MaxReverts = 1
  MaxRestarts = 1
PROPERTIES NeverRegresses ReachesPlanner
