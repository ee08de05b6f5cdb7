SPECIFICATION FairSpec
CONSTANTS
  c1 = c1  s1 = s1  s2 = s2
  Runs = {c1}
  Tasks = 3
  MaxWorkers = 2
  Sessions = {s1, s2}
INVARIANTS TakenInOrder ReportsAgree
PROPERTIES EndedStays RunsEnd
CHECK_DEADLOCK FALSE
