SPECIFICATION FairSpec
CONSTANTS
  r1 = r1  r2 = r2  p1 = p1  p2 = p2
  Runs = {r1, r2}
  Processes = {p1}
  Home <- AtOne
  MaxTokens = 2  MaxCalls = 2  MaxUnits = 5  MaxSeconds = 1
  ResponseTokens = {0, 2}
  ToolUnits = {1, 3}
  LargestResponse = 2
  MaxSpent = 6
  MaxClock = 2
INVARIANTS WithinLimits OneResponseOver
PROPERTIES BreachStands BreachStopsRuns
CHECK_DEADLOCK FALSE
