SPECIFICATION EngineSpec
CONSTANTS
  r1 = r1  r2 = r2  n1 = n1  n2 = n2
  Runs = {r1, r2}
  Racing = FALSE
  Lengths = {"long", "huge"}
  Answers <- FewAnswers
  Texts = {n1, n2}
  Skipped = {n2}
  KeepRecent = 2
  Available = 20
  MaxRetries = 1
  MaxMessages = 6
  MaxTypes = 1
  Weight <- MCWeight
INVARIANTS AsMuchAsNeeded SentIsCurrent
CHECK_DEADLOCK FALSE
SYMMETRY Alike
