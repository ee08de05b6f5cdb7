SPECIFICATION Spec
CONSTANTS
  p1 = p1  p2 = p2  n1 = n1  g1 = g1  g2 = g2  g3 = g3
  Names = {1, 2}
  Guidance = {g1, g2, g3}
  Levels = {1, 2}
  Initially <- SomeSkills
  Notes = {n1}
  Processes = {p1, p2}
  MaxApprovals = 2
INVARIANTS AppliedInFull
PROPERTIES GuidanceKept
CHECK_DEADLOCK FALSE
SYMMETRY Alike
