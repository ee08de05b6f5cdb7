SPECIFICATION Spec
CONSTANTS
  q1 = q1  q2 = q2  q3 = q3  q4 = q4
  Sessions = {"s1"}
  Requests = {q1, q2, q3, q4}
  Tags = {"nightly"}
  Mode = "always"
  DefaultBackend = "docker"
  Faults = {"daemon", "restart"}
  MaxContainers = 4
INVARIANTS SandboxReachable DeletedIsGone
PROPERTIES RestoredIsSaved
CHECK_DEADLOCK FALSE
SYMMETRY Alike
