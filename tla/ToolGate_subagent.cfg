SPECIFICATION Spec
CONSTANTS
  r1 = r1  r2 = r2  v1 = v1  v2 = v2
  Runs = {r1, r2}
  Who <- AnnAndSub
  Reviews = {v1}
  Requests = {"plain", "memory", "tracker"}
  Tool <- AllTools
  Requesters <- AllRequesters
  DenyList = {}  AllowList = {}  Governed = TRUE  ApprovalLevel = 4  SandboxMode = "non-main"
  DefaultRole = "admin"
  MaxExecutions = 3
  MaxApprovals = 3
INVARIANTS OneExecutionPerApproval
CHECK_DEADLOCK FALSE
