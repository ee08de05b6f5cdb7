SPECIFICATION Spec
CONSTANTS
  r1 = r1  r2 = r2  v1 = v1  v2 = v2
  Runs = {r1, r2}
  Who <- AnnAndBob
  Reviews = {v1, v2}
  Requests = {"plain", "memory", "list"}
  Tool <- AllTools
  Requesters <- AllRequesters
  DenyList = {}  AllowList = {}  Governed = TRUE  ApprovalLevel = 3  SandboxMode = "non-main"
  DefaultRole = "admin"
  MaxExecutions = 2
  MaxApprovals = 2
INVARIANTS ApprovedFirst ProtectedFilesApproved OneExecutionPerApproval ActsAsItself
CHECK_DEADLOCK FALSE
