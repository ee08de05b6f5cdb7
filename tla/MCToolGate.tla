------------------------------ MODULE MCToolGate ------------------------------
(* A developer, an operator and a subagent worker; a plain write, the write  *)
(* of a memory file and two MCP calls, one without arguments.                *)
EXTENDS ToolGate

CONSTANTS r1, r2, v1, v2

File(protected) ==
  [name |-> "write_file", declared |-> "", writes |-> TRUE, kind |-> "file",
   mcp |-> FALSE, bare |-> FALSE, protected |-> protected, secret |-> FALSE, denied |-> FALSE]

McpCall(bare) ==
  [name |-> "mcp__tracker__list", declared |-> "network", writes |-> FALSE,
   kind |-> "other", mcp |-> TRUE, bare |-> bare, protected |-> FALSE,
   secret |-> FALSE, denied |-> FALSE]

AllTools == [plain |-> File(FALSE), memory |-> File(TRUE), tracker |-> McpCall(FALSE),
             list |-> McpCall(TRUE)]

Stored(principals, roles) == [principal : principals, role : roles]

AllRequesters == Stored({"ann", "bob", "subagent:1", "local"},
                        {"developer", "operator", "worker", "admin"})

Ann == [principal |-> "ann", role |-> "developer", sender |-> "main"]
Bob == [principal |-> "bob", role |-> "operator", sender |-> "main"]
Sub == [principal |-> "subagent:1", role |-> "worker", sender |-> "subagent"]

AnnAndBob == [r \in Runs |-> IF r = r1 THEN Ann ELSE Bob]
AnnAndSub == [r \in Runs |-> IF r = r1 THEN Ann ELSE Sub]
=============================================================================
