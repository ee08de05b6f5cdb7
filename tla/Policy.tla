-------------------------------- MODULE Policy --------------------------------
(***************************************************************************)
(* Whether a tool call may go ahead: the decisions of ToolPolicy           *)
(* (tools/tool_policy.py), RBAC (security/permissions.py) and PolicyEngine *)
(* (security/policy_engine.py), and how execute_tool_call combines them    *)
(* (tools/registry.py).                                                    *)
(*                                                                         *)
(* A tool call is described by what the decisions look at: the tool's      *)
(* declared action, whether it is a write tool, its kind ("shell", "web"   *)
(* or "other") and whether it is an MCP tool; and of the arguments whether *)
(* there are none (bare), whether the path is that of a memory or skill    *)
(* file, whether they carry a secret and whether they match a denied       *)
(* pattern.                                                                *)
(***************************************************************************)
EXTENDS Integers

CONSTANTS
  DenyList, AllowList,  \* the tool names of ToolPolicy
  Governed,             \* governance.enabled: does the registry have a PolicyEngine?
  ApprovalLevel,        \* governance.approval_level
  SandboxMode           \* "non-main", "always" or "never"

Actions == {"read", "write", "exec", "network", "deploy"}
Senders == {"main", "subagent", "plugin", "mcp"}
Verdicts == {"allow", "deny", "require_approval"}

ToolPermissions == {"tool.read", "tool.write", "tool.execute", "tool.network", "tool.deploy"}

(* ROLE_PERMISSIONS, of the permissions a run and its tool calls need.     *)
RolePermissions ==
  [viewer     |-> {"tool.read"},
   operator   |-> {"run.create", "tool.read", "tool.network"},
   developer  |-> {"run.create", "tool.read", "tool.write", "tool.execute", "tool.network"},
   worker     |-> {"run.create", "tool.read", "tool.write", "tool.execute"},
   maintainer |-> {"run.create", "approval.decide"} \cup ToolPermissions,
   admin      |-> {"run.create", "approval.decide"} \cup ToolPermissions]

(* RBAC.authorize: an unknown role may nothing.                            *)
Authorized(role, permission) ==
  role \in DOMAIN RolePermissions /\ permission \in RolePermissions[role]

(* ACTION_PERMISSIONS and ACTION_LEVELS.                                   *)
ActionPermission ==
  [read |-> "tool.read", write |-> "tool.write", exec |-> "tool.execute",
   network |-> "tool.network", deploy |-> "tool.deploy"]

ActionLevel == [read |-> 1, write |-> 2, network |-> 3, exec |-> 3, deploy |-> 5]

Critical == 5

(* _infer_action.                                                          *)
InferAction(tool) ==
  CASE tool.declared # ""    -> tool.declared
    [] tool.declared = "" /\ tool.writes -> "write"
    [] tool.declared = "" /\ ~tool.writes /\ tool.kind = "shell" -> "exec"
    [] tool.declared = "" /\ ~tool.writes /\ tool.kind = "web" -> "network"
    [] OTHER -> "read"

(* ToolPolicy.evaluate with DEFAULT_RULES, whose conditions exclude each   *)
(* other.                                                                  *)
ToolVerdict(tool, sender) ==
  LET action == InferAction(tool) IN
  CASE tool.name \in DenyList -> "deny"
    [] tool.name \in AllowList \ DenyList -> "allow"
    [] OTHER ->
         IF \/ action = "deploy" /\ sender = "subagent"
            \/ action = "exec" /\ SandboxMode = "never"
         THEN "deny"
         ELSE IF action = "write" /\ sender = "subagent"
         THEN "require_approval"
         ELSE "allow"

(* ContentSafetyGuard.evaluate_arguments.                                  *)
Unsafe(tool) ==
  \/ tool.denied
  \/ tool.secret /\ InferAction(tool) \in {"network", "deploy"}

(* Mutant: the memory and skill files are not protected.                   *)
GovernanceVerdict_Unprotected(tool, role, sender) ==
  LET action == InferAction(tool) IN
  IF \/ ~Authorized(role, ActionPermission[action])
     \/ Unsafe(tool)
     \/ sender = "subagent" /\ action = "deploy"
  THEN "deny"
  ELSE IF ActionLevel[action] >= Critical \/ ActionLevel[action] >= ApprovalLevel
  THEN "require_approval"
  ELSE "allow"

(* PolicyEngine.evaluate: RBAC, content safety, the first of               *)
(* DEFAULT_GOVERNANCE_RULES that matches, the level threshold.             *)
GovernanceVerdict(tool, role, sender) ==
  LET action == InferAction(tool) IN
  IF \/ ~Authorized(role, ActionPermission[action])
     \/ Unsafe(tool)
     \/ sender = "subagent" /\ action = "deploy"
  THEN "deny"
  ELSE IF \/ ActionLevel[action] >= Critical
          \/ tool.kind = "file" /\ tool.writes /\ tool.protected
          \/ ActionLevel[action] >= ApprovalLevel
  THEN "require_approval"
  ELSE "allow"

(* The extra permissions execute_tool_call asks of an MCP tool.            *)
McpPermitted(tool, role) ==
  tool.mcp =>
    /\ Authorized(role, "tool.execute")
    /\ Authorized(role, "tool.network")
    /\ tool.writes => Authorized(role, "tool.write")

(* What execute_tool_call asks of the policy engine: nothing when the      *)
(* governance is disabled, for the registry then has none; RBAC for MCP    *)
(* tools included.                                                         *)
Governance(tool, role, sender) ==
  IF ~Governed THEN "allow"
  ELSE IF ~McpPermitted(tool, role) THEN "deny"
  ELSE GovernanceVerdict(tool, role, sender)

(* The decisions together: any of them refuses, and either of the policies *)
(* can ask for an approval.                                                *)
Verdict(tool, role, sender) ==
  LET verdicts == {ToolVerdict(tool, sender), Governance(tool, role, sender)} IN
  IF "deny" \in verdicts THEN "deny"
  ELSE IF "require_approval" \in verdicts THEN "require_approval"
  ELSE "allow"
=============================================================================
