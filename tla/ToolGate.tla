------------------------------- MODULE ToolGate -------------------------------
(***************************************************************************)
(* The tool calls of one session: who asks, under which identity the call  *)
(* is checked, what an approval and the budget let through, and what the   *)
(* decision of a reviewer sets off.                                        *)
(*                                                                         *)
(* Code: ConchEngine.run and resume_approval (engine/conch_engine.py),     *)
(* ToolRegistry.execute_tool_call (tools/registry.py), decide_approval     *)
(* (api/server.py).  Everything runs on one event loop: a step below lies  *)
(* between two awaits.  The whole of execute_tool_call up to the await of  *)
(* tool.execute is one step, so the approval store (ApprovalTable) and the *)
(* budget are used without interference.                                   *)
(***************************************************************************)
EXTENDS ApprovalTable, Policy

CONSTANTS
  Runs,           \* agent runs of the session
  Who,            \* Who[r]: the identity POST /runs, the scheduler or the
                  \* coordinator starts run r with
  Reviews,        \* requests to /approvals/{id}/decision
  Tool,           \* Tool[q]: the description of request q
  DefaultRole,    \* governance.default_role
  MaxApprovals,   \* bound on the approvals table
  MaxExecutions   \* what the budget leaves for tool calls

Identities == [principal : STRING, role : STRING, sender : Senders]

\* The defaults of WriteApprovalStore.create, which POST /approvals relies on.
ByHand == [principal |-> "local", role |-> "admin"]

\* What can be stored of a caller includes what is of the runs, of a call that
\* finds no identity, and of a record made by hand.
ASSUME GateAssumption ==
  /\ Governed \in BOOLEAN
  /\ ByHand \in Requesters
  /\ MaxApprovals \in Nat /\ MaxExecutions \in Nat
  /\ DefaultRole \in STRING
  /\ Who \in [Runs -> Identities]
  /\ Requesters \subseteq [principal : STRING, role : STRING]
  /\ [principal |-> "local", role |-> DefaultRole] \in Requesters
  /\ \A r \in Runs : [principal |-> Who[r].principal, role |-> Who[r].role] \in Requesters

VARIABLES
  approvals,  \* the approvals table of the session
  identity,   \* _session_identities.get(session_id)
  run,        \* run[r]: idle, running, or inside tool.execute
  review,     \* review[v]: the approval whose resumption v is inside of, or 0
  left,       \* tool calls the budget still admits
  log,        \* history: the tool calls executed
  overlapping \* do the clients let runs and resumptions of the session
              \* overlap?  Nothing in the code keeps them from it.

vars == <<approvals, identity, run, review, left, log, overlapping>>

NoIdentity == [principal |-> "", role |-> "", sender |-> "main"]

Init ==
  /\ approvals = <<>>
  /\ identity = NoIdentity
  /\ run = [r \in Runs |-> "idle"]
  /\ review = [v \in Reviews |-> 0]
  /\ left = MaxExecutions
  /\ log = <<>>
  /\ overlapping \in BOOLEAN

Quiet == identity = NoIdentity

(* The identity a call of a run is checked under: the one registered for   *)
(* the session, or the defaults of execute_tool_call.                      *)
CheckedAs ==
  IF identity = NoIdentity
  THEN [principal |-> "local", role |-> DefaultRole, sender |-> "main"]
  ELSE identity

(* The stored part of an identity, and the identity resume_approval makes  *)
(* of it.                                                                  *)
StoredOf(who) == [principal |-> who.principal, role |-> who.role]

ResumedAs(requester) ==
  [principal |-> requester.principal, role |-> requester.role, sender |-> "main"]

(* Behind the approval: the budget, and the execution.  A call without     *)
(* budget is answered with an error.                                       *)
Spend(by, request, as, approval, resumed) ==
  \/ left = 0 /\ UNCHANGED <<left, log>>
  \/ /\ left > 0
     /\ left' = left - 1
     /\ log' = Append(log, [by |-> by, request |-> request, as |-> as,
                            approval |-> approval, resumed |-> resumed])

(* Mutant: consume leaves the record as it is.                             *)
Take_Unconsumed(table, request, k) ==
  /\ IsNewestReusable(table, request, "approved", k)
  /\ approvals' = table

(* authorize_or_request answers True.                                      *)
Take(table, request, k) ==
  /\ IsNewestReusable(table, request, "approved", k)
  /\ approvals' = Consumed(table, k)

(* authorize_or_request answers False: the pending record is found or made.*)
Ask(table, request, requester) ==
  /\ Reusable(table, request, "approved") = {}
  /\ \/ Reusable(table, request, "pending") # {} /\ approvals' = table
     \/ /\ Reusable(table, request, "pending") = {}
        /\ Len(table) < MaxApprovals
        /\ approvals' = WithPending(table, request, requester)

(* execute_tool_call, on the approvals table as the caller left it.        *)
Attempt(table, by, request, as, resumed) ==
  LET verdict == Verdict(Tool[request], as.role, as.sender) IN
  \/ verdict = "deny" /\ approvals' = table /\ UNCHANGED <<left, log>>
  \/ verdict = "allow" /\ approvals' = table /\ Spend(by, request, as, 0, resumed)
  \/ /\ verdict = "require_approval"
     /\ \E k \in DOMAIN table :
          Take(table, request, k) /\ Spend(by, request, as, k, resumed)
  \/ /\ verdict = "require_approval"
     /\ Ask(table, request, StoredOf(as))
     /\ UNCHANGED <<left, log>>

(* ConchEngine.run: a role without run.create is refused; the identity is  *)
(* registered for the session.                                             *)
Begin(r) ==
  /\ run[r] = "idle"
  /\ overlapping \/ Quiet
  /\ Authorized(Who[r].role, "run.create")
  /\ run' = [run EXCEPT ![r] = "running"]
  /\ identity' = Who[r]
  /\ UNCHANGED <<approvals, review, left, log>>

(* The agent loop of r calls a tool.                                       *)
Call(r, request) ==
  /\ run[r] = "running"
  /\ Attempt(approvals, r, request, CheckedAs, 0)
  /\ run' = [run EXCEPT ![r] = IF log' = log THEN "running" ELSE "executing"]
  /\ UNCHANGED <<identity, review>>

ToolReturns(r) ==
  /\ run[r] = "executing"
  /\ run' = [run EXCEPT ![r] = "running"]
  /\ UNCHANGED <<approvals, identity, review, left, log>>

(* The run ends, however: the finally clause clears the identity.          *)
End(r) ==
  /\ run[r] = "running"
  /\ run' = [run EXCEPT ![r] = "idle"]
  /\ identity' = NoIdentity
  /\ UNCHANGED <<approvals, review, left, log>>

(* The table after WriteApprovalStore.decide.                              *)
AfterDecision(k, decision) ==
  IF Decidable(approvals, k) THEN Decided(approvals, k, decision) ELSE approvals

(* POST /approvals: a pending record without a payload is found or made,   *)
(* which is that of the same operation called without arguments.           *)
CreateByHand(request) ==
  /\ Tool[request].bare
  /\ Reusable(approvals, request, "pending") = {}
  /\ Len(approvals) < MaxApprovals
  /\ approvals' = WithPending(approvals, request, ByHand)
  /\ UNCHANGED <<identity, run, review, left, log>>

(* decide_approval goes on to execute the request when the record has a    *)
(* payload and its tool is registered.  refresh_mcp_tools unregisters the  *)
(* MCP tools, and registers those its servers then name.                   *)
Resumable(request) == ~Tool[request].bare
AlwaysResumable(request) == Resumable(request) /\ ~Tool[request].mcp

(* decide_approval of a record that is not approved, or has no request     *)
(* that it can execute: the decision is all there is.                      *)
DecideOnly(k, decision) ==
  /\ \/ AfterDecision(k, decision)[k].status # "approved"
     \/ ~AlwaysResumable(approvals[k].request)
  /\ approvals' = AfterDecision(k, decision)
  /\ UNCHANGED <<identity, run, review, left, log>>

(* Mutant: the request is executed under the default identity.             *)
Approve_AsDefault(v, k, decision) ==
  /\ review[v] = 0
  /\ overlapping \/ Quiet
  /\ AfterDecision(k, decision)[k].status = "approved" /\ Resumable(approvals[k].request)
  /\ Attempt(AfterDecision(k, decision), v, approvals[k].request, CheckedAs, k)
  /\ identity' = ResumedAs(approvals[k].requester)
  /\ review' = [review EXCEPT ![v] = k]
  /\ UNCHANGED run

(* decide_approval of a record that is approved by this decision or was    *)
(* before, and can be resumed: resume_approval registers the identity      *)
(* stored with the request and has the request executed.                   *)
Approve(v, k, decision) ==
  /\ review[v] = 0
  /\ overlapping \/ Quiet
  /\ AfterDecision(k, decision)[k].status = "approved" /\ Resumable(approvals[k].request)
  /\ Attempt(AfterDecision(k, decision), v, approvals[k].request,
             ResumedAs(approvals[k].requester), k)
  /\ identity' = ResumedAs(approvals[k].requester)
  /\ review' = [review EXCEPT ![v] = k]
  /\ UNCHANGED run

(* The resumption ends: the finally clause clears the identity.            *)
Resumed(v) ==
  /\ review[v] # 0
  /\ review' = [review EXCEPT ![v] = 0]
  /\ identity' = NoIdentity
  /\ UNCHANGED <<approvals, run, left, log>>

Step ==
  \/ \E r \in Runs :
       \/ Begin(r)
       \/ \E request \in Requests : Call(r, request)
       \/ ToolReturns(r)
       \/ End(r)
  \/ \E k \in DOMAIN approvals, decision \in Decisions :
       \/ DecideOnly(k, decision)
       \/ \E v \in Reviews : Approve(v, k, decision)
  \/ \E request \in Requests : CreateByHand(request)
  \/ \E v \in Reviews : Resumed(v)

Next == Step /\ UNCHANGED overlapping

Spec == Init /\ [][Next]_vars

-----------------------------------------------------------------------------
(* Every variable has its type.                                            *)
TypeOK ==
  /\ approvals \in Seq(Row) /\ Len(approvals) <= MaxApprovals
  /\ identity \in Identities \cup {NoIdentity}
  /\ run \in [Runs -> {"idle", "running", "executing"}]
  /\ review \in [Reviews -> 0..MaxApprovals]
  /\ left \in 0..MaxExecutions
  /\ left + Len(log) = MaxExecutions
  /\ overlapping \in BOOLEAN

(* Whatever the interleaving of runs, reviewers and resumptions, a call    *)
(* that the policies want approved is only executed on a used-up approval  *)
(* of exactly its request, one execution per approval (execute_tool_call,  *)
(* lines 326-357).                                                         *)
ApprovedFirst ==
  \A n \in DOMAIN log :
    Verdict(Tool[log[n].request], log[n].as.role, log[n].as.sender) # "allow" =>
      /\ log[n].approval \in DOMAIN approvals
      /\ approvals[log[n].approval].status = "approved"
      /\ approvals[log[n].approval].consumed
      /\ approvals[log[n].approval].request = log[n].request
      /\ \A m \in DOMAIN log : log[m].approval = log[n].approval => m = n

(* With the governance enabled, a memory or skill file is never written    *)
(* without an approval, whoever asks, whatever ToolPolicy lists as allowed *)
(* and whatever the approval level (memory_skill_write_approval,           *)
(* policy_engine.py lines 106-114).  Without it nothing protects them.     *)
ProtectedFilesApproved ==
  Governed =>
    \A n \in DOMAIN log :
      LET tool == Tool[log[n].request] IN
      tool.kind = "file" /\ tool.writes /\ tool.protected => log[n].approval # 0

(* Executions that rest on approval k: it was consumed for them, or they   *)
(* are the resumption of its request.                                      *)
RestingOn(k) == {n \in DOMAIN log : log[n].approval = k \/ log[n].resumed = k}

(* An approval is good for one execution of its request, whether the       *)
(* resumption executes it or a retry of the agent ("an approval record is  *)
(* consumed only once", docstring of resume_approval).  It fails for       *)
(* subagents (run gate_subagent), and when an MCP request was approved     *)
(* while its tool was unregistered: a repeated decision of an older record *)
(* of the same request then uses that approval up.                         *)
OneExecutionPerApproval ==
  \A k \in DOMAIN approvals : \A m, n \in RestingOn(k) : m = n

(* The identity on whose behalf an entry of the log was executed.          *)
OnBehalfOf(entry) ==
  IF entry.resumed # 0
  THEN ResumedAs(approvals[entry.resumed].requester)
  ELSE Who[entry.by]

(* A call is checked under the identity of the run that makes it, or of    *)
(* the run that asked for the approval, as long as runs and resumptions of *)
(* the session do not overlap: they share one entry of _session_identities *)
(* (set_session_identity, clear_session_identity, registry.py 88-98).      *)
ActsAsItself == overlapping \/ \A n \in DOMAIN log : log[n].as = OnBehalfOf(log[n])

=============================================================================
