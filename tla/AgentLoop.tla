------------------------------ MODULE AgentLoop ------------------------------
(***************************************************************************)
(* The agent runs of one session: engine/agent_loop.py, AgentLoop.run, as  *)
(* ConchEngine.run calls it, with the layers that can stop, suspend or     *)
(* fail a run (engine/layers, hooks/executor.py), the gate of Verification *)
(* behind writing tools, the tables of SessionTables with the checkpoint   *)
(* taken at a pause, and the resumption of an approved request.            *)
(*                                                                         *)
(* Everything runs on one event loop over a synchronous SQLite database:   *)
(* an action is what happens between two awaits that really suspend (the   *)
(* model call, a tool, a hook or verification command, the memory          *)
(* extraction).  The hooks of other events than graph_start and pause      *)
(* change nothing and are left out.                                        *)
(***************************************************************************)
EXTENDS Integers, FiniteSets, SequencesExt, SessionTables, Verification

CONSTANTS
  Runs,         \* calls of ConchEngine.run for the session
  MaxTurns,     \* bound on agent_loop.max_turns
  MaxRetries,   \* max_retries in forward_with_handling
  MaxTokens,    \* quota.max_tokens, the quota of one run
  MaxCalls,     \* bound on the tool calls of one model response
  Outputs,      \* what a failing verification command may say
  Scenarios     \* configurations, and what is to happen: members of Scenario

AllMishaps ==
  {"late",       \* the run reaches agent_loop.max_time
   "hook",       \* a hook fails
   "blank",      \* the final answer is blank
   "ask",        \* a tool call needs an approval
   "fault",      \* a tool phase or the memory extraction raises
   "lost",       \* one call of asyncio.gather raises
   "interrupt",  \* the task is cancelled, or an exception escapes the loop
   "restart",    \* the process is restarted
   "declined",   \* an approval is rejected, or the approved request fails
   "unresumable"}  \* an approved request has no arguments, or its tool is
                   \* not registered when it is decided

\* The runs there are, and may they and resumptions of the session overlap;
\* the tokens a response may have used; max_turns; the hooks of an event, each
\* fail_closed or not; the number of verification commands; review_on_submit;
\* what may go wrong, or interfere.
Scenario ==
  [runs : SUBSET Runs, overlapping : BOOLEAN, usages : SUBSET Nat, turns : 1..MaxTurns,
   hooks : [{"graph_start", "pause"} -> Seq(BOOLEAN)], commands : Nat, review : BOOLEAN,
   mishaps : SUBSET AllMishaps]

ASSUME LoopAssumption ==
  /\ MaxTurns \in Nat \ {0} /\ MaxRetries \in Nat /\ MaxTokens \in Nat
  /\ MaxCalls \in Nat /\ "passed" \notin Outputs
  /\ \A s \in Scenarios : s \in Scenario

VARIABLES
  history,     \* the messages table of the session
  turns,       \* turns[r]: the status of the rows run r wrote to the turns table
  status,      \* sessions.status
  checkpoints, \* the checkpoints table
  reports,     \* the verification_reports table
  cases,       \* the regression_cases table
  suspended,   \* is the session in SuspendLayer._suspended?
  used,        \* LLMQuotaLayer._usage[session], 0 when absent
  waiting,     \* tool calls with an undecided approval
  resuming,    \* approved calls that are being executed
  run,         \* run[r]: where run r stands, and what it has come to
  scenario     \* one of the scenarios, chosen at the start

checked == <<reports, cases>>
asked == <<waiting, resuming>>

vars == <<history, turns, status, checkpoints, checked, suspended, used, asked, run, scenario>>

Answer(r, t, i) == Message("tool", <<r, t>>, i)

\* hook: the hooks run so far; checks: the checks of the turn; dirty: history,
\* whether a write has succeeded that no passing verification has followed.
Fresh == [pc |-> "idle", turn |-> 0, attempt |-> 0, calls |-> <<>>, hook |-> 0, checks |-> <<>>,
          tokens |-> 0, dirty |-> FALSE, result |-> "none"]

Init ==
  /\ history = <<>>
  /\ turns = [r \in Runs |-> <<>>]
  /\ status = "active"
  /\ checkpoints = <<>> /\ reports = <<>> /\ cases = {}
  /\ suspended = FALSE
  /\ used = 0
  /\ waiting = {} /\ resuming = {}
  /\ run = [r \in Runs |-> Fresh]
  /\ scenario \in Scenarios

Overlapping == scenario.overlapping

Mishaps == scenario.mishaps

Active == {r \in Runs : run[r].pc \notin {"idle", "done"}}

Undisturbed == Overlapping \/ (Active = {} /\ resuming = {})

At(r, pc) == run[r].pc = pc

Move(r, pc) == run' = [run EXCEPT ![r].pc = pc]

\* The end of ConchEngine.run: it returns the result and, unless an exception
\* passes through it, sets the session's status to it.
Over(r, result) ==
  run' = [run EXCEPT ![r].pc = "done", ![r].result = result]

\* The same after on_graph_end, where LLMQuotaLayer forgets the usage.
OverAndEnded(r, result) == Over(r, result) /\ used' = 0

FinishTurn(r, outcome) ==
  turns' = [turns EXCEPT ![r] = Finished(@, run[r].turn, outcome)]

Say(m) == history' = Append(history, m)

-----------------------------------------------------------------------------
(* The hooks, one after the other, behind the other layers.                  *)

Hooks(r) == IF At(r, "pausing") THEN scenario.hooks["pause"] ELSE scenario.hooks["graph_start"]

HooksLeft(r) == run[r].hook < Len(Hooks(r))

\* It passes, or it may fail.
RunHook(r) ==
  /\ At(r, "starting") \/ At(r, "pausing")
  /\ HooksLeft(r)
  /\ run' = [run EXCEPT ![r].hook = @ + 1]
  /\ UNCHANGED <<history, turns, status, checkpoints, checked, suspended, used, asked>>

\* A fail_closed hook fails: those behind it are not run.
HookStops(r) == HooksLeft(r) /\ "hook" \in Mishaps /\ Hooks(r)[run[r].hook + 1]

-----------------------------------------------------------------------------
(* The start of a run, and the head of the loop.                             *)

\* on_graph_start sets should_abort: the session is suspended, or a hook says no
Refuse(r) ==
  /\ \/ At(r, "idle") /\ Undisturbed /\ suspended /\ Say(Message("user", <<r, 0>>, 0))
     \/ At(r, "starting") /\ HookStops(r) /\ UNCHANGED history
  /\ status' = "aborted"
  /\ OverAndEnded(r, "aborted")
  /\ UNCHANGED <<turns, suspended, checkpoints, checked, asked>>

Start(r) ==
  /\ At(r, "idle") /\ Undisturbed
  /\ ~suspended
  /\ Say(Message("user", <<r, 0>>, 0))
  /\ used' = 0
  /\ Move(r, "starting")
  /\ UNCHANGED <<turns, status, checkpoints, checked, suspended, asked>>

EnterLoop(r) ==
  /\ At(r, "starting") /\ ~HooksLeft(r)
  /\ Move(r, "loop")
  /\ UNCHANGED <<history, turns, status, checkpoints, checked, suspended, used, asked>>

OutOfTime(r) ==
  /\ At(r, "loop") /\ run[r].turn < scenario.turns
  /\ "late" \in Mishaps
  /\ status' = "max_turns"
  /\ Over(r, "max_turns")
  /\ UNCHANGED <<history, turns, checkpoints, checked, suspended, used, asked>>

OutOfTurns(r) ==
  /\ At(r, "loop") /\ run[r].turn = scenario.turns
  /\ Move(r, "ending")
  /\ UNCHANGED <<history, turns, status, checkpoints, checked, suspended, used, asked>>

StartTurn(r) ==
  /\ At(r, "loop") /\ run[r].turn < scenario.turns
  /\ turns' = [turns EXCEPT ![r] = WithTurn(@)]
  /\ run' = [run EXCEPT ![r] = [run[r] EXCEPT !.pc = "think", !.turn = @ + 1, !.attempt = 0,
                                              !.checks = <<>>]]
  /\ UNCHANGED <<history, status, checkpoints, checked, suspended, used, asked>>

-----------------------------------------------------------------------------
(* Think: the model is called with a context that is assembled from the      *)
(* history (ContextEngine), and called again on errors.                      *)

CallModel(r) ==
  /\ At(r, "think")
  /\ Move(r, "call")
  /\ UNCHANGED <<history, turns, status, checkpoints, checked, suspended, used, asked>>

\* Mutant: the attempts are not counted.
Retry_Uncounted(r) ==
  /\ At(r, "call") /\ run[r].attempt < MaxRetries
  /\ Move(r, "think")
  /\ UNCHANGED <<history, turns, status, checkpoints, checked, suspended, used, asked>>

\* An error whose strategy is RETRY, REQUERY or COMPACT
Retry(r) ==
  /\ At(r, "call") /\ run[r].attempt < MaxRetries
  /\ run' = [run EXCEPT ![r].pc = "think", ![r].attempt = @ + 1]
  /\ UNCHANGED <<history, turns, status, checkpoints, checked, suspended, used, asked>>

\* Mutant: the turn is left running.
GiveUp_TurnLeft(r) ==
  /\ At(r, "call")
  /\ status' = "error"
  /\ Over(r, "error")
  /\ UNCHANGED <<history, turns, checkpoints, checked, suspended, used, asked>>

\* An error whose strategy is ABORT
GiveUp(r) ==
  /\ At(r, "call")
  /\ FinishTurn(r, "error")
  /\ status' = "error"
  /\ Over(r, "error")
  /\ UNCHANGED <<history, checkpoints, checked, suspended, used, asked>>

\* Mutant: the quota is checked against each response alone.
Metered_Response(tokens) == tokens

\* LLMQuotaLayer.on_event
Metered(tokens) == used + tokens

\* A response of n tool calls is taken.
Take(r, n, tokens) ==
  LET total == Metered(tokens)
      told == [run[r] EXCEPT !.tokens = @ + tokens] IN
  IF total > MaxTokens
  THEN /\ FinishTurn(r, "aborted")
       /\ status' = "aborted"
       /\ used' = 0
       /\ run' = [run EXCEPT ![r] = [told EXCEPT !.pc = "done", !.result = "aborted"]]
       /\ UNCHANGED history
  ELSE /\ used' = total
       /\ Say(Message("assistant", <<r, run[r].turn>>, n))
       /\ IF n = 0
          THEN /\ FinishTurn(r, "completed")
               /\ run' = [run EXCEPT ![r] = [told EXCEPT !.pc = "noting"]]
          ELSE /\ run' = [run EXCEPT ![r] = [told EXCEPT !.pc = "node",
                                               !.calls = [i \in 1..n |-> "running"]]]
               /\ UNCHANGED turns
       /\ UNCHANGED status

Respond(r) ==
  /\ At(r, "call")
  /\ \E n \in 0..MaxCalls, tokens \in scenario.usages : Take(r, n, tokens)
  /\ UNCHANGED <<checkpoints, checked, suspended, asked>>

\* An error whose strategy is CONTINUE, or the last of the retries: the
\* response is an "[Error recovered: ...]" text without tool calls.
Recover(r) ==
  /\ At(r, "call")
  /\ Take(r, 0, 0)
  /\ UNCHANGED <<checkpoints, checked, suspended, asked>>

-----------------------------------------------------------------------------
(* Act: the tools, the verification of what they wrote, the messages that    *)
(* carry their results, the pause.                                           *)

\* on_node_run_start.  A fail_closed hook calls block_progress there, which
\* sets should_block; nothing reads it, the tools are executed all the same.
NodeStart(r) ==
  /\ At(r, "node")
  /\ Move(r, "tools")
  /\ UNCHANGED <<history, turns, status, checkpoints, checked, suspended, used, asked>>

\* Writes are told from other calls that are done where something depends on it.
Outcomes(n) ==
  {"done"} \cup (IF scenario.commands > 0 THEN {"wrote"} ELSE {})
           \cup (IF "ask" \in Mishaps THEN {"ask"} ELSE {})
           \cup (IF "lost" \in Mishaps /\ n > 1 THEN {"lost"} ELSE {})

\* The calls of a turn end in any order: the reads among them run in parallel.
ToolReturns(r, i, outcome) ==
  /\ At(r, "tools")
  /\ run[r].calls[i] = "running"
  /\ outcome \in Outcomes(Len(run[r].calls))
  /\ run' = [run EXCEPT ![r].calls[i] = outcome, ![r].dirty = @ \/ outcome = "wrote"]
  /\ waiting' = IF outcome = "ask" THEN waiting \cup {<<r, run[r].turn, i>>} ELSE waiting
  /\ UNCHANGED <<history, turns, status, checkpoints, checked, suspended, used, resuming>>

AllReturned(r) == \A i \in DOMAIN run[r].calls : run[r].calls[i] # "running"

Verifies(r) == Wrote(run[r].calls) /\ scenario.commands > 0

\* The report of the checks, and what it changes.
Reports(of, checks) ==
  LET report == Report(of, checks) IN
  reports' = WithReport(reports, report) /\ cases' = Captured(cases, report)

\* on_node_run_end of VerificationLayer: the commands, one after the other
Check(r) ==
  LET before == run[r].checks IN
  /\ At(r, "tools") /\ AllReturned(r) /\ Verifies(r)
  /\ ~AllChecked(before, scenario.commands)
  /\ \E check \in {"passed"} \cup Outputs :
       LET checks == Append(before, check)
           all == AllChecked(checks, scenario.commands) IN
       /\ IF all THEN Reports(<<r, run[r].turn>>, checks) ELSE UNCHANGED checked
       /\ run' = [run EXCEPT ![r].checks = checks,
                             ![r].dirty = @ /\ ~(all /\ Report(<<r, run[r].turn>>, checks).passed)]
  /\ UNCHANGED <<history, turns, status, checkpoints, suspended, used, asked>>

\* Mutant: only what was executed is reported.
Answers_Executed(r) ==
  LET calls == run[r].calls
      kept == SelectSeq([i \in DOMAIN calls |-> i], LAMBDA i : calls[i] = "done") IN
  [k \in DOMAIN kept |-> Answer(r, run[r].turn, kept[k])]

\* The results in the order of the calls; one that gather lost has no
\* tool_call_id and is sorted behind the others.
Answers(r) ==
  LET calls == run[r].calls
      IsKth(k, i) == calls[i] # "lost" /\ Cardinality({j \in 1..i : calls[j] # "lost"}) = k
      Kth(k) == IF \E i \in DOMAIN calls : IsKth(k, i)
                THEN CHOOSE i \in DOMAIN calls : IsKth(k, i) ELSE 0 IN
  [k \in DOMAIN calls |-> Answer(r, run[r].turn, Kth(k))]

\* A failed verification injects a message that asks the model for a repair;
\* block_progress is called for nothing, as in NodeStart.
Injected(r) ==
  IF \E i \in DOMAIN run[r].checks : run[r].checks[i] # "passed"
  THEN <<Message("user", <<r, run[r].turn>>, 0)>> ELSE <<>>

\* Mutant: the pause is stored, but SuspendLayer is not told.
Pause_NotSuspended(r, messages) ==
  /\ checkpoints' = Paused(checkpoints, run[r].turn, messages)
  /\ status' = "paused"
  /\ run' = [run EXCEPT ![r].pc = "pausing", ![r].hook = 0]
  /\ UNCHANGED suspended

\* SuspendLayer and PauseStatePersistLayer are told of the pause, then the hooks.
Pause(r, messages) ==
  /\ suspended' = TRUE
  /\ checkpoints' = Paused(checkpoints, run[r].turn, messages)
  /\ status' = "paused"
  /\ run' = [run EXCEPT ![r].pc = "pausing", ![r].hook = 0]

EndTurn(r) ==
  /\ At(r, "tools") /\ AllReturned(r)
  /\ Verifies(r) => AllChecked(run[r].checks, scenario.commands)
  /\ history' = history \o Answers(r) \o Injected(r)
  /\ FinishTurn(r, "completed")
  /\ IF \E i \in DOMAIN run[r].calls : run[r].calls[i] = "ask"
     THEN Pause(r, history')
     ELSE Move(r, "loop") /\ UNCHANGED <<status, suspended, checkpoints>>
  /\ UNCHANGED <<checked, used, asked>>

\* The hooks are done, or one of them stops the others.
PauseEnds(r) ==
  /\ At(r, "pausing")
  /\ ~HooksLeft(r) \/ HookStops(r)
  /\ status' = "paused"
  /\ Over(r, "paused")
  /\ UNCHANGED <<history, turns, checkpoints, checked, suspended, used, asked>>

\* "except Exception" around the turn.  What is raised in the steps of the
\* model's call is caught there and becomes one of its outcomes.
TurnFails(r) ==
  /\ run[r].pc \in {"node", "tools", "noting", "pausing"}
  /\ "fault" \in Mishaps
  /\ FinishTurn(r, "error")
  /\ \/ Move(r, "loop") /\ UNCHANGED status
     \/ Over(r, "error") /\ status' = "error"
  /\ UNCHANGED <<history, checkpoints, checked, suspended, used, asked>>

-----------------------------------------------------------------------------
(* The end of a run.                                                         *)

AfterTurn(r) ==
  /\ At(r, "noting")
  /\ Move(r, "ending")
  /\ UNCHANGED <<history, turns, status, checkpoints, checked, suspended, used, asked>>

\* The result of a run whose loop has ended.
LoopResult(r) == IF run[r].turn < scenario.turns THEN "completed" ELSE "max_turns"

\* The same after the self review, which only completed runs have.
Reviewed(r, blank) ==
  IF LoopResult(r) = "completed" /\ scenario.review /\ ~ReviewPasses(reports, blank)
  THEN "error" ELSE LoopResult(r)

Finish(r) ==
  /\ At(r, "ending")
  /\ \E blank \in BOOLEAN :
       /\ blank => "blank" \in Mishaps
       /\ status' = Reviewed(r, blank)
       /\ OverAndEnded(r, Reviewed(r, blank))
  /\ UNCHANGED <<history, turns, checkpoints, checked, suspended, asked>>

\* The task is cancelled (the scheduler's hard timeout), or maintain, which
\* is outside of the try, raises: nothing of the loop runs any more.
Interrupt(r) ==
  /\ r \in Active
  /\ "interrupt" \in Mishaps
  /\ Over(r, "interrupted")
  /\ UNCHANGED <<history, turns, status, checkpoints, checked, suspended, used, asked>>

-----------------------------------------------------------------------------
(* What reviewers and operators do.                                          *)

\* decide_approval has the approved request executed.
Approve(a) ==
  /\ a \in waiting /\ Undisturbed
  /\ waiting' = waiting \ {a}
  /\ resuming' = resuming \cup {a}
  /\ UNCHANGED <<history, turns, status, checkpoints, checked, suspended, used, run>>

\* decide_approval rejects the request, or approves one that it does not execute:
\* its payload is empty, or its tool is not registered.  (Of the latter another
\* decision, once the tool is back, is an Approve: then this one was none.)
DecideOnly(a) ==
  /\ Mishaps \cap {"declined", "unresumable"} # {}
  /\ a \in waiting /\ Undisturbed
  /\ waiting' = waiting \ {a}
  /\ UNCHANGED <<history, turns, status, checkpoints, checked, suspended, used, resuming, run>>

\* What it wrote is verified; what the layer injects goes nowhere.
ResumedWrite(a) ==
  IF scenario.commands = 0 THEN UNCHANGED checked
  ELSE \/ UNCHANGED checked
       \/ \E k \in 1..scenario.commands, last \in {"passed"} \cup Outputs :
            LET checks == [i \in 1..k |-> IF i < k THEN "passed" ELSE last] IN
            AllChecked(checks, scenario.commands) /\ Reports(<<a[1], 0>>, checks)

\* Mutant: the resumption does not reach SuspendLayer.
Succeed_StillSuspended(a) ==
  /\ a \in resuming
  /\ resuming' = resuming \ {a}
  /\ ResumedWrite(a)
  /\ history' = Resumed(checkpoints, history)
  /\ status' = "active"
  /\ UNCHANGED <<turns, checkpoints, suspended, used, waiting, run>>

\* It has succeeded, and only then is the session resumed: SuspendLayer lets it
\* go and the checkpoint is restored.
Succeed(a) ==
  /\ a \in resuming
  /\ resuming' = resuming \ {a}
  /\ ResumedWrite(a)
  /\ suspended' = FALSE
  /\ history' = Resumed(checkpoints, history)
  /\ status' = "active"
  /\ UNCHANGED <<turns, checkpoints, used, waiting, run>>

\* It has failed, or is refused after all.
Fail(a) ==
  /\ a \in resuming /\ "declined" \in Mishaps
  /\ resuming' = resuming \ {a}
  /\ UNCHANGED <<history, turns, status, checkpoints, checked, suspended, used, waiting, run>>

\* What is only in memory is gone, and so are the runs under way; a
\* restoration may have been under way too.
Restart ==
  /\ "restart" \in Mishaps
  /\ suspended \/ Active # {} \/ resuming # {}
  /\ suspended' = FALSE
  /\ used' = 0
  /\ resuming' = {}
  /\ history' \in {history} \cup (IF resuming = {} THEN {} ELSE Interrupted(checkpoints))
  /\ run' = [r \in Runs |-> IF r \in Active
                            THEN [run[r] EXCEPT !.pc = "done", !.result = "interrupted"]
                            ELSE run[r]]
  /\ UNCHANGED <<turns, status, checkpoints, checked, waiting>>

-----------------------------------------------------------------------------
ToolStep(r) == \E i \in DOMAIN run[r].calls, outcome \in {"done", "wrote", "ask", "lost"} :
                 ToolReturns(r, i, outcome)

\* What others answer to a run, and how it goes on by itself: here the commands
\* of hooks and verification, and the memory extraction, have time limits.
ModelAnswers(r) == Retry(r) \/ GiveUp(r) \/ Respond(r) \/ Recover(r)

GoesOn(r) ==
  \/ RunHook(r) \/ EnterLoop(r) \/ OutOfTime(r) \/ OutOfTurns(r) \/ StartTurn(r)
  \/ CallModel(r) \/ NodeStart(r) \/ Check(r) \/ EndTurn(r) \/ PauseEnds(r)
  \/ TurnFails(r) \/ AfterTurn(r) \/ Finish(r)

Step(r) == GoesOn(r) \/ ModelAnswers(r) \/ ToolStep(r)

Next ==
  /\ \/ \E r \in scenario.runs : Refuse(r) \/ Start(r) \/ Step(r) \/ Interrupt(r)
     \/ \E a \in waiting : Approve(a) \/ DecideOnly(a)
     \/ \E a \in resuming : Succeed(a) \/ Fail(a)
     \/ Restart
  /\ UNCHANGED scenario

Spec == Init /\ [][Next]_vars

\* The event loop is fair to its tasks.
FairSpec == Spec /\ \A r \in Runs : WF_vars(GoesOn(r) /\ UNCHANGED scenario)

\* What the code does not see to: it sets no time limit for a call of the model,
\* of an MCP tool or of ask_user, and needs that each of them returns or fails.
EverythingAnswers ==
  \A r \in Runs : /\ WF_vars(ModelAnswers(r) /\ UNCHANGED scenario)
                 /\ WF_vars(ToolStep(r) /\ UNCHANGED scenario)

-----------------------------------------------------------------------------
(* Properties.                                                               *)

Turn == Runs \X (0..MaxTurns)

Messages == [role : {"user", "assistant", "tool"}, of : Turn, n : 0..MaxCalls]

Checks == Seq({"passed"} \cup Outputs)

Outcome == {"none", "completed", "max_turns", "aborted", "paused", "error", "interrupted"}

RunState ==
  [pc : {"idle", "starting", "loop", "think", "call", "node", "tools", "pausing", "noting",
         "ending", "done"},
   turn : 0..MaxTurns, attempt : 0..MaxRetries,
   calls : Seq({"running", "done", "wrote", "ask", "lost"}), hook : Nat, checks : Checks,
   tokens : Nat, dirty : BOOLEAN, result : Outcome]

\* The tables and the state of every run are well-formed; a run has one row
\* in the turns table for each turn it started.
TypeOK ==
  /\ history \in Seq(Messages)
  /\ turns \in [Runs -> Seq({"running", "completed", "error", "aborted"})]
  /\ status \in {"active", "completed", "max_turns", "aborted", "paused", "error"}
  /\ checkpoints \in Seq([status : {"paused"}, turn : 1..MaxTurns, messages : Seq(Messages)])
  /\ reports \in Seq([of : Turn, checks : Checks, passed : BOOLEAN])
  /\ cases \subseteq [fingerprint : [commands : Nat, output : Outputs], source : Turn]
  /\ suspended \in BOOLEAN
  /\ used \in Nat
  /\ waiting \cup resuming \subseteq (Runs \X (1..MaxTurns) \X (1..MaxCalls))
  /\ run \in [Runs -> RunState]
  /\ \A r \in Runs : Len(turns[r]) = run[r].turn
  /\ scenario \in Scenarios

\* Runs and resumptions one after the other, and none of these mishaps.
Without(mishaps) == ~Overlapping /\ Mishaps \cap mishaps = {}

\* Every tool call of an assistant message is answered right behind it, in
\* order, and nothing else claims to be an answer.
WellFormed(h) ==
  /\ \A i \in DOMAIN h : h[i].role = "assistant" =>
       \A k \in 1..h[i].n : /\ i + k \in DOMAIN h
                            /\ h[i + k] = [role |-> "tool", of |-> h[i].of, n |-> k]
  /\ \A j \in DOMAIN h : h[j].role = "tool" =>
       \E i \in 1..(j - 1) : h[i].role = "assistant" /\ h[i].of = h[j].of /\ j - i <= h[i].n

CallsModel(r) == At(r, "think") /\ At(r, "call")'

\* Whenever the model is called, each tool call of the conversation in the
\* messages table has its result right behind it, and no result is without its
\* call.  The context the model is given is assembled from that conversation;
\* a summary keeps its last four messages only (pipeline.py line 155) and can
\* part a call from its results all the same.
CallsAnswered ==
  [][Without({"fault", "lost", "interrupt", "restart"}) =>
       \A r \in Runs : CallsModel(r) => WellFormed(history)]_vars

\* A run whose responses have used more than the quota executes no tool.
QuotaHolds ==
  Without({}) => \A r \in Runs : run[r].pc \in {"node", "tools"} => run[r].tokens <= MaxTokens

\* Whatever fails inside of a run, it leaves no turn marked as running, unless
\* the run is interrupted: its task is cancelled, or maintain raises.
TurnsClosed ==
  \A r \in Runs : run[r].pc = "done" /\ run[r].result # "interrupted" =>
    \A t \in DOMAIN turns[r] : turns[r][t] # "running"

\* While a session is marked as paused, no run of it starts.
PausedStartsNothing ==
  [][Without({"restart"}) => \A r \in Runs :
       run[r].pc = "idle" /\ run'[r].pc = "starting" => status # "paused"]_vars

\* A suspended session without a run under way waits for a decision that can
\* resume it: when the requests have arguments and their tools are registered,
\* and every one is approved and succeeds, it is resumed.  A request without
\* arguments leaves its session suspended, whatever is decided.
SuspendedWaits ==
  Without({"declined", "unresumable"}) /\ suspended /\ Active = {} => waiting \cup resuming # {}

\* The failed verifications of turns of run r.
Failing(r) == {i \in DOMAIN reports :
                 reports[i].of[1] = r /\ reports[i].of[2] > 0 /\ ~reports[i].passed}

\* Whatever a run does after a failed verification of one of its turns, pauses
\* and resumptions included: each call of the model says so, and where answers
\* are reviewed, a run completes only when all that it wrote has been verified.
FailuresFollowedUp ==
  [][Without({"fault"}) => \A r \in Runs :
       /\ CallsModel(r) =>
            \A i \in Failing(r) : \E k \in DOMAIN history :
              history[k] = Message("user", reports[i].of, 0)
       /\ At(r, "ending") /\ run'[r].result = "completed" /\ scenario.review => ~run[r].dirty]_vars

\* As long as models and tools answer, a run that has started comes to an end,
\* whatever the answers are.
Terminates == EverythingAnswers => \A r \in Runs : At(r, "starting") ~> At(r, "done")

=============================================================================
