-------------------------------- MODULE Budget --------------------------------
(***************************************************************************)
(* The run budget of one session: governance/budget.py, BudgetManager and  *)
(* CostBudgetLayer, driven by the agent runs of that session.              *)
(*                                                                         *)
(* The budget is a row of the shared SQLite database, read by a SELECT and *)
(* written back by an UPDATE that sets absolute values.  Inside a process  *)
(* the two are never separated (the methods are synchronous); between two  *)
(* processes they are.  An action is one statement and the Python up to    *)
(* the next one.                                                           *)
(***************************************************************************)
EXTENDS Integers, FiniteSets

CONSTANTS
  Runs,            \* agent runs of the session
  Processes,       \* processes with the database open
  Home,            \* Home[r]: the process that executes run r
  MaxTokens, MaxCalls, MaxUnits, MaxSeconds,  \* BudgetLimits
  ResponseTokens,  \* what one model response may use
  ToolUnits,       \* ACTION_LEVELS: what one tool call may use
  LargestResponse, \* bound on ResponseTokens
  MaxSpent,        \* bound on tokens for model checking
  MaxClock         \* bound on the clock for model checking

ASSUME BudgetAssumption ==
  /\ IsFiniteSet(Runs)
  /\ Home \in [Runs -> Processes]
  /\ MaxTokens \in Nat /\ MaxCalls \in Nat /\ MaxUnits \in Nat /\ MaxSeconds \in Nat
  /\ LargestResponse \in Nat
  /\ ResponseTokens \subseteq 0..LargestResponse
  /\ ToolUnits \subseteq Nat
  /\ MaxSpent \in Nat /\ MaxClock \in Nat

VARIABLES
  row,    \* the row of run_budgets
  clock,  \* time.time()
  call,   \* call[p]: the BudgetManager method process p is inside of
  run,    \* run[r]: where the agent loop of r stands
  abort,  \* abort[r]: should_abort in the GraphContext of r
  spent   \* history: what was really used since the last start

vars == <<row, clock, call, run, abort, spent>>

NotStarted == [status |-> "not_started", tokens |-> 0, calls |-> 0, units |-> 0,
               started |-> 0]

Started == [NotStarted EXCEPT !.status = "active", !.started = clock]

NothingSpent == [tokens |-> 0, calls |-> 0, units |-> 0]

Idle == [at |-> "idle"]

Init ==
  /\ row = NotStarted
  /\ clock = 0
  /\ call = [p \in Processes |-> Idle]
  /\ run = [r \in Runs |-> "idle"]
  /\ abort = [r \in Runs |-> FALSE]
  /\ spent = NothingSpent

Free(r) == call[Home[r]] = Idle

Enter(r, c) == call' = [call EXCEPT ![Home[r]] = c]

(* _check_time.                                                            *)
OutOfTime(b) == clock - b.started > MaxSeconds

(* on_graph_start of the layer: start sets the row anew, whatever another  *)
(* run of the session has used.                                            *)
StartRun(r) ==
  /\ run[r] = "idle" /\ Free(r)
  /\ row' = Started
  /\ spent' = NothingSpent
  /\ abort' = [abort EXCEPT ![r] = FALSE]
  /\ run' = [run EXCEPT ![r] = "model"]
  /\ UNCHANGED <<clock, call>>

-----------------------------------------------------------------------------
(* record_llm, on the llm_usage event that follows a model response: the   *)
(* SELECT, and the sum.                                                    *)
ReadForResponse(r, tokens) ==
  /\ run[r] = "model" /\ Free(r)
  /\ spent.tokens + tokens <= MaxSpent
  /\ spent' = [spent EXCEPT !.tokens = @ + tokens]
  /\ Enter(r, [at |-> "write_tokens", run |-> r, used |-> row.tokens + tokens])
  /\ UNCHANGED <<row, clock, run, abort>>

(* Mutant: the sum is not compared with the limit.                         *)
WriteTokens_Unlimited(p) ==
  /\ call[p].at = "write_tokens"
  /\ row' = [row EXCEPT !.tokens = call[p].used]
  /\ call' = [call EXCEPT ![p] = [at |-> "check", run |-> call[p].run]]
  /\ UNCHANGED <<clock, run, abort, spent>>

(* Its UPDATE.                                                             *)
WriteTokens(p) ==
  /\ call[p].at = "write_tokens"
  /\ row' = [row EXCEPT !.tokens = call[p].used]
  /\ call' = [call EXCEPT ![p] =
       IF call[p].used > MaxTokens
       THEN [at |-> "breach", run |-> call[p].run, of |-> "response"]
       ELSE [at |-> "check", run |-> call[p].run]]
  /\ UNCHANGED <<clock, run, abort, spent>>

(* The end of record_llm: a run is told to abort, or goes on to the tools  *)
(* the model asked for.                                                    *)
Refuse(r) ==
  /\ abort' = [abort EXCEPT ![r] = TRUE]
  /\ run' = [run EXCEPT ![r] = "ending"]

Allow(r) ==
  /\ run' = [run EXCEPT ![r] = "tools"]
  /\ UNCHANGED abort

(* Mutant: check looks at the time only.                                   *)
Check_TimeOnly(p) ==
  /\ call[p].at = "check"
  /\ \/ /\ OutOfTime(row)
        /\ call' = [call EXCEPT ![p] =
             [at |-> "breach", run |-> call[p].run, of |-> "response"]]
        /\ UNCHANGED <<run, abort>>
     \/ /\ ~OutOfTime(row)
        /\ Allow(call[p].run)
        /\ call' = [call EXCEPT ![p] = Idle]
  /\ UNCHANGED <<row, clock, spent>>

(* check: a budget that was breached before, by a tool or by another run,  *)
(* refuses; then the time.                                                 *)
Check(p) ==
  /\ call[p].at = "check"
  /\ \/ /\ row.status = "breached"
        /\ Refuse(call[p].run)
        /\ call' = [call EXCEPT ![p] = Idle]
     \/ /\ row.status # "breached" /\ OutOfTime(row)
        /\ call' = [call EXCEPT ![p] =
             [at |-> "breach", run |-> call[p].run, of |-> "response"]]
        /\ UNCHANGED <<run, abort>>
     \/ /\ row.status # "breached" /\ ~OutOfTime(row)
        /\ Allow(call[p].run)
        /\ call' = [call EXCEPT ![p] = Idle]
  /\ UNCHANGED <<row, clock, spent>>

(* _breach.  Of a response, the run is told to abort; of a tool call, the  *)
(* call is answered with an error and the run goes on.                     *)
Breach(p) ==
  /\ call[p].at = "breach"
  /\ row' = [row EXCEPT !.status = "breached"]
  /\ \/ call[p].of = "response" /\ Refuse(call[p].run)
     \/ call[p].of = "tool" /\ UNCHANGED <<run, abort>>
  /\ call' = [call EXCEPT ![p] = Idle]
  /\ UNCHANGED <<clock, spent>>

-----------------------------------------------------------------------------
(* Mutant: calls compared before the one asked for is counted.             *)
OverLimits_OffByOne(b, units) == b.calls > MaxCalls \/ b.units + units > MaxUnits

(* What consume_tool compares.                                             *)
OverLimits(b, units) == b.calls + 1 > MaxCalls \/ b.units + units > MaxUnits

(* _ensure: a session without a row gets one.                              *)
Ensured == IF row.status = "not_started" THEN Started ELSE row

(* consume_tool: the SELECT and the comparisons.  A call comes from the    *)
(* loop, or from resume_approval, which runs outside of any loop.          *)
ReadForTool(r, units) ==
  /\ run[r] \in {"tools", "idle"} /\ Free(r)
  /\ row' = Ensured
  /\ Enter(r, IF OutOfTime(Ensured) \/ OverLimits(Ensured, units)
              THEN [at |-> "breach", run |-> r, of |-> "tool"]
              ELSE [at |-> "write_tool", run |-> r, units |-> units,
                    calls |-> Ensured.calls + 1, used |-> Ensured.units + units])
  /\ UNCHANGED <<clock, run, abort, spent>>

(* Its UPDATE; the tool is executed.                                       *)
WriteTool(p) ==
  /\ call[p].at = "write_tool"
  /\ row' = [row EXCEPT !.calls = call[p].calls, !.units = call[p].used]
  /\ spent' = [spent EXCEPT !.calls = @ + 1, !.units = @ + call[p].units]
  /\ call' = [call EXCEPT ![p] = Idle]
  /\ UNCHANGED <<clock, run, abort>>

-----------------------------------------------------------------------------
(* The tool results go back to the model: the next turn.                   *)
NextTurn(r) ==
  /\ run[r] = "tools" /\ Free(r)
  /\ run' = [run EXCEPT ![r] = "model"]
  /\ UNCHANGED <<row, clock, call, abort, spent>>

(* The loop stops: through on_graph_end after an answer or an abort, and   *)
(* past it when the model failed, the time limit of the loop ran out or an *)
(* approval is waited for.                                                 *)
StopRun(r) ==
  /\ run[r] \in {"model", "tools"} /\ Free(r)
  /\ run' = [run EXCEPT ![r] = "ending"]
  /\ UNCHANGED <<row, clock, call, abort, spent>>

(* Mutant: finish completes a breached budget.                             *)
Finish_Always(r) ==
  /\ run[r] = "ending" /\ Free(r)
  /\ row' = [row EXCEPT !.status = "completed"]
  /\ run' = [run EXCEPT ![r] = "idle"]
  /\ UNCHANGED <<clock, call, abort, spent>>

(* on_graph_end of the layer: finish.                                      *)
Finish(r) ==
  /\ run[r] = "ending" /\ Free(r)
  /\ row' = IF row.status = "active" THEN [row EXCEPT !.status = "completed"] ELSE row
  /\ run' = [run EXCEPT ![r] = "idle"]
  /\ UNCHANGED <<clock, call, abort, spent>>

(* The returns of the loop that do not reach on_graph_end.                 *)
ReturnEarly(r) ==
  /\ run[r] = "ending" /\ Free(r) /\ ~abort[r]
  /\ run' = [run EXCEPT ![r] = "idle"]
  /\ UNCHANGED <<row, clock, call, abort, spent>>

(* The process dies between two statements, with its runs.                 *)
Crash(p) ==
  /\ call' = [call EXCEPT ![p] = Idle]
  /\ run' = [r \in Runs |-> IF Home[r] = p THEN "idle" ELSE run[r]]
  /\ UNCHANGED <<row, clock, abort, spent>>

Tick ==
  /\ clock < MaxClock
  /\ clock' = clock + 1
  /\ UNCHANGED <<row, call, run, abort, spent>>

Next ==
  \/ \E r \in Runs :
       \/ StartRun(r)
       \/ \E tokens \in ResponseTokens : ReadForResponse(r, tokens)
       \/ \E units \in ToolUnits : ReadForTool(r, units)
       \/ NextTurn(r)
       \/ StopRun(r)
       \/ Finish(r)
       \/ ReturnEarly(r)
  \/ \E p \in Processes : WriteTokens(p) \/ Check(p) \/ Breach(p) \/ WriteTool(p) \/ Crash(p)
  \/ Tick

Spec == Init /\ [][Next]_vars

(* A process goes on with the method it is inside of.                      *)
FairSpec ==
  Spec /\ \A p \in Processes :
            WF_vars(WriteTokens(p) \/ Check(p) \/ Breach(p) \/ WriteTool(p))

(* What the code does not see to: that the model and the tools of a run    *)
(* answer or fail, for which it sets no time limit.  A turn has finitely   *)
(* many tool calls.                                                        *)
RunsGoOn ==
  \A r \in Runs :
    /\ SF_vars((\E tokens \in ResponseTokens : ReadForResponse(r, tokens)) \/ StopRun(r))
    /\ SF_vars(NextTurn(r) \/ StopRun(r))

-----------------------------------------------------------------------------
Calls ==
  {Idle}
    \cup [at : {"write_tokens"}, run : Runs, used : Nat]
    \cup [at : {"check"}, run : Runs]
    \cup [at : {"breach"}, run : Runs, of : {"response", "tool"}]
    \cup [at : {"write_tool"}, run : Runs, units : Nat, calls : Nat, used : Nat]

(* Every variable has its type, a process is inside a method on behalf of  *)
(* a run of its own, and whatever runs has a row (_ensure, lines 141-152). *)
TypeOK ==
  /\ row \in [status : {"not_started", "active", "completed", "breached"},
              tokens : Nat, calls : Nat, units : Nat, started : Nat]
  /\ row.status = "not_started" =>
       /\ row = NotStarted
       /\ \A p \in Processes : call[p] = Idle
       /\ \A r \in Runs : run[r] = "idle"
  /\ clock \in Nat
  /\ call \in [Processes -> Calls]
  /\ \A p \in Processes : call[p] # Idle => Home[call[p].run] = p
  /\ run \in [Runs -> {"idle", "model", "tools", "ending"}]
  /\ abort \in [Runs -> BOOLEAN]
  /\ spent \in [tokens : Nat, calls : Nat, units : Nat]

(* The tool calls executed since the budget was last started, and the      *)
(* resource units they used, stay within the limits, also when several     *)
(* runs draw on one budget (consume_tool, lines 84-106).                   *)
WithinLimits == spent.calls <= MaxCalls /\ spent.units <= MaxUnits

(* A run that was told to stop, is not running, or is just reporting what  *)
(* a response used.                                                        *)
Reporting(r) ==
  LET c == call[Home[r]] IN
  /\ c.at \in {"write_tokens", "check"} \/ (c.at = "breach" /\ c.of = "response")
  /\ c.run = r

DoneSpending == {r \in Runs : run[r] \in {"idle", "ending"} \/ Reporting(r)}

(* Tokens are only known after they are used, so a budget is overrun, but  *)
(* by at most one response of each run: no run asks the model again after  *)
(* the limit is passed (record_llm, lines 72-82, and the abort of          *)
(* CostBudgetLayer.on_event, lines 183-192).                               *)
OneResponseOver ==
  spent.tokens <= MaxTokens + LargestResponse * Cardinality(DoneSpending)

(* A breach stands until a run starts the budget anew: neither finish nor  *)
(* a cheaper call that still fits takes it back (finish, lines 117-123).   *)
BreachStands ==
  [][row.status = "breached" /\ row'.status # "breached"
       => row'.status = "active" /\ row'.calls = 0 /\ row'.units = 0 /\ row'.tokens = 0]_vars

(* Once the budget is breached, every run of the session stops, as long as *)
(* models and tools answer, unless it is started anew: a breach by a tool  *)
(* call or by another run reaches the run with its next response (check,   *)
(* lines 108-115, and on_event).                                           *)
BreachStopsRuns ==
  RunsGoOn => \A r \in Runs :
    row.status = "breached" /\ run[r] \in {"model", "tools"}
      ~> row.status # "breached" \/ run[r] \in {"ending", "idle"}
=============================================================================
