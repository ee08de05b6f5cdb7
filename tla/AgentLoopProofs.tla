--------------------------- MODULE AgentLoopProofs ---------------------------
(***************************************************************************)
(* Theorems about the agent runs of a session, for any runs, any bounds,   *)
(* any scenarios, and any number of hooks, commands and tool calls.        *)
(***************************************************************************)
EXTENDS AgentLoop, SequenceTheorems, FiniteSetTheorems, WellFoundedInduction, TLAPS

-----------------------------------------------------------------------------
(* What a step may do to the state of the runs.                             *)

\* Run r may change, within its type, and no other run does.
Changes(r) ==
  /\ run' \in [Runs -> RunState]
  /\ \A q \in Runs : q # r => run'[q] = run[q]

\* What a run has come to is what it was.
Keeps(r) ==
  /\ run'[r].turn = run[r].turn /\ run'[r].calls = run[r].calls
  /\ run'[r].checks = run[r].checks /\ run'[r].tokens = run[r].tokens
  /\ run'[r].dirty = run[r].dirty

\* It only goes from one place to the next.
Passes(r) ==
  /\ Changes(r) /\ Keeps(r) /\ run'[r].result = run[r].result
  /\ <<run[r].pc, run'[r].pc>> \in
       {<<"starting", "starting">>, <<"pausing", "pausing">>, <<"starting", "loop">>,
        <<"loop", "ending">>, <<"think", "call">>, <<"call", "think">>, <<"node", "tools">>,
        <<"noting", "ending">>}
  /\ UNCHANGED <<history, turns, status, checkpoints, checked, suspended, used, asked>>

(* A run's state after an update is of its type.                           *)
LEMMA Update ==
  ASSUME run \in [Runs -> RunState], NEW r \in Runs, NEW to \in RunState,
         run' = [run EXCEPT ![r] = to]
  PROVE  Changes(r) /\ run'[r] = to
BY DEF Changes

LEMMA MoveEffect ==
  ASSUME run \in [Runs -> RunState], NEW r \in Runs,
         NEW pc \in {"starting", "loop", "think", "call", "node", "tools", "pausing", "noting",
                     "ending"},
         Move(r, pc)
  PROVE  /\ Changes(r) /\ Keeps(r)
         /\ run'[r].pc = pc /\ run'[r].result = run[r].result
<1> DEFINE to == [run[r] EXCEPT !.pc = pc]
<1>1. run[r] \in RunState
  OBVIOUS
<1>2. /\ to \in RunState /\ to.pc = pc /\ to.turn = run[r].turn /\ to.calls = run[r].calls
      /\ to.checks = run[r].checks /\ to.tokens = run[r].tokens /\ to.dirty = run[r].dirty
      /\ to.result = run[r].result
  BY <1>1 DEF RunState
<1>3. run' = [run EXCEPT ![r] = to]
  BY DEF Move
<1> HIDE DEF to
<1>4. Changes(r) /\ run'[r] = to
  BY <1>2, <1>3, Update
<1>5. QED
  BY <1>2, <1>4 DEF Keeps

LEMMA OverEffect ==
  ASSUME run \in [Runs -> RunState], NEW r \in Runs, NEW result \in Outcome, Over(r, result)
  PROVE  /\ Changes(r) /\ Keeps(r)
         /\ run'[r].pc = "done" /\ run'[r].result = result
<1> DEFINE to == [run[r] EXCEPT !.pc = "done", !.result = result]
<1>1. run[r] \in RunState
  OBVIOUS
<1>2. /\ to \in RunState /\ to.pc = "done" /\ to.turn = run[r].turn /\ to.calls = run[r].calls
      /\ to.checks = run[r].checks /\ to.tokens = run[r].tokens /\ to.dirty = run[r].dirty
      /\ to.result = result
  BY <1>1 DEF RunState
<1>3. run' = [run EXCEPT ![r] = to]
  BY DEF Over
<1> HIDE DEF to
<1>4. Changes(r) /\ run'[r] = to
  BY <1>2, <1>3, Update
<1>5. QED
  BY <1>2, <1>4 DEF Keeps

LEMMA HookEffect ==
  ASSUME run \in [Runs -> RunState], NEW r \in Runs, RunHook(r)
  PROVE  Passes(r)
<1> DEFINE to == [run[r] EXCEPT !.hook = @ + 1]
<1>1. run[r] \in RunState /\ run[r].hook + 1 \in Nat
  BY DEF RunState
<1>2. /\ to \in RunState /\ to.pc = run[r].pc /\ to.turn = run[r].turn /\ to.calls = run[r].calls
      /\ to.checks = run[r].checks /\ to.tokens = run[r].tokens /\ to.dirty = run[r].dirty
      /\ to.result = run[r].result
  BY <1>1 DEF RunState
<1>3. /\ run' = [run EXCEPT ![r] = to]
      /\ run[r].pc \in {"starting", "pausing"}
      /\ UNCHANGED <<history, turns, status, checkpoints, checked, suspended, used, asked>>
  BY DEF RunHook, At
<1> HIDE DEF to
<1>4. Changes(r) /\ run'[r] = to
  BY <1>2, <1>3, Update
<1>5. QED
  BY <1>2, <1>3, <1>4 DEF Keeps, Passes

LEMMA RetryEffect ==
  ASSUME run \in [Runs -> RunState], MaxRetries \in Nat, NEW r \in Runs, Retry(r)
  PROVE  Passes(r)
<1> DEFINE to == [run[r] EXCEPT !.pc = "think", !.attempt = @ + 1]
<1>1. run[r] \in RunState /\ run[r].attempt + 1 \in 0..MaxRetries
  BY DEF Retry, RunState
<1>2. /\ to \in RunState /\ to.pc = "think" /\ to.turn = run[r].turn /\ to.calls = run[r].calls
      /\ to.checks = run[r].checks /\ to.tokens = run[r].tokens /\ to.dirty = run[r].dirty
      /\ to.result = run[r].result
  BY <1>1 DEF RunState
<1>3. /\ run' = [run EXCEPT ![r] = to]
      /\ run[r].pc = "call"
      /\ UNCHANGED <<history, turns, status, checkpoints, checked, suspended, used, asked>>
  BY DEF Retry, At
<1> HIDE DEF to
<1>4. Changes(r) /\ run'[r] = to
  BY <1>2, <1>3, Update
<1>5. QED
  BY <1>2, <1>3, <1>4 DEF Keeps, Passes

PassingStep(r) ==
  \/ RunHook(r) \/ EnterLoop(r) \/ OutOfTurns(r) \/ CallModel(r) \/ Retry(r) \/ NodeStart(r)
  \/ AfterTurn(r)

LEMMA PassEffect ==
  ASSUME run \in [Runs -> RunState], MaxRetries \in Nat, NEW r \in Runs, PassingStep(r)
  PROVE  Passes(r)
<1>1. CASE EnterLoop(r)
  BY <1>1, MoveEffect DEF EnterLoop, At, Passes
<1>2. CASE OutOfTurns(r)
  BY <1>2, MoveEffect DEF OutOfTurns, At, Passes
<1>3. CASE CallModel(r)
  BY <1>3, MoveEffect DEF CallModel, At, Passes
<1>4. CASE NodeStart(r)
  BY <1>4, MoveEffect DEF NodeStart, At, Passes
<1>5. CASE AfterTurn(r)
  BY <1>5, MoveEffect DEF AfterTurn, At, Passes
<1>6. QED
  BY <1>1, <1>2, <1>3, <1>4, <1>5, HookEffect, RetryEffect DEF PassingStep

LEMMA TurnEffect ==
  ASSUME run \in [Runs -> RunState], NEW r \in Runs, StartTurn(r), run[r].turn + 1 \in 0..MaxTurns,
         MaxRetries \in Nat
  PROVE  /\ Changes(r)
         /\ run'[r].pc = "think" /\ run'[r].turn = run[r].turn + 1 /\ run'[r].checks = <<>>
         /\ run'[r].calls = run[r].calls /\ run'[r].tokens = run[r].tokens
         /\ run'[r].dirty = run[r].dirty /\ run'[r].result = run[r].result
<1> DEFINE to == [run[r] EXCEPT !.pc = "think", !.turn = @ + 1, !.attempt = 0, !.checks = <<>>]
<1>1. run[r] \in RunState /\ <<>> \in Checks /\ 0 \in 0..MaxRetries
  BY EmptySeq DEF Checks
<1>2. /\ to \in RunState /\ to.pc = "think" /\ to.turn = run[r].turn + 1
      /\ to.calls = run[r].calls /\ to.checks = <<>> /\ to.tokens = run[r].tokens
      /\ to.dirty = run[r].dirty /\ to.result = run[r].result
  BY <1>1 DEF RunState
<1>3. run' = [run EXCEPT ![r] = to]
  BY DEF StartTurn
<1> HIDE DEF to
<1>4. QED
  BY <1>2, <1>3, Update

LEMMA StateEffect ==
  ASSUME run \in [Runs -> RunState], NEW r \in Runs, NEW tokens \in Nat
  PROVE  LET told == [run[r] EXCEPT !.tokens = @ + tokens] IN
         /\ \A result \in Outcome :
              run' = [run EXCEPT ![r] = [told EXCEPT !.pc = "done", !.result = result]] =>
              /\ Changes(r)
              /\ run'[r].pc = "done" /\ run'[r].turn = run[r].turn
              /\ run'[r].calls = run[r].calls /\ run'[r].checks = run[r].checks
              /\ run'[r].tokens = run[r].tokens + tokens
              /\ run'[r].dirty = run[r].dirty /\ run'[r].result = result
         /\ run' = [run EXCEPT ![r] = [told EXCEPT !.pc = "noting"]] =>
              /\ Changes(r)
              /\ run'[r].pc = "noting" /\ run'[r].turn = run[r].turn
              /\ run'[r].calls = run[r].calls /\ run'[r].checks = run[r].checks
              /\ run'[r].tokens = run[r].tokens + tokens
              /\ run'[r].dirty = run[r].dirty /\ run'[r].result = run[r].result
         /\ \A calls \in Seq({"running"}) :
              run' = [run EXCEPT ![r] = [told EXCEPT !.pc = "node", !.calls = calls]] =>
              /\ Changes(r)
              /\ run'[r].pc = "node" /\ run'[r].turn = run[r].turn
              /\ run'[r].calls = calls /\ run'[r].checks = run[r].checks
              /\ run'[r].tokens = run[r].tokens + tokens
              /\ run'[r].dirty = run[r].dirty /\ run'[r].result = run[r].result
<1> DEFINE told == [run[r] EXCEPT !.tokens = @ + tokens]
<1>1. run[r] \in RunState /\ run[r].tokens + tokens \in Nat
  BY DEF RunState
<1>2. /\ told \in RunState /\ told.turn = run[r].turn /\ told.calls = run[r].calls
      /\ told.checks = run[r].checks /\ told.tokens = run[r].tokens + tokens
      /\ told.dirty = run[r].dirty /\ told.result = run[r].result
  BY <1>1 DEF RunState
<1> HIDE DEF told
<1>3. ASSUME NEW result \in Outcome,
             run' = [run EXCEPT ![r] = [told EXCEPT !.pc = "done", !.result = result]]
      PROVE  /\ Changes(r)
             /\ run'[r].pc = "done" /\ run'[r].turn = run[r].turn
             /\ run'[r].calls = run[r].calls /\ run'[r].checks = run[r].checks
             /\ run'[r].tokens = run[r].tokens + tokens
             /\ run'[r].dirty = run[r].dirty /\ run'[r].result = result
  <2> DEFINE to == [told EXCEPT !.pc = "done", !.result = result]
  <2>1. /\ to \in RunState /\ to.pc = "done" /\ to.turn = told.turn /\ to.calls = told.calls
        /\ to.checks = told.checks /\ to.tokens = told.tokens /\ to.dirty = told.dirty
        /\ to.result = result
    BY <1>2 DEF RunState
  <2>2. run' = [run EXCEPT ![r] = to]
    BY <1>3
  <2> HIDE DEF to
  <2>3. QED
    BY <1>2, <2>1, <2>2, Update
<1>4. ASSUME run' = [run EXCEPT ![r] = [told EXCEPT !.pc = "noting"]]
      PROVE  /\ Changes(r)
             /\ run'[r].pc = "noting" /\ run'[r].turn = run[r].turn
             /\ run'[r].calls = run[r].calls /\ run'[r].checks = run[r].checks
             /\ run'[r].tokens = run[r].tokens + tokens
             /\ run'[r].dirty = run[r].dirty /\ run'[r].result = run[r].result
  <2> DEFINE to == [told EXCEPT !.pc = "noting"]
  <2>1. /\ to \in RunState /\ to.pc = "noting" /\ to.turn = told.turn /\ to.calls = told.calls
        /\ to.checks = told.checks /\ to.tokens = told.tokens /\ to.dirty = told.dirty
        /\ to.result = told.result
    BY <1>2 DEF RunState
  <2>2. run' = [run EXCEPT ![r] = to]
    BY <1>4
  <2> HIDE DEF to
  <2>3. QED
    BY <1>2, <2>1, <2>2, Update
<1>5. ASSUME NEW calls \in Seq({"running"}),
             run' = [run EXCEPT ![r] = [told EXCEPT !.pc = "node", !.calls = calls]]
      PROVE  /\ Changes(r)
             /\ run'[r].pc = "node" /\ run'[r].turn = run[r].turn
             /\ run'[r].calls = calls /\ run'[r].checks = run[r].checks
             /\ run'[r].tokens = run[r].tokens + tokens
             /\ run'[r].dirty = run[r].dirty /\ run'[r].result = run[r].result
  <2> DEFINE to == [told EXCEPT !.pc = "node", !.calls = calls]
  <2>0. calls \in Seq({"running", "done", "wrote", "ask", "lost"})
    BY SeqMonotonic
  <2>1. /\ to \in RunState /\ to.pc = "node" /\ to.turn = told.turn /\ to.calls = calls
        /\ to.checks = told.checks /\ to.tokens = told.tokens /\ to.dirty = told.dirty
        /\ to.result = told.result
    BY <1>2, <2>0 DEF RunState
  <2>2. run' = [run EXCEPT ![r] = to]
    BY <1>5
  <2> HIDE DEF to
  <2>3. QED
    BY <1>2, <2>1, <2>2, Update
<1>6. QED
  BY <1>3, <1>4, <1>5 DEF told

LEMMA ToolEffect ==
  ASSUME run \in [Runs -> RunState], NEW r \in Runs, NEW i \in DOMAIN run[r].calls,
         NEW outcome \in {"done", "wrote", "ask", "lost"}, ToolReturns(r, i, outcome)
  PROVE  /\ Changes(r)
         /\ run'[r].pc = run[r].pc /\ run'[r].turn = run[r].turn
         /\ Len(run'[r].calls) = Len(run[r].calls)
         /\ DOMAIN run'[r].calls = DOMAIN run[r].calls
         /\ run'[r].calls[i] = outcome
         /\ \A j \in DOMAIN run[r].calls : j # i => run'[r].calls[j] = run[r].calls[j]
         /\ run'[r].checks = run[r].checks /\ run'[r].tokens = run[r].tokens
         /\ run'[r].dirty = (run[r].dirty \/ outcome = "wrote")
         /\ run'[r].result = run[r].result
<1> DEFINE All == {"running", "done", "wrote", "ask", "lost"}
           calls == [run[r].calls EXCEPT ![i] = outcome]
           dirty == run[r].dirty \/ outcome = "wrote"
           to == [run[r] EXCEPT !.calls = calls, !.dirty = dirty]
<1>1. run[r] \in RunState /\ run[r].calls \in Seq(All) /\ dirty \in BOOLEAN
  BY DEF RunState
<1>2. DOMAIN run[r].calls = 1..Len(run[r].calls) /\ Len(run[r].calls) \in Nat
  BY <1>1, LenProperties
<1>3. /\ calls \in Seq(All) /\ Len(calls) = Len(run[r].calls)
      /\ calls[i] = outcome
      /\ \A j \in DOMAIN run[r].calls : j # i => calls[j] = run[r].calls[j]
  BY <1>1, <1>2, ExceptSeq
<1>4. DOMAIN calls = DOMAIN run[r].calls
  BY <1>1
<1>5. run' = [run EXCEPT ![r] = to]
  BY DEF ToolReturns
<1> HIDE DEF calls, dirty
<1>6. /\ to \in RunState /\ to.pc = run[r].pc /\ to.turn = run[r].turn /\ to.calls = calls
      /\ to.checks = run[r].checks /\ to.tokens = run[r].tokens /\ to.dirty = dirty
      /\ to.result = run[r].result
  BY <1>1, <1>3 DEF RunState
<1> HIDE DEF to
<1>7. Changes(r) /\ run'[r] = to
  BY <1>5, <1>6, Update
<1>8. QED
  BY <1>3, <1>4, <1>6, <1>7 DEF dirty

LEMMA PauseEffect ==
  ASSUME run \in [Runs -> RunState], NEW r \in Runs,
         run' = [run EXCEPT ![r].pc = "pausing", ![r].hook = 0]
  PROVE  /\ Changes(r) /\ Keeps(r)
         /\ run'[r].pc = "pausing" /\ run'[r].result = run[r].result
<1> DEFINE to == [run[r] EXCEPT !.pc = "pausing", !.hook = 0]
<1>1. run[r] \in RunState
  OBVIOUS
<1>2. /\ to \in RunState /\ to.pc = "pausing" /\ to.turn = run[r].turn /\ to.calls = run[r].calls
      /\ to.checks = run[r].checks /\ to.tokens = run[r].tokens /\ to.dirty = run[r].dirty
      /\ to.result = run[r].result
  BY <1>1 DEF RunState
<1>3. run' = [run EXCEPT ![r] = to]
  OBVIOUS
<1> HIDE DEF to
<1>4. Changes(r) /\ run'[r] = to
  BY <1>2, <1>3, Update
<1>5. QED
  BY <1>2, <1>4 DEF Keeps

LEMMA RestartEffect ==
  ASSUME run \in [Runs -> RunState], Restart
  PROVE  /\ run' \in [Runs -> RunState]
         /\ \A r \in Runs : Keeps(r)
         /\ \A r \in Runs : r \in Active => run'[r].pc = "done" /\ run'[r].result = "interrupted"
         /\ \A r \in Runs : r \notin Active => run'[r] = run[r]
<1> DEFINE to(r) == [run[r] EXCEPT !.pc = "done", !.result = "interrupted"]
<1>1. ASSUME NEW r \in Runs
      PROVE  /\ to(r) \in RunState /\ to(r).pc = "done" /\ to(r).turn = run[r].turn
             /\ to(r).calls = run[r].calls /\ to(r).checks = run[r].checks
             /\ to(r).tokens = run[r].tokens /\ to(r).dirty = run[r].dirty
             /\ to(r).result = "interrupted"
  <2>1. run[r] \in RunState
    OBVIOUS
  <2>2. QED
    BY <2>1 DEF RunState, Outcome
<1>2. run' = [r \in Runs |-> IF r \in Active THEN to(r) ELSE run[r]]
  BY DEF Restart
<1> HIDE DEF to
<1>3. QED
  BY <1>1, <1>2 DEF Keeps

-----------------------------------------------------------------------------
(* What taking a response comes to.                                         *)

Exceeds(r, tokens) ==
  /\ used + tokens > MaxTokens
  /\ FinishTurn(r, "aborted") /\ status' = "aborted" /\ used' = 0 /\ UNCHANGED history
  /\ Changes(r)
  /\ run'[r].pc = "done" /\ run'[r].turn = run[r].turn
  /\ run'[r].calls = run[r].calls /\ run'[r].checks = run[r].checks
  /\ run'[r].tokens = run[r].tokens + tokens
  /\ run'[r].dirty = run[r].dirty /\ run'[r].result = "aborted"

Says(r, tokens) ==
  /\ used + tokens <= MaxTokens
  /\ FinishTurn(r, "completed") /\ UNCHANGED status /\ used' = used + tokens
  /\ history' = Append(history, Message("assistant", <<r, run[r].turn>>, 0))
  /\ Changes(r)
  /\ run'[r].pc = "noting" /\ run'[r].turn = run[r].turn
  /\ run'[r].calls = run[r].calls /\ run'[r].checks = run[r].checks
  /\ run'[r].tokens = run[r].tokens + tokens
  /\ run'[r].dirty = run[r].dirty /\ run'[r].result = run[r].result

Asks(r, n, tokens) ==
  /\ used + tokens <= MaxTokens
  /\ UNCHANGED <<turns, status>> /\ used' = used + tokens
  /\ history' = Append(history, Message("assistant", <<r, run[r].turn>>, n))
  /\ Changes(r)
  /\ run'[r].pc = "node" /\ run'[r].turn = run[r].turn
  /\ Len(run'[r].calls) = n /\ \A i \in DOMAIN run'[r].calls : run'[r].calls[i] = "running"
  /\ run'[r].checks = run[r].checks
  /\ run'[r].tokens = run[r].tokens + tokens
  /\ run'[r].dirty = run[r].dirty /\ run'[r].result = run[r].result

LEMMA TakeCases ==
  ASSUME run \in [Runs -> RunState], used \in Nat, MaxTokens \in Nat,
         NEW r \in Runs, NEW n \in 0..MaxCalls, NEW tokens \in Nat, Take(r, n, tokens)
  PROVE  Exceeds(r, tokens) \/ Says(r, tokens) \/ (n > 0 /\ Asks(r, n, tokens))
<1> DEFINE told == [run[r] EXCEPT !.tokens = @ + tokens]
<1>1. CASE used + tokens > MaxTokens
  <2>1. /\ FinishTurn(r, "aborted") /\ status' = "aborted" /\ used' = 0 /\ UNCHANGED history
        /\ run' = [run EXCEPT ![r] = [told EXCEPT !.pc = "done", !.result = "aborted"]]
    BY <1>1 DEF Take, Metered
  <2>2. QED
    BY <1>1, <2>1, StateEffect DEF Exceeds, Outcome
<1>2. CASE ~(used + tokens > MaxTokens) /\ n = 0
  <2>1. /\ FinishTurn(r, "completed") /\ UNCHANGED status /\ used' = used + tokens
        /\ history' = Append(history, Message("assistant", <<r, run[r].turn>>, 0))
        /\ run' = [run EXCEPT ![r] = [told EXCEPT !.pc = "noting"]]
    BY <1>2 DEF Take, Metered, Say
  <2>2. used + tokens <= MaxTokens
    BY <1>2
  <2>3. QED
    BY <2>1, <2>2, StateEffect DEF Says
<1>3. CASE ~(used + tokens > MaxTokens) /\ n # 0
  <2> DEFINE calls == [i \in 1..n |-> "running"]
  <2>1. /\ UNCHANGED <<turns, status>> /\ used' = used + tokens
        /\ history' = Append(history, Message("assistant", <<r, run[r].turn>>, n))
        /\ run' = [run EXCEPT ![r] = [told EXCEPT !.pc = "node", !.calls = calls]]
    BY <1>3 DEF Take, Metered, Say
  <2>2. used + tokens <= MaxTokens /\ n > 0
    BY <1>3
  <2>3. /\ calls \in Seq({"running"}) /\ Len(calls) = n
        /\ \A i \in DOMAIN calls : calls[i] = "running"
    BY <2>2, IsASeq
  <2> HIDE DEF calls
  <2>4. /\ Changes(r)
        /\ run'[r].pc = "node" /\ run'[r].turn = run[r].turn
        /\ run'[r].calls = calls /\ run'[r].checks = run[r].checks
        /\ run'[r].tokens = run[r].tokens + tokens
        /\ run'[r].dirty = run[r].dirty /\ run'[r].result = run[r].result
    BY <2>1, <2>3, StateEffect
  <2>5. QED
    BY <2>1, <2>2, <2>3, <2>4 DEF Asks
<1>4. QED
  BY <1>1, <1>2, <1>3

-----------------------------------------------------------------------------
(* What the statements of SessionTables and Verification make of the        *)
(* tables.                                                                  *)

TurnStatus == {"running", "completed", "error", "aborted"}

LEMMA MessageType ==
  ASSUME NEW role \in {"user", "assistant", "tool"}, NEW of \in Turn, NEW n \in 0..MaxCalls
  PROVE  /\ Message(role, of, n) \in Messages
         /\ Message(role, of, n).role = role /\ Message(role, of, n).of = of
         /\ Message(role, of, n).n = n
BY DEF Message, Messages

(* finish_turn closes the row of the run's turn, if it has one.            *)
LEMMA FinishEffect ==
  ASSUME turns \in [Runs -> Seq(TurnStatus)], NEW r \in Runs,
         NEW outcome \in {"completed", "error", "aborted"}, FinishTurn(r, outcome)
  PROVE  /\ turns' \in [Runs -> Seq(TurnStatus)]
         /\ \A q \in Runs : q # r => turns'[q] = turns[q]
         /\ \A q \in Runs : /\ Len(turns'[q]) = Len(turns[q])
                            /\ DOMAIN turns'[q] = DOMAIN turns[q]
         /\ \A t \in DOMAIN turns[r] :
              turns'[r][t] = IF t = run[r].turn THEN outcome ELSE turns[r][t]
<1> DEFINE rows == turns[r]
           k == run[r].turn
           new == [rows EXCEPT ![k] = outcome]
<1>1. rows \in Seq(TurnStatus) /\ outcome \in TurnStatus
  BY DEF TurnStatus
<1>2. DOMAIN rows = 1..Len(rows) /\ Len(rows) \in Nat
  BY <1>1, LenProperties
<1>3. turns' = [turns EXCEPT ![r] = new]
  BY DEF FinishTurn, Finished
<1>4. /\ new \in Seq(TurnStatus) /\ Len(new) = Len(rows) /\ DOMAIN new = DOMAIN rows
      /\ \A t \in DOMAIN rows : new[t] = IF t = k THEN outcome ELSE rows[t]
  <2>1. CASE k \in 1..Len(rows)
    BY <1>1, <1>2, <2>1, ExceptSeq
  <2>2. CASE k \notin DOMAIN rows
    <3>1. new = rows
      BY <1>1, <1>2, <2>2
    <3>2. QED
      BY <1>1, <2>2, <3>1
  <2>3. QED
    BY <1>2, <2>1, <2>2
<1> HIDE DEF new, TurnStatus
<1>5. QED
  BY <1>1, <1>3, <1>4

(* start_turn adds a running row.                                          *)
LEMMA WithTurnEffect ==
  ASSUME turns \in [Runs -> Seq(TurnStatus)], NEW r \in Runs, StartTurn(r)
  PROVE  /\ turns' \in [Runs -> Seq(TurnStatus)]
         /\ \A q \in Runs : q # r => turns'[q] = turns[q]
         /\ Len(turns'[r]) = Len(turns[r]) + 1
         /\ DOMAIN turns'[r] = 1..(Len(turns[r]) + 1)
         /\ \A t \in 1..Len(turns[r]) : turns'[r][t] = turns[r][t]
<1> DEFINE new == Append(turns[r], "running")
<1>1. turns[r] \in Seq(TurnStatus) /\ "running" \in TurnStatus
  BY DEF TurnStatus
<1>2. turns' = [turns EXCEPT ![r] = new]
  BY DEF StartTurn, WithTurn
<1>3. /\ new \in Seq(TurnStatus) /\ Len(new) = Len(turns[r]) + 1
      /\ \A t \in 1..Len(turns[r]) : new[t] = turns[r][t]
  BY <1>1, AppendProperties
<1>4. DOMAIN new = 1..(Len(turns[r]) + 1)
  BY <1>3, LenProperties
<1> HIDE DEF new, TurnStatus
<1>5. QED
  BY <1>2, <1>3, <1>4

(* A set of naturals has a smallest element.                               *)
Before == OpToRel(<, Nat)

LEMMA Smallest ==
  ASSUME NEW S, S \subseteq Nat, S # {}
  PROVE  \E x \in S : \A y \in S : x <= y
<1>1. IsWellFoundedOn(Before, Nat)
  BY NatLessThanWellFounded DEF OpToRel, Before
<1>2. PICK x \in S : \A y \in S : ~(<<y, x>> \in Before)
  BY <1>1, WFMin
<1>3. ASSUME NEW y \in S
      PROVE  x <= y
  <2>1. x \in Nat /\ y \in Nat /\ <<y, x>> \in Nat \X Nat
    OBVIOUS
  <2>2. ~(y < x)
    BY <1>2, <2>1 DEF Before, OpToRel
  <2>3. QED
    BY <2>1, <2>2
<1>4. QED
  BY <1>3

Fingerprints == [commands : Nat, output : Outputs]

(* A report is of its turn, passed when every check of it has, and brings  *)
(* at most one case more.                                                  *)
LEMMA ReportType ==
  ASSUME NEW of \in Turn, NEW checks \in Checks
  PROVE  /\ Report(of, checks) \in [of : Turn, checks : Checks, passed : BOOLEAN]
         /\ Report(of, checks).of = of
         /\ Report(of, checks).passed = (\A i \in DOMAIN checks : checks[i] = "passed")
         /\ ~Report(of, checks).passed => Fingerprint(Report(of, checks)) \in Fingerprints
<1>1. /\ Report(of, checks) \in [of : Turn, checks : Checks, passed : BOOLEAN]
      /\ Report(of, checks).of = of /\ Report(of, checks).checks = checks
      /\ Report(of, checks).passed = (\A i \in DOMAIN checks : checks[i] = "passed")
  BY DEF Report
<1>2. ASSUME ~Report(of, checks).passed
      PROVE  Fingerprint(Report(of, checks)) \in Fingerprints
  <2> DEFINE failed == {i \in DOMAIN checks : checks[i] # "passed"}
             first == CHOOSE i \in failed : \A j \in failed : i <= j
  <2>1. /\ Len(checks) \in Nat /\ DOMAIN checks = 1..Len(checks)
        /\ checks \in [1..Len(checks) -> {"passed"} \cup Outputs]
    BY LenProperties DEF Checks
  <2>2. failed \subseteq Nat /\ failed # {}
    BY <1>1, <1>2, <2>1
  <2>3. \E i \in failed : \A j \in failed : i <= j
    BY <2>2, Smallest
  <2>4. first \in failed
    BY <2>3
  <2>5. checks[first] \in Outputs
    BY <2>1, <2>4
  <2>6. Fingerprint(Report(of, checks)) = [commands |-> Len(checks), output |-> checks[first]]
    BY <1>1 DEF Fingerprint
  <2> HIDE DEF first
  <2>7. QED
    BY <2>1, <2>5, <2>6 DEF Fingerprints
<1>3. QED
  BY <1>1, <1>2

ReportRows == [of : Turn, checks : Checks, passed : BOOLEAN]

CaseRows == [fingerprint : Fingerprints, source : Turn]

LEMMA ReportsEffect ==
  ASSUME reports \in Seq(ReportRows), cases \subseteq CaseRows,
         NEW of \in Turn, NEW checks \in Checks, Reports(of, checks)
  PROVE  /\ reports' \in Seq(ReportRows) /\ cases' \subseteq CaseRows
         /\ Len(reports') = Len(reports) + 1
         /\ DOMAIN reports = 1..Len(reports) /\ DOMAIN reports' = 1..(Len(reports) + 1)
         /\ \A i \in DOMAIN reports : reports'[i] = reports[i]
         /\ reports'[Len(reports) + 1].of = of
         /\ reports'[Len(reports) + 1].passed = (\A i \in DOMAIN checks : checks[i] = "passed")
<1> DEFINE report == Report(of, checks)
<1>1. /\ report \in ReportRows /\ report.of = of
      /\ report.passed = (\A i \in DOMAIN checks : checks[i] = "passed")
      /\ ~report.passed => Fingerprint(report) \in Fingerprints
  BY ReportType DEF ReportRows
<1>2. reports' = Append(reports, report) /\ cases' = Captured(cases, report)
  BY DEF Reports, WithReport
<1> HIDE DEF report
<1>3. cases' \subseteq CaseRows
  <2>1. CASE report.passed
    BY <1>2, <2>1 DEF Captured
  <2>2. CASE ~report.passed
    <3>1. [fingerprint |-> Fingerprint(report), source |-> report.of] \in CaseRows
      BY <1>1, <2>2 DEF CaseRows
    <3>2. QED
      BY <1>2, <2>2, <3>1 DEF Captured
  <2>3. QED
    BY <2>1, <2>2
<1>4. /\ reports' \in Seq(ReportRows) /\ Len(reports') = Len(reports) + 1
      /\ \A i \in 1..Len(reports) : reports'[i] = reports[i]
      /\ reports'[Len(reports) + 1] = report
  BY <1>1, <1>2, AppendProperties
<1>5. DOMAIN reports = 1..Len(reports) /\ DOMAIN reports' = 1..(Len(reports) + 1)
  BY <1>4, LenProperties
<1>6. QED
  BY <1>1, <1>3, <1>4, <1>5

(* The answers of a turn are tool messages of it, one for each call; when  *)
(* no call is lost, the k-th answer is that of the k-th call.              *)
LEMMA AnswersType ==
  ASSUME NEW r \in Runs, run[r] \in RunState, run[r].turn \in 0..MaxTurns, MaxCalls \in Nat,
         Len(run[r].calls) <= MaxCalls
  PROVE  /\ Answers(r) \in Seq(Messages)
         /\ Len(Answers(r)) = Len(run[r].calls)
         /\ \A k \in DOMAIN run[r].calls : Answers(r)[k].role = "tool"
         /\ (\A i \in DOMAIN run[r].calls : run[r].calls[i] # "lost") =>
              \A k \in DOMAIN run[r].calls :
                Answers(r)[k] = Message("tool", <<r, run[r].turn>>, k)
<1> DEFINE calls == run[r].calls
           of == <<r, run[r].turn>>
           IsKth(k, i) == calls[i] # "lost" /\ Cardinality({j \in 1..i : calls[j] # "lost"}) = k
           Kth(k) == IF \E i \in DOMAIN calls : IsKth(k, i)
                     THEN CHOOSE i \in DOMAIN calls : IsKth(k, i) ELSE 0
<1>1. /\ Len(calls) \in Nat /\ DOMAIN calls = 1..Len(calls) /\ of \in Turn
      /\ Len(calls) <= MaxCalls
  BY LenProperties DEF RunState, Turn
<1>2. Answers(r) = [k \in 1..Len(calls) |-> Message("tool", of, Kth(k))]
  BY <1>1 DEF Answers, Answer
<1>3. ASSUME NEW k \in 1..Len(calls)
      PROVE  Kth(k) \in 0..MaxCalls
  <2> HIDE DEF IsKth
  <2>1. Kth(k) \in 1..Len(calls) \/ Kth(k) = 0
    BY <1>1
  <2> HIDE DEF Kth
  <2>2. QED
    BY <1>1, <2>1
<1>4. ASSUME \A i \in DOMAIN calls : calls[i] # "lost", NEW k \in 1..Len(calls)
      PROVE  Kth(k) = k
  <2>1. ASSUME NEW i \in 1..Len(calls)
        PROVE  Cardinality({j \in 1..i : calls[j] # "lost"}) = i
    <3>1. {j \in 1..i : calls[j] # "lost"} = 1..i
      BY <1>1, <1>4
    <3>2. Cardinality(1..i) = i
      BY FS_Interval
    <3>3. QED
      BY <3>1, <3>2
  <2>2. \A i \in DOMAIN calls : IsKth(k, i) <=> i = k
    BY <1>1, <1>4, <2>1
  <2> HIDE DEF IsKth
  <2>3. QED
    BY <1>1, <2>2
<1> HIDE DEF Kth
<1>5. \A k \in 1..Len(calls) : /\ Message("tool", of, Kth(k)) \in Messages
                               /\ Message("tool", of, Kth(k)).role = "tool"
  BY <1>1, <1>3, MessageType
<1>6. Answers(r) \in Seq(Messages)
  BY <1>1, <1>2, <1>5, IsASeq
<1>7. Len(Answers(r)) = Len(calls)
  BY <1>1, <1>2
<1>8. QED
  BY <1>1, <1>2, <1>4, <1>5, <1>6, <1>7

LEMMA InjectedType ==
  ASSUME NEW r \in Runs, run[r] \in RunState, MaxCalls \in Nat
  PROVE  /\ Injected(r) \in Seq(Messages)
         /\ Injected(r) # <<>> => /\ Len(Injected(r)) = 1
                                  /\ Injected(r)[1] = Message("user", <<r, run[r].turn>>, 0)
         /\ (\E i \in DOMAIN run[r].checks : run[r].checks[i] # "passed") => Injected(r) # <<>>
<1>1. <<r, run[r].turn>> \in Turn /\ 0 \in 0..MaxCalls
  BY DEF RunState, Turn
<1>2. Message("user", <<r, run[r].turn>>, 0) \in Messages
  BY <1>1, MessageType
<1>3. QED
  BY <1>2, EmptySeq DEF Injected

CheckpointRows == [status : {"paused"}, turn : 1..MaxTurns, messages : Seq(Messages)]

LEMMA LatestType ==
  ASSUME checkpoints \in Seq(CheckpointRows)
  PROVE  /\ Latest(checkpoints).messages \in Seq(Messages)
         /\ Latest(checkpoints).status = "paused" =>
              \E i \in DOMAIN checkpoints : Latest(checkpoints) = checkpoints[i]
<1>1. /\ Len(checkpoints) \in Nat /\ DOMAIN checkpoints = 1..Len(checkpoints)
      /\ checkpoints # <<>> => Len(checkpoints) > 0
  BY LenProperties, EmptySeq
<1>2. CASE checkpoints = <<>>
  BY <1>2, EmptySeq DEF Latest
<1>3. CASE checkpoints # <<>>
  <2>1. checkpoints[Len(checkpoints)] \in CheckpointRows
    BY <1>1, <1>3, ElementOfSeq
  <2>2. Latest(checkpoints) = checkpoints[Len(checkpoints)]
    BY <1>3 DEF Latest, Last
  <2>3. Latest(checkpoints).messages \in Seq(Messages)
    BY <2>1, <2>2, Zenon DEF CheckpointRows
  <2>4. Len(checkpoints) \in DOMAIN checkpoints
    BY <1>1, <1>3
  <2>5. QED
    BY <2>2, <2>3, <2>4
<1>4. QED
  BY <1>2, <1>3

(* A restored conversation is that of a checkpoint, or what there was; an  *)
(* interrupted restoration leaves a conversation.                          *)
LEMMA ResumedType ==
  ASSUME checkpoints \in Seq(CheckpointRows), NEW messages \in Seq(Messages)
  PROVE  /\ Resumed(checkpoints, messages) \in Seq(Messages)
         /\ \/ Resumed(checkpoints, messages) = messages
            \/ \E i \in DOMAIN checkpoints : Resumed(checkpoints, messages) = checkpoints[i].messages
         /\ Interrupted(checkpoints) \subseteq Seq(Messages)
<1> DEFINE latest == Latest(checkpoints)
<1>1. /\ latest.messages \in Seq(Messages)
      /\ latest.status = "paused" => \E i \in DOMAIN checkpoints : latest = checkpoints[i]
  BY LatestType
<1>2. Resumed(checkpoints, messages) = IF latest.status = "paused" THEN latest.messages ELSE messages
  BY DEF Resumed
<1>3. Interrupted(checkpoints) = {SubSeq(latest.messages, 1, k) : k \in DOMAIN latest.messages}
  BY DEF Interrupted
<1> HIDE DEF latest
<1>4. ASSUME NEW k \in DOMAIN latest.messages
      PROVE  SubSeq(latest.messages, 1, k) \in Seq(Messages)
  <2>1. /\ DOMAIN latest.messages = 1..Len(latest.messages) /\ Len(latest.messages) \in Nat
        /\ \A i \in 1..Len(latest.messages) : latest.messages[i] \in Messages
    BY <1>1, LenProperties, ElementOfSeq
  <2>2. k \in Int /\ \A i \in 1..k : latest.messages[i] \in Messages
    BY <2>1
  <2>3. QED
    BY <2>2, SubSeqProperties
<1>5. QED
  BY <1>1, <1>2, <1>3, <1>4

-----------------------------------------------------------------------------
(* Type correctness, with what a run's record always tells.                 *)

Statuses == {"active", "completed", "max_turns", "aborted", "paused", "error"}

WaitingCalls == Runs \X (1..MaxTurns) \X (1..MaxCalls)

Types ==
  /\ history \in Seq(Messages)
  /\ turns \in [Runs -> Seq(TurnStatus)]
  /\ status \in Statuses
  /\ checkpoints \in Seq(CheckpointRows)
  /\ reports \in Seq(ReportRows)
  /\ cases \subseteq CaseRows
  /\ suspended \in BOOLEAN
  /\ used \in Nat
  /\ waiting \subseteq WaitingCalls /\ resuming \subseteq WaitingCalls
  /\ run \in [Runs -> RunState]
  /\ \A r \in Runs : Len(turns[r]) = run[r].turn
  /\ scenario \in Scenarios

\* The places inside of a turn
Turning == {"think", "call", "node", "tools", "pausing", "noting"}

Shaped(s) ==
  /\ Len(s.calls) <= MaxCalls
  /\ s.pc \in Turning => s.turn >= 1
  /\ s.pc \in {"idle", "starting"} => s.turn = 0 /\ s.tokens = 0 /\ ~s.dirty
  /\ s.pc # "done" => s.result = "none"
  /\ s.pc \in {"think", "call", "node"} => s.checks = <<>>
  /\ s.pc = "tools" /\ s.checks # <<>> => \A i \in DOMAIN s.calls : s.calls[i] # "running"

Shape == \A r \in Runs : Shaped(run[r])

\* No report is of a turn that has not begun.
ReportsOfTurns ==
  \A i \in DOMAIN reports : reports[i].of[2] <= run[reports[i].of[1]].turn

TypeInv == Types /\ Shape /\ used <= MaxTokens /\ ReportsOfTurns

LEMMA TypesOK == Types <=> TypeOK
BY DEF Types, TypeOK, TurnStatus, Statuses, CheckpointRows, ReportRows, CaseRows, Fingerprints,
       WaitingCalls

LEMMA ScenarioFacts ==
  ASSUME scenario \in Scenarios
  PROVE  /\ scenario.turns \in 1..MaxTurns /\ scenario.usages \subseteq Nat
         /\ scenario.commands \in Nat /\ scenario.runs \subseteq Runs
         /\ MaxTurns \in Nat \ {0} /\ MaxRetries \in Nat /\ MaxTokens \in Nat /\ MaxCalls \in Nat
BY LoopAssumption DEF Scenario

LEMMA TypeInit == Init => TypeInv
<1> SUFFICES ASSUME Init PROVE TypeInv
  OBVIOUS
<1>0. MaxTurns \in Nat \ {0} /\ MaxRetries \in Nat /\ MaxTokens \in Nat /\ MaxCalls \in Nat
  BY LoopAssumption
<1>1. <<>> \in Checks /\ <<>> \in Seq({"running", "done", "wrote", "ask", "lost"})
  BY EmptySeq DEF Checks
<1>2. Fresh \in RunState /\ Shaped(Fresh) /\ Fresh.turn = 0
  BY <1>0, <1>1, EmptySeq DEF Fresh, RunState, Outcome, Shaped, Turning
<1>3. Types
  BY <1>2, EmptySeq DEF Init, Types, Statuses
<1>4. QED
  BY <1>0, <1>2, <1>3 DEF Init, TypeInv, Shape, ReportsOfTurns

(* A step of one run, without a report, keeps the shape of them all.       *)
LEMMA Frame ==
  ASSUME TypeInv, NEW r \in Runs, Changes(r), Shaped(run'[r]), run'[r].turn >= run[r].turn,
         UNCHANGED reports
  PROVE  Shape' /\ ReportsOfTurns'
<1>1. Shape'
  BY DEF TypeInv, Shape, Changes
<1>2. ASSUME NEW i \in DOMAIN reports
      PROVE  reports[i].of[2] <= run'[reports[i].of[1]].turn
  <2>1. reports[i] \in ReportRows
    BY LenProperties, ElementOfSeq DEF TypeInv, Types
  <2>2. reports[i].of[1] \in Runs /\ reports[i].of[2] \in Nat
    BY <2>1, LoopAssumption DEF ReportRows, Turn
  <2>3. reports[i].of[2] <= run[reports[i].of[1]].turn
    BY DEF TypeInv, ReportsOfTurns
  <2>4. run[r].turn \in Nat /\ run'[r].turn \in Nat
    BY LoopAssumption DEF TypeInv, Types, Changes, RunState
  <2>5. QED
    BY <2>2, <2>3, <2>4 DEF Changes
<1>3. QED
  BY <1>1, <1>2 DEF ReportsOfTurns

LEMMA PassTypes ==
  ASSUME TypeInv, NEW r \in Runs, Passes(r), UNCHANGED scenario
  PROVE  TypeInv'
<1>1. Shaped(run'[r]) /\ run'[r].turn = run[r].turn
  BY DEF TypeInv, Shape, Shaped, Passes, Keeps, Turning
<1>2. Shape' /\ ReportsOfTurns'
  <2>1. run[r].turn \in Nat
    BY LoopAssumption DEF TypeInv, Types, RunState
  <2>2. QED
    BY <1>1, <2>1, Frame DEF Passes, checked
<1>3. Types'
  BY <1>1 DEF TypeInv, Types, Passes, Changes, checked, asked
<1>4. QED
  BY <1>2, <1>3 DEF TypeInv, Passes

(* The end of a run, whatever its result.                                  *)
LEMMA OverTypes ==
  ASSUME TypeInv, NEW r \in Runs, NEW result \in Outcome, Over(r, result),
         UNCHANGED <<reports, scenario>>
  PROVE  /\ Changes(r) /\ run'[r].turn = run[r].turn
         /\ Shape' /\ ReportsOfTurns'
<1>1. /\ Changes(r) /\ Keeps(r) /\ run'[r].pc = "done"
  BY OverEffect DEF TypeInv, Types
<1>2. Shaped(run'[r]) /\ run'[r].turn = run[r].turn
  BY <1>1 DEF TypeInv, Shape, Shaped, Keeps, Turning
<1>3. run[r].turn \in Nat
  BY LoopAssumption DEF TypeInv, Types, RunState
<1>4. QED
  BY <1>1, <1>2, <1>3, Frame

\* Steps that end a run, and write at most a message or the row of its turn
EndingStep(r) ==
  \/ Refuse(r) \/ OutOfTime(r) \/ GiveUp(r) \/ PauseEnds(r) \/ Finish(r) \/ Interrupt(r)
  \/ (TurnFails(r) /\ Over(r, "error"))

LEMMA EndTypes ==
  ASSUME TypeInv, NEW r \in Runs, EndingStep(r), UNCHANGED scenario
  PROVE  TypeInv'
<1>0. MaxTokens \in Nat /\ MaxCalls \in Nat
  BY LoopAssumption
<1>1. CASE Refuse(r)
  <2>1. Over(r, "aborted") /\ used' = 0 /\ status' = "aborted"
        /\ UNCHANGED <<turns, suspended, checkpoints, reports, cases, waiting, resuming>>
    BY <1>1 DEF Refuse, OverAndEnded, checked, asked
  <2>2. Changes(r) /\ run'[r].turn = run[r].turn /\ Shape' /\ ReportsOfTurns'
    BY <2>1, OverTypes DEF Outcome
  <2>3. history' \in Seq(Messages)
    <3>1. Message("user", <<r, 0>>, 0) \in Messages
      BY <1>0, LoopAssumption, MessageType DEF Turn
    <3>2. history \in Seq(Messages)
      BY DEF TypeInv, Types
    <3>3. Append(history, Message("user", <<r, 0>>, 0)) \in Seq(Messages)
      BY <3>1, <3>2, AppendProperties
    <3>4. QED
      BY <1>1, <3>2, <3>3 DEF Refuse, Say
  <2>4. Types'
    BY <2>1, <2>2, <2>3 DEF TypeInv, Types, Changes, Statuses
  <2>5. QED
    BY <1>0, <2>1, <2>2, <2>4 DEF TypeInv
<1>2. CASE OutOfTime(r)
  <2>1. Over(r, "max_turns") /\ status' = "max_turns"
        /\ UNCHANGED <<history, turns, checkpoints, reports, cases, suspended, used, waiting, resuming>>
    BY <1>2 DEF OutOfTime, checked, asked
  <2>2. Changes(r) /\ run'[r].turn = run[r].turn /\ Shape' /\ ReportsOfTurns'
    BY <2>1, OverTypes DEF Outcome
  <2>3. Types'
    BY <2>1, <2>2 DEF TypeInv, Types, Changes, Statuses
  <2>4. QED
    BY <2>1, <2>2, <2>3 DEF TypeInv
<1>3. CASE GiveUp(r)
  <2>1. Over(r, "error") /\ status' = "error" /\ FinishTurn(r, "error")
        /\ UNCHANGED <<history, checkpoints, reports, cases, suspended, used, waiting, resuming>>
    BY <1>3 DEF GiveUp, checked, asked
  <2>2. Changes(r) /\ run'[r].turn = run[r].turn /\ Shape' /\ ReportsOfTurns'
    BY <2>1, OverTypes DEF Outcome
  <2>3. /\ turns' \in [Runs -> Seq(TurnStatus)]
        /\ \A q \in Runs : Len(turns'[q]) = Len(turns[q])
    BY <2>1, FinishEffect DEF TypeInv, Types
  <2>4. Types'
    BY <2>1, <2>2, <2>3 DEF TypeInv, Types, Changes, Statuses
  <2>5. QED
    BY <2>1, <2>2, <2>4 DEF TypeInv
<1>4. CASE PauseEnds(r)
  <2>1. Over(r, "paused") /\ status' = "paused"
        /\ UNCHANGED <<history, turns, checkpoints, reports, cases, suspended, used, waiting, resuming>>
    BY <1>4 DEF PauseEnds, checked, asked
  <2>2. Changes(r) /\ run'[r].turn = run[r].turn /\ Shape' /\ ReportsOfTurns'
    BY <2>1, OverTypes DEF Outcome
  <2>3. Types'
    BY <2>1, <2>2 DEF TypeInv, Types, Changes, Statuses
  <2>4. QED
    BY <2>1, <2>2, <2>3 DEF TypeInv
<1>5. CASE Finish(r)
  <2>1. PICK blank \in BOOLEAN :
          /\ status' = Reviewed(r, blank) /\ OverAndEnded(r, Reviewed(r, blank))
          /\ UNCHANGED <<history, turns, checkpoints, reports, cases, suspended, waiting, resuming>>
    BY <1>5 DEF Finish, checked, asked
  <2>2. Reviewed(r, blank) \in {"completed", "max_turns", "error"}
    BY DEF Reviewed, LoopResult
  <2>3. Over(r, Reviewed(r, blank)) /\ used' = 0
    BY <2>1 DEF OverAndEnded
  <2>4. Changes(r) /\ run'[r].turn = run[r].turn /\ Shape' /\ ReportsOfTurns'
    BY <2>1, <2>2, <2>3, OverTypes DEF Outcome
  <2>5. Types'
    BY <2>1, <2>2, <2>3, <2>4 DEF TypeInv, Types, Changes, Statuses
  <2>6. QED
    BY <1>0, <2>3, <2>4, <2>5 DEF TypeInv
<1>6. CASE Interrupt(r)
  <2>1. Over(r, "interrupted")
        /\ UNCHANGED <<history, turns, status, checkpoints, reports, cases, suspended, used, waiting, resuming>>
    BY <1>6 DEF Interrupt, checked, asked
  <2>2. Changes(r) /\ run'[r].turn = run[r].turn /\ Shape' /\ ReportsOfTurns'
    BY <2>1, OverTypes DEF Outcome
  <2>3. Types'
    BY <2>1, <2>2 DEF TypeInv, Types, Changes, Statuses
  <2>4. QED
    BY <2>1, <2>2, <2>3 DEF TypeInv
<1>7. CASE TurnFails(r) /\ Over(r, "error")
  <2>1. FinishTurn(r, "error") /\ status' \in {status, "error"}
        /\ UNCHANGED <<history, checkpoints, reports, cases, suspended, used, waiting, resuming>>
    BY <1>7 DEF TurnFails, checked, asked
  <2>2. Changes(r) /\ run'[r].turn = run[r].turn /\ Shape' /\ ReportsOfTurns'
    BY <1>7, <2>1, OverTypes DEF Outcome
  <2>3. /\ turns' \in [Runs -> Seq(TurnStatus)]
        /\ \A q \in Runs : Len(turns'[q]) = Len(turns[q])
    BY <2>1, FinishEffect DEF TypeInv, Types
  <2>4. Types'
    BY <2>1, <2>2, <2>3 DEF TypeInv, Types, Changes, Statuses
  <2>5. QED
    BY <2>1, <2>2, <2>4 DEF TypeInv
<1>8. QED
  BY <1>1, <1>2, <1>3, <1>4, <1>5, <1>6, <1>7 DEF EndingStep

LEMMA StartTypes ==
  ASSUME TypeInv, NEW r \in Runs, Start(r), UNCHANGED scenario
  PROVE  TypeInv'
<1>0. MaxTokens \in Nat /\ MaxCalls \in Nat /\ run[r].turn \in Nat
  BY LoopAssumption DEF TypeInv, Types, RunState
<1>1. /\ Changes(r) /\ Keeps(r) /\ run'[r].pc = "starting" /\ run'[r].result = run[r].result
      /\ run[r].pc = "idle"
  BY MoveEffect DEF Start, At, TypeInv, Types
<1>2. Shaped(run'[r]) /\ run'[r].turn = run[r].turn
  BY <1>1 DEF TypeInv, Shape, Shaped, Keeps, Turning
<1>3. /\ history' = Append(history, Message("user", <<r, 0>>, 0)) /\ used' = 0
      /\ UNCHANGED <<turns, status, checkpoints, reports, cases, suspended, waiting, resuming>>
  BY DEF Start, Say, checked, asked
<1>4. history' \in Seq(Messages)
  <2>1. <<r, 0>> \in Turn /\ 0 \in 0..MaxCalls
    BY <1>0, LoopAssumption DEF Turn
  <2>2. Message("user", <<r, 0>>, 0) \in Messages /\ history \in Seq(Messages)
    BY <2>1, MessageType DEF TypeInv, Types
  <2>3. QED
    BY <1>3, <2>2, AppendProperties
<1>5. Shape' /\ ReportsOfTurns'
  BY <1>0, <1>1, <1>2, <1>3, Frame
<1>6. Types'
  BY <1>1, <1>2, <1>3, <1>4 DEF TypeInv, Types, Changes
<1>7. QED
  BY <1>0, <1>3, <1>5, <1>6 DEF TypeInv

LEMMA StartTurnTypes ==
  ASSUME TypeInv, NEW r \in Runs, StartTurn(r), UNCHANGED scenario
  PROVE  TypeInv'
<1>0. /\ MaxRetries \in Nat /\ scenario.turns \in 1..MaxTurns /\ MaxTurns \in Nat
      /\ run[r].turn \in Nat /\ run[r].turn < scenario.turns
  BY ScenarioFacts, LoopAssumption DEF TypeInv, Types, RunState, StartTurn
<1>1. run[r].turn + 1 \in 1..MaxTurns
  BY <1>0
<1>2. /\ Changes(r)
      /\ run'[r].pc = "think" /\ run'[r].turn = run[r].turn + 1 /\ run'[r].checks = <<>>
      /\ run'[r].calls = run[r].calls /\ run'[r].result = run[r].result
  BY <1>0, <1>1, TurnEffect DEF TypeInv, Types
<1>3. Shaped(run'[r])
  BY <1>1, <1>2 DEF TypeInv, Shape, Shaped, Turning, StartTurn, At
<1>4. UNCHANGED <<history, status, checkpoints, reports, cases, suspended, used, waiting, resuming>>
  BY DEF StartTurn, checked, asked
<1>5. Shape' /\ ReportsOfTurns'
  BY <1>0, <1>2, <1>3, <1>4, Frame
<1>6. /\ turns' \in [Runs -> Seq(TurnStatus)]
      /\ \A q \in Runs : q # r => turns'[q] = turns[q]
      /\ Len(turns'[r]) = Len(turns[r]) + 1
  BY WithTurnEffect DEF TypeInv, Types
<1>7. Types'
  BY <1>2, <1>4, <1>6 DEF TypeInv, Types, Changes
<1>8. QED
  BY <1>4, <1>5, <1>7 DEF TypeInv

LEMMA TakeTypes ==
  ASSUME TypeInv, NEW r \in Runs, At(r, "call"),
         NEW n \in 0..MaxCalls, NEW tokens \in Nat, Take(r, n, tokens),
         UNCHANGED <<checkpoints, checked, suspended, asked, scenario>>
  PROVE  TypeInv'
<1>0. /\ MaxTokens \in Nat /\ MaxCalls \in Nat /\ run[r].turn \in 0..MaxTurns /\ used \in Nat
      /\ run[r].turn >= 1 /\ run[r].pc = "call" /\ 0 \in 0..MaxCalls /\ run[r].turn \in Nat
  BY LoopAssumption DEF TypeInv, Types, RunState, Shape, Shaped, Turning, At
<1>1. UNCHANGED <<checkpoints, reports, cases, suspended, waiting, resuming>>
  BY DEF checked, asked
<1>2. ASSUME NEW m \in 0..MaxCalls
      PROVE  Append(history, Message("assistant", <<r, run[r].turn>>, m)) \in Seq(Messages)
  <2>1. /\ Message("assistant", <<r, run[r].turn>>, m) \in Messages
        /\ history \in Seq(Messages)
    BY <1>0, MessageType DEF Turn, TypeInv, Types
  <2>2. QED
    BY <2>1, AppendProperties
<1>3. CASE Exceeds(r, tokens)
  <2>1. Shaped(run'[r])
    BY <1>3 DEF Exceeds, TypeInv, Shape, Shaped, Turning
  <2>2. /\ turns' \in [Runs -> Seq(TurnStatus)]
        /\ \A q \in Runs : Len(turns'[q]) = Len(turns[q])
    BY <1>3, FinishEffect DEF TypeInv, Types, Exceeds
  <2>3. Shape' /\ ReportsOfTurns'
    BY <1>0, <1>1, <1>3, <2>1, Frame DEF Exceeds
  <2>4. Types'
    BY <1>0, <1>1, <1>3, <2>2 DEF Exceeds, TypeInv, Types, Changes, Statuses
  <2>5. QED
    BY <1>0, <1>3, <2>3, <2>4 DEF TypeInv, Exceeds
<1>4. CASE Says(r, tokens)
  <2>1. Shaped(run'[r])
    BY <1>0, <1>4 DEF Says, TypeInv, Shape, Shaped, Turning
  <2>2. /\ turns' \in [Runs -> Seq(TurnStatus)]
        /\ \A q \in Runs : Len(turns'[q]) = Len(turns[q])
    BY <1>4, FinishEffect DEF TypeInv, Types, Says
  <2>3. Shape' /\ ReportsOfTurns'
    BY <1>0, <1>1, <1>4, <2>1, Frame DEF Says
  <2>4. used' \in Nat /\ used' <= MaxTokens /\ history' \in Seq(Messages)
    <3>1. /\ used' = used + tokens /\ used + tokens <= MaxTokens
          /\ history' = Append(history, Message("assistant", <<r, run[r].turn>>, 0))
      BY <1>4 DEF Says
    <3>2. history' \in Seq(Messages)
      BY <1>0, <1>2, <3>1
    <3>3. QED
      BY <1>0, <3>1, <3>2
  <2>5. Types'
    BY <1>0, <1>1, <1>4, <2>2, <2>4 DEF Says, TypeInv, Types, Changes
  <2>6. QED
    BY <2>3, <2>4, <2>5 DEF TypeInv
<1>5. CASE Asks(r, n, tokens)
  <2>1. Shaped(run'[r])
    BY <1>0, <1>5 DEF Asks, TypeInv, Shape, Shaped, Turning
  <2>2. Shape' /\ ReportsOfTurns'
    BY <1>0, <1>1, <1>5, <2>1, Frame DEF Asks
  <2>3. used' \in Nat /\ used' <= MaxTokens /\ history' \in Seq(Messages)
    <3>1. /\ used' = used + tokens /\ used + tokens <= MaxTokens
          /\ history' = Append(history, Message("assistant", <<r, run[r].turn>>, n))
      BY <1>5 DEF Asks
    <3>2. history' \in Seq(Messages)
      BY <1>0, <1>2, <3>1
    <3>3. QED
      BY <1>0, <3>1, <3>2
  <2>4. Types'
    BY <1>0, <1>1, <1>5, <2>3 DEF Asks, TypeInv, Types, Changes
  <2>5. QED
    BY <2>2, <2>3, <2>4 DEF TypeInv
<1>6. QED
  BY <1>0, <1>3, <1>4, <1>5, TakeCases DEF TypeInv, Types

LEMMA ToolTypes ==
  ASSUME TypeInv, NEW r \in Runs, ToolStep(r), UNCHANGED scenario
  PROVE  TypeInv'
<1>0. PICK i \in DOMAIN run[r].calls, outcome \in {"done", "wrote", "ask", "lost"} :
        ToolReturns(r, i, outcome)
  BY DEF ToolStep
<1>1. /\ run[r] \in RunState /\ Shaped(run[r]) /\ run[r].pc = "tools"
      /\ run[r].calls[i] = "running"
  BY <1>0 DEF TypeInv, Types, Shape, ToolReturns, At
<1>2. /\ DOMAIN run[r].calls = 1..Len(run[r].calls) /\ Len(run[r].calls) \in Nat
      /\ run[r].turn \in Nat /\ MaxCalls \in Nat /\ run[r].turn \in 0..MaxTurns
  BY <1>1, LenProperties, LoopAssumption DEF RunState
<1>3. /\ Changes(r)
      /\ run'[r].pc = run[r].pc /\ run'[r].turn = run[r].turn
      /\ Len(run'[r].calls) = Len(run[r].calls)
      /\ run'[r].checks = run[r].checks /\ run'[r].result = run[r].result
  BY <1>0, ToolEffect DEF TypeInv, Types
<1>4. Shaped(run'[r])
  BY <1>1, <1>2, <1>3 DEF Shaped, Turning
<1>5. UNCHANGED <<history, turns, status, checkpoints, reports, cases, suspended, used, resuming>>
  BY <1>0 DEF ToolReturns, checked
<1>6. Shape' /\ ReportsOfTurns'
  BY <1>2, <1>3, <1>4, <1>5, Frame
<1>7. waiting' \subseteq WaitingCalls
  <2>1. run[r].turn >= 1 /\ i \in 1..MaxCalls
    BY <1>1, <1>2 DEF Shaped, Turning
  <2>2. <<r, run[r].turn, i>> \in WaitingCalls
    BY <1>2, <2>1 DEF WaitingCalls
  <2>3. QED
    BY <1>0, <2>2 DEF ToolReturns, TypeInv, Types
<1>8. Types'
  BY <1>3, <1>5, <1>7 DEF TypeInv, Types, Changes
<1>9. QED
  BY <1>5, <1>6, <1>8 DEF TypeInv

(* One more command has been run: what the layer knows of the turn grows   *)
(* by its check, and when that was the last a report is stored.            *)
OneMoreCheck(r, check, settled) ==
  LET checks == Append(run[r].checks, check) IN
  /\ IF AllChecked(checks, scenario.commands)
     THEN Reports(<<r, run[r].turn>>, checks) ELSE UNCHANGED checked
  /\ settled = (/\ AllChecked(checks, scenario.commands)
                /\ \A i \in DOMAIN checks : checks[i] = "passed")
  /\ checks \in Checks
  /\ Changes(r)
  /\ run'[r].pc = run[r].pc /\ run'[r].turn = run[r].turn /\ run'[r].calls = run[r].calls
  /\ run'[r].checks = checks /\ run'[r].tokens = run[r].tokens
  /\ run'[r].dirty = (run[r].dirty /\ ~settled)
  /\ run'[r].result = run[r].result

LEMMA CheckCases ==
  ASSUME TypeInv, NEW r \in Runs, Check(r)
  PROVE  \E check \in {"passed"} \cup Outputs, settled \in BOOLEAN : OneMoreCheck(r, check, settled)
<1>1. PICK check \in {"passed"} \cup Outputs :
        LET checks == Append(run[r].checks, check)
            all == AllChecked(checks, scenario.commands) IN
        /\ IF all THEN Reports(<<r, run[r].turn>>, checks) ELSE UNCHANGED checked
        /\ run' = [run EXCEPT ![r].checks = checks,
                              ![r].dirty = @ /\ ~(all /\ Report(<<r, run[r].turn>>, checks).passed)]
  BY DEF Check
<1> DEFINE checks == Append(run[r].checks, check)
           settled == /\ AllChecked(checks, scenario.commands)
                      /\ Report(<<r, run[r].turn>>, checks).passed
<1>2. checks \in Checks /\ <<r, run[r].turn>> \in Turn
  <2>1. run[r].checks \in Seq({"passed"} \cup Outputs) /\ run[r].turn \in 0..MaxTurns
    BY DEF TypeInv, Types, RunState, Checks
  <2>2. QED
    BY <2>1, AppendProperties DEF Checks, Turn
<1>3. settled \in BOOLEAN
  BY <1>2, ReportType DEF AllChecked
<1>4. Report(<<r, run[r].turn>>, checks).passed = (\A i \in DOMAIN checks : checks[i] = "passed")
  BY <1>2, ReportType
<1>5. run' = [run EXCEPT ![r].checks = checks, ![r].dirty = @ /\ ~settled]
  BY <1>1
<1>6. IF AllChecked(checks, scenario.commands)
      THEN Reports(<<r, run[r].turn>>, checks) ELSE UNCHANGED checked
  BY <1>1
<1>7. settled = (/\ AllChecked(checks, scenario.commands)
                 /\ \A i \in DOMAIN checks : checks[i] = "passed")
  BY <1>4
<1> HIDE DEF settled
<1>8. /\ Changes(r)
      /\ run'[r].pc = run[r].pc /\ run'[r].turn = run[r].turn /\ run'[r].calls = run[r].calls
      /\ run'[r].checks = checks /\ run'[r].tokens = run[r].tokens
      /\ run'[r].dirty = (run[r].dirty /\ ~settled)
      /\ run'[r].result = run[r].result
  <2> DEFINE dirty == run[r].dirty /\ ~settled
             to == [run[r] EXCEPT !.checks = checks, !.dirty = dirty]
  <2>1. run \in [Runs -> RunState] /\ run[r] \in RunState /\ dirty \in BOOLEAN
    BY <1>3 DEF TypeInv, Types, RunState
  <2>2. run' = [run EXCEPT ![r] = to]
    BY <1>5
  <2> HIDE DEF checks, dirty
  <2>3. /\ to \in RunState /\ to.pc = run[r].pc /\ to.turn = run[r].turn
        /\ to.calls = run[r].calls
        /\ to.checks = checks /\ to.tokens = run[r].tokens /\ to.dirty = dirty
        /\ to.result = run[r].result
    BY <1>2, <2>1 DEF RunState
  <2> HIDE DEF to
  <2>4. Changes(r) /\ run'[r] = to
    BY <2>1, <2>2, <2>3, Update
  <2>5. QED
    BY <2>3, <2>4 DEF dirty
<1>9. OneMoreCheck(r, check, settled)
  BY <1>2, <1>6, <1>7, <1>8 DEF OneMoreCheck
<1>10. QED
  BY <1>3, <1>9

LEMMA CheckTypes ==
  ASSUME TypeInv, NEW r \in Runs, Check(r), UNCHANGED scenario
  PROVE  TypeInv'
<1>1. PICK check \in {"passed"} \cup Outputs, settled \in BOOLEAN : OneMoreCheck(r, check, settled)
  BY CheckCases
<1> DEFINE checks == Append(run[r].checks, check)
<1>2. /\ run[r] \in RunState /\ Shaped(run[r]) /\ run[r].pc = "tools" /\ run[r].turn \in Nat
      /\ \A i \in DOMAIN run[r].calls : run[r].calls[i] # "running"
      /\ <<r, run[r].turn>> \in Turn
  BY LoopAssumption DEF TypeInv, Types, Shape, Check, At, AllReturned, RunState, Turn
<1>3. /\ Changes(r)
      /\ run'[r].pc = run[r].pc /\ run'[r].turn = run[r].turn /\ run'[r].calls = run[r].calls
      /\ run'[r].result = run[r].result
  BY <1>1 DEF OneMoreCheck
<1>4. Shaped(run'[r])
  BY <1>2, <1>3 DEF Shaped, Turning
<1>5. UNCHANGED <<history, turns, status, checkpoints, suspended, used, waiting, resuming>>
  BY DEF Check, asked
<1>6. CASE ~AllChecked(checks, scenario.commands)
  <2>1. UNCHANGED <<reports, cases>>
    BY <1>1, <1>6 DEF OneMoreCheck, checked
  <2>2. Shape' /\ ReportsOfTurns'
    BY <1>2, <1>3, <1>4, <2>1, Frame
  <2>3. Types'
    BY <1>3, <1>5, <2>1 DEF TypeInv, Types, Changes
  <2>4. QED
    BY <1>5, <2>2, <2>3 DEF TypeInv
<1>7. CASE AllChecked(checks, scenario.commands)
  <2>1. Reports(<<r, run[r].turn>>, checks) /\ checks \in Checks
    BY <1>1, <1>7 DEF OneMoreCheck
  <2> HIDE DEF checks
  <2>2. /\ reports' \in Seq(ReportRows) /\ cases' \subseteq CaseRows
        /\ DOMAIN reports = 1..Len(reports) /\ DOMAIN reports' = 1..(Len(reports) + 1)
        /\ \A i \in DOMAIN reports : reports'[i] = reports[i]
        /\ reports'[Len(reports) + 1].of = <<r, run[r].turn>>
        /\ Len(reports) \in Nat
    BY <1>2, <2>1, ReportsEffect, LenProperties DEF TypeInv, Types
  <2>3. Types'
    BY <1>3, <1>5, <2>2 DEF TypeInv, Types, Changes
  <2>4. ReportsOfTurns'
    <3>1. ASSUME NEW i \in DOMAIN reports'
          PROVE  reports'[i].of[2] <= run'[reports'[i].of[1]].turn
      <4>1. CASE i \in DOMAIN reports
        <5>1. reports'[i] = reports[i] /\ reports[i].of[2] <= run[reports[i].of[1]].turn
          BY <2>2, <4>1 DEF TypeInv, ReportsOfTurns
        <5>2. reports[i] \in ReportRows
          BY <2>2, <4>1, ElementOfSeq DEF TypeInv, Types
        <5>3. reports[i].of[1] \in Runs
          BY <5>2 DEF ReportRows, Turn
        <5>4. run'[reports[i].of[1]].turn = run[reports[i].of[1]].turn
          BY <1>3, <5>3 DEF Changes
        <5>5. QED
          BY <5>1, <5>4
      <4>2. CASE i = Len(reports) + 1
        BY <1>2, <1>3, <2>2, <4>2
      <4>3. QED
        BY <2>2, <4>1, <4>2
    <3>2. QED
      BY <3>1 DEF ReportsOfTurns
  <2>5. Shape'
    BY <1>3, <1>4 DEF TypeInv, Shape, Changes
  <2>6. QED
    BY <1>5, <2>3, <2>4, <2>5 DEF TypeInv
<1>8. QED
  BY <1>6, <1>7

(* What the end of a turn does to the conversation and to the run.         *)
LEMMA EndTurnEffect ==
  ASSUME TypeInv, NEW r \in Runs, EndTurn(r)
  PROVE  /\ history' \in Seq(Messages)
         /\ Answers(r) \in Seq(Messages) /\ Injected(r) \in Seq(Messages)
         /\ history' = (history \o Answers(r)) \o Injected(r)
         /\ FinishTurn(r, "completed")
         /\ Changes(r) /\ Keeps(r) /\ run'[r].result = run[r].result
         /\ UNCHANGED <<reports, cases, used, waiting, resuming>>
         /\ \/ /\ run'[r].pc = "loop" /\ UNCHANGED <<status, suspended, checkpoints>>
            \/ /\ run'[r].pc = "pausing" /\ status' = "paused" /\ suspended' = TRUE
               /\ \E i \in DOMAIN run[r].calls : run[r].calls[i] = "ask"
               /\ checkpoints' =
                    Append(checkpoints,
                           [status |-> "paused", turn |-> run[r].turn, messages |-> history'])
<1>0. MaxCalls \in Nat /\ run \in [Runs -> RunState] /\ history \in Seq(Messages)
  BY LoopAssumption DEF TypeInv, Types
<1>1. Answers(r) \in Seq(Messages)
  <2>1. run[r].turn \in 0..MaxTurns /\ Len(run[r].calls) <= MaxCalls
    BY <1>0 DEF RunState, TypeInv, Shape, Shaped
  <2>2. QED
    BY <1>0, <2>1, AnswersType
<1>2. Injected(r) \in Seq(Messages)
  BY <1>0, InjectedType
<1>3. history' = (history \o Answers(r)) \o Injected(r) /\ FinishTurn(r, "completed")
      /\ UNCHANGED <<reports, cases, used, waiting, resuming>>
  BY DEF EndTurn, checked, asked
<1>4. history' \in Seq(Messages)
  <2>1. history \o Answers(r) \in Seq(Messages)
    BY <1>0, <1>1, ConcatProperties
  <2>2. QED
    BY <1>2, <1>3, <2>1, ConcatProperties
<1>5. CASE \E i \in DOMAIN run[r].calls : run[r].calls[i] = "ask"
  <2>1. Pause(r, history')
    BY <1>5 DEF EndTurn
  <2>2. /\ run' = [run EXCEPT ![r].pc = "pausing", ![r].hook = 0]
        /\ status' = "paused" /\ suspended' = TRUE
        /\ checkpoints' = Append(checkpoints,
                            [status |-> "paused", turn |-> run[r].turn, messages |-> history'])
    BY <2>1 DEF Pause, Paused, Saved
  <2>3. QED
    BY <1>0, <1>1, <1>2, <1>3, <1>4, <1>5, <2>2, PauseEffect
<1>6. CASE ~ \E i \in DOMAIN run[r].calls : run[r].calls[i] = "ask"
  <2>1. Move(r, "loop") /\ UNCHANGED <<status, suspended, checkpoints>>
    BY <1>6 DEF EndTurn
  <2>2. Changes(r) /\ Keeps(r) /\ run'[r].pc = "loop" /\ run'[r].result = run[r].result
    BY <1>0, <2>1, MoveEffect
  <2>3. QED
    BY <1>1, <1>2, <1>3, <1>4, <2>1, <2>2
<1>7. QED
  BY <1>5, <1>6

LEMMA EndTurnTypes ==
  ASSUME TypeInv, NEW r \in Runs, EndTurn(r), UNCHANGED scenario
  PROVE  TypeInv'
<1>0. /\ run[r] \in RunState /\ Shaped(run[r]) /\ run[r].pc = "tools"
      /\ run[r].turn \in Nat /\ run[r].turn \in 1..MaxTurns
  BY LoopAssumption DEF TypeInv, Types, Shape, Shaped, Turning, EndTurn, At, RunState
<1>1. /\ history' \in Seq(Messages) /\ FinishTurn(r, "completed")
      /\ Changes(r) /\ Keeps(r) /\ run'[r].result = run[r].result
      /\ UNCHANGED <<reports, cases, used, waiting, resuming>>
      /\ run'[r].pc \in {"loop", "pausing"} /\ run'[r].turn = run[r].turn
  BY EndTurnEffect DEF Keeps
<1>2. Shaped(run'[r])
  BY <1>0, <1>1 DEF Shaped, Turning, Keeps
<1>3. Shape' /\ ReportsOfTurns'
  BY <1>0, <1>1, <1>2, Frame
<1>4. /\ turns' \in [Runs -> Seq(TurnStatus)]
      /\ \A q \in Runs : Len(turns'[q]) = Len(turns[q])
  BY <1>1, FinishEffect DEF TypeInv, Types
<1>5. checkpoints' \in Seq(CheckpointRows)
  <2>1. checkpoints \in Seq(CheckpointRows)
    BY DEF TypeInv, Types
  <2>2. [status |-> "paused", turn |-> run[r].turn, messages |-> history'] \in CheckpointRows
    BY <1>0, <1>1 DEF CheckpointRows
  <2>3. Append(checkpoints, [status |-> "paused", turn |-> run[r].turn, messages |-> history'])
          \in Seq(CheckpointRows)
    BY <2>1, <2>2, AppendProperties
  <2>4. QED
    BY <2>1, <2>3, EndTurnEffect
<1>6. status' \in Statuses /\ suspended' \in BOOLEAN
  BY EndTurnEffect DEF TypeInv, Types, Statuses
<1>7. Types'
  BY <1>1, <1>4, <1>5, <1>6 DEF TypeInv, Types, Changes
<1>8. QED
  BY <1>1, <1>3, <1>7 DEF TypeInv

(* A turn fails, and the loop goes on.                                     *)
LEMMA FailTypes ==
  ASSUME TypeInv, NEW r \in Runs, TurnFails(r), Move(r, "loop"), UNCHANGED scenario
  PROVE  TypeInv'
<1>0. run[r].turn \in Nat
  BY LoopAssumption DEF TypeInv, Types, RunState
<1>1. FinishTurn(r, "error") /\ status' \in {status, "error"}
      /\ UNCHANGED <<history, checkpoints, reports, cases, suspended, used, waiting, resuming>>
  BY DEF TurnFails, checked, asked
<1>2. Changes(r) /\ Keeps(r) /\ run'[r].pc = "loop" /\ run'[r].result = run[r].result
  BY MoveEffect DEF TypeInv, Types
<1>3. Shaped(run'[r]) /\ run'[r].turn = run[r].turn
  BY <1>2 DEF TypeInv, Shape, Shaped, Keeps, Turning, TurnFails
<1>4. Shape' /\ ReportsOfTurns'
  BY <1>0, <1>1, <1>2, <1>3, Frame
<1>5. /\ turns' \in [Runs -> Seq(TurnStatus)]
      /\ \A q \in Runs : Len(turns'[q]) = Len(turns[q])
  BY <1>1, FinishEffect DEF TypeInv, Types
<1>6. Types'
  BY <1>1, <1>2, <1>3, <1>5 DEF TypeInv, Types, Changes, Statuses
<1>7. QED
  BY <1>1, <1>4, <1>6 DEF TypeInv

(* What reviewers do changes no run.                                       *)
ReviewStep ==
  \/ \E a \in waiting : Approve(a) \/ DecideOnly(a)
  \/ \E a \in resuming : Fail(a)

LEMMA ReviewTypes ==
  ASSUME TypeInv, ReviewStep, UNCHANGED scenario
  PROVE  TypeInv'
<1>1. UNCHANGED <<history, turns, status, checkpoints, reports, cases, suspended, used, run>>
  BY DEF ReviewStep, Approve, DecideOnly, Fail, checked
<1>2. waiting' \subseteq WaitingCalls /\ resuming' \subseteq WaitingCalls
  BY DEF ReviewStep, Approve, DecideOnly, Fail, TypeInv, Types
<1>3. Types'
  BY <1>1, <1>2 DEF TypeInv, Types
<1>4. QED
  BY <1>1, <1>3 DEF TypeInv, Shape, ReportsOfTurns

(* A resumed write may leave a report, which is of no turn.                *)
LEMMA ResumedWriteEffect ==
  ASSUME Types, NEW a \in resuming, ResumedWrite(a)
  PROVE  \/ UNCHANGED <<reports, cases>>
         \/ /\ reports' \in Seq(ReportRows) /\ cases' \subseteq CaseRows
            /\ DOMAIN reports = 1..Len(reports) /\ DOMAIN reports' = 1..(Len(reports) + 1)
            /\ \A i \in DOMAIN reports : reports'[i] = reports[i]
            /\ reports'[Len(reports) + 1].of = <<a[1], 0>> /\ a[1] \in Runs
<1>1. CASE UNCHANGED checked
  BY <1>1 DEF checked
<1>2. ASSUME NEW k \in 1..scenario.commands, NEW last \in {"passed"} \cup Outputs,
             Reports(<<a[1], 0>>, [i \in 1..k |-> IF i < k THEN "passed" ELSE last])
      PROVE  /\ reports' \in Seq(ReportRows) /\ cases' \subseteq CaseRows
             /\ DOMAIN reports = 1..Len(reports) /\ DOMAIN reports' = 1..(Len(reports) + 1)
             /\ \A i \in DOMAIN reports : reports'[i] = reports[i]
             /\ reports'[Len(reports) + 1].of = <<a[1], 0>> /\ a[1] \in Runs
  <2> DEFINE checks == [i \in 1..k |-> IF i < k THEN "passed" ELSE last]
  <2>1. checks \in Checks
    <3>1. k \in Nat
      BY ScenarioFacts DEF Types
    <3>2. QED
      BY <3>1, IsASeq DEF Checks
  <2>2. a[1] \in Runs /\ <<a[1], 0>> \in Turn
    BY LoopAssumption DEF Types, WaitingCalls, Turn
  <2>3. Reports(<<a[1], 0>>, checks)
    BY <1>2
  <2> HIDE DEF checks
  <2>4. QED
    BY <2>1, <2>2, <2>3, ReportsEffect DEF Types
<1>3. QED
  BY <1>1, <1>2 DEF ResumedWrite

LEMMA SucceedTypes ==
  ASSUME TypeInv, NEW a \in resuming, Succeed(a), UNCHANGED scenario
  PROVE  TypeInv'
<1>1. /\ resuming' = resuming \ {a} /\ ResumedWrite(a) /\ suspended' = FALSE
      /\ history' = Resumed(checkpoints, history) /\ status' = "active"
      /\ UNCHANGED <<turns, checkpoints, used, waiting, run>>
  BY DEF Succeed
<1>2. history' \in Seq(Messages)
  BY <1>1, ResumedType DEF TypeInv, Types
<1>3. Types /\ ReportsOfTurns
  BY DEF TypeInv
<1>4. reports' \in Seq(ReportRows) /\ cases' \subseteq CaseRows
  BY <1>1, <1>3, ResumedWriteEffect DEF Types
<1>5. Types'
  BY <1>1, <1>2, <1>3, <1>4 DEF Types, Statuses
<1>6. ReportsOfTurns'
  <2>1. CASE UNCHANGED <<reports, cases>>
    BY <1>1, <1>3, <2>1 DEF ReportsOfTurns
  <2>2. CASE /\ DOMAIN reports = 1..Len(reports) /\ DOMAIN reports' = 1..(Len(reports) + 1)
             /\ \A i \in DOMAIN reports : reports'[i] = reports[i]
             /\ reports'[Len(reports) + 1].of = <<a[1], 0>> /\ a[1] \in Runs
    <3>1. Len(reports) \in Nat
      BY <1>3, LenProperties DEF Types
    <3>2. ASSUME NEW i \in DOMAIN reports'
          PROVE  reports'[i].of[2] <= run'[reports'[i].of[1]].turn
      <4>1. CASE i \in DOMAIN reports
        BY <1>1, <1>3, <2>2, <4>1 DEF ReportsOfTurns
      <4>2. CASE i = Len(reports) + 1
        <5>1. run[a[1]].turn \in Nat
          BY <1>3, <2>2, LoopAssumption DEF Types, RunState
        <5>2. QED
          BY <1>1, <2>2, <4>2, <5>1
      <4>3. QED
        BY <2>2, <3>1, <3>2, <4>1, <4>2
    <3>3. QED
      BY <3>2 DEF ReportsOfTurns
  <2>3. QED
    BY <1>1, <1>3, <2>1, <2>2, ResumedWriteEffect
<1>7. QED
  BY <1>1, <1>5, <1>6 DEF TypeInv, Shape

LEMMA RestartTypes ==
  ASSUME TypeInv, Restart, UNCHANGED scenario
  PROVE  TypeInv'
<1>1. /\ suspended' = FALSE /\ used' = 0 /\ resuming' = {}
      /\ history' \in {history} \cup Interrupted(checkpoints)
      /\ UNCHANGED <<turns, status, checkpoints, reports, cases, waiting>>
  BY DEF Restart, checked
<1>2. history' \in Seq(Messages)
  <2>1. history \in Seq(Messages) /\ Interrupted(checkpoints) \subseteq Seq(Messages)
    BY ResumedType DEF TypeInv, Types
  <2>2. QED
    BY <1>1, <2>1
<1>3. /\ run' \in [Runs -> RunState]
      /\ \A r \in Runs : Keeps(r)
      /\ \A r \in Runs : r \in Active => run'[r].pc = "done" /\ run'[r].result = "interrupted"
      /\ \A r \in Runs : r \notin Active => run'[r] = run[r]
  BY RestartEffect DEF TypeInv, Types
<1>4. ASSUME NEW r \in Runs
      PROVE  Shaped(run'[r]) /\ run'[r].turn = run[r].turn
  <2>1. CASE r \in Active
    BY <1>3, <2>1 DEF TypeInv, Shape, Shaped, Keeps, Turning
  <2>2. CASE r \notin Active
    BY <1>3, <2>2 DEF TypeInv, Shape
  <2>3. QED
    BY <2>1, <2>2
<1>5. Types'
  BY <1>1, <1>2, <1>3, <1>4 DEF TypeInv, Types
<1>6. ReportsOfTurns'
  <2>1. ASSUME NEW i \in DOMAIN reports
        PROVE  reports[i].of[1] \in Runs
    <3>1. reports[i] \in ReportRows
      BY LenProperties, ElementOfSeq DEF TypeInv, Types
    <3>2. QED
      BY <3>1 DEF ReportRows, Turn
  <2>2. QED
    BY <1>1, <1>4, <2>1 DEF TypeInv, ReportsOfTurns
<1>7. MaxTokens \in Nat
  BY LoopAssumption
<1>8. QED
  BY <1>1, <1>4, <1>5, <1>6, <1>7 DEF TypeInv, Shape

\* Everything a step may be, on behalf of one run
RunCases(r) ==
  \/ PassingStep(r) \/ EndingStep(r) \/ Start(r) \/ StartTurn(r)
  \/ (/\ At(r, "call")
      /\ \E n \in 0..MaxCalls, tokens \in Nat : Take(r, n, tokens)
      /\ UNCHANGED <<checkpoints, checked, suspended, asked>>)
  \/ ToolStep(r) \/ Check(r) \/ EndTurn(r) \/ (TurnFails(r) /\ Move(r, "loop"))

LEMMA StepCases ==
  ASSUME Types, Next
  PROVE  /\ UNCHANGED scenario
         /\ \/ \E r \in Runs : RunCases(r)
            \/ ReviewStep
            \/ \E a \in resuming : Succeed(a)
            \/ Restart
<1>0. scenario.runs \subseteq Runs /\ scenario.usages \subseteq Nat /\ MaxCalls \in Nat
  BY ScenarioFacts DEF Types
<1>1. ASSUME NEW r \in scenario.runs, Step(r)
      PROVE  RunCases(r)
  <2>1. CASE Respond(r) \/ Recover(r)
    <3>1. 0 \in 0..MaxCalls
      BY <1>0
    <3>2. QED
      BY <1>0, <2>1, <3>1 DEF Respond, Recover, RunCases
  <2>2. CASE TurnFails(r)
    BY <2>2 DEF TurnFails, RunCases, EndingStep
  <2>3. QED
    BY <1>1, <2>1, <2>2 DEF Step, GoesOn, ModelAnswers, RunCases, PassingStep, EndingStep
<1>2. QED
  BY <1>0, <1>1 DEF Next, RunCases, EndingStep, ReviewStep

LEMMA TypeStep == TypeInv /\ [Next]_vars => TypeInv'
<1> SUFFICES ASSUME TypeInv, [Next]_vars
             PROVE  TypeInv'
  OBVIOUS
<1>1. CASE Next
  <2>1. UNCHANGED scenario /\ Types
    BY <1>1, StepCases DEF TypeInv
  <2>2. ASSUME NEW r \in Runs, RunCases(r)
        PROVE  TypeInv'
    <3>1. CASE PassingStep(r)
      <4>1. Passes(r)
        BY <2>1, <3>1, PassEffect, LoopAssumption DEF Types
      <4>2. QED
        BY <2>1, <4>1, PassTypes
    <3>2. QED
      BY <2>1, <2>2, <3>1, EndTypes, StartTypes, StartTurnTypes, TakeTypes, ToolTypes, CheckTypes,
         EndTurnTypes, FailTypes DEF RunCases
  <2>3. QED
    BY <1>1, <2>1, <2>2, StepCases, ReviewTypes, SucceedTypes, RestartTypes
<1>2. CASE UNCHANGED vars
  BY <1>2 DEF vars, checked, asked, TypeInv, Types, Shape, ReportsOfTurns
<1>3. QED
  BY <1>1, <1>2

LEMMA TypeInvariant == Spec => []TypeInv
<1>1. QED
  BY TypeInit, TypeStep, PTL DEF Spec

(* The tables and the state of every run are well-formed, and a run has    *)
(* one row in the turns table for each turn it started.                    *)
THEOREM TypeCorrect == Spec => []TypeOK
<1>1. TypeInv => TypeOK
  BY TypesOK DEF TypeInv
<1>2. QED
  BY <1>1, TypeInvariant, PTL

-----------------------------------------------------------------------------
(* Everything a step of one run may come to, in terms of what changes.      *)

Starts(r) ==
  /\ Changes(r) /\ Keeps(r) /\ run'[r].result = run[r].result
  /\ run[r].pc = "idle" /\ run'[r].pc = "starting"
  /\ Undisturbed /\ ~suspended
  /\ history' = Append(history, Message("user", <<r, 0>>, 0)) /\ used' = 0
  /\ UNCHANGED <<turns, status, checkpoints, reports, cases, suspended, waiting, resuming>>

\* The run ends: its turn is closed, unless it is interrupted; only a pause
\* marks the session as paused, and only a review lets it complete.
Ends(r) ==
  /\ Changes(r) /\ Keeps(r) /\ run[r].pc # "done" /\ run'[r].pc = "done"
  /\ run[r].pc = "idle" => Undisturbed
  /\ UNCHANGED <<checkpoints, reports, cases, suspended, waiting, resuming>>
  /\ \/ UNCHANGED history
     \/ run[r].pc = "idle" /\ history' = Append(history, Message("user", <<r, 0>>, 0))
  /\ status' = "paused" => status = "paused" \/ run[r].pc = "pausing"
  /\ \/ UNCHANGED turns /\ \/ run'[r].result = "interrupted" /\ "interrupt" \in Mishaps
                           \/ run[r].pc \in {"idle", "starting", "loop", "pausing", "ending"}
     \/ /\ \E outcome \in {"completed", "error", "aborted"} : FinishTurn(r, outcome)
        /\ run[r].pc = "call" \/ "fault" \in Mishaps
  /\ run'[r].result = "completed" =>
       run[r].pc = "ending" /\ (scenario.review => LatestPassed(reports))

NewTurn(r) ==
  /\ Changes(r)
  /\ run[r].pc = "loop" /\ run'[r].pc = "think"
  /\ run'[r].turn = run[r].turn + 1 /\ run'[r].checks = <<>>
  /\ run'[r].calls = run[r].calls /\ run'[r].tokens = run[r].tokens
  /\ run'[r].dirty = run[r].dirty /\ run'[r].result = run[r].result
  /\ \A q \in Runs : q # r => turns'[q] = turns[q]
  /\ DOMAIN turns'[r] = 1..(Len(turns[r]) + 1)
  /\ \A t \in 1..Len(turns[r]) : turns'[r][t] = turns[r][t]
  /\ UNCHANGED <<history, status, checkpoints, reports, cases, suspended, used, waiting, resuming>>

Answered(r) ==
  /\ run[r].pc = "call"
  /\ \E tokens \in Nat : \/ Exceeds(r, tokens) \/ Says(r, tokens)
                         \/ \E n \in 1..MaxCalls : Asks(r, n, tokens)
  /\ UNCHANGED <<checkpoints, reports, cases, suspended, waiting, resuming>>

Returns(r, i, outcome) ==
  /\ Changes(r)
  /\ run[r].pc = "tools" /\ run'[r].pc = "tools" /\ run[r].calls[i] = "running"
  /\ run'[r].turn = run[r].turn
  /\ Len(run'[r].calls) = Len(run[r].calls) /\ DOMAIN run'[r].calls = DOMAIN run[r].calls
  /\ run'[r].calls[i] = outcome
  /\ \A j \in DOMAIN run[r].calls : j # i => run'[r].calls[j] = run[r].calls[j]
  /\ run'[r].checks = run[r].checks /\ run'[r].tokens = run[r].tokens
  /\ run'[r].dirty = (run[r].dirty \/ outcome = "wrote")
  /\ run'[r].result = run[r].result
  /\ outcome = "wrote" => scenario.commands > 0
  /\ outcome = "lost" => "lost" \in Mishaps
  /\ waiting' = IF outcome = "ask" THEN waiting \cup {<<r, run[r].turn, i>>} ELSE waiting
  /\ UNCHANGED <<history, turns, status, checkpoints, reports, cases, suspended, used, resuming>>

ToolAnswers(r) ==
  \E i \in DOMAIN run[r].calls, outcome \in {"done", "wrote", "ask", "lost"} : Returns(r, i, outcome)

CheckMade(r) ==
  /\ run[r].pc = "tools" /\ AllReturned(r) /\ Verifies(r)
  /\ ~AllChecked(run[r].checks, scenario.commands)
  /\ \E check \in {"passed"} \cup Outputs, settled \in BOOLEAN : OneMoreCheck(r, check, settled)
  /\ UNCHANGED <<history, turns, status, checkpoints, suspended, used, waiting, resuming>>

TurnEnds(r) ==
  /\ Changes(r) /\ Keeps(r) /\ run'[r].result = run[r].result
  /\ run[r].pc = "tools" /\ AllReturned(r)
  /\ Verifies(r) => AllChecked(run[r].checks, scenario.commands)
  /\ Answers(r) \in Seq(Messages) /\ Injected(r) \in Seq(Messages)
  /\ history' \in Seq(Messages) /\ history' = (history \o Answers(r)) \o Injected(r)
  /\ FinishTurn(r, "completed")
  /\ UNCHANGED <<reports, cases, used, waiting, resuming>>
  /\ \/ run'[r].pc = "loop" /\ UNCHANGED <<status, suspended, checkpoints>>
     \/ /\ run'[r].pc = "pausing" /\ status' = "paused" /\ suspended' = TRUE
        /\ \E i \in DOMAIN run[r].calls : run[r].calls[i] = "ask"
        /\ checkpoints' = Append(checkpoints, [status |-> "paused", turn |-> run[r].turn,
                                               messages |-> history'])

TurnLost(r) ==
  /\ Changes(r) /\ Keeps(r) /\ run'[r].result = run[r].result
  /\ run[r].pc \in {"node", "tools", "noting", "pausing"} /\ run'[r].pc = "loop"
  /\ "fault" \in Mishaps
  /\ FinishTurn(r, "error")
  /\ status' = "paused" => status = "paused"
  /\ UNCHANGED <<history, checkpoints, reports, cases, suspended, used, waiting, resuming>>

RunStep(r) ==
  \/ Passes(r) \/ Ends(r) \/ Starts(r) \/ NewTurn(r) \/ Answered(r) \/ ToolAnswers(r)
  \/ CheckMade(r) \/ TurnEnds(r) \/ TurnLost(r)

LEMMA EndEffect ==
  ASSUME Types, NEW r \in Runs, EndingStep(r)
  PROVE  Ends(r)
<1>0. run \in [Runs -> RunState]
  BY DEF Types
<1>1. CASE Refuse(r)
  <2>1. Changes(r) /\ Keeps(r) /\ run'[r].pc = "done" /\ run'[r].result = "aborted"
    BY <1>0, <1>1, OverEffect DEF Refuse, OverAndEnded, Outcome
  <2>2. QED
    BY <1>1, <2>1 DEF Refuse, At, Say, checked, asked, Ends
<1>2. CASE OutOfTime(r)
  <2>1. Changes(r) /\ Keeps(r) /\ run'[r].pc = "done" /\ run'[r].result = "max_turns"
    BY <1>0, <1>2, OverEffect DEF OutOfTime, Outcome
  <2>2. QED
    BY <1>2, <2>1 DEF OutOfTime, At, checked, asked, Ends
<1>3. CASE GiveUp(r)
  <2>1. Changes(r) /\ Keeps(r) /\ run'[r].pc = "done" /\ run'[r].result = "error"
    BY <1>0, <1>3, OverEffect DEF GiveUp, Outcome
  <2>2. QED
    BY <1>3, <2>1 DEF GiveUp, At, checked, asked, Ends
<1>4. CASE PauseEnds(r)
  <2>1. Changes(r) /\ Keeps(r) /\ run'[r].pc = "done" /\ run'[r].result = "paused"
    BY <1>0, <1>4, OverEffect DEF PauseEnds, Outcome
  <2>2. QED
    BY <1>4, <2>1 DEF PauseEnds, At, checked, asked, Ends
<1>5. CASE Finish(r)
  <2>1. PICK blank \in BOOLEAN : status' = Reviewed(r, blank) /\ OverAndEnded(r, Reviewed(r, blank))
    BY <1>5 DEF Finish
  <2>2. /\ Reviewed(r, blank) \in {"completed", "max_turns", "error"}
        /\ Reviewed(r, blank) = "completed" => (scenario.review => LatestPassed(reports))
    BY DEF Reviewed, LoopResult, ReviewPasses
  <2>3. Changes(r) /\ Keeps(r) /\ run'[r].pc = "done" /\ run'[r].result = Reviewed(r, blank)
    BY <1>0, <2>1, <2>2, OverEffect DEF OverAndEnded, Outcome
  <2>4. QED
    BY <1>5, <2>1, <2>2, <2>3 DEF Finish, At, checked, asked, Ends
<1>6. CASE Interrupt(r)
  <2>1. Changes(r) /\ Keeps(r) /\ run'[r].pc = "done" /\ run'[r].result = "interrupted"
    BY <1>0, <1>6, OverEffect DEF Interrupt, Outcome
  <2>2. QED
    BY <1>6, <2>1 DEF Interrupt, Active, checked, asked, Ends
<1>7. CASE TurnFails(r) /\ Over(r, "error")
  <2>1. Changes(r) /\ Keeps(r) /\ run'[r].pc = "done" /\ run'[r].result = "error"
    BY <1>0, <1>7, OverEffect DEF Outcome
  <2>2. UNCHANGED status \/ status' = "error"
    BY <1>7 DEF TurnFails
  <2>3. QED
    BY <1>7, <2>1, <2>2 DEF TurnFails, checked, asked, Ends
<1>8. QED
  BY <1>1, <1>2, <1>3, <1>4, <1>5, <1>6, <1>7 DEF EndingStep

LEMMA NewTurnEffect ==
  ASSUME TypeInv, NEW r \in Runs, StartTurn(r)
  PROVE  NewTurn(r)
<1>1. /\ MaxRetries \in Nat /\ scenario.turns \in 1..MaxTurns /\ MaxTurns \in Nat
      /\ run[r].turn \in Nat /\ run[r].turn < scenario.turns /\ run[r].pc = "loop"
      /\ run \in [Runs -> RunState] /\ turns \in [Runs -> Seq(TurnStatus)]
  BY ScenarioFacts, LoopAssumption DEF TypeInv, Types, RunState, StartTurn, At
<1>2. run[r].turn + 1 \in 0..MaxTurns
  BY <1>1
<1>3. /\ Changes(r) /\ run'[r].pc = "think" /\ run'[r].turn = run[r].turn + 1
      /\ run'[r].checks = <<>>
      /\ run'[r].calls = run[r].calls /\ run'[r].tokens = run[r].tokens
      /\ run'[r].dirty = run[r].dirty /\ run'[r].result = run[r].result
  BY <1>1, <1>2, TurnEffect
<1>4. /\ \A q \in Runs : q # r => turns'[q] = turns[q]
      /\ DOMAIN turns'[r] = 1..(Len(turns[r]) + 1)
      /\ \A t \in 1..Len(turns[r]) : turns'[r][t] = turns[r][t]
  BY <1>1, WithTurnEffect
<1>5. QED
  BY <1>1, <1>3, <1>4 DEF NewTurn, StartTurn, checked, asked

LEMMA ToolStepEffect ==
  ASSUME Types, NEW r \in Runs, ToolStep(r)
  PROVE  ToolAnswers(r)
<1>1. PICK i \in DOMAIN run[r].calls, outcome \in {"done", "wrote", "ask", "lost"} :
        ToolReturns(r, i, outcome)
  BY DEF ToolStep
<1>2. /\ Changes(r)
      /\ run'[r].pc = run[r].pc /\ run'[r].turn = run[r].turn
      /\ Len(run'[r].calls) = Len(run[r].calls)
      /\ DOMAIN run'[r].calls = DOMAIN run[r].calls
      /\ run'[r].calls[i] = outcome
      /\ \A j \in DOMAIN run[r].calls : j # i => run'[r].calls[j] = run[r].calls[j]
      /\ run'[r].checks = run[r].checks /\ run'[r].tokens = run[r].tokens
      /\ run'[r].dirty = (run[r].dirty \/ outcome = "wrote")
      /\ run'[r].result = run[r].result
  BY <1>1, ToolEffect DEF Types
<1>3. /\ run[r].pc = "tools" /\ run[r].calls[i] = "running"
      /\ outcome = "wrote" => scenario.commands > 0
      /\ outcome = "lost" => "lost" \in Mishaps
  BY <1>1 DEF ToolReturns, At, Outcomes
<1>4. /\ waiting' = IF outcome = "ask" THEN waiting \cup {<<r, run[r].turn, i>>} ELSE waiting
      /\ UNCHANGED <<history, turns, status, checkpoints, reports, cases, suspended, used, resuming>>
  BY <1>1 DEF ToolReturns, checked
<1>5. Returns(r, i, outcome)
  BY <1>2, <1>3, <1>4 DEF Returns
<1>6. QED
  BY <1>5 DEF ToolAnswers

LEMMA RunStepEffect ==
  ASSUME TypeInv, NEW r \in Runs, RunCases(r)
  PROVE  RunStep(r)
<1>0. Types /\ run \in [Runs -> RunState] /\ MaxRetries \in Nat
  BY LoopAssumption DEF TypeInv, Types
<1>1. CASE PassingStep(r)
  BY <1>0, <1>1, PassEffect DEF RunStep
<1>2. CASE EndingStep(r)
  BY <1>0, <1>2, EndEffect DEF RunStep
<1>3. CASE Start(r)
  <2>1. Changes(r) /\ Keeps(r) /\ run'[r].pc = "starting" /\ run'[r].result = run[r].result
    BY <1>0, <1>3, MoveEffect DEF Start
  <2>2. Starts(r)
    BY <1>3, <2>1 DEF Starts, Start, At, Say, checked, asked
  <2>3. QED
    BY <2>2 DEF RunStep
<1>4. CASE StartTurn(r)
  BY <1>4, NewTurnEffect DEF RunStep
<1>5. ASSUME At(r, "call"), NEW n \in 0..MaxCalls, NEW tokens \in Nat, Take(r, n, tokens),
             UNCHANGED <<checkpoints, checked, suspended, asked>>
      PROVE  RunStep(r)
  <2>1. Exceeds(r, tokens) \/ Says(r, tokens) \/ (n > 0 /\ Asks(r, n, tokens))
    BY <1>0, <1>5, TakeCases, LoopAssumption DEF Types
  <2>2. n > 0 => n \in 1..MaxCalls
    OBVIOUS
  <2>3. run[r].pc = "call" /\ UNCHANGED <<checkpoints, reports, cases, suspended, waiting, resuming>>
    BY <1>5 DEF At, checked, asked
  <2>4. Answered(r)
    BY <2>1, <2>2, <2>3 DEF Answered
  <2>5. QED
    BY <2>4 DEF RunStep
<1>6. CASE ToolStep(r)
  BY <1>0, <1>6, ToolStepEffect DEF RunStep
<1>7. CASE Check(r)
  <2>1. CheckMade(r)
    BY <1>7, CheckCases DEF Check, CheckMade, At, asked
  <2>2. QED
    BY <2>1 DEF RunStep
<1>8. CASE EndTurn(r)
  <2>1. /\ run[r].pc = "tools" /\ AllReturned(r)
        /\ Verifies(r) => AllChecked(run[r].checks, scenario.commands)
    BY <1>8 DEF EndTurn, At
  <2>2. TurnEnds(r)
    BY <1>8, <2>1, EndTurnEffect DEF TurnEnds
  <2>3. QED
    BY <2>2 DEF RunStep
<1>9. CASE TurnFails(r) /\ Move(r, "loop")
  <2>1. Changes(r) /\ Keeps(r) /\ run'[r].pc = "loop" /\ run'[r].result = run[r].result
    BY <1>0, <1>9, MoveEffect
  <2>2. UNCHANGED status \/ status' = "error"
    BY <1>9 DEF TurnFails
  <2>3. TurnLost(r)
    BY <1>9, <2>1, <2>2 DEF TurnLost, TurnFails, checked, asked
  <2>4. QED
    BY <2>3 DEF RunStep
<1>10. QED
  BY <1>1, <1>2, <1>3, <1>4, <1>5, <1>6, <1>7, <1>8, <1>9 DEF RunCases

LEMMA NextEffect ==
  ASSUME TypeInv, Next
  PROVE  /\ UNCHANGED scenario
         /\ \/ \E r \in Runs : RunStep(r)
            \/ ReviewStep
            \/ \E a \in resuming : Succeed(a)
            \/ Restart
<1>1. Types
  BY DEF TypeInv
<1>2. QED
  BY <1>1, StepCases, RunStepEffect

(* Who is active after a step of run r.                                    *)
LEMMA ActiveAfter ==
  ASSUME NEW r \in Runs, Changes(r)
  PROVE  /\ \A q \in Runs \ {r} : q \in Active' <=> q \in Active
         /\ r \in Active' <=> run'[r].pc \notin {"idle", "done"}
BY DEF Changes, Active

-----------------------------------------------------------------------------
(* The row of a turn says "running" only while that turn goes on, or when   *)
(* the run was interrupted inside of it.                                    *)

OpenTurn(r) ==
  \A t \in DOMAIN turns[r] : turns[r][t] = "running" =>
    /\ t = run[r].turn
    /\ \/ run[r].pc \in {"think", "call", "node", "tools"}
       \/ run[r].pc = "done" /\ run[r].result = "interrupted"

OpenTurns == \A r \in Runs : OpenTurn(r)

LEMMA OpenStep ==
  ASSUME TypeInv, OpenTurns, NEW r \in Runs, RunStep(r)
  PROVE  OpenTurns'
<1>0. /\ turns \in [Runs -> Seq(TurnStatus)]
      /\ DOMAIN turns[r] = 1..Len(turns[r]) /\ Len(turns[r]) = run[r].turn /\ run[r].turn \in Nat
  BY LenProperties DEF TypeInv, Types
<1>1. ASSUME Changes(r), UNCHANGED turns, OpenTurn(r)'
      PROVE  OpenTurns'
  BY <1>1 DEF OpenTurns, OpenTurn, Changes
<1>2. ASSUME Changes(r), run'[r].turn = run[r].turn,
             NEW outcome \in {"completed", "error", "aborted"}, FinishTurn(r, outcome)
      PROVE  OpenTurns'
  <2>1. /\ \A q \in Runs : q # r => turns'[q] = turns[q]
        /\ DOMAIN turns'[r] = DOMAIN turns[r]
        /\ \A t \in DOMAIN turns[r] :
             turns'[r][t] = IF t = run[r].turn THEN outcome ELSE turns[r][t]
    BY <1>0, <1>2, FinishEffect
  <2>2. OpenTurn(r)'
    BY <2>1 DEF OpenTurns, OpenTurn
  <2>3. QED
    BY <1>2, <2>1, <2>2 DEF OpenTurns, OpenTurn, Changes
<1>3. CASE Passes(r)
  <2>1. Changes(r) /\ UNCHANGED turns /\ OpenTurn(r)'
    BY <1>3 DEF Passes, Keeps, OpenTurns, OpenTurn
  <2>2. QED
    BY <1>1, <2>1
<1>4. CASE Ends(r)
  <2>1. CASE UNCHANGED turns /\ \/ run'[r].result = "interrupted"
                                \/ run[r].pc \in {"idle", "starting", "loop", "pausing", "ending"}
    <3>1. Changes(r) /\ OpenTurn(r)'
      BY <1>4, <2>1 DEF Ends, Keeps, OpenTurns, OpenTurn
    <3>2. QED
      BY <1>1, <2>1, <3>1
  <2>2. QED
    BY <1>2, <1>4, <2>1 DEF Ends, Keeps
<1>5. CASE Starts(r)
  <2>1. Changes(r) /\ UNCHANGED turns /\ OpenTurn(r)'
    BY <1>5 DEF Starts, Keeps, OpenTurns, OpenTurn
  <2>2. QED
    BY <1>1, <2>1
<1>6. CASE NewTurn(r)
  <2>1. \A t \in DOMAIN turns[r] : turns[r][t] # "running"
    BY <1>6 DEF NewTurn, OpenTurns, OpenTurn
  <2>2. OpenTurn(r)'
    BY <1>0, <1>6, <2>1 DEF NewTurn, OpenTurn
  <2>3. QED
    BY <1>6, <2>2 DEF NewTurn, OpenTurns, OpenTurn, Changes
<1>7. ASSUME NEW tokens \in Nat, Exceeds(r, tokens) \/ Says(r, tokens)
      PROVE  OpenTurns'
  <2>1. Changes(r) /\ run'[r].turn = run[r].turn
    BY <1>7 DEF Exceeds, Says
  <2>2. \E outcome \in {"completed", "aborted"} : FinishTurn(r, outcome)
    BY <1>7 DEF Exceeds, Says
  <2>3. QED
    BY <1>2, <2>1, <2>2
<1>8. ASSUME NEW tokens \in Nat, NEW n \in 1..MaxCalls, Asks(r, n, tokens)
      PROVE  OpenTurns'
  <2>1. Changes(r) /\ UNCHANGED turns /\ OpenTurn(r)'
    BY <1>8 DEF Asks, OpenTurns, OpenTurn
  <2>2. QED
    BY <1>1, <2>1
<1>9. CASE ToolAnswers(r)
  <2>1. Changes(r) /\ UNCHANGED turns /\ OpenTurn(r)'
    BY <1>9 DEF ToolAnswers, Returns, OpenTurns, OpenTurn
  <2>2. QED
    BY <1>1, <2>1
<1>10. CASE CheckMade(r)
  <2>1. Changes(r) /\ UNCHANGED turns /\ OpenTurn(r)'
    BY <1>10 DEF CheckMade, OneMoreCheck, OpenTurns, OpenTurn
  <2>2. QED
    BY <1>1, <2>1
<1>11. CASE TurnEnds(r) \/ TurnLost(r)
  <2>1. Changes(r) /\ run'[r].turn = run[r].turn
    BY <1>11 DEF TurnEnds, TurnLost, Keeps
  <2>2. \E outcome \in {"completed", "error"} : FinishTurn(r, outcome)
    BY <1>11 DEF TurnEnds, TurnLost
  <2>3. QED
    BY <1>2, <2>1, <2>2
<1>12. QED
  BY <1>3, <1>4, <1>5, <1>6, <1>7, <1>8, <1>9, <1>10, <1>11 DEF RunStep, Answered

LEMMA OpenInvariant == Spec => []OpenTurns
<1>1. Init => OpenTurns
  BY DEF Init, OpenTurns, OpenTurn
<1>2. TypeInv /\ OpenTurns /\ [Next]_vars => OpenTurns'
  <2> SUFFICES ASSUME TypeInv, OpenTurns, [Next]_vars PROVE OpenTurns'
    OBVIOUS
  <2>1. CASE UNCHANGED vars
    BY <2>1 DEF vars, OpenTurns, OpenTurn
  <2>2. CASE Next
    <3>1. CASE ReviewStep
      BY <3>1 DEF ReviewStep, Approve, DecideOnly, Fail, OpenTurns, OpenTurn
    <3>2. ASSUME NEW a \in resuming, Succeed(a) PROVE OpenTurns'
      BY <3>2 DEF Succeed, OpenTurns, OpenTurn
    <3>3. CASE Restart
      <4>1. /\ \A r \in Runs : Keeps(r)
            /\ \A r \in Runs : r \in Active => run'[r].pc = "done" /\ run'[r].result = "interrupted"
            /\ \A r \in Runs : r \notin Active => run'[r] = run[r]
            /\ UNCHANGED turns
        BY <3>3, RestartEffect DEF TypeInv, Types, Restart
      <4>2. QED
        BY <4>1 DEF Keeps, OpenTurns, OpenTurn
    <3>4. QED
      BY <2>2, <3>1, <3>2, <3>3, NextEffect, OpenStep
  <2>3. QED
    BY <2>1, <2>2
<1>3. QED
  BY <1>1, <1>2, TypeInvariant, PTL DEF Spec

(* Whatever fails inside of a run, the run leaves no turn marked as        *)
(* running: every path out of agent_loop.run but an interruption calls     *)
(* finish_turn.                                                            *)
THEOREM ClosedTurns == Spec => []TurnsClosed
<1>1. OpenTurns => TurnsClosed
  BY DEF OpenTurns, OpenTurn, TurnsClosed
<1>2. QED
  BY <1>1, OpenInvariant, PTL

-----------------------------------------------------------------------------
(* When runs and resumptions do not overlap: at most one run is under way,  *)
(* no resumption is while one is, the usage of the session is the run's,    *)
(* and each call that asked is waiting until its turn has ended.            *)

AsksWait(r) ==
  \A i \in DOMAIN run[r].calls : run[r].calls[i] = "ask" => <<r, run[r].turn, i>> \in waiting

Alone ==
  /\ \A p, q \in Active : p = q
  /\ Active # {} => resuming = {}
  /\ \A r \in Active : /\ run[r].tokens = used
                       /\ run[r].pc \in {"node", "tools"} => AsksWait(r)

LEMMA AloneStep ==
  ASSUME TypeInv, Alone, ~Overlapping, NEW r \in Runs, RunStep(r)
  PROVE  Alone'
<1>0. ASSUME Changes(r), r \in Active, UNCHANGED resuming,
             r \in Active' => /\ run'[r].tokens = used'
                              /\ run'[r].pc \in {"node", "tools"} => AsksWait(r)'
      PROVE  Alone'
  <2>1. Active' \subseteq {r}
    BY <1>0, ActiveAfter DEF Alone, Active
  <2>2. QED
    BY <1>0, <2>1 DEF Alone
<1>1. CASE Passes(r)
  <2>1. run[r].pc = "node" => AsksWait(r)
    BY DEF Alone, Active
  <2>2. r \in Active
    BY <1>1 DEF Passes, Active
  <2>3. run'[r].tokens = used' /\ (run'[r].pc \in {"node", "tools"} => AsksWait(r)')
    BY <1>1, <2>1, <2>2 DEF Passes, Keeps, Alone, asked, AsksWait
  <2>4. QED
    BY <1>0, <1>1, <2>2, <2>3 DEF Passes, asked
<1>2. CASE Ends(r)
  <2>1. Changes(r) /\ r \notin Active' /\ UNCHANGED resuming
    BY <1>2, ActiveAfter DEF Ends
  <2>2. CASE run[r].pc = "idle"
    <3>1. Active' = {}
      BY <1>2, <2>1, <2>2, ActiveAfter DEF Ends, Undisturbed, Active
    <3>2. QED
      BY <3>1 DEF Alone
  <2>3. CASE r \in Active
    BY <1>0, <2>1, <2>3
  <2>4. QED
    BY <1>2, <2>2, <2>3 DEF Ends, Active
<1>3. CASE Starts(r)
  <2>1. Active' \subseteq {r} /\ resuming' = {}
    BY <1>3, ActiveAfter DEF Starts, Undisturbed, Active
  <2>2. run'[r].tokens = 0 /\ used' = 0 /\ run'[r].pc = "starting"
    BY <1>3 DEF Starts, Keeps, TypeInv, Shape, Shaped
  <2>3. QED
    BY <2>1, <2>2 DEF Alone
<1>4. CASE NewTurn(r)
  <2>1. r \in Active /\ run'[r].tokens = used'
    BY <1>4 DEF NewTurn, Alone, Active
  <2>2. QED
    BY <1>0, <1>4, <2>1 DEF NewTurn
<1>5. CASE Answered(r)
  <2>1. PICK tokens \in Nat : \/ Exceeds(r, tokens) \/ Says(r, tokens)
                              \/ \E n \in 1..MaxCalls : Asks(r, n, tokens)
    BY <1>5 DEF Answered
  <2>2. r \in Active /\ run[r].tokens = used /\ UNCHANGED resuming
    BY <1>5 DEF Answered, Active, Alone
  <2>3. CASE Exceeds(r, tokens)
    <3>1. Changes(r) /\ r \notin Active'
      BY <2>3 DEF Exceeds, Active
    <3>2. QED
      BY <1>0, <2>2, <3>1
  <2>4. CASE Says(r, tokens)
    <3>1. Changes(r) /\ run'[r].tokens = used' /\ run'[r].pc = "noting"
      BY <2>2, <2>4 DEF Says
    <3>2. QED
      BY <1>0, <2>2, <3>1
  <2>5. ASSUME NEW n \in 1..MaxCalls, Asks(r, n, tokens)
        PROVE  Alone'
    <3>1. Changes(r) /\ run'[r].tokens = used' /\ AsksWait(r)'
      BY <2>2, <2>5 DEF Asks, AsksWait
    <3>2. QED
      BY <1>0, <2>2, <3>1
  <2>6. QED
    BY <2>1, <2>3, <2>4, <2>5
<1>6. CASE ToolAnswers(r)
  <2>1. PICK i \in DOMAIN run[r].calls, outcome \in {"done", "wrote", "ask", "lost"} :
          Returns(r, i, outcome)
    BY <1>6 DEF ToolAnswers
  <2>2. r \in Active /\ AsksWait(r) /\ run[r].tokens = used
    BY <2>1 DEF Returns, Active, Alone
  <2>3. AsksWait(r)'
    BY <2>1, <2>2 DEF Returns, AsksWait
  <2>4. Changes(r) /\ run'[r].tokens = used' /\ UNCHANGED resuming
    BY <2>1, <2>2 DEF Returns
  <2>5. QED
    BY <1>0, <2>2, <2>3, <2>4
<1>7. CASE CheckMade(r)
  <2>1. r \in Active /\ AsksWait(r) /\ run[r].tokens = used
    BY <1>7 DEF CheckMade, Active, Alone
  <2>2. /\ Changes(r) /\ run'[r].turn = run[r].turn /\ run'[r].calls = run[r].calls
        /\ run'[r].tokens = run[r].tokens
    BY <1>7 DEF CheckMade, OneMoreCheck
  <2>3. UNCHANGED <<used, waiting, resuming>>
    BY <1>7 DEF CheckMade
  <2>4. QED
    BY <1>0, <2>1, <2>2, <2>3 DEF AsksWait
<1>8. CASE TurnEnds(r) \/ TurnLost(r)
  <2>1. r \in Active
    BY <1>8 DEF TurnEnds, TurnLost, Active
  <2>2. Changes(r) /\ run'[r].tokens = used' /\ run'[r].pc \in {"loop", "pausing"}
    BY <1>8, <2>1 DEF TurnEnds, TurnLost, Keeps, Alone
  <2>3. QED
    BY <1>0, <1>8, <2>1, <2>2 DEF TurnEnds, TurnLost
<1>9. QED
  BY <1>1, <1>2, <1>3, <1>4, <1>5, <1>6, <1>7, <1>8 DEF RunStep

LEMMA AloneOthers ==
  ASSUME TypeInv, Alone, ~Overlapping,
         ReviewStep \/ (\E a \in resuming : Succeed(a)) \/ Restart
  PROVE  Alone'
<1>1. CASE ReviewStep \/ \E a \in resuming : Succeed(a)
  <2>1. UNCHANGED <<run, used>>
    BY <1>1 DEF ReviewStep, Approve, DecideOnly, Fail, Succeed
  <2>2. Active' = Active
    BY <2>1 DEF Active
  <2>3. Active = {}
    BY <1>1 DEF ReviewStep, Approve, DecideOnly, Fail, Succeed, Undisturbed, Alone
  <2>4. QED
    BY <2>2, <2>3 DEF Alone
<1>2. CASE Restart
  <2>1. /\ \A r \in Runs : r \in Active => run'[r].pc = "done"
        /\ \A r \in Runs : r \notin Active => run'[r] = run[r]
    BY <1>2, RestartEffect DEF TypeInv, Types
  <2>2. Active' = {}
    BY <2>1 DEF Active
  <2>3. QED
    BY <2>2 DEF Alone
<1>3. QED
  BY <1>1, <1>2

LEMMA AloneInvariant == Spec => [](~Overlapping => Alone)
<1>1. Init => Alone
  BY DEF Init, Fresh, Alone, Active
<1>2. TypeInv /\ (~Overlapping => Alone) /\ [Next]_vars => (~Overlapping => Alone)'
  <2> SUFFICES ASSUME TypeInv, ~Overlapping => Alone, [Next]_vars, ~Overlapping'
               PROVE  Alone'
    OBVIOUS
  <2>1. CASE UNCHANGED vars
    BY <2>1 DEF vars, asked, Overlapping, Alone, Active, AsksWait
  <2>2. CASE Next
    <3>1. ~Overlapping
      BY <2>2, NextEffect DEF Overlapping
    <3>2. QED
      BY <2>2, <3>1, NextEffect, AloneStep, AloneOthers
  <2>3. QED
    BY <2>1, <2>2
<1>3. QED
  BY <1>1, <1>2, TypeInvariant, PTL DEF Spec

(* A run whose responses have used more than the quota executes no tool:   *)
(* the layer stops it before the tool phase, as long as no other run of    *)
(* the session overlaps it and resets the usage they share.                *)
THEOREM QuotaKept == Spec => []QuotaHolds
<1>1. TypeInv /\ (~Overlapping => Alone) => QuotaHolds
  BY DEF TypeInv, Alone, QuotaHolds, Without, Active
<1>2. QED
  BY <1>1, TypeInvariant, AloneInvariant, PTL

-----------------------------------------------------------------------------
(* A suspended session has a request that is still to be decided or that is *)
(* being executed, unless one was decided without being executed.           *)

Awaited == suspended => waiting \cup resuming # {}

LEMMA AwaitedStep ==
  ASSUME TypeInv, Alone, Awaited, Mishaps \cap {"declined", "unresumable"} = {}, Next
  PROVE  Awaited'
<1>1. ASSUME NEW r \in Runs, TurnEnds(r)
      PROVE  Awaited'
  <2>1. CASE UNCHANGED suspended
    BY <1>1, <2>1 DEF TurnEnds, Awaited
  <2>2. CASE \E i \in DOMAIN run[r].calls : run[r].calls[i] = "ask"
    <3>1. r \in Active /\ run[r].pc = "tools"
      BY <1>1 DEF TurnEnds, Active
    <3>2. waiting # {}
      BY <2>2, <3>1 DEF Alone, AsksWait
    <3>3. QED
      BY <1>1, <3>2 DEF TurnEnds, Awaited
  <2>3. QED
    BY <1>1, <2>1, <2>2 DEF TurnEnds
<1>2. ASSUME NEW r \in Runs, ToolAnswers(r)
      PROVE  Awaited'
  <2>1. UNCHANGED <<suspended, resuming>> /\ waiting \subseteq waiting'
    BY <1>2 DEF ToolAnswers, Returns
  <2>2. QED
    BY <2>1 DEF Awaited
<1>3. ASSUME NEW r \in Runs, RunStep(r)
      PROVE  Awaited'
  <2>1. CASE UNCHANGED <<suspended, waiting, resuming>>
    BY <2>1 DEF Awaited
  <2>2. QED
    BY <1>1, <1>2, <1>3, <2>1
       DEF RunStep, Passes, Ends, Starts, NewTurn, Answered, CheckMade, TurnLost, asked
<1>4. CASE ReviewStep
  <2>1. \E a \in waiting : Approve(a)
    BY <1>4 DEF ReviewStep, DecideOnly, Fail
  <2>2. resuming' # {}
    BY <2>1 DEF Approve
  <2>3. QED
    BY <2>2 DEF Awaited
<1>5. CASE (\E a \in resuming : Succeed(a)) \/ Restart
  BY <1>5 DEF Succeed, Restart, Awaited
<1>6. QED
  BY <1>3, <1>4, <1>5, NextEffect

(* A suspended session without a run under way waits for a decision that   *)
(* can resume it, unless a request of its was declined or cannot be        *)
(* executed once approved: the pause is only entered for a call that       *)
(* asked, whose request stays until it is decided, and then until it has   *)
(* been executed.                                                          *)
THEOREM SuspensionAwaited == Spec => []SuspendedWaits
<1> DEFINE Inv == Without({"declined", "unresumable"}) => Awaited
<1>1. Init => Inv
  BY DEF Init, Awaited
<1>2. TypeInv /\ (~Overlapping => Alone) /\ Inv /\ [Next]_vars => Inv'
  <2> SUFFICES ASSUME TypeInv, ~Overlapping => Alone, Inv, [Next]_vars, Without({"declined", "unresumable"})'
               PROVE  Awaited'
    OBVIOUS
  <2>1. CASE UNCHANGED vars
    BY <2>1 DEF vars, asked, Without, Overlapping, Mishaps, Awaited
  <2>2. CASE Next
    <3>1. ~Overlapping /\ Mishaps \cap {"declined", "unresumable"} = {} /\ Awaited
      BY <2>2, NextEffect DEF Without, Overlapping, Mishaps
    <3>2. QED
      BY <2>2, <3>1, AwaitedStep
  <2>3. QED
    BY <2>1, <2>2
<1>3. Inv => SuspendedWaits
  BY DEF SuspendedWaits, Awaited
<1>4. QED
  BY <1>1, <1>2, <1>3, TypeInvariant, AloneInvariant, PTL DEF Spec

-----------------------------------------------------------------------------
(* A session that is marked as paused, or has a run in its pause, is        *)
(* suspended, as long as the process is not restarted.                      *)

PauseKept ==
  /\ status = "paused" => suspended
  /\ \A r \in Runs : run[r].pc = "pausing" => suspended

LEMMA PauseStep ==
  ASSUME TypeInv, Alone, PauseKept, "restart" \notin Mishaps, Next
  PROVE  PauseKept'
<1>1. ASSUME NEW r \in Runs, Changes(r), UNCHANGED suspended,
             status' = "paused" => status = "paused" \/ run[r].pc = "pausing",
             run'[r].pc = "pausing" => run[r].pc = "pausing"
      PROVE  PauseKept'
  BY <1>1 DEF PauseKept, Changes
<1>2. ASSUME NEW r \in Runs, TurnEnds(r)
      PROVE  PauseKept'
  <2>1. CASE run'[r].pc = "loop" /\ UNCHANGED <<status, suspended, checkpoints>>
    BY <1>1, <1>2, <2>1 DEF TurnEnds
  <2>2. CASE suspended' = TRUE
    BY <2>2 DEF PauseKept
  <2>3. QED
    BY <1>2, <2>1, <2>2 DEF TurnEnds
<1>3. ASSUME NEW r \in Runs, Answered(r)
      PROVE  PauseKept'
  <2>1. UNCHANGED suspended
    BY <1>3 DEF Answered
  <2>2. Changes(r) /\ run'[r].pc # "pausing" /\ (UNCHANGED status \/ status' = "aborted")
    BY <1>3 DEF Answered, Exceeds, Says, Asks
  <2>3. QED
    BY <1>1, <2>1, <2>2
<1>4. ASSUME NEW r \in Runs, CheckMade(r) \/ ToolAnswers(r)
      PROVE  PauseKept'
  <2>1. Changes(r) /\ UNCHANGED <<suspended, status>> /\ run'[r].pc = run[r].pc
    BY <1>4 DEF CheckMade, OneMoreCheck, ToolAnswers, Returns
  <2>2. QED
    BY <1>1, <2>1
<1>5. ASSUME NEW r \in Runs, Passes(r)
      PROVE  PauseKept'
  <2>1. /\ Changes(r) /\ UNCHANGED <<suspended, status>>
        /\ run'[r].pc = "pausing" => run[r].pc = "pausing"
    BY <1>5 DEF Passes
  <2>2. QED
    BY <1>1, <2>1
<1>6. ASSUME NEW r \in Runs, RunStep(r)
      PROVE  PauseKept'
  <2>1. CASE Ends(r) \/ Starts(r) \/ NewTurn(r) \/ TurnLost(r)
    <3>1. /\ Changes(r) /\ UNCHANGED suspended
          /\ run'[r].pc # "pausing"
          /\ status' = "paused" => status = "paused" \/ run[r].pc = "pausing"
      BY <2>1 DEF Ends, Starts, NewTurn, TurnLost
    <3>2. QED
      BY <1>1, <3>1
  <2>2. QED
    BY <1>2, <1>3, <1>4, <1>5, <1>6, <2>1 DEF RunStep
<1>7. CASE ReviewStep
  BY <1>7 DEF ReviewStep, Approve, DecideOnly, Fail, PauseKept
<1>8. ASSUME NEW a \in resuming, Succeed(a)
      PROVE  PauseKept'
  <2>1. Active = {} /\ UNCHANGED run /\ status' = "active"
    BY <1>8 DEF Alone, Succeed
  <2>2. QED
    BY <2>1 DEF PauseKept, Active
<1>9. ~Restart
  BY DEF Restart
<1>10. QED
  BY <1>6, <1>7, <1>8, <1>9, NextEffect

LEMMA PauseInvariant == Spec => [](Without({"restart"}) => PauseKept)
<1> DEFINE Inv == Without({"restart"}) => PauseKept
<1>1. Init => Inv
  BY DEF Init, Fresh, PauseKept
<1>2. TypeInv /\ (~Overlapping => Alone) /\ Inv /\ [Next]_vars => Inv'
  <2> SUFFICES ASSUME TypeInv, ~Overlapping => Alone, Inv, [Next]_vars, Without({"restart"})'
               PROVE  PauseKept'
    OBVIOUS
  <2>1. CASE UNCHANGED vars
    BY <2>1 DEF vars, Without, Overlapping, Mishaps, PauseKept
  <2>2. CASE Next
    <3>1. ~Overlapping /\ "restart" \notin Mishaps /\ PauseKept
      BY <2>2, NextEffect DEF Without, Overlapping, Mishaps
    <3>2. QED
      BY <2>2, <3>1, PauseStep
  <2>3. QED
    BY <2>1, <2>2
<1>3. QED
  BY <1>1, <1>2, TypeInvariant, AloneInvariant, PTL DEF Spec

(* Only the start of a run makes an idle one start.                        *)
LEMMA OnlyStarts ==
  ASSUME TypeInv, Next, NEW r \in Runs, run[r].pc = "idle", run'[r].pc = "starting"
  PROVE  Starts(r)
<1>1. ASSUME NEW q \in Runs, RunStep(q)
      PROVE  Starts(r)
  <2>1. Changes(q)
    BY <1>1 DEF RunStep, Passes, Ends, Starts, NewTurn, Answered, Exceeds, Says, Asks, ToolAnswers,
                Returns, CheckMade, OneMoreCheck, TurnEnds, TurnLost
  <2>2. q = r
    BY <2>1 DEF Changes
  <2>3. ~Passes(r)
    BY DEF Passes
  <2>4. QED
    BY <1>1, <2>2, <2>3 DEF RunStep, Ends, NewTurn, Answered, ToolAnswers, Returns, CheckMade,
                            TurnEnds, TurnLost
<1>2. ~ReviewStep /\ ~ \E a \in resuming : Succeed(a)
  BY DEF ReviewStep, Approve, DecideOnly, Fail, Succeed
<1>3. ~Restart
  BY RestartEffect DEF TypeInv, Types
<1>4. QED
  BY <1>1, <1>2, <1>3, NextEffect

(* While a session is marked as paused, no run of it starts: SuspendLayer  *)
(* still holds the session, because only a resumption lets it go, and that *)
(* changes the status in the same step.                                    *)
THEOREM PauseHolds == Spec => PausedStartsNothing
<1>1. TypeInv /\ (Without({"restart"}) => PauseKept) /\ [Next]_vars =>
        [Without({"restart"}) => \A r \in Runs :
           run[r].pc = "idle" /\ run'[r].pc = "starting" => status # "paused"]_vars
  <2> SUFFICES ASSUME TypeInv, PauseKept, Next, NEW r \in Runs,
                      run[r].pc = "idle", run'[r].pc = "starting"
               PROVE  status # "paused"
    OBVIOUS
  <2>1. ~suspended
    BY OnlyStarts DEF Starts
  <2>2. QED
    BY <2>1 DEF PauseKept
<1>2. QED
  BY <1>1, TypeInvariant, PauseInvariant, PTL DEF Spec, PausedStartsNothing

-----------------------------------------------------------------------------
(* Conversations in which each call is answered.                            *)

\* The first m messages are well-formed on their own.
WellFormedUpTo(h, m) ==
  /\ \A i \in 1..m : h[i].role = "assistant" =>
       \A k \in 1..h[i].n : /\ i + k <= m
                            /\ h[i + k] = [role |-> "tool", of |-> h[i].of, n |-> k]
  /\ \A j \in 1..m : h[j].role = "tool" =>
       \E i \in 1..(j - 1) : h[i].role = "assistant" /\ h[i].of = h[j].of /\ j - i <= h[i].n

LEMMA MessageFacts ==
  ASSUME MaxCalls \in Nat, NEW h \in Seq(Messages)
  PROVE  /\ Len(h) \in Nat /\ DOMAIN h = 1..Len(h)
         /\ \A i \in 1..Len(h) : h[i] \in Messages /\ h[i].n \in Nat
<1>1. Len(h) \in Nat /\ DOMAIN h = 1..Len(h)
  BY LenProperties
<1>2. ASSUME NEW i \in 1..Len(h)
      PROVE  h[i] \in Messages /\ h[i].n \in Nat
  <2>1. h[i] \in Messages
    BY ElementOfSeq
  <2>2. QED
    BY <2>1 DEF Messages
<1>3. QED
  BY <1>1, <1>2

LEMMA WholeIsUpTo ==
  ASSUME MaxCalls \in Nat, NEW h \in Seq(Messages)
  PROVE  WellFormed(h) <=> WellFormedUpTo(h, Len(h))
<1>1. /\ Len(h) \in Nat /\ DOMAIN h = 1..Len(h)
      /\ \A i \in 1..Len(h) : h[i].n \in Nat
  BY MessageFacts
<1>2. \A i \in 1..Len(h) : \A k \in 1..h[i].n : i + k \in DOMAIN h <=> i + k <= Len(h)
  BY <1>1
<1>3. QED
  BY <1>1, <1>2 DEF WellFormed, WellFormedUpTo

(* What is said later does not matter.                                     *)
LEMMA UpToPrefix ==
  ASSUME MaxCalls \in Nat, NEW h \in Seq(Messages), NEW g \in Seq(Messages), NEW m \in 0..Len(h),
         Len(h) <= Len(g), \A i \in 1..Len(h) : g[i] = h[i],
         WellFormedUpTo(h, m)
  PROVE  WellFormedUpTo(g, m)
<1>1. /\ Len(h) \in Nat /\ m \in Nat /\ m <= Len(h)
      /\ \A i \in 1..m : g[i] = h[i] /\ h[i].n \in Nat
  BY MessageFacts
<1>2. ASSUME NEW i \in 1..m, g[i].role = "assistant", NEW k \in 1..g[i].n
      PROVE  i + k <= m /\ g[i + k] = [role |-> "tool", of |-> g[i].of, n |-> k]
  <2>1. g[i] = h[i] /\ k \in 1..h[i].n
    BY <1>1, <1>2
  <2>2. i + k <= m /\ h[i + k] = [role |-> "tool", of |-> h[i].of, n |-> k]
    BY <1>2, <2>1 DEF WellFormedUpTo
  <2>3. i + k \in 1..m
    BY <1>1, <2>1, <2>2
  <2>4. QED
    BY <1>1, <2>1, <2>2, <2>3
<1>3. ASSUME NEW j \in 1..m, g[j].role = "tool"
      PROVE  \E i \in 1..(j - 1) : g[i].role = "assistant" /\ g[i].of = g[j].of /\ j - i <= g[i].n
  <2>1. PICK i \in 1..(j - 1) : h[i].role = "assistant" /\ h[i].of = h[j].of /\ j - i <= h[i].n
    BY <1>1, <1>3 DEF WellFormedUpTo
  <2>2. i \in 1..m
    BY <1>1
  <2>3. QED
    BY <1>1, <2>1, <2>2
<1>4. QED
  BY <1>2, <1>3 DEF WellFormedUpTo

(* A message that neither calls nor answers changes nothing.               *)
LEMMA SayPlain ==
  ASSUME MaxCalls \in Nat, NEW h \in Seq(Messages), WellFormed(h), NEW message \in Messages,
         message.role = "user" \/ (message.role = "assistant" /\ message.n = 0)
  PROVE  WellFormed(Append(h, message))
<1> DEFINE g == Append(h, message)
<1>1. /\ g \in Seq(Messages) /\ Len(g) = Len(h) + 1 /\ g[Len(h) + 1] = message
      /\ \A i \in 1..Len(h) : g[i] = h[i]
  BY AppendProperties
<1>2. Len(h) \in Nat
  BY MessageFacts
<1> HIDE DEF g
<1>3. WellFormedUpTo(g, Len(h))
  <2>1. WellFormedUpTo(h, Len(h)) /\ Len(h) \in 0..Len(h) /\ Len(h) <= Len(g)
    BY <1>1, <1>2, WholeIsUpTo
  <2>2. QED
    BY <1>1, <2>1, UpToPrefix
<1>4. ASSUME NEW i \in 1..Len(g), g[i].role = "assistant", NEW k \in 1..g[i].n
      PROVE  i + k <= Len(g) /\ g[i + k] = [role |-> "tool", of |-> g[i].of, n |-> k]
  <2>1. i # Len(h) + 1
    BY <1>1, <1>4
  <2>2. i \in 1..Len(h)
    BY <1>1, <1>2, <2>1
  <2>3. i + k <= Len(h) /\ g[i + k] = [role |-> "tool", of |-> g[i].of, n |-> k]
    BY <1>3, <1>4, <2>2 DEF WellFormedUpTo
  <2>4. g[i].n \in Nat
    BY <1>1, MessageFacts
  <2>5. QED
    BY <1>1, <1>2, <2>3, <2>4
<1>5. ASSUME NEW j \in 1..Len(g), g[j].role = "tool"
      PROVE  \E i \in 1..(j - 1) : g[i].role = "assistant" /\ g[i].of = g[j].of /\ j - i <= g[i].n
  <2>1. j # Len(h) + 1
    BY <1>1, <1>5
  <2>2. j \in 1..Len(h)
    BY <1>1, <1>2, <2>1
  <2>3. QED
    BY <1>3, <1>5, <2>2 DEF WellFormedUpTo
<1>6. WellFormedUpTo(g, Len(g))
  BY <1>4, <1>5 DEF WellFormedUpTo
<1>7. QED
  BY <1>1, <1>6, WholeIsUpTo DEF g

(* The answers of the last message's calls, in their order, complete it.   *)
LEMMA AnswerAll ==
  ASSUME MaxCalls \in Nat, NEW h \in Seq(Messages), NEW answers \in Seq(Messages), NEW of,
         h # <<>>, h[Len(h)] = Message("assistant", of, Len(answers)),
         WellFormedUpTo(h, Len(h) - 1),
         \A k \in 1..Len(answers) : answers[k] = Message("tool", of, k)
  PROVE  WellFormed(h \o answers)
<1> DEFINE g == h \o answers
           m == Len(h)
           n == Len(answers)
<1>1. m \in Nat /\ n \in Nat /\ m > 0
  BY LenProperties, EmptySeq
<1>2. /\ g \in Seq(Messages) /\ Len(g) = m + n
      /\ \A i \in 1..(m + n) : g[i] = IF i <= m THEN h[i] ELSE answers[i - m]
  BY ConcatProperties
<1> HIDE DEF g
<1>3. /\ g[m].role = "assistant" /\ g[m].of = of /\ g[m].n = n
      /\ \A k \in 1..n : g[m + k] = [role |-> "tool", of |-> of, n |-> k]
  <2>1. \A k \in 1..n : m + k \in 1..(m + n) /\ ~(m + k <= m) /\ (m + k) - m = k
    BY <1>1
  <2>2. \A k \in 1..n : g[m + k] = answers[k]
    BY <1>2, <2>1
  <2>3. g[m] = h[m]
    BY <1>1, <1>2
  <2>4. QED
    BY <2>2, <2>3 DEF Message
<1>4. WellFormedUpTo(g, m - 1)
  <2>1. m - 1 \in 0..m /\ m <= Len(g) /\ \A i \in 1..m : g[i] = h[i]
    BY <1>1, <1>2
  <2>2. QED
    BY <1>2, <2>1, UpToPrefix
<1>5. ASSUME NEW i \in 1..Len(g), g[i].role = "assistant", NEW k \in 1..g[i].n
      PROVE  i + k <= Len(g) /\ g[i + k] = [role |-> "tool", of |-> g[i].of, n |-> k]
  <2>1. CASE i < m
    <3>1. i \in 1..(m - 1)
      BY <1>1, <1>2, <2>1
    <3>2. i + k <= m - 1 /\ g[i + k] = [role |-> "tool", of |-> g[i].of, n |-> k]
      BY <1>4, <1>5, <3>1 DEF WellFormedUpTo
    <3>3. g[i].n \in Nat
      BY <1>2, MessageFacts
    <3>4. QED
      BY <1>1, <1>2, <3>2, <3>3
  <2>2. CASE i = m
    BY <1>1, <1>2, <1>3, <2>2
  <2>3. CASE i > m
    <3>1. i - m \in 1..n /\ i = m + (i - m)
      BY <1>1, <1>2, <2>3
    <3>2. g[i] = [role |-> "tool", of |-> of, n |-> i - m]
      BY <1>3, <3>1
    <3>3. QED
      BY <1>5, <3>2
  <2>4. QED
    BY <1>1, <1>2, <2>1, <2>2, <2>3
<1>6. ASSUME NEW j \in 1..Len(g), g[j].role = "tool"
      PROVE  \E i \in 1..(j - 1) : g[i].role = "assistant" /\ g[i].of = g[j].of /\ j - i <= g[i].n
  <2>1. CASE j < m
    <3>1. j \in 1..(m - 1)
      BY <1>1, <1>2, <2>1
    <3>2. QED
      BY <1>4, <1>6, <3>1 DEF WellFormedUpTo
  <2>2. CASE j = m
    BY <1>3, <1>6, <2>2
  <2>3. CASE j > m
    <3>1. j - m \in 1..n /\ j = m + (j - m) /\ m \in 1..(j - 1) /\ j - m <= n
      BY <1>1, <1>2, <2>3
    <3>2. g[j] = [role |-> "tool", of |-> of, n |-> j - m]
      BY <1>3, <3>1
    <3>3. g[m].role = "assistant" /\ g[m].of = g[j].of /\ j - m <= g[m].n
      BY <1>3, <3>1, <3>2
    <3>4. QED
      BY <3>1, <3>3
  <2>4. QED
    BY <1>1, <1>2, <2>1, <2>2, <2>3
<1>7. WellFormedUpTo(g, Len(g))
  BY <1>5, <1>6 DEF WellFormedUpTo
<1>8. QED
  BY <1>2, <1>7, WholeIsUpTo DEF g

-----------------------------------------------------------------------------
(* While a run executes tools, the conversation ends with the message that  *)
(* called them, and is well-formed before it; otherwise it is well-formed,  *)
(* and so is what the checkpoints hold.                                     *)

Acting(r) == run[r].pc \in {"node", "tools"}

Asking(r) ==
  /\ history # <<>>
  /\ history[Len(history)] = Message("assistant", <<r, run[r].turn>>, Len(run[r].calls))
  /\ WellFormedUpTo(history, Len(history) - 1)

NoneLost == \A r \in Runs : \A i \in DOMAIN run[r].calls : run[r].calls[i] # "lost"

CallsKept ==
  /\ NoneLost
  /\ \A r \in Runs : Acting(r) => Asking(r)
  /\ (\A r \in Runs : ~Acting(r)) => WellFormed(history)
  /\ \A i \in DOMAIN checkpoints : WellFormed(checkpoints[i].messages)

CallsMishaps == {"fault", "lost", "interrupt", "restart"}

(* No other run acts while one takes a step.                               *)
LEMMA NoOtherActs ==
  ASSUME Alone, ~Overlapping, NEW r \in Runs, RunStep(r), NEW q \in Runs, q # r
  PROVE  ~Acting(q) /\ Changes(r) /\ ~Acting(q)'
<1>1. r \in Active \/ Active = {}
  <2>1. CASE Ends(r) \/ Starts(r)
    BY <2>1 DEF Ends, Starts, Active, Undisturbed
  <2>2. CASE Passes(r)
    BY <2>2 DEF Passes, Active
  <2>3. QED
    BY <2>1, <2>2 DEF RunStep, NewTurn, Answered, ToolAnswers, Returns, CheckMade, TurnEnds,
                      TurnLost, Active
<1>2. Changes(r)
  BY DEF RunStep, Passes, Ends, Starts, NewTurn, Answered, Exceeds, Says, Asks, ToolAnswers,
         Returns, CheckMade, OneMoreCheck, TurnEnds, TurnLost
<1>3. QED
  BY <1>1, <1>2 DEF Alone, Active, Acting, Changes

LEMMA CallsStep ==
  ASSUME TypeInv, Alone, ~Overlapping, CallsKept, Mishaps \cap CallsMishaps = {},
         NEW r \in Runs, RunStep(r)
  PROVE  CallsKept'
<1>0. /\ MaxCalls \in Nat /\ 0 \in 0..MaxCalls /\ history \in Seq(Messages)
      /\ run \in [Runs -> RunState] /\ run[r] \in RunState
      /\ run[r].turn \in 0..MaxTurns /\ <<r, run[r].turn>> \in Turn /\ <<r, 0>> \in Turn
      /\ Len(run[r].calls) <= MaxCalls
      /\ "fault" \notin Mishaps /\ "lost" \notin Mishaps /\ "interrupt" \notin Mishaps
  <2>1. MaxCalls \in Nat /\ 0 \in 0..MaxCalls /\ 0 \in 0..MaxTurns
    BY LoopAssumption
  <2>2. /\ history \in Seq(Messages) /\ run \in [Runs -> RunState] /\ run[r] \in RunState
        /\ Len(run[r].calls) <= MaxCalls
    BY DEF TypeInv, Types, Shape, Shaped
  <2>3. run[r].turn \in 0..MaxTurns
    BY <2>2 DEF RunState
  <2>4. "fault" \notin Mishaps /\ "lost" \notin Mishaps /\ "interrupt" \notin Mishaps
    BY DEF CallsMishaps
  <2>5. QED
    BY <2>1, <2>2, <2>3, <2>4 DEF Turn
<1>1. /\ Changes(r)
      /\ \A q \in Runs : q # r => ~Acting(q) /\ ~Acting(q)' /\ run'[q] = run[q]
  <2>1. Changes(r)
    BY DEF RunStep, Passes, Ends, Starts, NewTurn, Answered, Exceeds, Says, Asks, ToolAnswers,
           Returns, CheckMade, OneMoreCheck, TurnEnds, TurnLost
  <2>2. QED
    BY <2>1, NoOtherActs DEF Changes
<1>2. ~Acting(r) => WellFormed(history)
  BY <1>1 DEF CallsKept
<1>3. Acting(r) => Asking(r)
  BY DEF CallsKept
<1>4. ASSUME \A i \in DOMAIN run'[r].calls : run'[r].calls[i] # "lost",
             UNCHANGED checkpoints,
             Acting(r)' => Asking(r)', ~Acting(r)' => WellFormed(history)'
      PROVE  CallsKept'
  BY <1>1, <1>4 DEF CallsKept, NoneLost
<1>5. ASSUME NEW message \in Messages, history' = Append(history, message),
             message.role = "user" \/ (message.role = "assistant" /\ message.n = 0),
             ~Acting(r)
      PROVE  WellFormed(history)'
  BY <1>0, <1>2, <1>5, SayPlain
<1>6. CASE Passes(r)
  <2>1. /\ run'[r].calls = run[r].calls /\ run'[r].turn = run[r].turn
        /\ Acting(r) <=> Acting(r)'
        /\ UNCHANGED <<history, checkpoints>>
    BY <1>6 DEF Passes, Keeps, Acting
  <2>2. QED
    BY <1>2, <1>3, <1>4, <2>1 DEF CallsKept, NoneLost, Asking
<1>7. CASE Ends(r) \/ Starts(r)
  <2>1. /\ run'[r].calls = run[r].calls /\ UNCHANGED checkpoints /\ ~Acting(r)'
    BY <1>7 DEF Ends, Starts, Keeps, Acting
  <2>2. ~Acting(r)
    BY <1>0, <1>7 DEF Ends, Starts, Acting
  <2>3. WellFormed(history)'
    <3>1. CASE UNCHANGED history
      BY <1>2, <2>2, <3>1
    <3>2. CASE history' = Append(history, Message("user", <<r, 0>>, 0))
      <4>1. /\ Message("user", <<r, 0>>, 0) \in Messages
            /\ Message("user", <<r, 0>>, 0).role = "user"
        BY <1>0, MessageType
      <4>2. QED
        BY <1>5, <2>2, <3>2, <4>1
    <3>3. QED
      BY <1>7, <3>1, <3>2 DEF Ends, Starts
  <2>4. QED
    BY <1>4, <2>1, <2>3 DEF CallsKept, NoneLost
<1>8. CASE NewTurn(r)
  BY <1>2, <1>4, <1>8 DEF NewTurn, Acting, CallsKept, NoneLost
<1>9. CASE Answered(r)
  <2>1. PICK tokens \in Nat : \/ Exceeds(r, tokens) \/ Says(r, tokens)
                              \/ \E n \in 1..MaxCalls : Asks(r, n, tokens)
    BY <1>9 DEF Answered
  <2>2. ~Acting(r) /\ UNCHANGED checkpoints
    BY <1>9 DEF Answered, Acting
  <2>3. CASE Exceeds(r, tokens)
    BY <1>2, <1>4, <2>2, <2>3 DEF Exceeds, Acting, CallsKept, NoneLost
  <2>4. CASE Says(r, tokens)
    <3>1. /\ Message("assistant", <<r, run[r].turn>>, 0) \in Messages
          /\ Message("assistant", <<r, run[r].turn>>, 0).role = "assistant"
          /\ Message("assistant", <<r, run[r].turn>>, 0).n = 0
      BY <1>0, MessageType
    <3>2. WellFormed(history)'
      BY <1>5, <2>2, <2>4, <3>1 DEF Says
    <3>3. QED
      BY <1>4, <2>2, <2>4, <3>2 DEF Says, Acting, CallsKept, NoneLost
  <2>5. ASSUME NEW n \in 1..MaxCalls, Asks(r, n, tokens)
        PROVE  CallsKept'
    <3> DEFINE message == Message("assistant", <<r, run[r].turn>>, n)
    <3>1. message \in Messages /\ n \in 0..MaxCalls
      BY <1>0, MessageType
    <3>2. history' = Append(history, message)
      BY <2>5 DEF Asks
    <3> HIDE DEF message
    <3>3. /\ history' \in Seq(Messages) /\ Len(history') = Len(history) + 1
          /\ history'[Len(history) + 1] = message
          /\ \A i \in 1..Len(history) : history'[i] = history[i]
      BY <1>0, <3>1, <3>2, AppendProperties
    <3>4. Len(history) \in Nat /\ WellFormedUpTo(history, Len(history))
      BY <1>0, <1>2, <2>2, WholeIsUpTo, LenProperties
    <3>5. /\ Len(history) \in 0..Len(history) /\ Len(history) <= Len(history')
          /\ Len(history') - 1 = Len(history) /\ Len(history') # 0
      BY <3>3, <3>4
    <3>6. WellFormedUpTo(history', Len(history') - 1)
      BY <1>0, <3>3, <3>4, <3>5, UpToPrefix
    <3>7. history' # <<>>
      BY <3>5
    <3>8. Asking(r)'
      BY <2>5, <3>3, <3>5, <3>6, <3>7 DEF Asking, Asks, message
    <3>9. /\ run'[r].pc = "node"
          /\ \A i \in DOMAIN run'[r].calls : run'[r].calls[i] # "lost"
      BY <2>5 DEF Asks
    <3>10. QED
      BY <1>4, <2>2, <3>8, <3>9 DEF Acting
  <2>6. QED
    BY <2>1, <2>3, <2>4, <2>5
<1>10. CASE ToolAnswers(r)
  <2>1. PICK i \in DOMAIN run[r].calls, outcome \in {"done", "wrote", "ask", "lost"} :
          Returns(r, i, outcome)
    BY <1>10 DEF ToolAnswers
  <2>2. /\ Acting(r) /\ Acting(r)' /\ UNCHANGED <<history, checkpoints>>
        /\ run'[r].turn = run[r].turn /\ Len(run'[r].calls) = Len(run[r].calls)
    BY <2>1 DEF Returns, Acting
  <2>3. ASSUME NEW j \in DOMAIN run'[r].calls
        PROVE  run'[r].calls[j] # "lost"
    <3>1. outcome # "lost"
      BY <1>0, <2>1 DEF Returns
    <3>2. run[r].calls[j] # "lost"
      BY <2>1 DEF Returns, CallsKept, NoneLost
    <3>3. QED
      BY <2>1, <3>1, <3>2 DEF Returns
  <2>4. QED
    BY <1>3, <1>4, <2>2, <2>3 DEF Asking
<1>11. CASE CheckMade(r)
  <2>1. /\ Acting(r) /\ Acting(r)' /\ UNCHANGED <<history, checkpoints>>
        /\ run'[r].turn = run[r].turn /\ run'[r].calls = run[r].calls
    BY <1>11 DEF CheckMade, OneMoreCheck, Acting
  <2>2. QED
    BY <1>3, <1>4, <2>1 DEF Asking, CallsKept, NoneLost
<1>12. CASE TurnEnds(r)
  <2>1. /\ Asking(r) /\ ~Acting(r)' /\ run'[r].calls = run[r].calls
        /\ history' \in Seq(Messages)
        /\ history' = (history \o Answers(r)) \o Injected(r)
        /\ Answers(r) \in Seq(Messages) /\ Injected(r) \in Seq(Messages)
    BY <1>3, <1>12 DEF TurnEnds, Keeps, Acting
  <2>2. WellFormed(history \o Answers(r))
    <3>1. /\ Len(Answers(r)) = Len(run[r].calls)
          /\ \A k \in DOMAIN run[r].calls : Answers(r)[k] = Message("tool", <<r, run[r].turn>>, k)
      BY <1>0, AnswersType DEF CallsKept, NoneLost
    <3>2. DOMAIN run[r].calls = 1..Len(run[r].calls)
      BY <1>0, LenProperties DEF RunState
    <3>3. QED
      BY <1>0, <2>1, <3>1, <3>2, AnswerAll DEF Asking
  <2>3. WellFormed(history')
    <3> DEFINE answered == history \o Answers(r)
    <3>1. answered \in Seq(Messages) /\ WellFormed(answered) /\ history' = answered \o Injected(r)
      BY <1>0, <2>1, <2>2, ConcatProperties
    <3> HIDE DEF answered
    <3>2. CASE Injected(r) = <<>>
      BY <3>1, <3>2
    <3>3. CASE Injected(r) # <<>>
      <4>1. Injected(r) = <<Message("user", <<r, run[r].turn>>, 0)>>
        BY <3>3 DEF Injected
      <4>2. history' = Append(answered, Message("user", <<r, run[r].turn>>, 0))
        BY <3>1, <4>1
      <4>3. /\ Message("user", <<r, run[r].turn>>, 0) \in Messages
            /\ Message("user", <<r, run[r].turn>>, 0).role = "user"
        BY <1>0, MessageType
      <4>4. QED
        BY <1>0, <3>1, <4>2, <4>3, SayPlain
    <3>4. QED
      BY <3>2, <3>3
  <2>4. \A i \in DOMAIN checkpoints' : WellFormed(checkpoints'[i].messages)
    <3>1. CASE UNCHANGED checkpoints
      BY <3>1 DEF CallsKept
    <3>2. ASSUME checkpoints' = Append(checkpoints, [status |-> "paused", turn |-> run[r].turn,
                                                     messages |-> history'])
          PROVE  \A i \in DOMAIN checkpoints' : WellFormed(checkpoints'[i].messages)
      <4> DEFINE row == [status |-> "paused", turn |-> run[r].turn, messages |-> history']
      <4>1. WellFormed(row.messages) /\ checkpoints' = Append(checkpoints, row)
        BY <2>3, <3>2
      <4> HIDE DEF row
      <4>2. checkpoints \in Seq(CheckpointRows \cup {row})
        BY SeqMonotonic DEF TypeInv, Types
      <4>3. /\ checkpoints' \in Seq(CheckpointRows \cup {row})
            /\ Len(checkpoints') = Len(checkpoints) + 1
            /\ \A i \in 1..Len(checkpoints) : checkpoints'[i] = checkpoints[i]
            /\ checkpoints'[Len(checkpoints) + 1] = row
        BY <4>1, <4>2, AppendProperties
      <4>4. /\ DOMAIN checkpoints = 1..Len(checkpoints) /\ Len(checkpoints) \in Nat
            /\ DOMAIN checkpoints' = 1..(Len(checkpoints) + 1)
        BY <4>2, <4>3, LenProperties
      <4>5. ASSUME NEW i \in 1..(Len(checkpoints) + 1)
            PROVE  WellFormed(checkpoints'[i].messages)
        <5>1. CASE i \in 1..Len(checkpoints)
          BY <4>3, <4>4, <5>1 DEF CallsKept
        <5>2. CASE i = Len(checkpoints) + 1
          BY <4>1, <4>3, <5>2
        <5>3. QED
          BY <4>4, <5>1, <5>2
      <4>6. QED
        BY <4>4, <4>5
    <3>3. QED
      BY <1>12, <3>1, <3>2 DEF TurnEnds
  <2>5. QED
    BY <1>1, <2>1, <2>3, <2>4 DEF CallsKept, NoneLost
<1>13. ~TurnLost(r)
  BY <1>0 DEF TurnLost
<1>14. QED
  BY <1>6, <1>7, <1>8, <1>9, <1>10, <1>11, <1>12, <1>13 DEF RunStep

LEMMA CallsOthers ==
  ASSUME TypeInv, Alone, CallsKept, ReviewStep \/ \E a \in resuming : Succeed(a)
  PROVE  CallsKept'
<1>1. CASE ReviewStep
  BY <1>1 DEF ReviewStep, Approve, DecideOnly, Fail, CallsKept, NoneLost, Acting, Asking
<1>2. ASSUME NEW a \in resuming, Succeed(a)
      PROVE  CallsKept'
  <2>1. /\ history' = Resumed(checkpoints, history)
        /\ UNCHANGED <<run, checkpoints>>
    BY <1>2 DEF Succeed
  <2>2. \A r \in Runs : ~Acting(r)
    BY DEF Alone, Active, Acting
  <2>3. WellFormed(history)
    BY <2>2 DEF CallsKept
  <2>4. \/ history' = history
        \/ \E i \in DOMAIN checkpoints : history' = checkpoints[i].messages
    BY <2>1, ResumedType DEF TypeInv, Types
  <2>5. WellFormed(history')
    BY <2>3, <2>4 DEF CallsKept
  <2>6. QED
    BY <2>1, <2>2, <2>5 DEF CallsKept, NoneLost, Acting
<1>3. QED
  BY <1>1, <1>2

LEMMA CallsInvariant == Spec => [](Without(CallsMishaps) => CallsKept)
<1> DEFINE Inv == Without(CallsMishaps) => CallsKept
<1>1. Init => Inv
  BY DEF Init, Fresh, CallsKept, NoneLost, Acting, WellFormed
<1>2. TypeInv /\ (~Overlapping => Alone) /\ Inv /\ [Next]_vars => Inv'
  <2> SUFFICES ASSUME TypeInv, ~Overlapping => Alone, Inv, [Next]_vars, Without(CallsMishaps)'
               PROVE  CallsKept'
    OBVIOUS
  <2>1. CASE UNCHANGED vars
    BY <2>1 DEF vars, Without, CallsMishaps, Overlapping, Mishaps, CallsKept, NoneLost, Acting, Asking
  <2>2. CASE Next
    <3>1. ~Overlapping /\ Mishaps \cap CallsMishaps = {} /\ CallsKept
      BY <2>2, NextEffect DEF Without, Overlapping, Mishaps, CallsMishaps
    <3>2. ~Restart
      BY <3>1 DEF Restart, CallsMishaps
    <3>3. QED
      BY <2>2, <3>1, <3>2, NextEffect, CallsStep, CallsOthers
  <2>3. QED
    BY <2>1, <2>2
<1>3. QED
  BY <1>1, <1>2, TypeInvariant, AloneInvariant, PTL DEF Spec

(* Only a call of the model goes from thinking to calling.                 *)
LEMMA OnlyCalls ==
  ASSUME TypeInv, Next, NEW r \in Runs, CallsModel(r)
  PROVE  Passes(r)
<1>0. run[r].pc = "think" /\ run'[r].pc = "call"
  BY DEF CallsModel, At
<1>1. ASSUME NEW q \in Runs, RunStep(q)
      PROVE  Passes(r)
  <2>1. Changes(q)
    BY <1>1 DEF RunStep, Passes, Ends, Starts, NewTurn, Answered, Exceeds, Says, Asks, ToolAnswers,
                Returns, CheckMade, OneMoreCheck, TurnEnds, TurnLost
  <2>2. q = r
    BY <1>0, <2>1 DEF Changes
  <2>3. QED
    BY <1>0, <1>1, <2>2 DEF RunStep, Ends, Starts, NewTurn, Answered, ToolAnswers, Returns,
                            CheckMade, TurnEnds, TurnLost
<1>2. ~ReviewStep /\ ~ \E a \in resuming : Succeed(a)
  BY <1>0 DEF ReviewStep, Approve, DecideOnly, Fail, Succeed
<1>3. ~Restart
  BY <1>0, RestartEffect DEF TypeInv, Types
<1>4. QED
  BY <1>1, <1>2, <1>3, NextEffect

(* Whenever the model is called, each tool call of the messages table has  *)
(* its result there, in the order of the calls: also behind a pause and a  *)
(* resumption, which restores the messages of a checkpoint.                *)
THEOREM CallsHaveAnswers == Spec => CallsAnswered
<1>1. /\ TypeInv /\ (~Overlapping => Alone) /\ (Without(CallsMishaps) => CallsKept)
      /\ [Next]_vars
      => [Without(CallsMishaps) => \A r \in Runs : CallsModel(r) => WellFormed(history)]_vars
  <2> SUFFICES ASSUME TypeInv, ~Overlapping => Alone, Without(CallsMishaps), CallsKept, Next,
                      NEW r \in Runs, CallsModel(r)
               PROVE  WellFormed(history)
    OBVIOUS
  <2>1. r \in Active /\ ~Acting(r)
    BY DEF CallsModel, At, Active, Acting
  <2>2. \A q \in Runs : ~Acting(q)
    BY <2>1 DEF Without, Alone, Active, Acting
  <2>3. QED
    BY <2>2 DEF CallsKept
<1>2. QED
  BY <1>1, TypeInvariant, AloneInvariant, CallsInvariant, PTL DEF Spec, CallsAnswered, CallsMishaps

-----------------------------------------------------------------------------
(* Of each failed verification of a turn of a run under way, the            *)
(* conversation has the message, or the turn is about to add it; and when   *)
(* something it wrote has not been verified, the latest report says so, or  *)
(* the verification is still to come.                                       *)

Told(of) == \E k \in DOMAIN history : history[k] = Message("user", of, 0)

FollowUp(r, i) ==
  \/ Told(reports[i].of)
  \/ /\ run[r].pc = "tools" /\ reports[i].of[2] = run[r].turn
     /\ \E j \in DOMAIN run[r].checks : run[r].checks[j] # "passed"

Unverified(r) ==
  \/ reports # <<>> /\ ~reports[Len(reports)].passed
  \/ /\ run[r].pc = "tools" /\ scenario.commands > 0 /\ Wrote(run[r].calls)
     /\ ~AllChecked(run[r].checks, scenario.commands)

Followed(r) ==
  /\ \A i \in Failing(r) : FollowUp(r, i)
  /\ run[r].dirty => Unverified(r)

AllFollowed == \A r \in Active : Followed(r)

(* Only the run that takes a step can be under way after it.               *)
LEMMA ActiveOnly ==
  ASSUME Alone, ~Overlapping, NEW r \in Runs, RunStep(r)
  PROVE  Active' \subseteq {r} /\ Changes(r)
<1>1. CASE Ends(r) \/ Starts(r)
  BY <1>1, ActiveAfter DEF Ends, Starts, Active, Undisturbed, Alone
<1>2. CASE Passes(r)
  BY <1>2, ActiveAfter DEF Passes, Active, Alone
<1>3. CASE Answered(r)
  <2>1. Changes(r) /\ r \in Active
    BY <1>3 DEF Answered, Exceeds, Says, Asks, Active
  <2>2. QED
    BY <2>1, ActiveAfter DEF Alone, Active
<1>4. CASE NewTurn(r) \/ ToolAnswers(r) \/ CheckMade(r) \/ TurnEnds(r) \/ TurnLost(r)
  <2>1. Changes(r) /\ r \in Active
    BY <1>4 DEF NewTurn, ToolAnswers, Returns, CheckMade, OneMoreCheck, TurnEnds, TurnLost, Active
  <2>2. QED
    BY <2>1, ActiveAfter DEF Alone, Active
<1>5. QED
  BY <1>1, <1>2, <1>3, <1>4 DEF RunStep

(* What has been told stays so while the conversation grows.               *)
LEMMA ToldGrows ==
  ASSUME NEW h \in Seq(Messages), history \in Seq(Messages), history' = history \o h, NEW of, Told(of)
  PROVE  Told(of)'
<1>1. PICK k \in DOMAIN history : history[k] = Message("user", of, 0)
  BY DEF Told
<1>2. /\ Len(history) \in Nat /\ Len(h) \in Nat /\ DOMAIN history = 1..Len(history)
      /\ Len(history') = Len(history) + Len(h)
      /\ \A i \in 1..(Len(history) + Len(h)) :
           history'[i] = IF i <= Len(history) THEN history[i] ELSE h[i - Len(history)]
      /\ history' \in Seq(Messages)
  BY ConcatProperties, LenProperties
<1>3. DOMAIN history' = 1..(Len(history) + Len(h))
  BY <1>2, LenProperties
<1>4. k \in DOMAIN history' /\ history'[k] = history[k]
  BY <1>2, <1>3
<1>5. QED
  BY <1>1, <1>4 DEF Told

LEMMA ToldAppends ==
  ASSUME history \in Seq(Messages), NEW message \in Messages, history' = Append(history, message),
         NEW of, Told(of)
  PROVE  Told(of)'
<1>1. <<message>> \in Seq(Messages) /\ history' = history \o <<message>>
  OBVIOUS
<1>2. QED
  BY <1>1, ToldGrows

(* The reports of a run that has not begun a turn                          *)
LEMMA NothingFailing ==
  ASSUME TypeInv, NEW r \in Runs, run[r].turn = 0
  PROVE  Failing(r) = {}
<1>1. ASSUME NEW i \in Failing(r)
      PROVE  FALSE
  <2>1. i \in DOMAIN reports /\ reports[i].of[1] = r /\ reports[i].of[2] > 0
    BY DEF Failing
  <2>2. reports[i] \in ReportRows
    BY <2>1, LenProperties, ElementOfSeq DEF TypeInv, Types
  <2>3. reports[i].of[2] \in Nat
    BY <2>2, LoopAssumption DEF ReportRows, Turn
  <2>4. QED
    BY <2>1, <2>3 DEF TypeInv, ReportsOfTurns
<1>2. QED
  BY <1>1

LEMMA FollowedCheck ==
  ASSUME TypeInv, NEW r \in Runs, Followed(r), CheckMade(r), UNCHANGED scenario
  PROVE  Followed(r)'
<1>1. PICK check \in {"passed"} \cup Outputs, settled \in BOOLEAN : OneMoreCheck(r, check, settled)
  BY DEF CheckMade
<1> DEFINE checks == Append(run[r].checks, check)
           all == AllChecked(checks, scenario.commands)
<1>2. /\ IF all THEN Reports(<<r, run[r].turn>>, checks) ELSE UNCHANGED checked
      /\ settled = (all /\ \A i \in DOMAIN checks : checks[i] = "passed")
      /\ checks \in Checks
      /\ run'[r].pc = "tools" /\ run'[r].turn = run[r].turn /\ run'[r].calls = run[r].calls
      /\ run'[r].checks = checks
      /\ run'[r].dirty = (run[r].dirty /\ ~settled)
      /\ UNCHANGED history
  BY <1>1 DEF OneMoreCheck, CheckMade
<1>3. \A j \in DOMAIN run[r].checks : j \in DOMAIN checks /\ checks[j] = run[r].checks[j]
  <2>1. run[r].checks \in Checks /\ check \in {"passed"} \cup Outputs
    BY DEF TypeInv, Types, RunState
  <2>2. /\ checks \in Checks /\ Len(checks) = Len(run[r].checks) + 1
        /\ \A j \in 1..Len(run[r].checks) : checks[j] = run[r].checks[j]
    BY <2>1, AppendProperties DEF Checks
  <2>3. /\ DOMAIN checks = 1..(Len(run[r].checks) + 1) /\ Len(run[r].checks) \in Nat
        /\ DOMAIN run[r].checks = 1..Len(run[r].checks)
    BY <2>1, <2>2, LenProperties DEF Checks
  <2>4. QED
    BY <2>2, <2>3
<1>4. run[r].pc = "tools" /\ Verifies(r)
  BY DEF CheckMade
<1> HIDE DEF checks
<1>5. ASSUME NEW i, NEW of, of = reports[i].of, of = reports'[i].of, FollowUp(r, i)
      PROVE  FollowUp(r, i)'
  <2>1. CASE Told(of)
    BY <1>2, <1>5, <2>1 DEF FollowUp, Told
  <2>2. CASE /\ of[2] = run[r].turn
             /\ \E j \in DOMAIN run[r].checks : run[r].checks[j] # "passed"
    <3>1. \E j \in DOMAIN checks : checks[j] # "passed"
      BY <1>3, <2>2
    <3>2. QED
      BY <1>2, <1>5, <2>2, <3>1 DEF FollowUp
  <2>3. QED
    BY <1>5, <2>1, <2>2 DEF FollowUp
<1>6. CASE ~all
  <2>1. UNCHANGED reports
    BY <1>2, <1>6 DEF checked
  <2>2. \A i \in Failing(r)' : FollowUp(r, i)'
    <3>1. Failing(r)' = Failing(r)
      BY <2>1 DEF Failing
    <3>2. QED
      BY <1>5, <2>1, <3>1 DEF Followed
  <2>3. run'[r].dirty => Unverified(r)'
    BY <1>2, <1>4, <1>6, <2>1 DEF Unverified, Followed, Verifies
  <2>4. QED
    BY <2>2, <2>3 DEF Followed
<1>7. CASE all
  <2>1. /\ reports' \in Seq(ReportRows)
        /\ Len(reports') = Len(reports) + 1 /\ Len(reports) \in Nat
        /\ DOMAIN reports = 1..Len(reports) /\ DOMAIN reports' = 1..(Len(reports) + 1)
        /\ \A i \in DOMAIN reports : reports'[i] = reports[i]
        /\ reports'[Len(reports) + 1].of = <<r, run[r].turn>>
        /\ reports'[Len(reports) + 1].passed = (\A i \in DOMAIN checks : checks[i] = "passed")
    <3>1. <<r, run[r].turn>> \in Turn /\ Reports(<<r, run[r].turn>>, checks)
      BY <1>2, <1>7 DEF TypeInv, Types, RunState, Turn
    <3>2. reports \in Seq(ReportRows) /\ cases \subseteq CaseRows /\ checks \in Checks
      BY <1>2 DEF TypeInv, Types
    <3>3. Len(reports) \in Nat
      BY <3>2, LenProperties
    <3>4. QED
      BY <3>1, <3>2, <3>3, ReportsEffect
  <2>2. ASSUME NEW i \in Failing(r)'
        PROVE  FollowUp(r, i)'
    <3>1. CASE i \in DOMAIN reports
      <4>1. i \in Failing(r) /\ reports'[i] = reports[i]
        BY <2>1, <3>1 DEF Failing
      <4>2. QED
        BY <1>5, <4>1 DEF Followed
    <3>2. CASE i = Len(reports) + 1
      <4>1. ~ \A j \in DOMAIN checks : checks[j] = "passed"
        BY <2>1, <2>2, <3>2 DEF Failing
      <4>2. reports'[i].of[2] = run'[r].turn
        BY <1>2, <2>1, <3>2
      <4>3. QED
        BY <1>2, <4>1, <4>2 DEF FollowUp
    <3>3. QED
      BY <2>1, <3>1, <3>2 DEF Failing
  <2>3. run'[r].dirty => Unverified(r)'
    <3>1. reports' # <<>>
      BY <2>1
    <3>2. run'[r].dirty => ~reports'[Len(reports')].passed
      BY <1>2, <1>7, <2>1
    <3>3. QED
      BY <3>1, <3>2 DEF Unverified
  <2>4. QED
    BY <2>2, <2>3 DEF Followed
<1>8. QED
  BY <1>6, <1>7

LEMMA FollowedTurnEnds ==
  ASSUME TypeInv, NEW r \in Runs, Followed(r), TurnEnds(r), UNCHANGED scenario
  PROVE  Followed(r)'
<1>1. /\ history \in Seq(Messages) /\ Answers(r) \in Seq(Messages) /\ Injected(r) \in Seq(Messages)
      /\ history' \in Seq(Messages) /\ history' = (history \o Answers(r)) \o Injected(r)
      /\ UNCHANGED reports
      /\ run'[r].turn = run[r].turn /\ run'[r].dirty = run[r].dirty
      /\ MaxCalls \in Nat /\ run[r] \in RunState
  BY LoopAssumption DEF TurnEnds, Keeps, TypeInv, Types
<1> DEFINE answered == history \o Answers(r)
<1>2. answered \in Seq(Messages) /\ Len(answered) \in Nat
  BY <1>1, ConcatProperties, LenProperties
<1>3. history' = history \o (Answers(r) \o Injected(r)) /\ Answers(r) \o Injected(r) \in Seq(Messages)
  <2>1. /\ Len(history) \in Nat /\ Len(Answers(r)) \in Nat /\ Len(Injected(r)) \in Nat
    BY <1>1, LenProperties
  <2>2. QED
    BY <1>1, ConcatProperties, ConcatAssociative
<1>4. \A of : Told(of) => Told(of)'
  BY <1>1, <1>3, ToldGrows
<1>5. (\E j \in DOMAIN run[r].checks : run[r].checks[j] # "passed") => Told(<<r, run[r].turn>>)'
  <2>1. SUFFICES ASSUME \E j \in DOMAIN run[r].checks : run[r].checks[j] # "passed"
                 PROVE  Told(<<r, run[r].turn>>)'
    OBVIOUS
  <2>2. /\ Len(Injected(r)) = 1
        /\ Injected(r)[1] = Message("user", <<r, run[r].turn>>, 0)
    BY <1>1, <2>1, InjectedType
  <2> HIDE DEF answered
  <2>3. /\ Len(history') = Len(answered) + 1
        /\ history'[Len(answered) + 1] = Injected(r)[1]
    <3>1. history' = answered \o Injected(r)
      BY <1>1 DEF answered
    <3>2. /\ Len(history') = Len(answered) + Len(Injected(r))
          /\ \A i \in 1..(Len(answered) + Len(Injected(r))) :
               history'[i] = IF i <= Len(answered) THEN answered[i]
                             ELSE Injected(r)[i - Len(answered)]
      BY <1>1, <1>2, <3>1, ConcatProperties
    <3>3. Len(answered) + 1 \in 1..(Len(answered) + Len(Injected(r)))
      BY <1>2, <2>2
    <3>4. QED
      BY <1>2, <2>2, <3>2, <3>3
  <2>4. Len(answered) + 1 \in DOMAIN history'
    <3>1. DOMAIN history' = 1..Len(history')
      BY <1>1, LenProperties
    <3>2. QED
      BY <1>2, <2>3, <3>1
  <2>5. QED
    BY <1>1, <2>2, <2>3, <2>4 DEF Told
<1>6. ASSUME NEW i \in Failing(r)
      PROVE  Told(reports[i].of)'
  <2>1. CASE Told(reports[i].of)
    BY <1>1, <1>4, <2>1
  <2>2. CASE /\ reports[i].of[2] = run[r].turn
             /\ \E j \in DOMAIN run[r].checks : run[r].checks[j] # "passed"
    <3>1. reports[i] \in ReportRows
      BY LenProperties, ElementOfSeq DEF TypeInv, Types, Failing
    <3>2. reports[i].of \in Turn /\ reports[i].of[1] = r
      BY <3>1 DEF ReportRows, Failing
    <3>3. reports[i].of = <<r, run[r].turn>>
      BY <2>2, <3>2 DEF Turn
    <3>4. QED
      BY <1>1, <1>5, <2>2, <3>3
  <2>3. QED
    BY <2>1, <2>2 DEF Followed, FollowUp
<1>7. run[r].dirty => reports # <<>> /\ ~reports[Len(reports)].passed
  BY DEF Followed, Unverified, TurnEnds, Verifies
<1>8. QED
  BY <1>1, <1>6, <1>7 DEF Followed, FollowUp, Unverified, Failing

LEMMA FollowedTool ==
  ASSUME TypeInv, NEW r \in Runs, Followed(r), ToolAnswers(r), UNCHANGED scenario
  PROVE  Followed(r)'
<1>1. PICK i \in DOMAIN run[r].calls, outcome \in {"done", "wrote", "ask", "lost"} :
        Returns(r, i, outcome)
  BY DEF ToolAnswers
<1>2. /\ run[r].pc = "tools" /\ run'[r].pc = "tools" /\ run[r].calls[i] = "running"
      /\ run'[r].turn = run[r].turn /\ run'[r].checks = run[r].checks
      /\ UNCHANGED <<history, reports>>
  BY <1>1 DEF Returns
<1>3. ~AllChecked(run[r].checks, scenario.commands)
  <2>1. run[r].checks = <<>>
    BY <1>2 DEF TypeInv, Shape, Shaped
  <2>2. QED
    BY <2>1 DEF AllChecked
<1>4. \A k \in Failing(r)' : FollowUp(r, k)'
  BY <1>2 DEF Followed, Failing, FollowUp, Told
<1>5. CASE outcome = "wrote"
  <2>1. scenario.commands > 0 /\ Wrote(run'[r].calls)
    BY <1>1, <1>5 DEF Returns, Wrote
  <2>2. Unverified(r)'
    BY <1>2, <1>3, <2>1 DEF Unverified
  <2>3. QED
    BY <1>4, <2>2 DEF Followed
<1>6. CASE outcome # "wrote"
  <2>1. run'[r].dirty = run[r].dirty
    BY <1>1, <1>6 DEF Returns, TypeInv, Types, RunState
  <2>2. Wrote(run[r].calls) => Wrote(run'[r].calls)
    BY <1>1, <1>2 DEF Returns, Wrote
  <2>3. Unverified(r) => Unverified(r)'
    BY <1>2, <2>2 DEF Unverified
  <2>4. QED
    BY <1>4, <2>1, <2>3 DEF Followed
<1>7. QED
  BY <1>5, <1>6

LEMMA FollowStep ==
  ASSUME TypeInv, Alone, ~Overlapping, AllFollowed, "fault" \notin Mishaps,
         NEW r \in Runs, RunStep(r), UNCHANGED scenario
  PROVE  AllFollowed'
<1>0. Active' \subseteq {r} /\ Changes(r)
  BY ActiveOnly
<1>1. SUFFICES ASSUME r \in Active'
               PROVE  Followed(r)'
  BY <1>0 DEF AllFollowed
<1>2. r \in Active => Followed(r)
  BY DEF AllFollowed
<1>3. ASSUME r \in Active, run'[r].pc # "tools", run'[r].dirty = run[r].dirty, UNCHANGED reports,
             \A of : Told(of) => Told(of)',
             run[r].pc # "tools"
      PROVE  Followed(r)'
  BY <1>2, <1>3 DEF Followed, FollowUp, Unverified, Failing
<1>4. CASE Passes(r)
  <2>1. r \in Active /\ run[r].pc # "tools"
    BY <1>4 DEF Passes, Active
  <2>2. run'[r].dirty = run[r].dirty /\ UNCHANGED <<history, reports>>
    BY <1>4 DEF Passes, Keeps, checked
  <2>3. /\ \A i \in Failing(r)' : FollowUp(r, i)'
        /\ run'[r].dirty => Unverified(r)'
    BY <1>2, <2>1, <2>2 DEF Followed, FollowUp, Told, Unverified, Failing
  <2>4. QED
    BY <2>3 DEF Followed
<1>5. CASE Ends(r)
  BY <1>1, <1>5 DEF Ends, Active
<1>6. CASE Starts(r)
  <2>1. run[r].turn = 0 /\ ~run'[r].dirty /\ UNCHANGED reports
    BY <1>6 DEF Starts, Keeps, TypeInv, Shape, Shaped
  <2>2. Failing(r)' = {}
    BY <2>1, NothingFailing DEF Failing
  <2>3. QED
    BY <2>1, <2>2 DEF Followed
<1>7. CASE NewTurn(r)
  <2>1. r \in Active
    BY <1>7 DEF NewTurn, Active
  <2>2. QED
    BY <1>3, <1>7, <2>1 DEF NewTurn, Told
<1>8. CASE Answered(r)
  <2>1. PICK tokens \in Nat : \/ Exceeds(r, tokens) \/ Says(r, tokens)
                              \/ \E n \in 1..MaxCalls : Asks(r, n, tokens)
    BY <1>8 DEF Answered
  <2>2. /\ r \in Active /\ run[r].pc = "call" /\ UNCHANGED reports
        /\ history \in Seq(Messages) /\ <<r, run[r].turn>> \in Turn /\ MaxCalls \in Nat
    BY <1>8, LoopAssumption DEF Answered, Active, TypeInv, Types, RunState, Turn
  <2>3. run'[r].pc # "tools" /\ run'[r].dirty = run[r].dirty
    BY <2>1 DEF Exceeds, Says, Asks
  <2>4. \A of : Told(of) => Told(of)'
    <3>1. CASE Exceeds(r, tokens)
      BY <3>1 DEF Exceeds, Told
    <3>2. ASSUME NEW n \in 0..MaxCalls,
                 history' = Append(history, Message("assistant", <<r, run[r].turn>>, n))
          PROVE  \A of : Told(of) => Told(of)'
      <4>1. Message("assistant", <<r, run[r].turn>>, n) \in Messages
        BY <2>2, MessageType
      <4>2. QED
        BY <2>2, <3>2, <4>1, ToldAppends
    <3>3. CASE Says(r, tokens)
      <4>1. 0 \in 0..MaxCalls /\ history' = Append(history, Message("assistant", <<r, run[r].turn>>, 0))
        BY <2>2, <3>3 DEF Says
      <4>2. QED
        BY <3>2, <4>1
    <3>4. ASSUME NEW n \in 1..MaxCalls, Asks(r, n, tokens)
          PROVE  \A of : Told(of) => Told(of)'
      <4>1. n \in 0..MaxCalls /\ history' = Append(history, Message("assistant", <<r, run[r].turn>>, n))
        BY <2>2, <3>4 DEF Asks
      <4>2. QED
        BY <3>2, <4>1
    <3>5. QED
      BY <2>1, <3>1, <3>3, <3>4
  <2>5. QED
    BY <1>3, <2>2, <2>3, <2>4
<1>9. CASE ToolAnswers(r)
  <2>1. r \in Active
    BY <1>9 DEF ToolAnswers, Returns, Active
  <2>2. QED
    BY <1>2, <1>9, <2>1, FollowedTool
<1>10. CASE CheckMade(r)
  <2>1. r \in Active
    BY <1>10 DEF CheckMade, Active
  <2>2. QED
    BY <1>2, <1>10, <2>1, FollowedCheck
<1>11. CASE TurnEnds(r)
  <2>1. r \in Active
    BY <1>11 DEF TurnEnds, Active
  <2>2. QED
    BY <1>2, <1>11, <2>1, FollowedTurnEnds
<1>12. ~TurnLost(r)
  BY DEF TurnLost
<1>13. QED
  BY <1>4, <1>5, <1>6, <1>7, <1>8, <1>9, <1>10, <1>11, <1>12 DEF RunStep

LEMMA FollowOthers ==
  ASSUME TypeInv, Alone, ~Overlapping,
         ReviewStep \/ (\E a \in resuming : Succeed(a)) \/ Restart
  PROVE  AllFollowed'
<1>1. CASE ReviewStep \/ \E a \in resuming : Succeed(a)
  <2>1. UNCHANGED run
    BY <1>1 DEF ReviewStep, Approve, DecideOnly, Fail, Succeed
  <2>2. Active = {}
    BY <1>1 DEF ReviewStep, Approve, DecideOnly, Fail, Succeed, Undisturbed, Alone
  <2>3. Active' = {}
    BY <2>1, <2>2 DEF Active
  <2>4. QED
    BY <2>3 DEF AllFollowed
<1>2. CASE Restart
  <2>1. /\ \A r \in Runs : r \in Active => run'[r].pc = "done"
        /\ \A r \in Runs : r \notin Active => run'[r] = run[r]
    BY <1>2, RestartEffect DEF TypeInv, Types
  <2>2. Active' = {}
    BY <2>1 DEF Active
  <2>3. QED
    BY <2>2 DEF AllFollowed
<1>3. QED
  BY <1>1, <1>2

LEMMA FollowInvariant == Spec => [](Without({"fault"}) => AllFollowed)
<1> DEFINE Inv == Without({"fault"}) => AllFollowed
<1>1. Init => Inv
  BY DEF Init, Fresh, AllFollowed, Active
<1>2. TypeInv /\ (~Overlapping => Alone) /\ Inv /\ [Next]_vars => Inv'
  <2> SUFFICES ASSUME TypeInv, ~Overlapping => Alone, Inv, [Next]_vars, Without({"fault"})'
               PROVE  AllFollowed'
    OBVIOUS
  <2>1. CASE UNCHANGED vars
    <3>1. UNCHANGED <<history, reports, run, scenario>>
      BY <2>1 DEF vars, checked
    <3>2. AllFollowed
      BY <3>1 DEF Without, Overlapping, Mishaps
    <3>3. QED
      BY <3>1, <3>2 DEF AllFollowed, Followed, Failing, FollowUp, Told, Unverified, Active
  <2>2. CASE Next
    <3>1. ~Overlapping /\ "fault" \notin Mishaps /\ AllFollowed /\ UNCHANGED scenario
      BY <2>2, NextEffect DEF Without, Overlapping, Mishaps
    <3>2. QED
      BY <2>2, <3>1, NextEffect, FollowStep, FollowOthers
  <2>3. QED
    BY <2>1, <2>2
<1>3. QED
  BY <1>1, <1>2, TypeInvariant, AloneInvariant, PTL DEF Spec

(* Only the review at the end lets a run complete.                         *)
LEMMA OnlyCompletes ==
  ASSUME TypeInv, Next, NEW r \in Runs, run[r].pc = "ending", run'[r].result = "completed"
  PROVE  scenario.review => LatestPassed(reports)
<1>0. run[r].result = "none"
  BY DEF TypeInv, Shape, Shaped
<1>1. ASSUME NEW q \in Runs, RunStep(q)
      PROVE  scenario.review => LatestPassed(reports)
  <2>1. Changes(q)
    BY <1>1 DEF RunStep, Passes, Ends, Starts, NewTurn, Answered, Exceeds, Says, Asks, ToolAnswers,
                Returns, CheckMade, OneMoreCheck, TurnEnds, TurnLost
  <2>2. q = r
    BY <1>0, <2>1 DEF Changes
  <2>3. Ends(r)
    BY <1>0, <1>1, <2>2 DEF RunStep, Passes, Starts, NewTurn, Answered, ToolAnswers, Returns,
                            CheckMade, TurnEnds, TurnLost
  <2>4. QED
    BY <2>3 DEF Ends
<1>2. ~ReviewStep /\ ~ \E a \in resuming : Succeed(a)
  BY <1>0 DEF ReviewStep, Approve, DecideOnly, Fail, Succeed
<1>3. ~Restart
  BY <1>0, RestartEffect DEF TypeInv, Types
<1>4. QED
  BY <1>1, <1>2, <1>3, NextEffect

(* Whatever a run does after a failed verification of one of its turns:    *)
(* each later call of the model has the injected message in its            *)
(* conversation, and where answers are reviewed the run completes only     *)
(* when all that it wrote has been verified.                               *)
THEOREM FailuresFollowed == Spec => FailuresFollowedUp
<1>1. /\ TypeInv /\ (~Overlapping => Alone) /\ (Without({"fault"}) => AllFollowed)
      /\ [Next]_vars
      => [Without({"fault"}) => \A r \in Runs :
            /\ CallsModel(r) =>
                 \A i \in Failing(r) : \E k \in DOMAIN history :
                   history[k] = Message("user", reports[i].of, 0)
            /\ At(r, "ending") /\ run'[r].result = "completed" /\ scenario.review =>
                 ~run[r].dirty]_vars
  <2> SUFFICES ASSUME TypeInv, AllFollowed, Next, NEW r \in Runs
               PROVE  /\ CallsModel(r) =>
                           \A i \in Failing(r) : \E k \in DOMAIN history :
                             history[k] = Message("user", reports[i].of, 0)
                      /\ At(r, "ending") /\ run'[r].result = "completed" /\ scenario.review =>
                           ~run[r].dirty
    OBVIOUS
  <2>1. ASSUME CallsModel(r), NEW i \in Failing(r)
        PROVE  Told(reports[i].of)
    BY <2>1 DEF CallsModel, At, AllFollowed, Active, Followed, FollowUp
  <2>2. ASSUME At(r, "ending"), run'[r].result = "completed", scenario.review
        PROVE  ~run[r].dirty
    <3>1. LatestPassed(reports)
      BY <2>2, OnlyCompletes DEF At
    <3>2. r \in Active /\ Followed(r)
      BY <2>2 DEF At, Active, AllFollowed
    <3>3. QED
      BY <2>2, <3>1, <3>2 DEF Followed, Unverified, LatestPassed, At
  <2>3. QED
    BY <2>1, <2>2 DEF Told
<1>2. QED
  BY <1>1, TypeInvariant, AloneInvariant, FollowInvariant, PTL DEF Spec, FailuresFollowedUp

=============================================================================
