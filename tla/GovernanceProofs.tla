--------------------------- MODULE GovernanceProofs ---------------------------
(***************************************************************************)
(* Theorems about what governance/ limits and schedules.                   *)
(*                                                                         *)
(* The run budget, for any number of runs and any limits.  The accounting  *)
(* theorems are about one process (Processes = {p}): with two, a count may *)
(* be lost.                                                                *)
(*                                                                         *)
(* The scheduled tasks, for any schedules, expressions, timeouts and times.*)
(***************************************************************************)
EXTENDS Budget, Scheduler, FiniteSetTheorems, SequenceTheorems, WellFoundedInduction, TLAPS

-----------------------------------------------------------------------------
(* The run budget.                                                         *)

Rows == [status : {"not_started", "active", "completed", "breached"},
         tokens : Nat, calls : Nat, units : Nat, started : Nat]

RowType(b) == b \in Rows /\ b.status # "not_started"

LEMMA InitTypeOK == Init => TypeOK
  BY BudgetAssumption DEF Init, TypeOK, NotStarted, NothingSpent, Idle, Calls

(* A call in progress is of its form, is about a run of its process, and   *)
(* has a row.                                                              *)
LEMMA CallForms ==
  ASSUME TypeOK, NEW p \in Processes, call[p].at # "idle"
  PROVE  /\ call[p].run \in Runs /\ Home[call[p].run] = p
         /\ row.status # "not_started"
         /\ call[p].at = "write_tokens" => call[p].used \in Nat
         /\ call[p].at = "write_tool" =>
              call[p].units \in Nat /\ call[p].calls \in Nat /\ call[p].used \in Nat
<1>1. call[p] # Idle /\ call[p] \in Calls
  BY DEF TypeOK, Idle
<1>2. Home[call[p].run] = p /\ row.status # "not_started"
  BY <1>1 DEF TypeOK
<1> QED
  BY <1>1, <1>2 DEF Calls, Idle

(* Entering or leaving a method on behalf of a run of the process.         *)
LEMMA CallType ==
  ASSUME TypeOK, NEW p \in Processes, NEW c \in Calls, c # Idle => Home[c.run] = p,
         call' = [call EXCEPT ![p] = c]
  PROVE  /\ call' \in [Processes -> Calls]
         /\ \A q \in Processes : call'[q] # Idle => Home[call'[q].run] = q
BY DEF TypeOK

(* The rest of a step that leaves the row started.                         *)
LEMMA TypeFromParts ==
  ASSUME /\ call' \in [Processes -> Calls]
         /\ \A q \in Processes : call'[q] # Idle => Home[call'[q].run] = q,
         RowType(row'), clock' \in Nat,
         run' \in [Runs -> {"idle", "model", "tools", "ending"}],
         abort' \in [Runs -> BOOLEAN],
         spent' \in [tokens : Nat, calls : Nat, units : Nat]
  PROVE  TypeOK'
BY DEF TypeOK, RowType, Rows

LEMMA RunStep ==
  ASSUME TypeOK, NEW r \in Runs, UNCHANGED <<clock, call>>,
         \/ StartRun(r)
         \/ NextTurn(r) \/ StopRun(r) \/ Finish(r) \/ ReturnEarly(r)
  PROVE  TypeOK'
<1>1. RowType(row')
  <2>1. run[r] # "idle" => RowType(row)
    BY DEF TypeOK, RowType, Rows
  <2>2. CASE StartRun(r)
    BY <2>2 DEF StartRun, Started, NotStarted, RowType, Rows, TypeOK
  <2>3. CASE NextTurn(r) \/ StopRun(r) \/ ReturnEarly(r)
    BY <2>1, <2>3 DEF NextTurn, StopRun, ReturnEarly
  <2>4. CASE Finish(r)
    BY <2>1, <2>4 DEF Finish, RowType, Rows
  <2> QED
    BY <2>2, <2>3, <2>4
<1>2. /\ call' \in [Processes -> Calls]
      /\ \A q \in Processes : call'[q] # Idle => Home[call'[q].run] = q
      /\ clock' \in Nat
  BY DEF TypeOK
<1>3. /\ run' \in [Runs -> {"idle", "model", "tools", "ending"}]
      /\ abort' \in [Runs -> BOOLEAN]
  <2>1. CASE StartRun(r)
    BY <2>1 DEF TypeOK, StartRun
  <2>2. CASE NextTurn(r) \/ StopRun(r) \/ Finish(r) \/ ReturnEarly(r)
    BY <2>2 DEF TypeOK, NextTurn, StopRun, Finish, ReturnEarly
  <2> QED
    BY <2>1, <2>2
<1>4. spent' \in [tokens : Nat, calls : Nat, units : Nat]
  BY DEF TypeOK, StartRun, NextTurn, StopRun, Finish, ReturnEarly, NothingSpent
<1> QED
  BY <1>1, <1>2, <1>3, <1>4, TypeFromParts

LEMMA ResponseStep ==
  ASSUME TypeOK, NEW r \in Runs, NEW tokens \in ResponseTokens, ReadForResponse(r, tokens)
  PROVE  TypeOK'
<1>1. Home[r] \in Processes /\ tokens \in Nat
  BY BudgetAssumption
<1>2. RowType(row) /\ row.tokens + tokens \in Nat /\ spent.tokens + tokens \in Nat
  BY <1>1 DEF ReadForResponse, TypeOK, RowType, Rows
<1> DEFINE c == [at |-> "write_tokens", run |-> r, used |-> row.tokens + tokens]
<1>3. c \in Calls /\ c.run = r
  BY <1>2 DEF Calls
<1>4. call' = [call EXCEPT ![Home[r]] = c]
  BY DEF ReadForResponse, Enter
<1> HIDE DEF c
<1>5. /\ call' \in [Processes -> Calls]
      /\ \A q \in Processes : call'[q] # Idle => Home[call'[q].run] = q
  BY <1>1, <1>3, <1>4, CallType
<1> QED
  BY <1>2, <1>5, TypeFromParts DEF ReadForResponse, TypeOK

LEMMA ToolStep ==
  ASSUME TypeOK, NEW r \in Runs, NEW units \in ToolUnits, ReadForTool(r, units)
  PROVE  TypeOK'
<1>1. Home[r] \in Processes /\ units \in Nat
  BY BudgetAssumption
<1>2. RowType(Ensured)
  BY DEF TypeOK, Ensured, Started, NotStarted, RowType, Rows
<1> DEFINE refused == [at |-> "breach", run |-> r, of |-> "tool"]
           admitted == [at |-> "write_tool", run |-> r, units |-> units,
                        calls |-> Ensured.calls + 1, used |-> Ensured.units + units]
<1>3. /\ refused \in Calls /\ refused.run = r
      /\ admitted \in Calls /\ admitted.run = r
  BY <1>1, <1>2 DEF Calls, RowType, Rows
<1>4. \/ call' = [call EXCEPT ![Home[r]] = refused]
      \/ call' = [call EXCEPT ![Home[r]] = admitted]
  BY DEF ReadForTool, Enter
<1> HIDE DEF refused, admitted
<1>5. /\ call' \in [Processes -> Calls]
      /\ \A q \in Processes : call'[q] # Idle => Home[call'[q].run] = q
  BY <1>1, <1>3, <1>4, CallType
<1> QED
  BY <1>2, <1>5, TypeFromParts DEF ReadForTool, TypeOK

LEMMA MethodStep ==
  ASSUME TypeOK, NEW p \in Processes,
         WriteTokens(p) \/ Check(p) \/ Breach(p) \/ WriteTool(p)
  PROVE  TypeOK'
<1> DEFINE r == call[p].run
<1>0. call[p].at # "idle"
  BY DEF WriteTokens, Check, Breach, WriteTool
<1>1. r \in Runs /\ Home[r] = p /\ RowType(row)
  BY <1>0, CallForms DEF TypeOK, RowType, Rows
<1> DEFINE over == [at |-> "breach", run |-> r, of |-> "response"]
           within == [at |-> "check", run |-> r]
<1>2. /\ over \in Calls /\ over.run = r
      /\ within \in Calls /\ within.run = r
      /\ Idle \in Calls
  BY <1>1 DEF Calls
<1>3. \/ call' = [call EXCEPT ![p] = over]
      \/ call' = [call EXCEPT ![p] = within]
      \/ call' = [call EXCEPT ![p] = Idle]
  BY DEF WriteTokens, Check, Breach, WriteTool
<1>4. /\ call' \in [Processes -> Calls]
      /\ \A q \in Processes : call'[q] # Idle => Home[call'[q].run] = q
  <2> HIDE DEF over, within, r
  <2> QED
    BY <1>1, <1>2, <1>3, CallType
<1>5. RowType(row')
  <2>1. CASE WriteTokens(p)
    BY <1>0, <1>1, <2>1, CallForms DEF WriteTokens, RowType, Rows
  <2>2. CASE WriteTool(p)
    BY <1>0, <1>1, <2>2, CallForms DEF WriteTool, RowType, Rows
  <2>3. CASE Check(p) \/ Breach(p)
    BY <1>1, <2>3 DEF Check, Breach, RowType, Rows
  <2>4. QED
    BY <2>1, <2>2, <2>3
<1>6. spent' \in [tokens : Nat, calls : Nat, units : Nat]
  <2>1. CASE WriteTool(p)
    <3>1. call[p].units \in Nat
      BY <1>0, <2>1, CallForms DEF WriteTool
    <3>2. spent' = [spent EXCEPT !.calls = @ + 1, !.units = @ + call[p].units]
      BY <2>1 DEF WriteTool
    <3>3. spent \in [tokens : Nat, calls : Nat, units : Nat]
      BY DEF TypeOK
    <3>4. spent.calls + 1 \in Nat /\ spent.units + call[p].units \in Nat
      BY <3>1, <3>3
    <3> HIDE DEF r
    <3> QED
      BY <3>2, <3>3, <3>4
  <2>2. CASE WriteTokens(p) \/ Check(p) \/ Breach(p)
    BY <2>2 DEF TypeOK, WriteTokens, Check, Breach
  <2> QED
    BY <2>1, <2>2
<1>8. /\ run' \in [Runs -> {"idle", "model", "tools", "ending"}]
      /\ abort' \in [Runs -> BOOLEAN]
  BY <1>1 DEF TypeOK, WriteTokens, Check, Breach, WriteTool, Refuse, Allow
<1>9. clock' \in Nat
  BY DEF TypeOK, WriteTokens, Check, Breach, WriteTool
<1> QED
  BY <1>4, <1>5, <1>6, <1>8, <1>9, TypeFromParts

LEMMA TypeStep == TypeOK /\ [Next]_vars => TypeOK'
<1> SUFFICES ASSUME TypeOK, [Next]_vars
             PROVE  TypeOK'
  OBVIOUS
<1>1. ASSUME NEW r \in Runs,
             \/ StartRun(r)
             \/ NextTurn(r) \/ StopRun(r) \/ Finish(r) \/ ReturnEarly(r)
      PROVE  TypeOK'
  BY <1>1, RunStep DEF StartRun, NextTurn, StopRun, Finish, ReturnEarly
<1>2. ASSUME NEW p \in Processes, Crash(p)
      PROVE  TypeOK'
  BY <1>2 DEF TypeOK, Crash, Calls
<1>3. CASE Tick
  BY <1>3 DEF TypeOK, Tick
<1>4. CASE UNCHANGED vars
  BY <1>4 DEF TypeOK, vars
<1> QED
  BY <1>1, <1>2, <1>3, <1>4, ResponseStep, ToolStep, MethodStep DEF Next

(* The budget row, the calls in progress and the runs are always           *)
(* well-formed, whatever the number of processes.                          *)
THEOREM TypeCorrect == Spec => []TypeOK
  BY InitTypeOK, TypeStep, PTL DEF Spec

-----------------------------------------------------------------------------
(* Accounting of tool calls.                                               *)

Pending(p) ==
  call[p].at = "write_tool" =>
    /\ call[p].calls = row.calls + 1 /\ call[p].calls <= MaxCalls
    /\ call[p].used = row.units + call[p].units /\ call[p].used <= MaxUnits

(* The row says what was executed, and a call that is about to be executed *)
(* was compared with what the row still says.                              *)
ToolAccounts ==
  /\ row.calls = spent.calls /\ row.units = spent.units
  /\ WithinLimits
  /\ \A p \in Processes : Pending(p)

(* With one process, a run outside of any method is alone with the row.    *)
LEMMA Alone ==
  ASSUME TypeOK, NEW p, Processes = {p}, NEW r \in Runs
  PROVE  Home[r] = p /\ (Free(r) => call[p] = Idle)
BY BudgetAssumption DEF Free

LEMMA InitToolAccounts == Init => ToolAccounts
  BY BudgetAssumption
     DEF Init, ToolAccounts, WithinLimits, NotStarted, NothingSpent, Pending, Idle

(* consume_tool compares before it admits.                                 *)
LEMMA ReadForToolAccounts ==
  ASSUME TypeOK, ToolAccounts, NEW p, Processes = {p},
         NEW r \in Runs, NEW units \in ToolUnits, ReadForTool(r, units)
  PROVE  ToolAccounts'
<1>1. Home[r] = p /\ units \in Nat
  BY Alone, BudgetAssumption
<1>2. Ensured.calls = row.calls /\ Ensured.units = row.units /\ row' = Ensured
  BY DEF ReadForTool, Ensured, Started, NotStarted, TypeOK
<1>3. row.calls \in Nat /\ row.units \in Nat
  BY DEF TypeOK
<1>4. Pending(p)'
  <2>1. CASE OutOfTime(Ensured) \/ OverLimits(Ensured, units)
    <3>1. call'[p].at = "breach"
      BY <1>1, <2>1 DEF ReadForTool, Enter, TypeOK
    <3> QED
      BY <3>1 DEF Pending
  <2>2. CASE ~(OutOfTime(Ensured) \/ OverLimits(Ensured, units))
    <3>1. /\ call'[p].calls = Ensured.calls + 1
          /\ call'[p].used = Ensured.units + units /\ call'[p].units = units
      BY <1>1, <2>2 DEF ReadForTool, Enter, TypeOK
    <3>2. Ensured.calls + 1 <= MaxCalls /\ Ensured.units + units <= MaxUnits
      BY <1>1, <1>2, <1>3, <2>2, BudgetAssumption DEF OverLimits
    <3> QED
      BY <1>2, <3>1, <3>2 DEF Pending
  <2> QED
    BY <2>1, <2>2
<1> QED
  BY <1>2, <1>4 DEF ToolAccounts, WithinLimits, ReadForTool

(* The UPDATE of consume_tool writes what was compared.                    *)
LEMMA WriteToolAccounts ==
  ASSUME TypeOK, ToolAccounts, NEW p, Processes = {p}, WriteTool(p)
  PROVE  ToolAccounts'
<1>1. Pending(p) /\ call[p].at = "write_tool"
  BY DEF ToolAccounts, WriteTool
<1>2. row'.calls = call[p].calls /\ row'.units = call[p].used
  BY DEF WriteTool, TypeOK
<1>3. spent'.calls = spent.calls + 1 /\ spent'.units = spent.units + call[p].units
  BY DEF WriteTool, TypeOK
<1>4. Pending(p)'
  BY DEF WriteTool, Pending, Idle, TypeOK
<1> QED
  BY <1>1, <1>2, <1>3, <1>4 DEF ToolAccounts, WithinLimits, Pending

LEMMA ToolAccountsStep ==
  ASSUME TypeOK, ToolAccounts, NEW p, Processes = {p}, [Next]_vars
  PROVE  ToolAccounts'
<1>1. ASSUME NEW r \in Runs, StartRun(r)
      PROVE  ToolAccounts'
  <2>1. call'[p] = Idle
    BY <1>1, Alone DEF StartRun
  <2> QED
    BY <1>1, <2>1, BudgetAssumption
       DEF StartRun, ToolAccounts, WithinLimits, Pending, Started, NotStarted,
           NothingSpent, Idle
<1>2. ASSUME NEW r \in Runs, NEW tokens \in ResponseTokens, ReadForResponse(r, tokens)
      PROVE  ToolAccounts'
  <2>1. call'[p].at = "write_tokens"
    BY <1>2, Alone DEF ReadForResponse, Enter, TypeOK
  <2>2. spent'.calls = spent.calls /\ spent'.units = spent.units
    BY <1>2 DEF ReadForResponse, TypeOK
  <2> QED
    BY <1>2, <2>1, <2>2 DEF ReadForResponse, ToolAccounts, WithinLimits, Pending
<1>3. ASSUME WriteTokens(p) \/ Check(p) \/ Breach(p)
      PROVE  ToolAccounts'
  <2>1. call'[p].at \in {"breach", "check", "idle"}
    BY <1>3 DEF WriteTokens, Check, Breach, Idle, TypeOK
  <2>2. row'.calls = row.calls /\ row'.units = row.units
    BY <1>3 DEF WriteTokens, Check, Breach, TypeOK
  <2>3. UNCHANGED spent
    BY <1>3 DEF WriteTokens, Check, Breach
  <2> QED
    BY <2>1, <2>2, <2>3 DEF ToolAccounts, WithinLimits, Pending
<1>4. ASSUME NEW r \in Runs, NextTurn(r) \/ StopRun(r) \/ Finish(r) \/ ReturnEarly(r)
      PROVE  ToolAccounts'
  <2>1. row'.calls = row.calls /\ row'.units = row.units
    BY <1>4 DEF NextTurn, StopRun, Finish, ReturnEarly, TypeOK
  <2> QED
    BY <1>4, <2>1
       DEF ToolAccounts, WithinLimits, Pending, NextTurn, StopRun, Finish, ReturnEarly
<1>5. CASE Crash(p)
  BY <1>5 DEF Crash, ToolAccounts, WithinLimits, Pending, Idle, TypeOK
<1>6. CASE Tick \/ UNCHANGED vars
  BY <1>6 DEF Tick, vars, ToolAccounts, WithinLimits, Pending
<1> QED
  BY <1>1, <1>2, <1>3, <1>4, <1>5, <1>6, ReadForToolAccounts, WriteToolAccounts DEF Next

(* In one process, the tool calls executed since the budget was started    *)
(* stay within the limits, however many runs share the budget.             *)
THEOREM WithinLimitsHolds ==
  ASSUME NEW p, Processes = {p}
  PROVE  Spec => []WithinLimits
<1>1. TypeOK /\ ToolAccounts /\ [Next]_vars => ToolAccounts'
  BY ToolAccountsStep
<1>2. ToolAccounts => WithinLimits
  BY DEF ToolAccounts
<1> QED
  BY <1>1, <1>2, InitToolAccounts, TypeCorrect, PTL DEF Spec

-----------------------------------------------------------------------------
(* A breach stands until the budget is started anew.                       *)
THEOREM BreachStandsHolds == Spec => BreachStands
<1>1. TypeOK /\ [Next]_vars =>
        [row.status = "breached" /\ row'.status # "breached"
           => row'.status = "active" /\ row'.calls = 0 /\ row'.units = 0 /\ row'.tokens = 0]_vars
  <2> SUFFICES ASSUME TypeOK, [Next]_vars, row.status = "breached", row'.status # "breached"
               PROVE  row'.status = "active" /\ row'.calls = 0 /\ row'.units = 0 /\ row'.tokens = 0
    OBVIOUS
  <2>1. row \in Rows
    BY DEF TypeOK, Rows
  <2>2. ASSUME NEW r \in Runs, StartRun(r)
        PROVE  row' = Started
    BY <2>2 DEF StartRun
  <2>3. ASSUME NEW p \in Processes, WriteTokens(p) \/ Breach(p) \/ WriteTool(p)
        PROVE  FALSE
    BY <2>1, <2>3 DEF WriteTokens, Breach, WriteTool, Rows
  <2>4. ASSUME NEW r \in Runs, Finish(r)
        PROVE  FALSE
    BY <2>4 DEF Finish
  <2>5. \E r \in Runs : StartRun(r)
    BY <2>3, <2>4
       DEF Next, vars, ReadForResponse, ReadForTool, Ensured, NextTurn, StopRun,
           ReturnEarly, Check, Crash, Tick
  <2> QED
    BY <2>2, <2>5 DEF Started, NotStarted
<1> QED
  BY <1>1, TypeCorrect, PTL DEF Spec, BreachStands

-----------------------------------------------------------------------------
(* Accounting of tokens.                                                   *)

OfResponse(p) ==
  call[p].at \in {"write_tokens", "check"} \/ (call[p].at = "breach" /\ call[p].of = "response")

(* A response is only reported by a run that waits for its model; the row  *)
(* is behind what was used while a report is being written, and for good   *)
(* once no run is left; and a run that is about to go on is within limits. *)
TokenAccounts ==
  /\ \A p \in Processes :
       /\ OfResponse(p) => run[call[p].run] = "model"
       /\ call[p].at = "write_tokens" => call[p].used = spent.tokens
       /\ call[p].at = "check" => row.tokens <= MaxTokens
  /\ (\E r \in Runs : run[r] # "idle") /\ (\A p \in Processes : call[p].at # "write_tokens")
       => row.tokens = spent.tokens
  /\ OneResponseOver

LEMMA Scaled ==
  ASSUME NEW m \in Nat, NEW a \in Nat, NEW b \in Nat
  PROVE  /\ m * a \in Nat
         /\ a <= b => m * a <= m * b
         /\ m * (a + 1) = m * a + m
<1>1. m * a \in Nat /\ m * (a + 1) = m * a + m
  OBVIOUS
<1>2. ASSUME a <= b PROVE m * a <= m * b
  <2>1. PICK d \in Nat : b = a + d
    BY <1>2
  <2>2. m * b = m * a + m * d /\ m * d \in Nat /\ m * a \in Nat
    BY <2>1
  <2> QED
    BY <2>2
<1> QED
  BY <1>1, <1>2

LEMMA DoneFinite ==
  /\ IsFiniteSet(DoneSpending) /\ Cardinality(DoneSpending) \in Nat
  /\ LargestResponse * Cardinality(DoneSpending) \in Nat
<1>1. IsFiniteSet(DoneSpending)
  BY BudgetAssumption, FS_Subset DEF DoneSpending
<1>2. Cardinality(DoneSpending) \in Nat
  BY <1>1, FS_CardinalityType
<1> QED
  BY <1>1, <1>2, Scaled, BudgetAssumption

(* While no run leaves the set, the bound stands.                          *)
LEMMA OverrunStands ==
  ASSUME TypeOK, OneResponseOver, spent'.tokens = spent.tokens,
         DoneSpending \subseteq DoneSpending'
  PROVE  OneResponseOver'
<1> DEFINE A == DoneSpending
           B == DoneSpending'
<1>1. IsFiniteSet(B)
  <2>1. B \subseteq Runs
    BY DEF DoneSpending
  <2> QED
    BY <2>1, BudgetAssumption, FS_Subset
<1>2. Cardinality(A) <= Cardinality(B)
  BY <1>1, FS_Subset
<1>3. Cardinality(A) \in Nat /\ Cardinality(B) \in Nat /\ spent.tokens \in Nat
  BY <1>1, DoneFinite, FS_CardinalityType DEF TypeOK
<1> DEFINE a == Cardinality(A)
           b == Cardinality(B)
<1>4. OneResponseOver <=> spent.tokens <= MaxTokens + LargestResponse * a
  BY DEF OneResponseOver
<1>5. OneResponseOver' <=> spent'.tokens <= MaxTokens + LargestResponse * b
  BY DEF OneResponseOver
<1>6. LargestResponse * a <= LargestResponse * b
  BY <1>2, <1>3, Scaled, BudgetAssumption
<1>7. LargestResponse * a \in Nat /\ LargestResponse * b \in Nat
  BY <1>3, Scaled, BudgetAssumption
<1> HIDE DEF a, b
<1> QED
  BY <1>3, <1>4, <1>5, <1>6, <1>7, BudgetAssumption

(* Within the limit, the bound holds whoever is done.                      *)
LEMMA WithinBound ==
  ASSUME spent'.tokens \in Nat, spent'.tokens <= MaxTokens
  PROVE  OneResponseOver'
<1>1. IsFiniteSet(DoneSpending') /\ Cardinality(DoneSpending') \in Nat
  <2>1. DoneSpending' \subseteq Runs
    BY DEF DoneSpending
  <2> QED
    BY <2>1, BudgetAssumption, FS_Subset, FS_CardinalityType
<1> DEFINE b == Cardinality(DoneSpending')
<1>2. LargestResponse * b \in Nat
  BY <1>1, Scaled, BudgetAssumption
<1>3. OneResponseOver' <=> spent'.tokens <= MaxTokens + LargestResponse * b
  BY DEF OneResponseOver
<1> HIDE DEF b
<1> QED
  BY <1>2, <1>3, BudgetAssumption

LEMMA InitTokenAccounts == Init => TokenAccounts
<1> SUFFICES ASSUME Init PROVE TokenAccounts
  OBVIOUS
<1>1. LargestResponse * Cardinality(DoneSpending) \in Nat
  BY DoneFinite
<1> QED
  BY <1>1, BudgetAssumption
     DEF Init, TokenAccounts, OneResponseOver, OfResponse, NotStarted, NothingSpent, Idle

(* A response joins the reporting run to those that are done, and adds at  *)
(* most the largest response.                                              *)
LEMMA ResponseAccounts ==
  ASSUME TypeOK, TokenAccounts, NEW p, Processes = {p},
         NEW r \in Runs, NEW tokens \in ResponseTokens, ReadForResponse(r, tokens)
  PROVE  TokenAccounts'
<1>1. Home[r] = p /\ call[p] = Idle /\ run[r] = "model" /\ tokens \in 0..LargestResponse
  BY Alone, BudgetAssumption DEF ReadForResponse
<1>2. call'[p] = [at |-> "write_tokens", run |-> r, used |-> row.tokens + tokens]
  BY <1>1 DEF ReadForResponse, Enter, TypeOK
<1>3. row.tokens = spent.tokens
  BY <1>1 DEF TokenAccounts, Idle
<1>4. spent'.tokens = spent.tokens + tokens /\ spent.tokens \in Nat /\ tokens \in Nat
  BY <1>1, BudgetAssumption DEF ReadForResponse, TypeOK
<1>5. r \notin DoneSpending
  BY <1>1 DEF DoneSpending, Reporting, Idle
<1>6. DoneSpending' = DoneSpending \cup {r}
  <2>1. \A other \in Runs : Home[other] = p /\ ~Reporting(other)
    BY <1>1, Alone DEF Reporting, Idle
  <2>2. \A other \in Runs : Reporting(other)' <=> other = r
    BY <1>2, <2>1 DEF Reporting
  <2>3. UNCHANGED run
    BY DEF ReadForResponse
  <2> QED
    BY <2>1, <2>2, <2>3 DEF DoneSpending
<1>7. Cardinality(DoneSpending') = Cardinality(DoneSpending) + 1
  BY <1>5, <1>6, DoneFinite, FS_AddElement
<1> DEFINE a == Cardinality(DoneSpending)
<1>8. LargestResponse * (a + 1) = LargestResponse * a + LargestResponse
  BY DoneFinite, Scaled, BudgetAssumption
<1>9. spent.tokens <= MaxTokens + LargestResponse * a /\ LargestResponse * a \in Nat
  BY DoneFinite DEF TokenAccounts, OneResponseOver
<1>10. OneResponseOver' <=> spent'.tokens <= MaxTokens + LargestResponse * (a + 1)
  BY <1>7 DEF OneResponseOver
<1>11. OneResponseOver'
  <2> HIDE DEF a
  <2> QED
    BY <1>1, <1>4, <1>8, <1>9, <1>10, BudgetAssumption
<1>12. UNCHANGED run
  BY DEF ReadForResponse
<1> QED
  BY <1>1, <1>2, <1>3, <1>4, <1>11, <1>12 DEF TokenAccounts, OfResponse

(* The end of a report: the run stops, or was within the limit.            *)
LEMMA MethodAccounts ==
  ASSUME TypeOK, TokenAccounts, NEW p, Processes = {p},
         WriteTokens(p) \/ Check(p) \/ Breach(p) \/ WriteTool(p)
  PROVE  TokenAccounts'
<1> DEFINE r == call[p].run
<1>0. call[p].at # "idle"
  BY DEF WriteTokens, Check, Breach, WriteTool
<1>1. /\ r \in Runs
      /\ \A other \in Runs : Home[other] = p
      /\ spent.tokens \in Nat /\ row.tokens \in Nat
  BY <1>0, CallForms, Alone DEF TypeOK
<1>2. spent'.tokens = spent.tokens
  BY DEF WriteTokens, Check, Breach, WriteTool, TypeOK
<1>3. CASE WriteTokens(p)
  <2>1. /\ row'.tokens = spent.tokens /\ UNCHANGED run /\ run[r] = "model"
        /\ call[p].used = spent.tokens
    BY <1>3 DEF WriteTokens, TokenAccounts, OfResponse, TypeOK
  <2>2. \/ call'[p] = [at |-> "breach", run |-> r, of |-> "response"]
        \/ call'[p] = [at |-> "check", run |-> r] /\ row'.tokens <= MaxTokens
    BY <1>1, <1>3, <2>1, BudgetAssumption DEF WriteTokens, TypeOK
  <2>3. DoneSpending \subseteq DoneSpending'
    BY <1>1, <1>3, <2>1, <2>2 DEF DoneSpending, Reporting, WriteTokens
  <2>4. OneResponseOver'
    BY <1>2, <2>3, OverrunStands DEF TokenAccounts
  <2> QED
    BY <1>2, <2>1, <2>2, <2>4 DEF TokenAccounts, OfResponse
<1>4. CASE Check(p)
  <2>1. /\ row.tokens = spent.tokens /\ row.tokens <= MaxTokens
        /\ run[r] = "model" /\ UNCHANGED row
    BY <1>1, <1>4 DEF Check, TokenAccounts, OfResponse
  <2>2. OneResponseOver'
    BY <1>1, <1>2, <2>1, WithinBound
  <2>3. \/ call'[p] = Idle
        \/ call'[p] = [at |-> "breach", run |-> r, of |-> "response"] /\ UNCHANGED run
    BY <1>4 DEF Check, TypeOK
  <2> QED
    BY <1>2, <2>1, <2>2, <2>3 DEF TokenAccounts, OfResponse, Idle
<1>5. CASE Breach(p)
  <2>1. call'[p] = Idle /\ row'.tokens = row.tokens
    BY <1>5 DEF Breach, TypeOK
  <2>2. (call[p].of = "response" /\ run' = [run EXCEPT ![r] = "ending"] /\ run[r] = "model")
          \/ (call[p].of = "tool" /\ UNCHANGED run)
    BY <1>5 DEF Breach, Refuse, TokenAccounts, OfResponse
  <2>3. DoneSpending \subseteq DoneSpending'
    BY <1>1, <1>5, <2>1, <2>2 DEF DoneSpending, Reporting, Breach, Idle, TypeOK
  <2>4. OneResponseOver'
    BY <1>2, <2>3, OverrunStands DEF TokenAccounts
  <2>5. (\E other \in Runs : run'[other] # "idle") => row.tokens = spent.tokens
    BY <1>1, <1>5, <2>2 DEF TokenAccounts, Breach, TypeOK
  <2> QED
    BY <1>2, <2>1, <2>4, <2>5 DEF TokenAccounts, OfResponse, Idle
<1>6. CASE WriteTool(p)
  <2>1. call'[p] = Idle /\ row'.tokens = row.tokens /\ UNCHANGED run
    BY <1>6 DEF WriteTool, TypeOK
  <2>2. DoneSpending \subseteq DoneSpending'
    BY <1>1, <1>6, <2>1 DEF DoneSpending, Reporting, WriteTool
  <2>3. OneResponseOver'
    BY <1>2, <2>2, OverrunStands DEF TokenAccounts
  <2> QED
    BY <1>2, <1>6, <2>1, <2>3 DEF TokenAccounts, OfResponse, Idle, WriteTool
<1> QED
  BY <1>3, <1>4, <1>5, <1>6

LEMMA TokenAccountsStep ==
  ASSUME TypeOK, TokenAccounts, NEW p, Processes = {p}, [Next]_vars
  PROVE  TokenAccounts'
<1>0. \A r \in Runs : Home[r] = p
  BY Alone
<1>1. ASSUME NEW r \in Runs, StartRun(r)
      PROVE  TokenAccounts'
  <2>1. call[p] = Idle /\ UNCHANGED call /\ spent'.tokens = 0 /\ row'.tokens = 0
    BY <1>1, Alone DEF StartRun, Started, NotStarted, NothingSpent
  <2>2. OneResponseOver'
    BY <2>1, WithinBound, BudgetAssumption
  <2> QED
    BY <2>1, <2>2 DEF TokenAccounts, OfResponse, Idle
<1>2. ASSUME NEW r \in Runs, NEW units \in ToolUnits, ReadForTool(r, units)
      PROVE  TokenAccounts'
  <2>1. /\ call[p] = Idle /\ UNCHANGED <<run, spent>>
        /\ call'[p].at \in {"breach", "write_tool"}
        /\ call'[p].at = "breach" => call'[p].of = "tool"
    BY <1>2, Alone DEF ReadForTool, Enter, TypeOK
  <2>2. (\E other \in Runs : run[other] # "idle") => row'.tokens = row.tokens
    BY <1>2 DEF ReadForTool, Ensured, TypeOK
  <2>3. DoneSpending \subseteq DoneSpending'
    BY <1>0, <2>1 DEF DoneSpending, Reporting, Idle
  <2>4. OneResponseOver'
    BY <2>1, <2>3, OverrunStands DEF TokenAccounts
  <2> QED
    BY <2>1, <2>2, <2>4 DEF TokenAccounts, OfResponse, Idle
<1>3. ASSUME NEW r \in Runs, NextTurn(r) \/ StopRun(r) \/ Finish(r) \/ ReturnEarly(r)
      PROVE  TokenAccounts'
  <2>1. /\ call[p] = Idle /\ UNCHANGED <<call, spent>> /\ row'.tokens = row.tokens
        /\ run[r] # "idle"
    BY <1>3, Alone DEF NextTurn, StopRun, Finish, ReturnEarly, TypeOK
  <2>2. DoneSpending \subseteq DoneSpending'
    BY <1>0, <1>3, <2>1
       DEF DoneSpending, Reporting, Idle, NextTurn, StopRun, Finish, ReturnEarly, TypeOK
  <2>3. OneResponseOver'
    BY <2>1, <2>2, OverrunStands DEF TokenAccounts
  <2>4. row.tokens = spent.tokens
    BY <2>1 DEF TokenAccounts, Idle
  <2> QED
    BY <2>1, <2>3, <2>4 DEF TokenAccounts, OfResponse, Idle
<1>4. CASE Crash(p)
  <2>1. /\ call'[p] = Idle /\ UNCHANGED <<spent, row>>
        /\ \A r \in Runs : run'[r] = "idle"
    BY <1>0, <1>4 DEF Crash, TypeOK
  <2>2. DoneSpending \subseteq DoneSpending'
    BY <2>1 DEF DoneSpending
  <2>3. OneResponseOver'
    BY <2>1, <2>2, OverrunStands DEF TokenAccounts
  <2> QED
    BY <2>1, <2>3 DEF TokenAccounts, OfResponse, Idle
<1>5. CASE Tick \/ UNCHANGED vars
  BY <1>5 DEF Tick, vars, TokenAccounts, OfResponse, OneResponseOver, DoneSpending, Reporting
<1> QED
  BY <1>1, <1>2, <1>3, <1>4, <1>5, ResponseAccounts, MethodAccounts DEF Next

(* In one process, a budget is overrun by at most one response of each run *)
(* of the session.                                                         *)
THEOREM OneResponseOverHolds ==
  ASSUME NEW p, Processes = {p}
  PROVE  Spec => []OneResponseOver
<1>1. TypeOK /\ TokenAccounts /\ [Next]_vars => TokenAccounts'
  BY TokenAccountsStep
<1>2. TokenAccounts => OneResponseOver
  BY DEF TokenAccounts
<1> QED
  BY <1>1, <1>2, InitTokenAccounts, TypeCorrect, PTL DEF Spec

-----------------------------------------------------------------------------
(* The scheduled tasks.                                                    *)

USE SchedulerAssumption

-----------------------------------------------------------------------------
(* Times.                                                                  *)

(* A set of natural numbers that is not empty has a least element.         *)
LEMMA LeastElement ==
  ASSUME NEW S, S \subseteq Nat, S # {}
  PROVE  Min(S) \in S /\ \A x \in S : Min(S) <= x
<1>1. PICK x \in S : \A y \in S : <<y, x>> \notin OpToRel(<, Nat)
  BY NatLessThanWellFounded, WFMin
<1>2. \A y \in S : ~(y < x)
  BY <1>1 DEF OpToRel
<1>3. \A y \in S : x <= y
  BY <1>2
<1>4. QED
  BY <1>3 DEF Min

(* The values of an accepted field are natural numbers.                    *)
LEMMA FieldValuesNat ==
  ASSUME NEW cron, ValidCron(cron), NEW f \in Fields
  PROVE  FieldValues(f, cron[f]) \subseteq Nat
<1>1. FieldValues(f, cron[f]) \subseteq Lowest[f]..Highest[f]
  BY DEF ValidCron, FieldAccepted
<1>2. Lowest[f] \in Nat /\ Highest[f] \in Nat
  BY DEF Fields, Lowest, Highest
<1>3. QED
  BY <1>1, <1>2

(* The time a valid expression has next, if it has one, lies after the     *)
(* time it is asked for.                                                   *)
LEMMA NextIsLater ==
  ASSUME NEW cron, ValidCron(cron), NEW after \in Nat
  PROVE  \/ NextRunAfter(cron, after) = Never
         \/ NextRunAfter(cron, after) \in Nat /\ NextRunAfter(cron, after) > after
<1> DEFINE first == (after \div Minute + 1) * Minute
           final == first + (SearchedMinutes - 1) * Minute
           times == TimesOfDay(cron)
           TimesOn(d) == {x \in times : first <= Day * d + x /\ Day * d + x <= final}
           Hit(d) == DayMatches(cron, d) /\ TimesOn(d) # {}
           days == (first \div Day)..(final \div Day)
<1>1. first \in Nat /\ first > after
  BY DEF Minute
<1>2. times \subseteq Nat
  <2>1. /\ FieldValues("hour", cron["hour"]) \subseteq Nat
        /\ FieldValues("minute", cron["minute"]) \subseteq Nat
    BY FieldValuesNat DEF Fields
  <2>2. /\ FieldValues("hour", cron.hour) \subseteq Nat
        /\ FieldValues("minute", cron.minute) \subseteq Nat
    BY <2>1
  <2>3. QED
    BY <2>2 DEF TimesOfDay, Minute
<1>3. days \subseteq Nat
  BY <1>1 DEF Day, Minute, SearchedMinutes
<1> HIDE DEF first, final, times
<1>4. CASE \A d \in days : ~Hit(d)
  BY <1>4 DEF NextRunAfter, first, final, times
<1>5. CASE \E d \in days : Hit(d)
  <2> DEFINE D == CHOOSE d \in days : Hit(d) /\ \A e \in days : e < d => ~Hit(e)
             hits == {d \in days : Hit(d)}
  <2>1. hits \subseteq Nat /\ hits # {}
    BY <1>3, <1>5
  <2>2. Min(hits) \in hits /\ \A e \in hits : Min(hits) <= e
    BY <2>1, LeastElement
  <2>3. \E d \in days : Hit(d) /\ \A e \in days : e < d => ~Hit(e)
    <3>1. Min(hits) \in days /\ Hit(Min(hits))
      BY <2>2
    <3>2. ASSUME NEW e \in days, e < Min(hits)
          PROVE  ~Hit(e)
      <4> HIDE DEF Hit
      <4>1. e \in Nat /\ Min(hits) \in Nat
        BY <1>3, <3>1
      <4>2. QED
        BY <2>2, <3>2, <4>1
    <3>3. QED
      BY <3>1, <3>2
  <2>4. D \in days /\ Hit(D)
    BY <2>3
  <2> HIDE DEF D, days
  <2>5. TimesOn(D) \subseteq Nat /\ TimesOn(D) # {}
    BY <1>2, <2>4
  <2>6. Min(TimesOn(D)) \in TimesOn(D)
    BY <2>5, LeastElement
  <2>7. Day * D + Min(TimesOn(D)) \in Nat /\ Day * D + Min(TimesOn(D)) >= first
    BY <1>3, <2>4, <2>5, <2>6 DEF Day
  <2>8. NextRunAfter(cron, after) = Day * D + Min(TimesOn(D))
    BY <1>5 DEF NextRunAfter, first, final, times, D, days
  <2>9. QED
    BY <1>1, <2>7, <2>8
<1>6. QED
  BY <1>4, <1>5

(* What the table says of a schedule.                                      *)
LEMMA NextRunValue ==
  ASSUME NEW s \in Schedules, NEW t \in Instants
  PROVE  /\ NextRun[s][t] = NextOf(s, t)
         /\ NextRun[s][t] \in Nat \cup {Never}
         /\ NextRun[s][t] # Never => ValidCron(CronOf[s]) /\ NextRun[s][t] > t
<1>1. NextRun[s][t] = NextOf(s, t)
  BY DEF NextRun
<1>2. t \in Nat
  OBVIOUS
<1>3. CASE ValidCron(CronOf[s])
  <2>1. NextOf(s, t) = NextRunAfter(CronOf[s], t)
    BY <1>3 DEF NextOf
  <2>2. QED
    BY <1>1, <1>2, <1>3, <2>1, NextIsLater
<1>4. CASE ~ValidCron(CronOf[s])
  BY <1>1, <1>4 DEF NextOf
<1>5. QED
  BY <1>3, <1>4

-----------------------------------------------------------------------------
(* Types, and what a pass has read.                                        *)

Entry == [id : Schedules, slot : Nat]

PassType == [current : Nat, queue : Seq(Entry), started : Nat]

Types ==
  /\ rows \in [Schedules -> [enabled : BOOLEAN, next : Nat \cup {Never}]]
  /\ now \in Instants
  /\ pass \in [Passes -> PassType]
  /\ last \in [Schedules -> [slot : Nat \cup {Never}, status : {"none"} \cup Statuses]]
  /\ ran \in [once : SUBSET Entry, again : SUBSET Entry]
  /\ moving \in SUBSET Passes /\ cut \in SUBSET Schedules

(* A new next time leaves the rest of a row alone.                         *)
LEMMA RowMoved ==
  ASSUME NEW old \in [enabled : BOOLEAN, next : Nat \cup {Never}], NEW next \in Nat
  PROVE  /\ [old EXCEPT !.next = next] \in [enabled : BOOLEAN, next : Nat \cup {Never}]
         /\ [old EXCEPT !.next = next].next = next
OBVIOUS

LEMMA NoRowHasNoTime == NoRow.next = Never /\ Never \notin Nat
BY DEF NoRow, Never

\* A row of the table has a next time, after an expression that was accepted.
RowsAccepted ==
  \A s \in Schedules :
    rows[s] # NoRow => rows[s].next \in Nat /\ ValidCron(CronOf[s])

\* A pass has read the clock earlier, and only rows that were due then.
ReadWhenDue(p) ==
  /\ pass[p].current <= now /\ pass[p].started <= now
  /\ Busy(p) => pass[p].current \in Instants
  /\ \A i \in DOMAIN pass[p].queue :
       /\ pass[p].queue[i].slot <= pass[p].current
       /\ rows[pass[p].queue[i].id] # NoRow

\* What has a run behind it has a row, and what has recorded one is busy.
Recorded ==
  /\ \A p \in moving : Busy(p)
  /\ \A s \in cut : rows[s] # NoRow

TInv == Types /\ RowsAccepted /\ Recorded /\ \A p \in Passes : ReadWhenDue(p)

LEMMA TInvTypes == TInv => SchedulerTypeOK
<1> SUFFICES ASSUME TInv PROVE SchedulerTypeOK
  OBVIOUS
<1>1. ASSUME NEW p \in Passes, NEW i \in DOMAIN pass[p].queue
      PROVE  pass[p].queue[i].id \in Schedules
  <2>1. pass[p].queue \in Seq(Entry)
    BY DEF TInv, Types, PassType
  <2>2. pass[p].queue[i] \in Entry
    BY <2>1, ElementOfSeq, LenProperties
  <2>3. QED
    BY <2>2 DEF Entry
<1>2. ran.again \cup ran.once \subseteq Entry
  BY DEF TInv, Types
<1>3. QED
  BY <1>1, <1>2 DEF TInv, Types, Recorded, ReadWhenDue, SchedulerTypeOK, Entry

LEMMA TInvInit == SchedulerInit => TInv
<1> SUFFICES ASSUME SchedulerInit PROVE TInv
  OBVIOUS
<1>1. Min(Instants) \in Instants
  BY LeastElement
<1>2. <<>> \in Seq(Entry) /\ NoPass \in PassType
  BY EmptySeq DEF NoPass, PassType
<1>3. NoRow \in [enabled : BOOLEAN, next : Nat \cup {Never}]
      /\ NoRun \in [slot : Nat \cup {Never}, status : {"none"} \cup Statuses]
  BY DEF NoRow, NoRun
<1>4. Types
  BY <1>1, <1>2, <1>3 DEF SchedulerInit, Types
<1>5. ASSUME NEW p \in Passes
      PROVE  ReadWhenDue(p)
  <2>1. pass[p] = NoPass /\ now \in Nat
    BY <1>1 DEF SchedulerInit
  <2>2. pass[p].queue = <<>> /\ pass[p].current = 0 /\ pass[p].started = 0
    BY <2>1 DEF NoPass
  <2>3. DOMAIN pass[p].queue = {}
    BY <2>2
  <2>4. QED
    BY <2>1, <2>2, <2>3 DEF ReadWhenDue, Busy
<1>6. RowsAccepted /\ Recorded
  BY DEF SchedulerInit, RowsAccepted, Recorded
<1>7. QED
  BY <1>4, <1>5, <1>6 DEF TInv

(* The rows a pass reads: as many as are due, each once, in order.         *)
LEMMA DueQueue ==
  ASSUME TInv, DueRows # {}, NEW queue \in [1..Cardinality(DueRows) -> DueRows]
  PROVE  /\ queue \in Seq(Entry) /\ queue # <<>>
         /\ \A i \in DOMAIN queue :
              /\ queue[i].id \in Schedules /\ rows[queue[i].id] # NoRow
              /\ queue[i].slot = rows[queue[i].id].next
              /\ queue[i].slot <= now
<1> DEFINE due == {s \in Schedules : Due(s)}
           f == [s \in due |-> [id |-> s, slot |-> rows[s].next]]
<1>1. DueRows = {f[s] : s \in due}
  BY DEF DueRows
<1>2. IsFiniteSet(due)
  BY FS_Subset
<1>3. f \in Surjection(due, DueRows)
  BY <1>1 DEF Surjection
<1>4. IsFiniteSet(DueRows)
  BY <1>2, <1>3, FS_Surjection DEF ExistsSurjection
<1>5. Cardinality(DueRows) \in Nat /\ Cardinality(DueRows) # 0
  BY <1>4, FS_CardinalityType, FS_EmptySet
<1>6. ASSUME NEW e \in DueRows
      PROVE  /\ e \in Entry /\ rows[e.id] # NoRow
             /\ e.slot = rows[e.id].next /\ e.slot <= now
  <2>1. PICK s \in Schedules : Due(s) /\ e = [id |-> s, slot |-> rows[s].next]
    BY DEF DueRows
  <2>2. rows[s] # NoRow
    BY <2>1 DEF Due, NoRow
  <2>3. rows[s].next \in Nat
    BY <2>2 DEF TInv, RowsAccepted
  <2>4. QED
    BY <2>1, <2>2, <2>3 DEF Due, Entry
<1>7. DueRows \subseteq Entry
  BY <1>6
<1>8. queue \in [1..Cardinality(DueRows) -> Entry] /\ DOMAIN queue = 1..Cardinality(DueRows)
  BY <1>7
<1>9. queue \in Seq(Entry)
  BY <1>5, <1>8, SeqDef
<1>10. queue # <<>>
  <2>1. Len(queue) = Cardinality(DueRows)
    BY <1>5, <1>8, <1>9, LenProperties
  <2>2. QED
    BY <1>5, <2>1, EmptySeq
<1>11. ASSUME NEW i \in DOMAIN queue
       PROVE  queue[i] \in DueRows
  BY <1>8
<1>12. QED
  BY <1>6, <1>9, <1>10, <1>11 DEF Entry

(* The first row of a queue and the rest of it.                            *)
LEMMA QueueParts ==
  ASSUME NEW queue \in Seq(Entry), queue # <<>>
  PROVE  /\ 1 \in DOMAIN queue /\ Head(queue) = queue[1] /\ Head(queue) \in Entry
         /\ Tail(queue) \in Seq(Entry)
         /\ \A i \in DOMAIN Tail(queue) :
              i + 1 \in DOMAIN queue /\ i + 1 # 1 /\ Tail(queue)[i] = queue[i + 1]
<1>1. Len(queue) \in Nat \ {0} /\ DOMAIN queue = 1..Len(queue)
  BY EmptySeq, LenProperties
<1>2. /\ Head(queue) \in Entry /\ Tail(queue) \in Seq(Entry)
      /\ Len(Tail(queue)) = Len(queue) - 1
      /\ \A i \in 1..Len(Tail(queue)) : Tail(queue)[i] = queue[i + 1]
  BY HeadTailProperties
<1>3. DOMAIN Tail(queue) = 1..Len(Tail(queue))
  BY <1>2, LenProperties
<1>4. Head(queue) = queue[1]
  BY <1>1
<1>5. QED
  BY <1>1, <1>2, <1>3, <1>4

LEMMA StartingType ==
  ASSUME TInv, NEW queue \in Seq(Entry)
  PROVE  Starting(queue) \in [once : SUBSET Entry, again : SUBSET Entry]
<1>1. ran.once \in SUBSET Entry /\ ran.again \in SUBSET Entry
  BY DEF TInv, Types
<1>2. queue # <<>> => Head(queue) \in Entry
  BY QueueParts
<1>3. QED
  BY <1>1, <1>2 DEF Starting, TInv, Types

\* What the step after the end of a run does, with the effects on one row and
\* one pass.
GoesOnFrom(p) ==
  /\ Busy(p) /\ p \in moving /\ moving' = {}
  /\ UNCHANGED <<now, last>>
  /\ \/ /\ NextRun[Current(p).id][pass[p].current] = Never
        /\ pass' = [pass EXCEPT ![p] = NoPass]
        /\ UNCHANGED <<rows, ran, cut>>
     \/ /\ NextRun[Current(p).id][pass[p].current] # Never
        /\ rows' = [rows EXCEPT ![Current(p).id].next = NextRun[Current(p).id][pass[p].current]]
        /\ \/ Tail(pass[p].queue) = <<>> /\ pass' = [pass EXCEPT ![p] = NoPass]
           \/ /\ Tail(pass[p].queue) # <<>>
              /\ pass' = [pass EXCEPT ![p] = [current |-> pass[p].current,
                                              queue |-> Tail(pass[p].queue),
                                              started |-> now]]
        /\ ran' = Starting(Tail(pass[p].queue))
        /\ cut' = cut \ {Current(p).id}

\* The run under way of a busy pass.
LEMMA CurrentEntry ==
  ASSUME TInv, NEW p \in Passes, Busy(p)
  PROVE  /\ pass[p] \in PassType /\ pass[p].queue \in Seq(Entry) /\ pass[p].queue # <<>>
         /\ Current(p) \in Entry /\ Current(p).id \in Schedules /\ Current(p).slot \in Nat
         /\ 1 \in DOMAIN pass[p].queue /\ Current(p) = pass[p].queue[1]
         /\ Current(p).slot <= pass[p].current /\ pass[p].current \in Instants
         /\ rows[Current(p).id] # NoRow
<1>1. pass[p] \in PassType /\ pass[p].queue \in Seq(Entry)
  BY DEF TInv, Types, PassType
<1>2. pass[p].queue # <<>>
  BY DEF Busy
<1>3. 1 \in DOMAIN pass[p].queue /\ Current(p) = pass[p].queue[1] /\ Current(p) \in Entry
  BY <1>1, <1>2, QueueParts DEF Current
<1>4. ReadWhenDue(p)
  BY DEF TInv
<1>5. QED
  BY <1>1, <1>2, <1>3, <1>4 DEF ReadWhenDue, Entry

LEMMA MovesOnEffect ==
  ASSUME TInv, NEW p \in Passes, MovesOn(p)
  PROVE  GoesOnFrom(p)
<1>1. Busy(p) /\ p \in moving /\ moving' = {} /\ UNCHANGED <<now, last>>
  BY DEF MovesOn, TInv, Recorded
<1>2. Current(p).id \in Schedules /\ pass[p] \in PassType
  BY <1>1, CurrentEntry
<1> DEFINE rest == Tail(pass[p].queue)
           next == NextRun[Current(p).id][pass[p].current]
           new == [current |-> pass[p].current, queue |-> rest, started |-> now]
<1>6. \/ next = Never /\ pass' = [pass EXCEPT ![p] = NoPass] /\ UNCHANGED <<rows, ran, cut>>
      \/ /\ next # Never
         /\ rows' = [rows EXCEPT ![Current(p).id].next = next]
         /\ pass' = [pass EXCEPT ![p] = IF rest = <<>> THEN NoPass ELSE new]
         /\ ran' = Starting(rest)
         /\ cut' = cut \ {Current(p).id}
  BY DEF MovesOn
<1> HIDE DEF rest, next, new
<1>7. \/ rest = <<>> /\ (IF rest = <<>> THEN NoPass ELSE new) = NoPass
      \/ rest # <<>> /\ (IF rest = <<>> THEN NoPass ELSE new) = new
  OBVIOUS
<1>8. QED
  BY <1>1, <1>6, <1>7 DEF GoesOnFrom, rest, next, new

(* Moving a schedule on keeps the types, and what its pass and the others  *)
(* have read.                                                              *)
LEMMA MoveKeepsTInv ==
  ASSUME TInv, NEW p \in Passes, GoesOnFrom(p)
  PROVE  /\ TInv'
         /\ \A s \in Schedules : rows[s] # NoRow => rows'[s] # NoRow
<1> DEFINE s0 == Current(p).id
           rest == Tail(pass[p].queue)
           next == NextRun[s0][pass[p].current]
<1>0. /\ s0 \in Schedules /\ Current(p).slot \in Nat /\ pass[p] \in PassType
      /\ pass[p].queue \in Seq(Entry) /\ pass[p].queue # <<>>
      /\ pass[p].current \in Instants /\ rows[s0] # NoRow
  BY CurrentEntry DEF GoesOnFrom
<1>1. /\ rest \in Seq(Entry)
      /\ \A i \in DOMAIN rest : i + 1 \in DOMAIN pass[p].queue /\ rest[i] = pass[p].queue[i + 1]
  BY <1>0, QueueParts
<1>2. next \in Nat \cup {Never} /\ (next # Never => next \in Nat /\ ValidCron(CronOf[s0]))
  BY <1>0, NextRunValue
<1>3. /\ last' \in [Schedules -> [slot : Nat \cup {Never}, status : {"none"} \cup Statuses]]
      /\ moving' = {} /\ cut' \subseteq cut /\ cut \in SUBSET Schedules
      /\ \A s \in cut : rows[s] # NoRow
  BY <1>0 DEF GoesOnFrom, TInv, Types, Recorded
<1>4. now \in Instants /\ now \in Nat /\ now' = now
  BY DEF GoesOnFrom, TInv, Types
<1>5. NoPass \in PassType /\ NoPass.queue = <<>> /\ NoPass.current = 0 /\ NoPass.started = 0
  BY EmptySeq DEF NoPass, PassType
<1> DEFINE on == [current |-> pass[p].current, queue |-> rest, started |-> now]
<1>6. on \in PassType /\ on.queue = rest /\ on.current = pass[p].current /\ on.started = now
  BY <1>0, <1>1, <1>4 DEF PassType
<1>7. /\ pass' \in [Passes -> PassType]
      /\ pass'[p] = NoPass \/ (rest # <<>> /\ pass'[p] = on)
      /\ \A q \in Passes : q # p => pass'[q] = pass[q]
  <2>1. pass \in [Passes -> PassType]
    BY DEF TInv, Types
  <2>2. \/ pass' = [pass EXCEPT ![p] = NoPass]
        \/ rest # <<>> /\ pass' = [pass EXCEPT ![p] = on]
    BY DEF GoesOnFrom
  <2> HIDE DEF on, rest, PassType
  <2>3. QED
    BY <1>5, <1>6, <2>1, <2>2
<1>8. /\ rows' \in [Schedules -> [enabled : BOOLEAN, next : Nat \cup {Never}]]
      /\ \A s \in Schedules : s # s0 => rows'[s] = rows[s]
      /\ rows'[s0] = rows[s0] \/ (next # Never /\ rows'[s0].next = next)
  <2>1. rows \in [Schedules -> [enabled : BOOLEAN, next : Nat \cup {Never}]]
    BY DEF TInv, Types
  <2>2. CASE UNCHANGED rows
    BY <2>1, <2>2
  <2>3. CASE next # Never /\ rows' = [rows EXCEPT ![s0].next = next]
    <3> DEFINE moved == [rows[s0] EXCEPT !.next = next]
    <3>1. moved \in [enabled : BOOLEAN, next : Nat \cup {Never}] /\ moved.next = next
      BY <1>0, <1>2, <2>1, <2>3, RowMoved
    <3>2. rows' = [rows EXCEPT ![s0] = moved]
      BY <1>0, <2>1, <2>3
    <3> HIDE DEF moved, next, s0
    <3>3. QED
      BY <1>0, <2>1, <2>3, <3>1, <3>2
  <2>4. QED
    BY <2>2, <2>3 DEF GoesOnFrom
<1>9. ran' \in [once : SUBSET Entry, again : SUBSET Entry]
  <2>1. Starting(rest) \in [once : SUBSET Entry, again : SUBSET Entry]
    BY <1>1, StartingType
  <2>2. QED
    BY <2>1 DEF GoesOnFrom, TInv, Types
<1>10. Types'
  BY <1>3, <1>4, <1>7, <1>8, <1>9 DEF Types
<1>11. \A s \in Schedules : rows[s] # NoRow => rows'[s] # NoRow
  BY <1>2, <1>8, NoRowHasNoTime
<1>12. RowsAccepted' /\ Recorded'
  BY <1>2, <1>3, <1>8, <1>11 DEF RowsAccepted, Recorded, TInv
<1>13. ASSUME NEW q \in Passes
       PROVE  ReadWhenDue(q)'
  <2>0. ReadWhenDue(q) /\ ReadWhenDue(p)
    BY DEF TInv
  <2>1. CASE pass'[q] = NoPass
    <3>1. DOMAIN pass'[q].queue = {}
      BY <1>5, <2>1
    <3>2. QED
      BY <1>4, <1>5, <2>1, <3>1 DEF ReadWhenDue, Busy
  <2>2. CASE q # p
    <3>1. pass'[q] = pass[q] /\ pass[q].queue \in Seq(Entry)
      BY <1>7, <2>2 DEF TInv, Types, PassType
    <3>2. ASSUME NEW i \in DOMAIN pass[q].queue
          PROVE  /\ pass[q].queue[i].slot <= pass[q].current
                 /\ rows'[pass[q].queue[i].id] # NoRow
      <4>0. pass[q].queue[i] \in Entry
        BY <3>1, ElementOfSeq, LenProperties
      <4>1. pass[q].queue[i].id \in Schedules
        BY <4>0 DEF Entry
      <4>2. QED
        BY <1>11, <2>0, <4>1 DEF ReadWhenDue
    <3>3. QED
      BY <1>4, <2>0, <3>1, <3>2 DEF ReadWhenDue, Busy
  <2>3. CASE q = p /\ pass'[q] = on
    <3>1. ASSUME NEW i \in DOMAIN rest
          PROVE  rest[i].slot <= pass[p].current /\ rows'[rest[i].id] # NoRow
      <4>1. rest[i] \in Entry
        BY <1>1, ElementOfSeq, LenProperties
      <4>2. QED
        BY <1>1, <1>11, <2>0, <4>1 DEF ReadWhenDue, Entry
    <3> HIDE DEF on, rest
    <3>2. pass'[q].current <= now' /\ pass'[q].started <= now' /\ pass'[q].current \in Instants
      BY <1>0, <1>4, <1>6, <2>0, <2>3 DEF ReadWhenDue
    <3>3. QED
      BY <1>6, <2>3, <3>1, <3>2 DEF ReadWhenDue
  <2>4. QED
    BY <1>7, <2>1, <2>2, <2>3
<1>14. QED
  BY <1>10, <1>11, <1>12, <1>13 DEF TInv

(* Every step keeps the types, and what the passes have read.              *)
LEMMA TInvNext == TInv /\ [SchedulerNext]_schedulerVars => TInv'
<1> SUFFICES ASSUME TInv, [SchedulerNext]_schedulerVars
             PROVE  TInv'
  OBVIOUS
<1>0. /\ Types /\ RowsAccepted /\ Recorded /\ now \in Nat /\ \A p \in Passes : ReadWhenDue(p)
      /\ \A p \in Passes : pass[p] \in PassType /\ pass[p].queue \in Seq(Entry)
  BY DEF TInv, Types, PassType
<1>1. ASSUME NEW p \in Passes, NEW i \in DOMAIN pass[p].queue
      PROVE  pass[p].queue[i].id \in Schedules
  <2>1. pass[p].queue[i] \in Entry
    BY <1>0, ElementOfSeq, LenProperties
  <2>2. QED
    BY <2>1 DEF Entry
<1>2. ASSUME \A s \in Schedules : rows[s] # NoRow => rows'[s] # NoRow,
             UNCHANGED pass, now' \in Nat, now' >= now
      PROVE  \A p \in Passes : ReadWhenDue(p)'
  <2>1. SUFFICES ASSUME NEW p \in Passes PROVE ReadWhenDue(p)'
    OBVIOUS
  <2>2. pass[p].current \in Nat /\ pass[p].started \in Nat
    BY <1>0 DEF PassType
  <2>3. pass'[p].current <= now' /\ pass'[p].started <= now'
    BY <1>0, <1>2, <2>2 DEF ReadWhenDue
  <2>4. ASSUME NEW i \in DOMAIN pass[p].queue
        PROVE  /\ pass[p].queue[i].slot <= pass[p].current
               /\ rows'[pass[p].queue[i].id] # NoRow
    BY <1>0, <1>1, <1>2 DEF ReadWhenDue
  <2>5. Busy(p) => pass[p].current \in Instants
    BY <1>0 DEF ReadWhenDue
  <2>6. QED
    BY <1>2, <2>3, <2>4, <2>5 DEF ReadWhenDue, Busy
<1>3. ASSUME NEW s \in Schedules, SetEnabled(s)
      PROVE  TInv'
  <2>1. /\ rows' \in [Schedules -> [enabled : BOOLEAN, next : Nat \cup {Never}]]
        /\ \A r \in Schedules : rows'[r].next = rows[r].next
        /\ \A r \in Schedules : r # s => rows'[r] = rows[r]
        /\ rows[s] # NoRow
        /\ UNCHANGED <<now, pass, last, moving, ran, cut>>
    BY <1>0, <1>3 DEF SetEnabled, Types
  <2>2. rows[s].next \in Nat
    BY <1>0, <2>1 DEF RowsAccepted
  <2>3. \A r \in Schedules : rows[r] # NoRow <=> rows'[r] # NoRow
    BY <2>1, <2>2, NoRowHasNoTime
  <2>4. Types' /\ RowsAccepted' /\ Recorded'
    BY <1>0, <2>1, <2>3 DEF Types, RowsAccepted, Recorded, Busy
  <2>5. now' \in Nat /\ now' >= now
    BY <1>0, <2>1
  <2>6. \A p \in Passes : ReadWhenDue(p)'
    BY <1>2, <2>1, <2>3, <2>5
  <2>7. QED
    BY <2>4, <2>6 DEF TInv
<1>4. ASSUME NEW s \in Schedules, NEW enabled \in BOOLEAN, Create(s, enabled)
      PROVE  TInv'
  <2>1. NextRun[s][now] \in Nat /\ ValidCron(CronOf[s])
    BY <1>0, <1>4, NextRunValue DEF Create, Types
  <2>2. /\ rows' \in [Schedules -> [enabled : BOOLEAN, next : Nat \cup {Never}]]
        /\ rows'[s].next = NextRun[s][now]
        /\ \A r \in Schedules : r # s => rows'[r] = rows[r]
        /\ UNCHANGED <<now, pass, last, moving, ran, cut>>
    BY <1>0, <1>4, <2>1 DEF Create, Types
  <2>3. \A r \in Schedules : rows[r] # NoRow => rows'[r] # NoRow
    BY <1>4, <2>2 DEF Create
  <2>4. Types' /\ RowsAccepted' /\ Recorded'
    BY <1>0, <2>1, <2>2, <2>3 DEF Types, RowsAccepted, Recorded, Busy
  <2>5. QED
    BY <1>0, <1>2, <2>2, <2>3, <2>4 DEF TInv
<1>5. ASSUME NEW p \in Passes, RunDue(p)
      PROVE  TInv'
  <2>1. PICK queue \in [1..Cardinality(DueRows) -> DueRows] :
          /\ pass' = [pass EXCEPT ![p] = [current |-> now, queue |-> queue, started |-> now]]
          /\ ran' = Starting(queue)
    BY <1>5 DEF RunDue
  <2>2. /\ queue \in Seq(Entry)
        /\ \A i \in DOMAIN queue : rows[queue[i].id] # NoRow /\ queue[i].slot <= now
    BY <1>5, DueQueue DEF RunDue
  <2> DEFINE new == [current |-> now, queue |-> queue, started |-> now]
  <2>3. new \in PassType /\ new.current = now /\ new.queue = queue /\ new.started = now
    BY <1>0, <2>2 DEF PassType
  <2>4. /\ pass' \in [Passes -> PassType] /\ pass'[p] = new
        /\ \A q \in Passes : q # p => pass'[q] = pass[q]
    BY <1>0, <2>1, <2>3 DEF Types
  <2>5. UNCHANGED <<rows, now, last, moving, cut>> /\ moving = {}
    BY <1>5 DEF RunDue
  <2>6. Types' /\ RowsAccepted' /\ Recorded'
    <3>1. ran' \in [once : SUBSET Entry, again : SUBSET Entry]
      BY <2>1, <2>2, StartingType
    <3>2. QED
      BY <1>0, <2>4, <2>5, <3>1 DEF Types, RowsAccepted, Recorded
  <2> HIDE DEF new
  <2>7. ReadWhenDue(p)'
    <3>1. pass'[p].current = now /\ pass'[p].queue = queue /\ pass'[p].started = now
      BY <2>3, <2>4
    <3>2. now' = now /\ rows' = rows /\ now \in Instants
      BY <1>0, <2>5 DEF Types
    <3>3. QED
      BY <1>0, <2>2, <3>1, <3>2 DEF ReadWhenDue
  <2>8. ASSUME NEW q \in Passes, q # p
        PROVE  ReadWhenDue(q)'
    BY <1>0, <2>4, <2>5, <2>8 DEF ReadWhenDue, Busy
  <2>9. QED
    BY <2>6, <2>7, <2>8 DEF TInv
<1>6. ASSUME NEW p \in Passes, NEW status \in Statuses, RunEnds(p, status)
      PROVE  TInv'
  <2>1. Busy(p) /\ moving' = {p} /\ UNCHANGED <<rows, now, pass, ran, cut>>
    BY <1>6 DEF RunEnds
  <2>2. Current(p).id \in Schedules /\ Current(p).slot \in Nat
    BY <2>1, CurrentEntry
  <2>3. last' \in [Schedules -> [slot : Nat \cup {Never}, status : {"none"} \cup Statuses]]
    BY <1>0, <1>6, <2>2 DEF RunEnds, Types
  <2>4. Types' /\ RowsAccepted' /\ Recorded'
    BY <1>0, <2>1, <2>3 DEF Types, RowsAccepted, Recorded, Busy
  <2>5. QED
    BY <1>0, <1>2, <2>1, <2>4 DEF TInv
<1>11. ASSUME NEW p \in Passes, MovesOn(p)
       PROVE  TInv'
  BY <1>11, MovesOnEffect, MoveKeepsTInv
<1>7. CASE TimePasses
  <2>1. now' \in Instants /\ now' >= now /\ UNCHANGED <<rows, pass, last, moving, ran, cut>>
    BY <1>0, <1>7 DEF TimePasses, Types
  <2>2. Types' /\ RowsAccepted' /\ Recorded'
    BY <1>0, <2>1 DEF Types, RowsAccepted, Recorded, Busy
  <2>3. QED
    BY <1>2, <2>1, <2>2 DEF TInv
<1>8. CASE Stopped
  <2>1. /\ pass' = [q \in Passes |-> NoPass] /\ UNCHANGED <<rows, now, last>>
        /\ ran' \in [once : SUBSET Entry, again : SUBSET Entry]
        /\ moving' = {} /\ cut' = cut \cup {Current(p).id : p \in moving}
    BY <1>0, <1>8 DEF Stopped, Types
  <2>2. NoPass \in PassType /\ NoPass.queue = <<>> /\ NoPass.current = 0 /\ NoPass.started = 0
    BY EmptySeq DEF NoPass, PassType
  <2>6. \A p \in moving : Current(p).id \in Schedules /\ rows[Current(p).id] # NoRow
    BY <1>0, CurrentEntry DEF Types, Recorded
  <2>7. /\ cut' \in SUBSET Schedules /\ moving' \in SUBSET Passes
        /\ \A s \in cut' : rows'[s] # NoRow
    <3>1. ASSUME NEW s \in cut'
          PROVE  s \in Schedules /\ rows[s] # NoRow
      <4>1. CASE s \in cut
        BY <1>0, <4>1 DEF Types, Recorded
      <4>2. CASE \E p \in moving : s = Current(p).id
        BY <2>6, <4>2
      <4>3. QED
        BY <2>1, <4>1, <4>2
    <3>2. QED
      BY <2>1, <3>1
  <2>8. pass' \in [Passes -> PassType]
    BY <2>1, <2>2
  <2>3. Types' /\ RowsAccepted' /\ Recorded'
    BY <1>0, <2>1, <2>7, <2>8 DEF Types, RowsAccepted, Recorded
  <2>4. ASSUME NEW q \in Passes
        PROVE  ReadWhenDue(q)'
    <3>1. pass'[q] = NoPass
      BY <2>1
    <3>2. DOMAIN pass'[q].queue = {}
      BY <2>2, <3>1
    <3>3. QED
      BY <1>0, <2>1, <2>2, <3>1, <3>2 DEF ReadWhenDue, Busy
  <2>5. QED
    BY <2>3, <2>4 DEF TInv
<1>9. CASE UNCHANGED schedulerVars
  BY <1>0, <1>2, <1>9 DEF schedulerVars, TInv, Types, RowsAccepted, Recorded, Busy
<1>10. QED
  BY <1>3, <1>4, <1>5, <1>6, <1>7, <1>8, <1>9, <1>11 DEF SchedulerNext

(* The tables, the passes and the histories are always well-formed.        *)
THEOREM SchedulerTypeCorrect == SchedulerSpec => []SchedulerTypeOK
<1>1. SchedulerInit => TInv
  BY TInvInit
<1>2. TInv /\ [SchedulerNext]_schedulerVars => TInv'
  BY TInvNext
<1>3. TInv => SchedulerTypeOK
  BY TInvTypes
<1>4. QED
  BY <1>1, <1>2, <1>3, PTL DEF SchedulerSpec

-----------------------------------------------------------------------------
(* A run that has ended has moved its schedule on.                         *)

\* Every accepted expression has a next time, from every time.  Without it the
\* schedule stays due after its run: a 29th of February more than a year away.
AlwaysNext ==
  \A s \in Schedules, t \in Instants : ValidCron(CronOf[s]) => NextOf(s, t) # Never

(* Then a run moves its schedule past the time it was run for.             *)
LEMMA MovesPast ==
  ASSUME AlwaysNext, TInv, NEW p \in Passes, GoesOnFrom(p)
  PROVE  /\ rows'[Current(p).id].next \in Nat
         /\ rows'[Current(p).id].next > pass[p].current
         /\ pass[p].current >= Current(p).slot /\ Current(p).slot \in Nat
         /\ \A s \in Schedules : s # Current(p).id => rows'[s] = rows[s]
         /\ pass'[p] = NoPass \/ pass'[p].queue = Tail(pass[p].queue)
         /\ Tail(pass[p].queue) = <<>> <=> pass'[p] = NoPass
         /\ ran' = Starting(Tail(pass[p].queue))
         /\ cut' = cut \ {Current(p).id}
<1> DEFINE s0 == Current(p).id
           next == NextRun[s0][pass[p].current]
           moved == [rows[s0] EXCEPT !.next = next]
<1>1. /\ s0 \in Schedules /\ Current(p).slot \in Nat /\ pass[p] \in PassType
      /\ Current(p).slot <= pass[p].current /\ pass[p].current \in Instants
      /\ rows[s0] # NoRow
  BY CurrentEntry DEF GoesOnFrom
<1>2. ValidCron(CronOf[s0])
  BY <1>1 DEF TInv, RowsAccepted
<1>3. next # Never /\ next \in Nat /\ next > pass[p].current
  <2>1. NextOf(s0, pass[p].current) # Never
    BY <1>1, <1>2 DEF AlwaysNext
  <2>2. next = NextOf(s0, pass[p].current) /\ next \in Nat \cup {Never}
        /\ (next # Never => next > pass[p].current)
    BY <1>1, NextRunValue
  <2>3. QED
    BY <2>1, <2>2
<1>4. rows \in [Schedules -> [enabled : BOOLEAN, next : Nat \cup {Never}]]
      /\ pass \in [Passes -> PassType]
  BY DEF TInv, Types
<1>5. moved.next = next
  BY <1>1, <1>3, <1>4, RowMoved
<1>6. /\ rows' = [rows EXCEPT ![s0] = moved] /\ ran' = Starting(Tail(pass[p].queue))
      /\ cut' = cut \ {s0}
      /\ \/ Tail(pass[p].queue) = <<>> /\ pass' = [pass EXCEPT ![p] = NoPass]
         \/ /\ Tail(pass[p].queue) # <<>>
            /\ pass' = [pass EXCEPT ![p] = [current |-> pass[p].current,
                                            queue |-> Tail(pass[p].queue),
                                            started |-> now]]
  BY <1>1, <1>3, <1>4 DEF GoesOnFrom
<1>7. /\ pass'[p] = NoPass \/ pass'[p].queue = Tail(pass[p].queue)
      /\ Tail(pass[p].queue) = <<>> <=> pass'[p] = NoPass
  <2>1. NoPass.queue = <<>>
    BY DEF NoPass
  <2>2. CASE Tail(pass[p].queue) = <<>> /\ pass' = [pass EXCEPT ![p] = NoPass]
    BY <1>4, <2>2
  <2>3. CASE /\ Tail(pass[p].queue) # <<>>
             /\ pass' = [pass EXCEPT ![p] = [current |-> pass[p].current,
                                             queue |-> Tail(pass[p].queue),
                                             started |-> now]]
    <3>1. pass'[p] = [current |-> pass[p].current, queue |-> Tail(pass[p].queue),
                      started |-> now]
      BY <1>4, <2>3
    <3>2. pass'[p].queue = Tail(pass[p].queue)
      BY <3>1
    <3>3. QED
      BY <2>1, <2>3, <3>2
  <2>4. QED
    BY <1>6, <2>2, <2>3
<1> HIDE DEF moved, next
<1>8. rows'[s0] = moved /\ \A s \in Schedules : s # s0 => rows'[s] = rows[s]
  BY <1>1, <1>4, <1>6
<1>9. QED
  BY <1>1, <1>3, <1>5, <1>6, <1>7, <1>8

\* One pass at most is between its commits, with its run in the table.
JustRecorded ==
  /\ \A p, q \in moving : p = q
  /\ \A p \in moving : last[Current(p).id].slot = Current(p).slot

AInv == TInv /\ JustRecorded /\ RunAdvances

LEMMA AInvNext == AlwaysNext /\ AInv /\ [SchedulerNext]_schedulerVars => RunAdvances'
<1> SUFFICES ASSUME AlwaysNext, AInv, [SchedulerNext]_schedulerVars
             PROVE  RunAdvances'
  OBVIOUS
<1>0. TInv /\ RunAdvances /\ \A s \in Schedules : last[s].slot \in Nat \cup {Never}
  BY DEF AInv, TInv, Types
<1>1. ASSUME UNCHANGED <<last, moving, cut>>, \A p \in moving : pass'[p] = pass[p],
             \A s \in Schedules : rows'[s].next = rows[s].next
      PROVE  RunAdvances'
  BY <1>0, <1>1 DEF RunAdvances, Current
<1>2. ASSUME NEW s \in Schedules, SetEnabled(s)
      PROVE  RunAdvances'
  <2>1. /\ UNCHANGED <<last, moving, cut, pass>>
        /\ \A r \in Schedules : rows'[r].next = rows[r].next
    BY <1>0, <1>2 DEF SetEnabled, TInv, Types
  <2>2. QED
    BY <1>1, <2>1
<1>3. ASSUME NEW s \in Schedules, NEW enabled \in BOOLEAN, Create(s, enabled)
      PROVE  RunAdvances'
  \* A schedule that is created has not run: its next time was none.
  <2>1. last[s] = NoRun
    <3>1. rows[s].next = Never /\ rows[s] = NoRow /\ moving = {}
      BY <1>3, NoRowHasNoTime DEF Create
    <3>2. last[s].slot \in Nat \cup {Never}
      BY <1>0
    <3>3. ~(rows[s].next > last[s].slot) /\ s \notin cut
      BY <1>0, <3>1, <3>2 DEF Never, TInv, Recorded
    <3>4. QED
      BY <1>0, <3>1, <3>3 DEF RunAdvances
  <2>2. UNCHANGED <<last, moving, cut, pass>> /\ \A r \in Schedules : r # s => rows'[r] = rows[r]
    BY <1>0, <1>3 DEF Create, TInv, Types
  <2>3. QED
    BY <1>0, <2>1, <2>2 DEF RunAdvances, Current
<1>4. ASSUME NEW p \in Passes, NEW status \in Statuses, RunEnds(p, status)
      PROVE  RunAdvances'
  <2>1. /\ UNCHANGED <<rows, pass, cut>> /\ moving = {} /\ moving' = {p}
        /\ Current(p)'.id = Current(p).id
        /\ \A s \in Schedules : s # Current(p).id => last'[s] = last[s]
    BY <1>0, <1>4 DEF RunEnds, Current, TInv, Types
  <2>2. QED
    BY <1>0, <2>1 DEF RunAdvances
<1>7. ASSUME NEW p \in Passes, MovesOn(p)
      PROVE  RunAdvances'
  <2>1. GoesOnFrom(p)
    BY <1>0, <1>7, MovesOnEffect
  <2>2. /\ rows'[Current(p).id].next > Current(p).slot
        /\ \A s \in Schedules : s # Current(p).id => rows'[s] = rows[s]
        /\ cut' = cut \ {Current(p).id}
    <3>1. pass[p].current \in Nat
      BY <1>0, <2>1, CurrentEntry DEF GoesOnFrom, PassType
    <3>2. /\ rows'[Current(p).id].next \in Nat
          /\ rows'[Current(p).id].next > pass[p].current
          /\ pass[p].current >= Current(p).slot /\ Current(p).slot \in Nat
          /\ \A s \in Schedules : s # Current(p).id => rows'[s] = rows[s]
          /\ cut' = cut \ {Current(p).id}
      BY <1>0, <2>1, MovesPast
    <3>3. QED
      BY <3>1, <3>2
  <2>3. moving = {p} /\ last[Current(p).id].slot = Current(p).slot /\ UNCHANGED last
    BY <1>0, <2>1 DEF GoesOnFrom, AInv, JustRecorded
  <2>5. QED
    BY <1>0, <2>2, <2>3 DEF RunAdvances
<1>8. CASE Stopped
  <2>1. UNCHANGED <<last, rows>> /\ cut' = cut \cup {Current(p).id : p \in moving}
    BY <1>8 DEF Stopped
  <2>2. QED
    BY <1>0, <2>1 DEF RunAdvances
<1>5. ASSUME (\E p \in Passes : RunDue(p)) \/ TimePasses \/ UNCHANGED schedulerVars
      PROVE  RunAdvances'
  BY <1>1, <1>5 DEF RunDue, TimePasses, schedulerVars
<1>6. QED
  BY <1>2, <1>3, <1>4, <1>5, <1>7, <1>8 DEF SchedulerNext

(* Only the pass that has recorded its run comes next, and what it has     *)
(* recorded is the time it was run for.                                    *)
LEMMA JustRecordedNext ==
  TInv /\ JustRecorded /\ [SchedulerNext]_schedulerVars => JustRecorded'
<1> SUFFICES ASSUME TInv, JustRecorded, [SchedulerNext]_schedulerVars
             PROVE  JustRecorded'
  OBVIOUS
<1>1. ASSUME NEW p \in Passes, NEW status \in Statuses, RunEnds(p, status)
      PROVE  JustRecorded'
  <2>1. Busy(p) /\ moving' = {p} /\ UNCHANGED pass
    BY <1>1 DEF RunEnds
  <2>2. Current(p).id \in Schedules /\ Current(p)' = Current(p)
    BY <2>1, CurrentEntry DEF Current
  <2>3. last'[Current(p).id].slot = Current(p).slot
    BY <1>1, <2>2 DEF RunEnds, TInv, Types
  <2>4. QED
    BY <2>1, <2>2, <2>3 DEF JustRecorded
<1>2. ASSUME moving' = {}
      PROVE  JustRecorded'
  BY <1>2 DEF JustRecorded
<1>3. ASSUME UNCHANGED <<moving, pass, last>>
      PROVE  JustRecorded'
  BY <1>3 DEF JustRecorded, Current
<1>4. ASSUME NEW p \in Passes, RunDue(p)
      PROVE  moving' = {}
  BY <1>4 DEF RunDue
<1>5. QED
  BY <1>1, <1>2, <1>3, <1>4
     DEF SchedulerNext, SetEnabled, Create, MovesOn, TimePasses, Stopped, schedulerVars

(* However many passes overlap, crash or raise, a run that has ended, as   *)
(* completed, failed or out of time, has moved its schedule on to a time   *)
(* after the one it was run for, when every expression has a next time;    *)
(* the exceptions are the schedule whose pass is between the two commits,  *)
(* and one whose pass the process has died in there.                       *)
THEOREM RunsAdvance ==
  ASSUME AlwaysNext
  PROVE  SchedulerSpec => []RunAdvances
<1>1. SchedulerInit => AInv
  BY TInvInit DEF SchedulerInit, AInv, RunAdvances, JustRecorded
<1>2. AInv /\ [SchedulerNext]_schedulerVars => AInv'
  BY TInvNext, JustRecordedNext, AInvNext DEF AInv
<1>3. AInv => RunAdvances
  BY DEF AInv
<1>4. QED
  BY <1>1, <1>2, <1>3, PTL DEF SchedulerSpec

-----------------------------------------------------------------------------
(* One pass at a time runs a schedule once for each time it is due.        *)

\* The rows a pass still holds are as they were when it read them, each one
\* once: nobody else moves them.
QueueCurrent(p) ==
  /\ \A i \in DOMAIN pass[p].queue : pass[p].queue[i].slot = rows[pass[p].queue[i].id].next
  /\ \A i, j \in DOMAIN pass[p].queue : pass[p].queue[i].id = pass[p].queue[j].id => i = j

\* What has been run is being run, or has moved its schedule on.
RanOnce(p) ==
  \A e \in ran.once : (Busy(p) /\ e = Current(p)) \/ rows[e.id].next > e.slot

OInv(p) == TInv /\ QueueCurrent(p) /\ RanOnce(p) /\ SlotOnce

(* A row with the time its schedule has now has not been run.              *)
LEMMA FreshStart ==
  ASSUME NEW queue \in Seq(Entry), TInv, SlotOnce,
         queue # <<>> => Head(queue) \notin ran.once
  PROVE  /\ Starting(queue).again = {}
         /\ Starting(queue).once \subseteq
              ran.once \cup {e \in Entry : queue # <<>> /\ e = Head(queue)}
<1>1. CASE queue = <<>>
  BY <1>1 DEF Starting, SlotOnce
<1>2. CASE queue # <<>>
  <2>1. Head(queue) \in Entry
    BY <1>2, QueueParts
  <2>2. QED
    BY <1>2, <2>1 DEF Starting, SlotOnce
<1>3. QED
  BY <1>1, <1>2

(* A pass that goes on moves its schedule on, and starts the next one for  *)
(* a time it was not run for.                                              *)
LEMMA MoveKeepsOnce ==
  ASSUME AlwaysNext, NEW p \in Passes, OInv(p), GoesOnFrom(p)
  PROVE  QueueCurrent(p)' /\ RanOnce(p)' /\ SlotOnce'
<1> DEFINE c == Current(p)
           rest == Tail(pass[p].queue)
<1>0. TInv /\ QueueCurrent(p) /\ RanOnce(p) /\ SlotOnce /\ Busy(p)
  BY DEF OInv, GoesOnFrom
<1>1. /\ pass[p].queue \in Seq(Entry) /\ pass[p].queue # <<>> /\ c \in Entry
      /\ c.id \in Schedules /\ c.slot \in Nat /\ 1 \in DOMAIN pass[p].queue
      /\ c = pass[p].queue[1] /\ pass[p].current \in Nat
  BY <1>0, CurrentEntry
<1>2. /\ rest \in Seq(Entry)
      /\ \A i \in DOMAIN rest :
           i + 1 \in DOMAIN pass[p].queue /\ i + 1 # 1 /\ rest[i] = pass[p].queue[i + 1]
  BY <1>1, QueueParts
<1>3. /\ rows'[c.id].next \in Nat /\ rows'[c.id].next > c.slot
      /\ \A s \in Schedules : s # c.id => rows'[s] = rows[s]
      /\ pass'[p] = NoPass \/ pass'[p].queue = rest
      /\ rest = <<>> <=> pass'[p] = NoPass
      /\ ran' = Starting(rest)
  <2>1. /\ rows'[c.id].next \in Nat
        /\ rows'[c.id].next > pass[p].current
        /\ pass[p].current >= c.slot
        /\ \A s \in Schedules : s # c.id => rows'[s] = rows[s]
        /\ pass'[p] = NoPass \/ pass'[p].queue = rest
        /\ rest = <<>> <=> pass'[p] = NoPass
        /\ ran' = Starting(rest)
    BY <1>0, MovesPast
  <2>2. QED
    BY <1>1, <2>1
<1>4. NoPass.queue = <<>>
  BY DEF NoPass
<1>5. pass'[p].queue = rest
  BY <1>3, <1>4
<1> HIDE DEF c, rest
<1>6. ASSUME NEW i \in DOMAIN rest
      PROVE  /\ rest[i] \in Entry /\ rest[i].id # c.id
             /\ rest[i].slot = rows[rest[i].id].next
             /\ rows'[rest[i].id] = rows[rest[i].id]
  <2>1. rest[i] \in Entry
    BY <1>2, ElementOfSeq, LenProperties
  <2>2. i + 1 \in DOMAIN pass[p].queue /\ i + 1 # 1 /\ rest[i] = pass[p].queue[i + 1]
    BY <1>2
  <2>3. rest[i].id # c.id /\ rest[i].slot = rows[rest[i].id].next
    BY <1>0, <1>1, <2>2 DEF QueueCurrent
  <2>4. rest[i].id \in Schedules
    BY <2>1 DEF Entry
  <2>5. QED
    BY <1>3, <2>1, <2>3, <2>4
<1>7. QueueCurrent(p)'
  <2>1. \A i \in DOMAIN rest : rest[i].slot = rows'[rest[i].id].next
    BY <1>6
  <2>2. ASSUME NEW i \in DOMAIN rest, NEW j \in DOMAIN rest, rest[i].id = rest[j].id
        PROVE  i = j
    <3>1. i + 1 \in DOMAIN pass[p].queue /\ j + 1 \in DOMAIN pass[p].queue
          /\ pass[p].queue[i + 1].id = pass[p].queue[j + 1].id
      BY <1>2, <2>2
    <3>2. i + 1 = j + 1
      BY <1>0, <3>1 DEF QueueCurrent
    <3>3. i \in Nat /\ j \in Nat
      BY <1>2, LenProperties
    <3>4. QED
      BY <3>2, <3>3
  <2>3. QED
    BY <1>5, <2>1, <2>2 DEF QueueCurrent
<1>8. ASSUME NEW e \in ran.once, e \in Entry
      PROVE  rows'[e.id].next > e.slot
  <2>0. e.id \in Schedules /\ e.slot \in Nat
    BY <1>8 DEF Entry
  <2>1. CASE e = c
    BY <1>3, <2>1
  <2>2. CASE e # c
    <3>1. rows[e.id].next > e.slot
      BY <1>0, <2>2 DEF RanOnce, c
    <3>2. CASE e.id # c.id
      BY <1>3, <2>0, <3>1, <3>2
    <3>3. CASE e.id = c.id
      <4>1. c.slot = rows[c.id].next
        BY <1>0, <1>1 DEF QueueCurrent
      <4>2. QED
        BY <1>1, <1>3, <2>0, <3>1, <3>3, <4>1
    <3>4. QED
      BY <3>2, <3>3
  <2>3. QED
    BY <2>1, <2>2
<1>9. rest # <<>> =>
        1 \in DOMAIN rest /\ Head(rest) = rest[1] /\ Head(rest) \notin ran.once
  <2>1. SUFFICES ASSUME rest # <<>>
                 PROVE  1 \in DOMAIN rest /\ Head(rest) = rest[1] /\ Head(rest) \notin ran.once
    OBVIOUS
  <2>2. 1 \in DOMAIN rest /\ Head(rest) = rest[1]
    BY <1>2, <2>1, QueueParts
  <2>3. rest[1] \in Entry /\ rest[1].slot = rows'[rest[1].id].next
    BY <1>6, <2>2
  <2>4. rest[1].slot \in Nat
    BY <2>3 DEF Entry
  <2>5. rest[1] \in ran.once => FALSE
    BY <1>8, <2>3, <2>4
  <2>6. QED
    BY <2>2, <2>5
<1>10. /\ ran'.again = {}
       /\ ran'.once \subseteq ran.once \cup {e \in Entry : rest # <<>> /\ e = Head(rest)}
  BY <1>0, <1>2, <1>3, <1>9, FreshStart
<1>11. RanOnce(p)'
  <2>1. SUFFICES ASSUME NEW e \in ran'.once
                 PROVE  (Busy(p)' /\ e = Current(p)') \/ rows'[e.id].next > e.slot
    BY DEF RanOnce
  <2>2. CASE e \in ran.once
    <3>1. e \in Entry
      BY <1>0, <2>2 DEF TInv, Types
    <3>2. QED
      BY <1>8, <2>2, <3>1
  <2>3. CASE rest # <<>> /\ e = Head(rest)
    BY <1>5, <2>3 DEF Busy, Current
  <2>4. QED
    BY <1>10, <2>2, <2>3
<1>12. QED
  BY <1>7, <1>10, <1>11 DEF SlotOnce

(* What is run stays run once when the rows keep their times, the pass its *)
(* queue and the history what it has.                                      *)
LEMMA QuietKeepsOnce ==
  ASSUME NEW p \in Passes, OInv(p), UNCHANGED <<pass, ran>>,
         \A s \in Schedules : rows[s] # NoRow => rows'[s].next = rows[s].next
  PROVE  QueueCurrent(p)' /\ RanOnce(p)' /\ SlotOnce'
<1>0. TInv /\ QueueCurrent(p) /\ RanOnce(p) /\ SlotOnce /\ ReadWhenDue(p)
      /\ pass[p].queue \in Seq(Entry)
  BY DEF OInv, TInv, Types, PassType
<1>1. ASSUME NEW i \in DOMAIN pass[p].queue
      PROVE  rows'[pass[p].queue[i].id].next = rows[pass[p].queue[i].id].next
  <2>1. pass[p].queue[i] \in Entry
    BY <1>0, ElementOfSeq, LenProperties
  <2>2. pass[p].queue[i].id \in Schedules /\ rows[pass[p].queue[i].id] # NoRow
    BY <1>0, <2>1 DEF Entry, ReadWhenDue
  <2>3. QED
    BY <2>2
<1>2. QueueCurrent(p)'
  BY <1>0, <1>1 DEF QueueCurrent
<1>3. ASSUME NEW e \in ran.once, rows[e.id].next > e.slot
      PROVE  rows'[e.id].next > e.slot
  <2>1. e \in Entry
    BY <1>0 DEF TInv, Types
  <2>2. e.id \in Schedules /\ e.slot \in Nat
    BY <2>1 DEF Entry
  <2>3. rows[e.id].next # Never
    BY <1>3, <2>2 DEF Never
  <2>4. rows[e.id] # NoRow
    BY <2>3, NoRowHasNoTime
  <2>5. QED
    BY <1>3, <2>2, <2>4
<1>4. RanOnce(p)'
  BY <1>0, <1>3 DEF RanOnce, Busy, Current
<1>5. QED
  BY <1>0, <1>2, <1>4 DEF SlotOnce

(* Every step keeps what has been run at most once, when p is the only     *)
(* pass.                                                                   *)
LEMMA OInvNext ==
  ASSUME AlwaysNext, NEW p, Passes = {p}, OInv(p), [SchedulerNext]_schedulerVars
  PROVE  OInv(p)'
<1>0. TInv /\ TInv' /\ QueueCurrent(p) /\ RanOnce(p) /\ SlotOnce /\ p \in Passes
      /\ \A q \in Passes : q = p
  BY TInvNext DEF OInv
<1> SUFFICES QueueCurrent(p)' /\ RanOnce(p)' /\ SlotOnce'
  BY <1>0 DEF OInv
<1>1. ASSUME NEW s \in Schedules, SetEnabled(s)
      PROVE  QueueCurrent(p)' /\ RanOnce(p)' /\ SlotOnce'
  <2>1. UNCHANGED <<pass, ran>> /\ \A r \in Schedules : rows'[r].next = rows[r].next
    BY <1>0, <1>1 DEF SetEnabled, TInv, Types
  <2>2. QED
    BY <1>0, <2>1, QuietKeepsOnce
<1>2. ASSUME NEW s \in Schedules, NEW enabled \in BOOLEAN, Create(s, enabled)
      PROVE  QueueCurrent(p)' /\ RanOnce(p)' /\ SlotOnce'
  <2>1. UNCHANGED <<pass, ran>> /\ \A r \in Schedules : rows[r] # NoRow => rows'[r] = rows[r]
    BY <1>0, <1>2 DEF Create, TInv, Types
  <2>2. QED
    BY <1>0, <2>1, QuietKeepsOnce
<1>3. ASSUME NEW q \in Passes, RunDue(q)
      PROVE  QueueCurrent(p)' /\ RanOnce(p)' /\ SlotOnce'
  <2>0. q = p /\ ~Busy(p) /\ DueRows # {} /\ UNCHANGED <<rows, now, last>>
    BY <1>0, <1>3 DEF RunDue
  <2>1. PICK queue \in [1..Cardinality(DueRows) -> DueRows] :
          /\ \A i, j \in DOMAIN queue : i < j => Earlier(queue[i], queue[j])
          /\ pass' = [pass EXCEPT ![p] = [current |-> now, queue |-> queue, started |-> now]]
          /\ ran' = Starting(queue)
    BY <1>3, <2>0 DEF RunDue
  <2>2. /\ queue \in Seq(Entry) /\ queue # <<>>
        /\ \A i \in DOMAIN queue : queue[i].slot = rows[queue[i].id].next
    BY <1>0, <2>0, DueQueue
  <2>3. pass'[p].queue = queue
    <3>1. pass \in [Passes -> PassType]
      BY <1>0 DEF TInv, Types
    <3>2. pass'[p] = [current |-> now, queue |-> queue, started |-> now]
      BY <1>0, <2>1, <3>1
    <3>3. QED
      BY <3>2
  <2>4. ASSUME NEW i \in DOMAIN queue, NEW j \in DOMAIN queue, queue[i].id = queue[j].id
        PROVE  i = j
    <3>0. DOMAIN queue = 1..Len(queue) /\ Len(queue) \in Nat
      BY <2>2, LenProperties
    <3>1. /\ i \in Nat /\ i \in 1..Len(queue)
          /\ j \in Nat /\ j \in 1..Len(queue)
      BY <2>4, <3>0
    <3> HIDE DEF Entry
    <3>6. queue[i] \in Entry /\ queue[j] \in Entry
      BY <2>2, <3>1, ElementOfSeq
    <3>2. queue[i].id \in Nat /\ queue[i].slot \in Nat /\ queue[i].slot = queue[j].slot
      BY <2>2, <2>4, <3>6 DEF Entry
    <3>3. ~Earlier(queue[i], queue[j]) /\ ~Earlier(queue[j], queue[i])
      BY <2>4, <3>2 DEF Earlier
    <3>4. ~(i < j) /\ ~(j < i)
      BY <2>1, <3>3
    <3>5. QED
      BY <3>1, <3>4
  <2>5. QueueCurrent(p)'
    BY <2>0, <2>2, <2>3, <2>4 DEF QueueCurrent
  <2>6. \A e \in ran.once : rows[e.id].next > e.slot
    BY <1>0, <2>0 DEF RanOnce
  <2>7. Head(queue) \notin ran.once
    <3>1. Head(queue) \in Entry /\ Head(queue).slot = rows[Head(queue).id].next
      BY <2>2, QueueParts
    <3>2. Head(queue).slot \in Nat
      BY <3>1 DEF Entry
    <3>3. QED
      BY <2>6, <3>1, <3>2
  <2>8. /\ ran'.again = {}
        /\ ran'.once \subseteq ran.once \cup {e \in Entry : queue # <<>> /\ e = Head(queue)}
    BY <1>0, <2>1, <2>2, <2>7, FreshStart
  <2>9. ASSUME NEW e \in ran'.once
        PROVE  (Busy(p)' /\ e = Current(p)') \/ rows'[e.id].next > e.slot
    <3>1. CASE e \in ran.once
      BY <2>0, <2>6, <3>1
    <3>2. CASE e = Head(queue)
      BY <2>2, <2>3, <3>2 DEF Busy, Current
    <3>3. QED
      BY <2>8, <3>1, <3>2
  <2>10. QED
    BY <2>5, <2>8, <2>9 DEF RanOnce, SlotOnce
<1>4. ASSUME NEW q \in Passes, MovesOn(q)
      PROVE  QueueCurrent(p)' /\ RanOnce(p)' /\ SlotOnce'
  <2>1. GoesOnFrom(p)
    BY <1>0, <1>4, MovesOnEffect
  <2>2. QED
    BY <1>0, <2>1, MoveKeepsOnce
<1>8. ASSUME NEW q \in Passes, NEW status \in Statuses, RunEnds(q, status)
      PROVE  QueueCurrent(p)' /\ RanOnce(p)' /\ SlotOnce'
  BY <1>0, <1>8, QuietKeepsOnce DEF RunEnds
<1>5. CASE TimePasses \/ UNCHANGED schedulerVars
  BY <1>0, <1>5, QuietKeepsOnce DEF TimePasses, schedulerVars
<1>6. CASE Stopped
  <2>1. /\ pass'[p] = NoPass /\ UNCHANGED <<rows, now, last>>
        /\ ran'.again = ran.again
        /\ ran'.once = ran.once \ {Current(q) : q \in {r \in Passes : Busy(r)}}
    BY <1>0, <1>6 DEF Stopped, TInv, Types
  <2>2. DOMAIN pass'[p].queue = {}
    <3>1. pass'[p].queue = <<>>
      BY <2>1 DEF NoPass
    <3>2. QED
      BY <3>1
  <2>3. QueueCurrent(p)'
    BY <2>2 DEF QueueCurrent
  <2>4. ASSUME NEW e \in ran'.once
        PROVE  rows'[e.id].next > e.slot
    <3>1. e \in ran.once /\ ~(Busy(p) /\ e = Current(p))
      BY <1>0, <2>1
    <3>2. QED
      BY <1>0, <2>1, <3>1 DEF RanOnce
  <2>5. QED
    BY <1>0, <2>1, <2>3, <2>4 DEF RanOnce, SlotOnce
<1>7. QED
  BY <1>1, <1>2, <1>3, <1>4, <1>5, <1>6, <1>8 DEF SchedulerNext

(* With one pass at a time no schedule is run twice for the time it was    *)
(* due, whatever the runs come to, whatever is enabled or disabled         *)
(* meanwhile; the exception is a time whose run the process died in, or    *)
(* after which it died before the schedule had moved on.                   *)
THEOREM DueTimesRunOnce ==
  ASSUME AlwaysNext, NEW p, Passes = {p}
  PROVE  SchedulerSpec => []SlotOnce
<1>1. SchedulerInit => OInv(p)
  <2> SUFFICES ASSUME SchedulerInit PROVE OInv(p)
    OBVIOUS
  <2>1. TInv
    BY TInvInit
  <2>2. pass[p] = NoPass /\ ran.once = {} /\ ran.again = {}
    BY DEF SchedulerInit
  <2>3. DOMAIN pass[p].queue = {}
    <3>1. pass[p].queue = <<>>
      BY <2>2 DEF NoPass
    <3>2. QED
      BY <3>1
  <2>4. QED
    BY <2>1, <2>2, <2>3 DEF OInv, QueueCurrent, RanOnce, SlotOnce
<1>2. OInv(p) /\ [SchedulerNext]_schedulerVars => OInv(p)'
  BY OInvNext
<1>3. OInv(p) => SlotOnce
  BY DEF OInv
<1>4. QED
  BY <1>1, <1>2, <1>3, PTL DEF SchedulerSpec

=============================================================================
