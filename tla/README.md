# Verification of Agent-Conch

TLA+ models, model checking and proofs of the parts of Agent-Conch
(`src/agent_conch`, paths below are relative to it) where the order of events
matters: approvals, budgets, the tool gate, the agent loop with its verification,
its context and its memory, the calls of the model, the scheduler, the
coordinator, the processes that tools leave running, the sandboxes and the skills.

1. [Inventory](#1-inventory)
2. [Modules](#2-modules)
3. [Runs](#3-runs)
4. [Fairness](#4-fairness)
5. [Proofs](#5-proofs)
6. [What does not hold](#6-what-does-not-hold)
7. [What is not modelled](#7-what-is-not-modelled)
8. [Plan](#8-plan)

## 1. Inventory

Agent-Conch is one Python process per API instance, with one event loop. All
state that outlives a request is in one SQLite database, used synchronously:
inside a process nothing comes between two statements without an `await`; two
instances on one database interleave between any two statements. What is kept
in memory only (identities, suspensions, quota usage, tool health, cooldowns,
MCP connections, the map of containers) is lost at a restart.

| Component | State | Operations | Talks to |
|---|---|---|---|
| Write approvals (`api/approvals.py`) | table `write_approvals` | create, decide, consume, authorize_or_request | tool gate, `POST /approvals/{id}/decision`, skill curator |
| Budget (`governance/budget.py`) | table `run_budgets`, one row per session | start, record_llm, consume_tool, check, finish | agent loop (layer callbacks), tool gate |
| Policies (`tools/tool_policy.py`, `security/permissions.py`, `security/policy_engine.py`) | rules, fixed at start | evaluate | tool gate |
| Tool gate (`tools/registry.py`, `engine/conch_engine.py`) | session identities (memory) | execute_tool_call, run, resume_approval | policies, approvals, budget, tools |
| Tool health (`tools/registry.py`) | failures and suppression of each tool, the tools registered (memory) | register, record_success, record_failure, refresh_mcp_tools | model calls, MCP client |
| Model calls (`engine/agent_loop.py`, `engine/error_classifier.py`) | attempts of a call | forward_with_handling, classify | credentials, context engine, provider |
| Credentials (`security/credentials.py`) | cooldowns, use counts (memory) | acquire, record_success, record_failure | model calls, auxiliary calls |
| Agent loop (`engine/agent_loop.py`, `engine/layers`) | sessions, messages, turns; quota and suspension (memory) | run, pause, resume | model, tool gate, hooks, verification, checkpoints |
| Checkpoints (`state/checkpoint.py`) | table `checkpoints` | save, load, restore, pause, resume | agent loop |
| Verification (`verification/`) | tables of reports and regression cases | the layer behind writing tools, the capture of cases, the self review | agent loop |
| Context engine (`context/engine.py`, `context/compact`) | cached assembly per session | assemble, maintain, compact | agent loop, auxiliary model |
| Memory (`context/memory`) | table `long_term_memory`, `MEMORY.md`, FTS table | add, load, persist, extract | agent loop, auxiliary model |
| Scheduler (`governance/scheduler.py`) | tables `schedules`, `schedule_runs` | create, set_enabled, run_due | `ConchEngine.run` under `wait_for` |
| Coordinator (`multiagent/`) | tables `coordinator_runs`, `subagents` | execute, spawn, start, complete, fail, recover, adopt | `ConchEngine.run` as a worker |
| MCP client (`tools/mcp_client.py`) | connections, pending futures, one supervisor task per server (memory) | connect, disconnect, refresh, call_tool | tool gate, external server processes |
| Background tasks (`tools/core/task_manage.py`) | one table of tasks per process (memory) | create, list, wait, cancel | the runs of all sessions, external commands |
| Skills and curator (`context/skills`) | skill files, table `curator_proposals` | load, analyze, propose, apply | approvals, people who edit the files |
| Sandboxes (`sandbox/`) | a container per session (memory), table `snapshots` | acquire, exec, file operations, destroy; snapshot create / restore / delete | tools, Docker, SSH |
| Observability (`observability/`, `security/audit.py`) | append-only tables and streams | record, query | everything |
| Command line, API, front ends | none of their own | | everything |

What is hard, and what makes each component correct:

* **Approvals.** Two instances interleave between SELECT and UPDATE; a process
  dies between consuming an approval and using it. An approval must authorize
  at most one execution, of exactly the approved request, and a decision must
  be final.
* **Budget.** Tokens are counted after the fact, several runs draw on one row,
  a start resets it under the others. What is executed must stay within the
  limits, the overrun must be bounded, a breach must stand and stop every run.
* **Tool gate.** Identity, approval and budget are three pieces of shared state
  read in one step and used in a later one; a resumption executes a request in
  place of the run that asked. Whatever needs an approval must rest on one.
* **Model calls.** Calls of several runs share keys and tools, and end in any
  order. What is offered and which key is used must follow from the latest
  outcomes; what may be repeated is, and nothing else.
* **Agent loop.** Six ways out of the loop, failures in every phase, suspension
  in memory and pause in the database. The messages of a session must be well-formed
  whenever the model is called; turns must be closed, a run must end.
* **Verification.** A report is made turns before what it leads to, and pauses,
  faults and the recovery of model errors lie between. What failed must reach
  the model, and what was written must not be reported as done unverified.
* **Context and memory.** The context is cached over awaits in which messages
  come; four steps of compaction, each only where the cheaper ones do not do.
* **Scheduler.** Passes overlap, runs hang, the process dies during a run, or between the
  commit that records its end and the one that moves its schedule on. A due time must be served, and only once.
* **Coordinator.** Workers raise, are lost, or are declared orphans while they
  live. Slots and order must be kept, and the report must be true.
* **MCP client.** Callers share one connection attempt, whose leader can be
  cancelled; a connection breaks with requests in its queue. No process may be
  left behind, and each call must end.
* **Background tasks.** Calls of several runs await one coroutine, and can
  cancel it. Each task must come to rest.
* **Skills.** Files are changed one after the other, while people edit them and
  a second process applies another proposal; the process may stop between two.
  What an applied proposal promised must be there, and no guidance lost.
* **Sandboxes.** Between a docker command and what is made of its answer other
  requests go on; the map is lost at a restart, the containers are not. A
  session must reach its own sandbox, a deleted snapshot stays deleted, a
  restored one is what was saved.

## 2. Modules

* `ApprovalTable` – the rows of `write_approvals` and what the SQL statements of
  `WriteApprovalStore` do to them, as operators on a sequence of rows (a row's
  place stands for its id and its age). Shared by `WriteApproval`, `ToolGate` and
  `Skills`.
* `OneTimePermits` – the **abstract specification**: permits are issued by a
  decision and spent once.
* `WriteApproval` – the store as several processes use it: `call[i]` is the
  statement process `i` executes next (`consume`, `answer`, `find_pending`,
  `insert`); `Abandon` is a crash or a locked database between two of them. It
  implements `OneTimePermits`: a permit is issued when its row is approved, and
  spent when its consumer is answered.
* `Budget` – the row, the method each process is inside of
  (`call[p]`, again at statement granularity), and the runs that drive it.
  `spent` is a history variable: what was really used since the last start.
  `GovernanceProofs` – theorems about `Budget` and `Scheduler`.
* `Policy` – pure operators: the three decision layers over abstract tool
  descriptions (kind, writes, protected, sensitive...), roles and senders. The
  order of the checks is that of `execute_tool_call`. With `governance.enabled` off
  (`Governed = FALSE`) there is no policy engine: `Governance` then has nothing to say, and neither
  roles nor MCP permissions nor protected files are asked for.
* `ToolGate` – runs, reviewers and resumptions of one session, and records made by hand
  (`POST /approvals`, `CreateByHand`). A decision executes a request (`Approve`) when it is approved, has
  arguments (not `bare`) and its tool is registered, which that of an MCP request may not be at the moment;
  otherwise the decision is all there is (`DecideOnly`). The module **composes** `Policy` and `ApprovalTable`: the part of `execute_tool_call` up to the
  await of the tool is one step (`Attempt`), because nothing in it suspends. `log` is
  a history variable, one entry per execution. `ApprovalProofs` – theorems about `WriteApproval`
  and `ToolGate`, over one lemma for each statement of `ApprovalTable`.
* `ErrorClasses` – the classifier: an error is the set of the phrases its text
  contains, a class the first branch that matches; strategies and the sets of what
  may be repeated. `ModelCalls` – runs and auxiliary calls over the pool of keys, the
  health of the tools that are offered, their refresh, and the clock. `heard` and
  `ended` are histories of what came back.
* `SessionTables` – messages, turns and checkpoints of a session, as operators;
  `Verification` – checks, reports and cases, as operators. `AgentLoop` **composes** them:
  the runs of one session through the loop. `run[r].pc` is the await a run is in:
  `starting` and `pausing` (hooks), `call` (the model), `tools` (one status per call, in any
  order of return, then the checks), `noting` (memory extraction), `ending`. A
  `Scenario` says which runs there are, whether they may overlap, what is configured,
  and which mishaps may happen; one is chosen at the start, and the hypothesis of a property is the
  mishaps it excludes (`Without`). `AgentLoopProofs` – theorems about it.
* `Compaction` – the three steps of the pipeline as pure operators on sequences of
  messages. `Memory` – the table and `MEMORY.md`, whose lines keep the prefixes they are
  written with. `ContextEngine` **composes** them: the cached context of `LegacyEngine`,
  the agent loop as it assembles, maintains and compacts it, the extraction, and
  restarts. What the model is given is `Assembled` (in `AgentLoop` it is only known that it is called, and
  what the table has then), in a state in which a run is at
  `call`. The two awaits that matter are those of the auxiliary model: `summary` and
  `noting`. `seen` is a history of each run: how long the conversation was when it last
  saw to its context.
* `Cron` – five-field expressions and the search for the next time, as pure
  operators with the calendar spelled out. `Scheduler` – the tables, passes of
  `run_due`, timeouts, crashes. The end of a run is two commits: `RunEnds` records it in
  `schedule_runs`, `MovesOn` gives the schedule its next time. `moving` is the pass between the two, and
  `cut` the history of the schedules for which the process died there.
* `Coordinator`, `CoordinatorProofs` – `execute`, its workers and the registry of
  subagents. `row` is what the database says of a worker and `worker` what really
  happens to it.
* `MCPClient` – the callers and the supervisors of one server. `queue[g]` is the
  queue of supervisor `g`, `ready[g]` the future the leader and its followers
  await. `BackgroundTasks` – tasks, their coroutines and processes, and the calls that
  await them.
* `Sandboxes` – requests, containers and snapshots; each docker command is two steps,
  what the daemon does and what the coroutine makes of the answer. `docker run` prints its id before
  it starts the container, and the code takes an id for a success: a failing daemon may leave a container
  that is `created`, holds its name and is used as if it ran.
* `Skills` – the tree of skill files, proposals and their approvals; each file
  operation of an application is a step. `ContextProofs` – theorems about `Skills` and
  `ContextEngine`.
* `MC…` modules give constants their values for the checker. `MCToolProcesses` puts
  `MCPClient` and `BackgroundTasks` side by side: a behaviour is one of either.

Each definition stands for the lines `PROJECT.json` gives it under "map".

What is abstracted: message texts, tool arguments and results are the request
or run they belong to; the text of a skill is the set of the pieces of guidance in
it; times are a few instants; token counts are small numbers; tables keep the
columns a decision depends on. Logging, tracing and wording are left out. In
`AgentLoop` all layers are taken as enabled (the default configuration enables
`execution_limits` only), and a failure anywhere in the saving of a turn fails the turn
before its messages are saved.

## 3. Runs

| Run | Checks | Bounds, and why they are enough |
|---|---|---|
| `approvals` | `OneShot`, `ExactRequest`, `DecisionsAreFinal`, `ImplementsPermits` | two processes, two requests, three records: a race needs two callers, a confusion two requests, and the third record lets a request be asked for again after its approval was used. The theorems cover all sizes. |
| `budget` | `WithinLimits`, `OneResponseOver`, `BreachStands`, `BreachStopsRuns` | one process, two runs, limits of two calls, five units and two tokens, with calls of weight 1 and 3 and responses of 0 or 2 tokens, so that each of the limits is reached exactly and overrun. |
| `gate` | `ApprovedFirst`, `ProtectedFilesApproved`, `OneExecutionPerApproval`, `ActsAsItself` | two runs of two principals, two reviewers, an ordinary tool, a write to a memory file and an MCP call without arguments, which no decision executes; two approvals, two executions; the governance is enabled and asks approval for tools that execute: enough for a retry, a double decision and a resumption to meet. The theorems cover all sizes. |
| `gate_subagent` | *violated*: `OneExecutionPerApproval` | one of the runs is a subagent's. The shortest trace has the approval decided a second time after the resumption; the retry of the subagent is another. |
| `loop` | `QuotaHolds`, `SuspendedWaits`, `CallsAnswered`, `PausedStartsNothing`, `TurnsClosed`, `FailuresFollowedUp`, `Terminates` | five scenarios: two runs one after the other, with a failing hook, the time limit, pauses and resumptions; a run of three turns with two verification commands, so that a failure is repaired or not before the answer is reviewed; each of the two with more mishaps, among those the properties allow (rejections and requests that cannot be executed; interruptions and restarts); one run with every mishap, fail-closed hooks, restarts and overlapping resumptions. Two calls per response: one may be lost while the other is kept. |
| `model_calls` | `RepeatsAsTabled`, `OfferedUnlessFailing`, `KeyChosen` | two runs and an auxiliary call over three keys of two priorities, one error of each strategy, one retry; a core tool and a served one; cooldown and suppression of two units in three, so that both begin and end. Four requests, or four uses of tools, or some of both. |
| `context` | `AsMuchAsNeeded`, `SentIsCurrent` | two overlapping runs over six messages; weights and a budget under which each step of the pipeline suffices in some conversation and fails in another; one refused context per call; notes that are read back from `MEMORY.md` at restarts. A message that comes while a summary is awaited is left out (`Racing`, section 6). The runs are alike, hence the symmetry. |
| `sched` | `SlotOnce`, `RunAdvances`, `DueServed` | two schedules (each minute, each second minute) at six instants across two hard timeouts, one of them switched on and off, one pass at a time, crashes during a run and between its two commits. |
| `coordinator` | `TakenInOrder`, `ReportsAgree`, `EndedStays`, `RunsEnd` | one run of three tasks over two slots, so that one task waits; two parent sessions for adoption. |
| `processes` | `ConnectionAnswers`, `NoneLeftBehind`, `CallsEnd`; `TasksSettle` | three calls to a server (a leader, a follower, one that finds the connection) and two supervisors, so that a second connection meets the remains of the first; two background tasks and three calls about them, so that two meet at one task. |
| `sandboxes` | `SandboxReachable`, `DeletedIsGone`, `RestoredIsSaved` | one session and the tools' own container, four requests, two of which can overlap on the same container while a third deletes what a fourth restores; four containers; one tag that two snapshots share; a daemon that may refuse, or create a container and not start it, and restarts. |
| `skills` | `AppliedInFull`, `GuidanceKept` | three skills on two levels, two of one name, one with a description that has to be quoted; two processes, one edit by a person, two approvals, and crashes between any two file operations. |

Deadlock is checked in `approvals`; the other systems may come to rest (their
runs, instants or executions are used up). The type invariants of `WriteApproval`,
`Budget`, `Coordinator`, `ToolGate`, `ModelCalls`, `MCPClient`, `Sandboxes`, `AgentLoop`, `Scheduler`
and `Skills` are theorems; the others (`TypeOK` of each module) can be added to any of the runs.

What the runs show, property by property, is stated above each property in its
module. The ones to look at first:

* `ImplementsPermits`: for all interleavings and crashes, the approval store is
  a store of one-time permits.
* `OneResponseOver`: the token limit is passed by at most one response per run
  that is about to stop.
* `CallsAnswered`: whenever the model is called, each tool call in the messages of the session is
  followed by its results. (What is sent is assembled of them; a summary keeps the last four,
  and its cut may part a call from its results, section 6.)
* `FailuresFollowedUp`: across pauses, resumptions and repairs, the model is not called
  without a failed verification in the messages, and where answers are reviewed no run is completed
  with a write that has not passed.
* `SuspendedWaits`: a suspended session always has a request whose approval
  resumes it, as long as none was rejected or is one that a decision does not execute.
* `KeyChosen`, `OfferedUnlessFailing`: whatever order calls and executions end in, the
  keys and tools used are those the latest outcomes speak for.
* `SentIsCurrent`: whatever was cached, the model is shown all messages or a
  summary and the last four as they are when it is called.
* `AsMuchAsNeeded`: nothing is cleared, folded or summarized that the cheaper steps
  would have made fit.
* `ReportsAgree`: what a coordinator run reports is what the registry says of
  its subagents, whatever the recovery of orphans did to the rows meanwhile.
* `CallsEnd`: a call to an MCP server ends through every interleaving of
  leaders, followers, cancellations and breaks.
* `RunAdvances`, `SlotOnce`: what a crash between the two commits of a run may cause, and nothing else.
* `RestoredIsSaved`, `DeletedIsGone`: snapshots through refusals of the daemon and
  other requests between any two docker commands.
* `AppliedInFull`, `GuidanceKept`: whatever people, crashes and a second process do between
  two file operations of an application, what is marked as applied has been, and guidance is
  lost in two ways only, both of which the property names.

## 4. Fairness

The fairness of the specifications is that of the event loop. What the code does not see to is not in it:
it is the hypothesis of the property, so that one sees what the property rests on.

* `AgentLoop`: weak fairness of what a run does by itself (`GoesOn`): the loop does not wait for
  other runs, and the commands of hooks and of verification, and the auxiliary model,
  have time limits. `Terminates` assumes besides that the model and the tools answer or fail
  (`EverythingAnswers`): `_call_model` passes no timeout (`engine/agent_loop.py:607`), an MCP call has none
  (`tools/mcp_client.py:192`), and `ask_user` waits for its input (`tools/core/ask_user.py:76`). A run
  that waits there for ever ends by the time limit of who started it (the scheduler's), or not at all.
* `Budget`: a process goes on with the method it is inside of (weak fairness:
  nothing can disable it but a crash). `BreachStopsRuns` assumes that the models and tools of a run
  answer (`RunsGoOn`); strongly, because another run inside of a
  method holds it up again and again, and the event loop serves its tasks in
  turn. Crashes are not excluded; they stop runs.
* `Scheduler`: someone keeps posting `/schedules/run-due` (nothing in the
  program does), a run ends at its `wait_for` timeout at the latest, and the
  process does not crash for ever (`<>[][~Stopped]_schedulerVars`).
* `Coordinator`: weak fairness of the event loop. A worker has no time limit of its own: `RunsEnd` assumes
  that it returns (`WorkersReturn`), which is `Terminates` of the agent loop and its assumption.
* `MCPClient`: weak fairness of the event loop, and the external server answers
  or breaks. The code sets no time limit on it: with a server that never
  answers, `call_tool` waits for ever.
* `BackgroundTasks`: weak fairness of the event loop and of the timeouts of `wait`; none
  of the commands, which may run for ever.

## 5. Proofs

Checked by TLAPS, for every value of the constants.

`ApprovalProofs` says of each SQL statement which rows it changes and how; what follows rests on
it. About the store it assumes only `MaxRecords \in Nat`; processes, requests and requesters are any
sets.

* `StoreTypeCorrect`, `DecisionsFinal`: from the lemmas about the statements.
* `OneShotHolds`, `ExactRequestHolds`: `OneShot` alone is not inductive. The
  invariant adds what a process that has consumed but not yet been answered
  holds: a record that is approved, consumed, of its own request, granted to no
  one, and held by no other process (`Safety`). `StoreInvariance` shows that it is
  kept; the two follow.
* `PermitsImplemented`: under the mapping "issued = approved, spent = granted" each
  step of the store is a step of `OneTimePermits` or a stutter.

About the gate it assumes that the identities of the runs, and that of a call that finds none,
can be stored (`GateAssumption`). Runs, reviewers, requests, tools, policies and bounds are
any.

* `TypeCorrect`, `ApprovalComesFirst`, `ProtectedFilesStayApproved` (with the governance enabled): the rows of the table
  keep what an entry of the log rests on (`RowsKept`), and each entry brings its evidence
  (`EntryJustified`): it needed no approval, or its approval is a used-up one of its
  request and of no other entry. An attempt takes only an approval that was not used up,
  so the new entry shares it with none of the old ones (`LogStep`).
* `ActsAsItselfHolds`: needs that, without overlapping, who is under way is alone and the
  identity of the session is its own (`Owned`); for that a free session must have no one
  under way, which holds because nobody without a role is let in (`RunsMayRun`,
  `NoRoleNoRun`), and that whoever asked has a name or a role (`AskersKnown`, also of a record made by hand).
* `OneExecutionWithoutSubagents`: assumes that every run is one of the main session
  (`AllMain`); run `gate_subagent` shows that it is false without. It also assumes that a request with arguments
  is always one that a decision executes (`ToolsStay`): an approval given while the tool of an MCP
  request is not registered is left unused, and section 6 says what may become of it. Who asked under "main"
  needs the approval at the resumption too, so the resumption takes it in the step
  that decides it and no approved row is left unused but those of requests without arguments, which no
  decision executes (`NoSpare`).

`GovernanceProofs`, about `Budget`, assumes finitely many runs, natural limits and a bound on what one
response uses.

* `TypeCorrect` and `BreachStandsHolds` hold for any number of processes.
* `WithinLimitsHolds` and `OneResponseOverHolds` hold for one process (`Alone`): with
  two, they are false (section 6). The first rests on the invariant that the
  row counts at least what was spent and that a write under way was computed
  from the row as it is (`ToolAccounts`); the second on an invariant that splits
  the overrun over the runs that are done spending (`TokenAccounts`), with a
  lemma on the cardinality of that set for each way it changes.

About `Scheduler` it assumes finitely many schedules and integer times (`SchedulerAssumption`). Expressions,
instants and passes are any. What the search of `Cron` finds is later than the time it starts from
(`NextIsLater`), and the queue of a pass has the rows that are due, each once (`DueQueue`).

* `RunsAdvance`: for any number of passes, under `AlwaysNext`: each accepted expression has a next time at
  every instant. The invariant says of each schedule that its run is recorded and it has not moved on only
  while a pass is between the two commits, or when the process died there. `AlwaysNext` is false of a schedule for the 29th of February (section 6), which is why it is a
  hypothesis and not an assumption of the module.
* `DueTimesRunOnce`: for one pass, under the same hypothesis. The invariant says that the rows of the queue are as the pass read
  them, each one once (`QueueCurrent`), and that what has been run is being run or has moved its
  schedule on (`RanOnce`).

`CoordinatorProofs` assumes a run of at least one task, a natural `max_workers` and one
session, and is about any number of runs, each with any number of tasks.

* `ReportsAlwaysAgree` and `EndedAlwaysStays`: neither is inductive. The invariant `IInv`
  adds that a coroutine and its row end together and in the same way (`RowsFollow`),
  that a run not begun has no coroutine (`IdleQuiet`), and that a done run has the
  outcome of its workers (`DoneAfterAll`). The recovery of orphans may touch the
  row of a worker that is still at work; `RowsFollow` is why that cannot be seen
  once it has ended.
* `AlwaysWithinSlots`: by cardinality; only `Start` adds a worker, under its guard.
* `AlwaysTakenInOrder`: needs that no crash and, in a sequential run, no exception
  leaves a worker waiting (`QueueIntact`).

`ModelCallsProofs` assumes that keys are numbered and that cooldown and suppression are
positive (`CallAssumption`). Calls, keys, tools, errors, attempts and times are any.

* `KeyAlwaysChosen`: the invariant says that the pool remembers the latest answer to each key
  (`KeysHeard`), so the candidates are the keys that do not rest. That `acquire` has a first
  one among them is a fact about orders: a lexicographic order on naturals has a smallest
  element in every set that is not empty (`SmallestOf` by well-founded induction, then
  `FirstOfKeys`, one component after the other).
* `AlwaysOfferedUnlessFailing`: the failures counted of a tool are the failures at the end of
  its history, up to two (`ToolsEnded`); a success, a removal and a registration clear both.
* `RepeatsAlwaysAsTabled`: what a row says of its last error agrees with the tables
  (`Repeats`), because the tables agree with each other (`StrategiesAgree`).

`MCPClientProofs` assumes a positive number of supervisors and that `"stop"` is not a call
(`MCPAssumption`), and is about any number of calls.

* `ConnectionAlwaysAnswers`: neither this nor the next is inductive. The invariant adds that
  a supervisor that is being started is the one in `_pending` (`StartingPends`), that until it is
  connected its future is not resolved and nobody has told it to stop (`BeforeConnected`), that an
  attempt has one leader (`OneLeader`), and that a connected supervisor that serves is the one
  in `connections` or has been told to stop (`ConnectedFound`).
* `NoneEverLeftBehind` follows from the same invariant.
* `RequestsAlwaysFollowed`: what is known of every call that waits, whichever way it came to: its
  request is being served, is in a queue that is read or will be refused, or it is stranded. It is
  the safety part of `CallsEnd`, for any number of calls.

`SandboxesProofs` assumes the modes and backends of the configuration, and that no session is
called `""` or `none`; sessions, requests, tags, containers and faults are any.

* `AlwaysReachable`: a container that is there, running or not, under a session's name is in the map, or in the hands
  of a request that is about to put it there (`InMap`); a request that removes the container
  of a session removes the one in the map and is alone (`Alone`). The second is why `_remove_container`
  may drop the entry "whatever it holds by now", and it is what an overlap breaks (`astray`).
* `RestoredAlwaysSaved`: while one creation only has chosen a tag, the image is what the row
  says or missing (`RowsKept`), and a container made of it that is not in the map yet is known to
  no other request (`Newly`), so that no command can have changed its files. The theorem says that the
  container is there with these files, not that it runs: a start that failed is not noticed.
* `DeletedAlwaysGone`: between `docker image rm` and the UPDATE nothing brings the image back
  (`Kept`), because who has chosen its tag has been answered already (`Made`).

`AgentLoopProofs` assumes `LoopAssumption`: natural bounds, scenarios that are well-formed. Runs, turns,
hooks, commands and calls per response are any; each property holds in the scenarios without the
mishaps it names (`Without`), and a module-wide lemma says that no step changes the scenario. What a
step does is first put in terms of what the proofs ask of it – it takes a response, starts or ends a
turn, passes to another await, ends the run, pauses – so that the many actions become nine
cases (`RunStep`).

* `ClosedTurns` holds in every scenario: `OpenTurns` says that the rows of a run are those of its
  turns, and that at most the last of them is running.
* `QuotaKept`: without overlapping one run at most is under way (`Alone`), and its tokens are then the
  usage that the layer counts for the session.
* `SuspensionAwaited`: a session is suspended only while a run is pausing with a call that waits, or a
  request waits or is being executed (`Awaited`). It is about the scenarios in which no request is rejected and
  each can be executed once approved; both are in the model (`DecideOnly`) and make it false.
* `PauseHolds`: a session that is marked as paused, or has a run in its pause, is suspended
  (`PauseKept`). A restart breaks this, and so does a resumption that overlaps the pause.
* `CallsHaveAnswers`: about the messages table whenever the model is called. `WellFormed` is not inductive, because an assistant message is saved turns before
  its results. `CallsKept` says that the conversation is well-formed, or is so but for the last message,
  whose calls are those of the one run that executes tools; and that the checkpoints
  hold well-formed conversations, which a resumption brings back.
* `FailuresFollowed`: `AllFollowed` says of each run under way that its failed turns are in the
  conversation, but for the one that is about to inject its message, and that with an unverified
  write the latest report says so, but for one that is still to come.

`ContextProofs`, about `Skills`, assumes that names and levels are numbered and that what there is at
the start is well-formed (`SkillsAssumption`, `InitiallyAssumption`). Skills, texts, notes, processes and
bounds are any. The file operations become eight cases (`Applies`), and what all steps have in common
is that the archive, the proposals and what is excused only grow (`Monotone`).

* `AppliedInFullAlways`: not inductive; a row is marked long after the files were read. The invariant follows an
  application on its way: the directory that a consolidation has made is empty and its own
  until it writes, unless another application archived it meanwhile (`OwnDirectory`); what is still
  to be archived says no more than was read, or was added since (`Covered`), and so does what has been
  archived (`Moved`); what was read is in the combined skill, or was archived from it (`Combines`).
  `Emptied` is the exception: a second application can take the empty directory away, and a third
  make it again, before the first one writes.
* `GuidanceIsKept`: an action property. Each step that changes a file either keeps what it said or is one of the two
  writes; that `Write` loses nothing where the directory was not taken away is `OwnDirectory` once
  more, and a directory that is moved takes its text to the archive.
* `TypeCorrect`.

About `ContextEngine` it assumes weights and bounds that are natural numbers; runs, messages, lengths
and budgets are any. Both theorems have the hypothesis `~Racing`: no message comes while a summary is
awaited; without it they are false (section 6).

* The lemmas about `Compaction` say what a step keeps: clearing and folding keep roles, ids and order and
  change a content to one mark only (`CleanedShape`, `FoldedShape`); the messages at an interval of positions are
  a stretch of the sequence (`PickedInterval`), so a summary with the last four messages has length six
  (`ArchivedShape`). They look at a fold, the count of tokens, from outside only.
* `EngineInvariant`: neither property is inductive. A cache whose count is the length of the
  conversation was made of it by the pipeline (`CacheGood`), which needs that what a run holds while
  it awaits a summary is the prepared conversation as it still stands, and that a run which has seen to
  its context, and to which nothing was added since, has such a cache or needs none (`RunGood`).
* `SentIsCurrentAlways`, `AsMuchAsNeededAlways` follow from it by the cases of the pipeline.

Only model-checked: all liveness (`BreachStopsRuns`, `Terminates`, `DueServed`, `RunsEnd`,
`CallsEnd`, `TasksSettle`), because fairness is out of the prover's reach;
everything about `BackgroundTasks`; and the types of `ContextEngine`. `Tokens` of `Compaction`
is a fold, and what a fold computes for every sequence needs induction over data, which is out of
reach as well.

## 6. What does not hold

`gate_subagent` shows a disagreement between the code and what is said of it; the
quotation is in `PROJECT.json` under "findings". A write that a subagent asked approval
for is executed at its resumption as a main-session call, which consumes no approval.
The record stays usable, and the subagent's retry executes the write a second time.

The models show more that no run is kept for. Most can be reproduced by
changing the constants named.

*Approvals, budget, tool gate*

* Two instances asked for the same approval both miss the pending record and
  insert one each; approving both authorizes two executions (`WriteApproval`).
* With two processes `WithinLimits` fails: each writes back its own sum and one
  count is lost (`Budget`, `Processes` of two elements). With one, a second run
  of a session resets the counters of the first (`StartRun`).
* With overlapping runs of one session the second identity replaces the first,
  and the first run to end clears it for both; calls are then checked under the
  defaults (`ToolGate`, `overlapping`).
* With `governance.enabled` off the registry has no policy engine (`tools/registry.py:281`,
  `engine/conch_engine.py:222`): memory and skill files are written without an approval unless a tool rule asks for
  one, and neither roles nor the permissions of MCP tools are looked at (`Policy`, `Governed`).
* A decision executes a request only when it has arguments and its tool is registered
  (`api/server.py:282`). A call without arguments is never executed by its approval; the record waits for
  the agent's retry, which a suspended session does not make (see below). An MCP request approved while a refresh
  has its tool out of the registry stays approved and unused; when an older, used-up record of the same
  request is decided a second time, its resumption consumes the newer one and executes again (`ToolGate` with
  the request `tracker` breaks `OneExecutionPerApproval`; `ToolsStay` in the proof).
* An approved request whose session is out of budget uses its approval up and
  is not executed: the approval is consumed before the budget is asked.

*Agent loop, checkpoints, verification*

* With overlapping runs the model is called while tool calls of the other run
  are unanswered, and the quota of the one is reset by the other (`AgentLoop`,
  `overlapping`).
* Resuming restores the conversation of the pause; what was said since is deleted.
  The restoration commits message by message: a crash leaves part of the conversation,
  and the approval is used up (`Restart`).
* An approval decided before its turn has ended resumes the session first and
  lets it be suspended afterwards, with no request left that resumes it; one decided
  during the hooks of a pause resumes a session that is marked as paused again.
* A session that is suspended for a call without arguments, or for one whose tool is not registered when
  it is approved, stays suspended whatever is decided (`AgentLoop`, mishap `unresumable`); so does one whose
  request is rejected.
* After a restart a session that is still marked as paused starts runs: the
  suspension is a set in memory.
* The exits for the time limit, an aborted model error and a pause skip
  `on_graph_end`. `block_progress` sets `should_block`, which nothing reads: a turn blocked
  by a fail-closed hook executes its tools, although `engine/layers/base.py:55` says it keeps
  the run from the next step.
* A run whose model calls all failed is reported as completed, with the error
  text as its answer: the last attempt of `forward_with_handling` falls through
  to an "[Error recovered: ...]" response instead of the `None` that the loop reads
  as "all retries failed" (`GiveUp` and `Recover` of `AgentLoop`).
* The verification of a write that an approval resumes is stored, and what it injects
  goes nowhere (`verification/layer.py:22` says that failures are injected into the next
  turn). A tool phase that raises before its report leaves a write unverified. The self
  review takes the latest report of the session, whichever run it is of. An answer
  given in the last turn ends as "max_turns" and is not reviewed. A disabled regression
  case stays disabled when its failure comes again.

*Calls of the model, tools*

* "400" or "500" in the numbers of a message about a context that is too long makes it a
  bad request, which is sent again as it is, instead of one that has the context
  compacted. Reasons whose entry says `retryable=False` are repeated by the loop all the
  same; `should_retry` and the entry's `max_retries` are not used.
* Any error puts the key to rest, whatever it is about: one bad request rests up to four
  keys. When all rest, the call is made without a key, and litellm takes one from the
  environment. The success of an older call lifts the cooldown that a later failure has
  set; two failures of parallel executions count as two in a row.
* A server whose listing failed at the start stays without tools until someone posts
  `/mcp/refresh`; of two overlapping refreshes the earlier may register a tool that the later did not find.
* A call that leads a connection attempt and is cancelled cancels the shared
  future, so the calls that follow it are cancelled too, although `shield` is
  there to keep cancellations apart. A call that gets its connection just as
  `disconnect` is called waits for ever (`Stranded`). So does one that comes when an attempt has
  succeeded, its leader was cancelled before it was resumed, and the supervisor has ended:
  it follows the future that is still in `_pending` to a queue that nobody reads.
* A `wait` for a background task that times out cancels the coroutine it awaits, and says
  that the task is still running: its status says so for ever and its process goes on
  unobserved. Other calls that await the task get the cancellation, too. `cancel` does not end
  the process and replaces "completed" by "cancelled".

*Context and memory*

* With overlapping runs a message saved while the summary is awaited is counted
  as part of the compacted context and not shown to the model
  (`ContextEngine`, `Racing`: `SentIsCurrent`).
* `MEMORY.md` is read back with the bullet and type of each line as content: a
  new signature, so each restart after a write stores every memory once more; a memory
  of several lines comes back as several. After a crash between the rows and the file,
  the rows reach the file only when something else is added.
* `context/engine.py:201` says that the rules of `_rule_extract` are what is used when the
  model fails; they are used only without a model, which the program always passes.
* A context that the model refuses but the counter finds short enough is sent
  again as it was (`Recover`). After all three steps it may exceed the budget still,
  and a summary keeps the last four messages (`context/compact/pipeline.py:155`), whose cut may part
  a call from its results: `CallsAnswered` is about the table, and not about what is sent.

*Scheduler, coordinator*

* A schedule for the 29th of February, run on that day, has no next time in the 366 days
  that are searched; `run_due` raises between the run and its UPDATE, the schedule stays due
  and those after it are not run (`MCScheduler`: `WithLeapDay`, `LeapWeek` break `RunAdvances`).
* A run is recorded as ended before its schedule moves on: a crash between the two commits (`cut`) has the
  schedule run again for a time that `schedule_runs` says was run.
* Weekday 0 is Monday in the scheduler, and Sunday in crontab; day of month and
  weekday are both required where crontab takes either. Two overlapping passes of
  `run_due` run the same schedule twice (`Passes` of two elements breaks `SlotOnce`).
* After a crash the subagents of a run stay marked as running. `find_orphans`
  looks for a parent that is missing, failed or completed; that of a crashed
  run is still active. Nothing in the program calls the recovery.

*Sandboxes and skills*

* After a restart, or when `docker rm` is refused (its exit code is not read), a container
  keeps its fixed name and is in no map: each later `docker run` for the session fails.
  A failing restoration has destroyed the container by then. `docker run` prints the id of a container before it
  starts it, and its exit code is not read either: a container that could not be started is put into the map, each command in it
  fails, and a restoration marks its snapshot as restored. `docker exec` that times out
  ends the client only.
* `bash` and the file tools name no session, so they work in a container of their own or
  in the first in the map; without one, a file read says that the file does not exist.
  `edit_file` reads, awaits and writes: two of them lose an edit.
* Two snapshots with one tag: docker gives the tag to the later, and restoring the
  earlier restores it. A restoration that overlaps a deletion marks the row as restored.
* An approved proposal that fails half way has used up its approval. A consolidation
  that was stopped has left its directory, at which each retry fails, and its fingerprint
  keeps it from being proposed again.
* While a consolidation has made its directory and not written yet, a second process may archive that
  empty directory (for a proposal about an earlier combined skill, approved before) and a third may
  make it again: the first then writes over what it finds (`Emptied` in `GuidanceKept` and
  `AppliedInFull`).
* An improvement approved earlier can write its text back between the reading of a skill and its
  archiving by a consolidation: that text is then in the archive only, and not in the combined skill
  (`Later` in `AppliedInFull`).
* An improvement replaces the whole text, without what was noted since the analysis, and
  writes the description unquoted: one with ": " cannot be read any more. A skill that is
  pinned after the analysis is archived all the same, and archiving one lets a skill of
  its name on a lower level come up again.

## 7. What is not modelled

* Pattern matching over paths, contents and hosts: its verdicts are attributes
  in `Policy`. Decisions over strings have no interleavings; tests suit them.
* Observability, audit and reports: append-only, and nothing decides on them.
* The tools themselves, the model, the commands of hooks and of verification, MCP
  servers, Docker and SSH: external; they are choices between the outcomes the code
  distinguishes. `LocalBackend` and `SSHBackend` start one process per command and keep no
  state.
* Command line, configuration, prompts, front ends: wiring, text and interface.
* The regression gate (it runs the enabled cases in turn and compares a rate), the reviewer
  (it picks among the candidates of one request), the marks of prompt caching (they
  change no message; its comment at `context/prompt_caching.py:30` says marks are not taken
  away, while each call moves them to the last three messages).
* `check_tool_available` with its cache: `GET /tools` reaches it through `get_available_schemas`
  (`api/server.py:141`), for tools that are not core and are offered to no model; nothing decides on it.
* A request that is cancelled while a docker command runs.
* `SubagentManager.cancel`, `PolicyEngine.add_rule`, the session and short-term memory, pinning
  of memories, and others that nothing in the program calls. Some operations are modelled although
  the program itself does not use them yet: commands for a named session, `hard_reset` and `cleanup`
  of the Docker backend, and the recovery and adoption of orphans.
* Of the agent loop: a `maintain` that raises is outside of the loop's `try` and ends the run as an interruption
  does (`Interrupt`).

## 8. Plan

Done, in this order: `ApprovalTable` → `WriteApproval` → `OneTimePermits` (refinement) →
`Budget` → `Policy` → `ToolGate` (composition) → `AgentLoop` → `Cron`, `Scheduler` →
`Coordinator` → `MCPClient` → `Compaction`, `ContextEngine`; then `ErrorClasses`, `ModelCalls`;
`Sandboxes`; `Skills`; `SessionTables` and `Verification` inside of `AgentLoop`; `Memory` inside of
`ContextEngine`; `BackgroundTasks`. Proofs of `WriteApproval`, `ToolGate`, `Budget`, `Coordinator`, `ModelCalls`,
`MCPClient`, `Sandboxes`, `AgentLoop`, `Scheduler`, `Skills`, `ContextEngine`.

Next:

* Proofs: `BackgroundTasks` (which status and process belong together); that a call of `MCPClient` is
  stranded only in the ways of section 6.
* Composition: `ToolGate` over `WriteApproval`, so that two instances share the table; the workers
  of `Coordinator` as runs of `AgentLoop`.
* `ContextEngine`: which calls a result answers, so that the cut of a summary becomes a property.
* The regression gate, and the cancellation of its runs.
