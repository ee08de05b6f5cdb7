----------------------------- MODULE Coordinator -----------------------------
(***************************************************************************)
(* Coordinator runs and their subagents: multiagent/coordinator.py and     *)
(* multiagent/subagent.py, with what api/server.py and conch_engine.py     *)
(* hand to them.                                                           *)
(*                                                                         *)
(* execute records a run, spawns one subagent per task and has them work,  *)
(* side by side under a semaphore or one after the other.  A worker is one *)
(* run of the engine in a session of its own; a step lies between two      *)
(* awaits of the event loop.                                               *)
(***************************************************************************)
EXTENDS Naturals, FiniteSets

CONSTANTS
  Runs,         \* coordinator ids, and the calls of execute
  Tasks,        \* tasks per run: a worker is a run and the place of its task
  MaxWorkers,   \* coordinator.max_workers
  Sessions      \* parent sessions

ASSUME CoordinatorAssumption ==
  /\ Tasks \in Nat \ {0} /\ MaxWorkers \in Nat /\ Sessions # {}

VARIABLES
  run,      \* run[c]: row c of coordinator_runs, and where its execute is
  row,      \* row[w]: the row of worker w in subagents
  worker,   \* worker[w]: the coroutine that runs it
  session   \* session[p]: the status of parent session p

vars == <<run, row, worker, session>>

Workers == Runs \X (1..Tasks)

WorkersOf(c) == {w \in Workers : w[1] = c}

NoRow == [status |-> "none", parent |-> CHOOSE p \in Sessions : TRUE]

Spawned(p) == [status |-> "pending", parent |-> p]

Init ==
  /\ run = [c \in Runs |-> [status |-> "none", strategy |-> "parallel", at |-> "idle"]]
  /\ row = [w \in Workers |-> NoRow]
  /\ worker = [w \in Workers |-> "none"]
  /\ session \in [Sessions -> {"active", "missing"}]

Working(c) == {w \in WorkersOf(c) : worker[w] = "working"}

\* The semaphore of a parallel run; a sequential one awaits its workers.
Slots(c) == IF run[c].strategy = "sequential" THEN 1
            ELSE IF MaxWorkers = 0 THEN 1 ELSE MaxWorkers

-----------------------------------------------------------------------------
(* execute                                                                 *)

\* The run is inserted and all its subagents are spawned before any of them
\* starts.  The parent session need not exist.
Execute(c, strategy, p) ==
  /\ run[c].at = "idle"
  /\ run' = [run EXCEPT ![c] = [status |-> "running", strategy |-> strategy, at |-> "workers"]]
  /\ row' = [w \in Workers |-> IF w[1] = c THEN Spawned(p) ELSE row[w]]
  /\ worker' = [w \in Workers |-> IF w[1] = c THEN "queued" ELSE worker[w]]
  /\ UNCHANGED session

\* The database fails after k subagents have been spawned.
SpawnFails(c, p, k) ==
  /\ run[c].at = "idle"
  /\ run' = [run EXCEPT ![c].status = "running", ![c].at = "gone"]
  /\ row' = [w \in Workers |-> IF w[1] = c /\ w[2] <= k THEN Spawned(p) ELSE row[w]]
  /\ UNCHANGED <<worker, session>>

\* Mutant: only the end of a completed worker gives its slot back.
MayStart_SlotKept(c, w) ==
  /\ w \in WorkersOf(c) /\ worker[w] = "queued"
  /\ Cardinality({v \in WorkersOf(c) : worker[v] \in {"working", "failed"}}) < Slots(c)

\* Mutant: the semaphore is not asked.
MayStart_Unlimited(c, w) == w \in WorkersOf(c) /\ worker[w] = "queued"

\* The next worker of run c gets a slot: waiters are served in their order.
MayStart(c, w) ==
  /\ w \in WorkersOf(c) /\ worker[w] = "queued"
  /\ \A v \in WorkersOf(c) : worker[v] = "queued" => w[2] <= v[2]
  /\ Cardinality(Working(c)) < Slots(c)

\* SubagentManager.start marks a pending row only, and its answer is ignored.
Start(c, w) ==
  /\ MayStart(c, w)
  /\ worker' = [worker EXCEPT ![w] = "working"]
  /\ row' = [row EXCEPT ![w].status = IF @ = "pending" THEN "running" ELSE @]
  /\ UNCHANGED <<run, session>>

\* Mutant: complete and fail mark a running row only.
Closed_Running(w, outcome) ==
  [row EXCEPT ![w].status = IF @ = "running" THEN outcome ELSE @]

\* SubagentManager.complete and fail mark the row whatever it says.
Closed(w, outcome) == [row EXCEPT ![w].status = outcome]

\* The run of the worker's session ends as completed, or in any other way.
WorkerEnds(c, w, outcome) ==
  /\ w \in Working(c)
  /\ worker' = [worker EXCEPT ![w] = outcome]
  /\ row' = Closed(w, outcome)
  /\ UNCHANGED <<run, session>>

\* What an exception out of a worker leaves: gather hands it to execute at
\* once, and the other workers go on; a sequential run starts no more.
GivenUp(c, w) ==
  /\ run' = [run EXCEPT ![c].at = "gone"]
  /\ worker' = [v \in Workers |->
       CASE v = w -> "raised"
         [] v # w /\ v \in WorkersOf(c) /\ run[c].strategy = "sequential"
                  /\ worker[v] = "queued" -> "never"
         [] OTHER -> worker[v]]
  /\ UNCHANGED <<row, session>>

\* start raises, or the worker is cancelled, or fail raises: the row stays as
\* it is.
WorkerRaises(c, w) ==
  /\ MayStart(c, w) \/ w \in Working(c)
  /\ GivenUp(c, w)

Outcome(c) ==
  IF \A w \in WorkersOf(c) : worker[w] = "completed" THEN "completed" ELSE "failed"

\* All workers have returned.
Finish(c) ==
  /\ run[c].at = "workers"
  /\ \A w \in WorkersOf(c) : worker[w] \in {"completed", "failed"}
  /\ run' = [run EXCEPT ![c].at = "done", ![c].status = Outcome(c)]
  /\ UNCHANGED <<row, worker, session>>

Crash ==
  /\ \E c \in Runs : run[c].at = "workers"
  /\ run' = [c \in Runs |-> IF run[c].at = "workers" THEN [run[c] EXCEPT !.at = "gone"] ELSE run[c]]
  /\ worker' = [w \in Workers |-> IF worker[w] \in {"queued", "working"} THEN "lost" ELSE worker[w]]
  /\ UNCHANGED <<row, session>>

-----------------------------------------------------------------------------
(* SubagentManager's recovery, which the program offers and does not call  *)

IsOrphan(w) ==
  /\ row[w].status \in {"pending", "running"}
  /\ session[row[w].parent] \in {"missing", "error", "completed"}

\* Mutant: every row of a parent that is gone is an orphan.
RecoverOrphans_Any ==
  /\ \E w \in Workers : IsOrphan(w)
  /\ row' = [w \in Workers |->
       IF row[w].status # "none" /\ session[row[w].parent] \in {"missing", "error", "completed"}
       THEN [row[w] EXCEPT !.status = "orphaned"] ELSE row[w]]
  /\ UNCHANGED <<run, worker, session>>

RecoverOrphans ==
  /\ \E w \in Workers : IsOrphan(w)
  /\ row' = [w \in Workers |->
       IF IsOrphan(w) THEN [row[w] EXCEPT !.status = "orphaned"] ELSE row[w]]
  /\ UNCHANGED <<run, worker, session>>

AdoptOrphan(w, p) ==
  /\ row[w].status = "orphaned"
  /\ row' = [row EXCEPT ![w] = Spawned(p)]
  /\ UNCHANGED <<run, worker, session>>

\* The run of a parent session ends, or a new one begins.
SessionChanges(p, status) ==
  /\ session[p] # status
  /\ session' = [session EXCEPT ![p] = status]
  /\ UNCHANGED <<run, row, worker>>

-----------------------------------------------------------------------------
Ended == {"completed", "failed"}

Next ==
  \/ \E c \in Runs, p \in Sessions :
       \/ \E strategy \in {"parallel", "sequential"} : Execute(c, strategy, p)
       \/ \E k \in 0..(Tasks - 1) : SpawnFails(c, p, k)
  \/ \E c \in Runs, w \in Workers :
       \/ Start(c, w)
       \/ WorkerRaises(c, w)
       \/ \E outcome \in Ended : WorkerEnds(c, w, outcome)
  \/ \E c \in Runs : Finish(c)
  \/ Crash
  \/ RecoverOrphans
  \/ \E w \in Workers, p \in Sessions : AdoptOrphan(w, p)
  \/ \E p \in Sessions, status \in {"active", "completed", "error"} : SessionChanges(p, status)

Spec == Init /\ [][Next]_vars

\* The event loop resumes what may go on.
FairSpec ==
  /\ Spec
  /\ \A c \in Runs : WF_vars(Finish(c)) /\ \A w \in Workers : WF_vars(Start(c, w))

\* What the code does not see to: it sets no time limit for the agent loop of a
\* worker, which ends as long as its models and tools answer.
WorkersReturn ==
  \A c \in Runs, w \in Workers : WF_vars(\E outcome \in Ended : WorkerEnds(c, w, outcome))

-----------------------------------------------------------------------------
\* Runs, rows and coroutines are well-formed.
TypeOK ==
  /\ run \in [Runs -> [status : {"none", "running"} \cup Ended,
                       strategy : {"parallel", "sequential"},
                       at : {"idle", "workers", "done", "gone"}]]
  /\ row \in [Workers -> [status : {"none", "pending", "running", "orphaned"} \cup Ended,
                          parent : Sessions]]
  /\ worker \in [Workers -> {"none", "queued", "working", "raised", "never", "lost"} \cup Ended]
  /\ session \in [Sessions -> {"active", "missing", "completed", "error"}]

\* No run has more workers at work than it may, not even after one of them
\* has made execute raise.
WithinSlots == \A c \in Runs : Cardinality(Working(c)) <= Slots(c)

\* Tasks are taken up in the order they were given, and one after the other
\* in a sequential run.
TakenInOrder ==
  \A c \in Runs : \A v, w \in WorkersOf(c) :
    v[2] < w[2] /\ worker[w] \in {"working"} \cup Ended =>
      /\ worker[v] # "queued"
      /\ run[c].strategy = "sequential" => worker[v] \in Ended

\* What a finished run reports is what the registry says of its subagents,
\* whatever the recovery of orphans has made of their rows in between.
ReportsAgree ==
  \A c \in Runs : run[c].at = "done" =>
    /\ run[c].status = "completed" <=> \A w \in WorkersOf(c) : row[w].status = "completed"
    /\ \A w \in WorkersOf(c) : row[w].status \in Ended

\* A subagent that has ended is not orphaned or handed out again.
EndedStays == [][\A w \in Workers : row[w].status \in Ended => row'[w] = row[w]]_vars

\* As long as its workers return, a run ends with all of them, also when it
\* gives up early.
RunsEnd ==
  WorkersReturn => \A c \in Runs : run[c].at = "workers" ~>
    /\ run[c].at \in {"done", "gone"}
    /\ \A w \in WorkersOf(c) : worker[w] \notin {"queued", "working"}
=============================================================================
