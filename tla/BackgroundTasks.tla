---------------------------- MODULE BackgroundTasks ----------------------------
(***************************************************************************)
(* The background tasks of tools/core/task_manage.py: commands that go on  *)
(* after the call that created them.                                       *)
(*                                                                         *)
(* One table serves all runs of the process.  A task has a row, a          *)
(* coroutine that starts the command and waits for it, and the command's   *)
(* process, which is external: it ends at any time, or never.  wait and    *)
(* cancel await the coroutine itself, not a shield around it.              *)
(***************************************************************************)
EXTENDS Naturals

CONSTANTS
  Tasks,     \* ids of tasks
  Askers     \* calls of wait and cancel, each made once

VARIABLES
  task,      \* task[t]: the status of its row, its coroutine and its process
  asker      \* asker[a]: where the call is, and the task it is about

taskVars == <<task, asker>>

NoTask == "no task"

Unmade == [status |-> "none", runner |-> "none", process |-> "none"]

TaskInit ==
  /\ task = [t \in Tasks |-> Unmade]
  /\ asker = [a \in Askers |-> [at |-> "idle", on |-> NoTask]]

\* The coroutine is neither done nor cancelled.
Live(t) == task[t].runner \in {"starting", "communicating"}

CreateTask(t) ==
  /\ task[t] = Unmade
  /\ task' = [task EXCEPT ![t] = [status |-> "running", runner |-> "starting", process |-> "none"]]
  /\ UNCHANGED asker

-----------------------------------------------------------------------------
(* _run                                                                      *)

\* The process is started, or cannot be.
Launch(t) ==
  /\ task[t].runner = "starting"
  /\ \/ task' = [task EXCEPT ![t].runner = "communicating", ![t].process = "running"]
     \/ task' = [task EXCEPT ![t].runner = "done", ![t].status = "error"]
  /\ UNCHANGED asker

ProcessExits(t) ==
  /\ task[t].process = "running"
  /\ task' = [task EXCEPT ![t].process = "exited"]
  /\ UNCHANGED asker

\* communicate returns; the exit code decides.
Communicated(t) ==
  /\ task[t].runner = "communicating" /\ task[t].process = "exited"
  /\ \E status \in {"completed", "error"} :
       task' = [task EXCEPT ![t].runner = "done", ![t].status = status]
  /\ UNCHANGED asker

\* Mutant: the process is not killed.
TimesOut_NotKilled(t) ==
  /\ task[t].runner = "communicating"
  /\ task' = [task EXCEPT ![t].runner = "done", ![t].status = "timeout"]
  /\ UNCHANGED asker

\* The timeout of the task: kill raises when the process has just ended.
TimesOut(t) ==
  /\ task[t].runner = "communicating"
  /\ task' = [task EXCEPT ![t] =
       [runner |-> "done", process |-> IF @.process = "running" THEN "killed" ELSE "exited",
        status |-> IF @.process = "running" THEN "timeout" ELSE "error"]]
  /\ UNCHANGED asker

\* The coroutine is cancelled: neither handler sees a CancelledError, so the
\* row says what it said and the process goes on.
Abandoned(t) == [task EXCEPT ![t].runner = "cancelled"]

-----------------------------------------------------------------------------
(* _wait_task and _cancel_task                                               *)

AskerIs(a, at) == asker[a].at = at

Moves(a, at) == asker' = [asker EXCEPT ![a].at = at]

\* A task that is over, or that there is not, is answered for at once.
Wait(a, t) ==
  /\ AskerIs(a, "idle")
  /\ asker' = [asker EXCEPT ![a] = [at |-> IF Live(t) THEN "waiting" ELSE "answered", on |-> t]]
  /\ UNCHANGED task

WaitReturns(a) ==
  /\ AskerIs(a, "waiting") /\ task[asker[a].on].runner = "done"
  /\ Moves(a, "answered")
  /\ UNCHANGED task

\* wait_for gives up, or its run is cancelled: either cancels what it awaits.
\* In the first case the call answers that the task is still running.
WaitGivesUp(a, at) ==
  /\ AskerIs(a, "waiting") /\ Live(asker[a].on)
  /\ Moves(a, at)
  /\ task' = Abandoned(asker[a].on)

\* Another call has had the coroutine cancelled: its CancelledError goes
\* through this one, and through the run it belongs to.
WaitBreaks(a) ==
  /\ AskerIs(a, "waiting") /\ task[asker[a].on].runner = "cancelled"
  /\ Moves(a, "broken")
  /\ UNCHANGED task

\* A task that is over is marked as cancelled all the same.
AskCancel(a, t) ==
  /\ AskerIs(a, "idle") /\ task[t].status # "none"
  /\ IF Live(t)
     THEN /\ task' = Abandoned(t)
          /\ asker' = [asker EXCEPT ![a] = [at |-> "cancelling", on |-> t]]
     ELSE /\ task' = [task EXCEPT ![t].status = "cancelled"]
          /\ asker' = [asker EXCEPT ![a] = [at |-> "answered", on |-> t]]

\* The coroutine is over; its CancelledError, or one that is meant for the
\* caller, is suppressed.
CancelReturns(a) ==
  /\ AskerIs(a, "cancelling")
  /\ task' = [task EXCEPT ![asker[a].on].status = "cancelled"]
  /\ Moves(a, "answered")

-----------------------------------------------------------------------------
TaskNext ==
  \/ \E t \in Tasks : CreateTask(t) \/ Launch(t) \/ ProcessExits(t) \/ Communicated(t) \/ TimesOut(t)
  \/ \E a \in Askers :
       \/ WaitReturns(a) \/ WaitBreaks(a) \/ CancelReturns(a)
       \/ \E at \in {"answered", "gone"} : WaitGivesUp(a, at)
       \/ \E t \in Tasks : Wait(a, t) \/ AskCancel(a, t)

TaskSpec == TaskInit /\ [][TaskNext]_taskVars

\* The event loop starts what is scheduled and resumes what may go on, and
\* the timer of wait_for around communicate goes off.
TaskFairness ==
  /\ \A t \in Tasks : WF_taskVars(Launch(t)) /\ WF_taskVars(Communicated(t) \/ TimesOut(t))
  /\ \A a \in Askers : WF_taskVars(CancelReturns(a))

-----------------------------------------------------------------------------
(* Properties.                                                               *)

TaskState ==
  [status : {"none", "running", "completed", "error", "timeout", "cancelled"},
   runner : {"none", "starting", "communicating", "done", "cancelled"},
   process : {"none", "running", "exited", "killed"}]

\* Rows, coroutines and processes are well-formed.
TaskTypeOK ==
  /\ task \in [Tasks -> TaskState]
  /\ asker \in [Askers -> [at : {"idle", "waiting", "cancelling", "answered", "gone", "broken"},
                           on : Tasks \cup {NoTask}]]

\* The row says how the task ended, and no process of it is left.
Settled(t) ==
  task[t].status \in {"completed", "error", "timeout", "cancelled"} /\ task[t].process # "running"

\* Every task settles within its timeout, however its command behaves, unless
\* somebody cancels it or a wait for it gives up, which does the same.
TasksSettle ==
  \A t \in Tasks : task[t].status = "running" ~> Settled(t) \/ task[t].runner = "cancelled"

(* What the answers say, and the code does not do.                           *)

\* A task that is listed as running has a coroutine that follows it: "Task ...
\* still running" is said by the very call that has just taken it away.
RunningIsFollowed == \A t \in Tasks : task[t].status = "running" => Live(t)

=============================================================================
