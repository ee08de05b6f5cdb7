------------------------------ MODULE Scheduler ------------------------------
(***************************************************************************)
(* Scheduled tasks: governance/scheduler.py, CronScheduler, and the        *)
(* requests of api/server.py that create, enable and run schedules.        *)
(*                                                                         *)
(* Nothing runs the schedules by itself: each POST /schedules/run-due is a *)
(* pass.  A pass reads the due rows once and runs them one after the other;*)
(* a step lies between two awaits, or between two commits, where only the  *)
(* end of the process can intervene.                                       *)
(***************************************************************************)
EXTENDS Cron, Sequences

CONSTANTS
  Schedules,    \* schedule ids, numbers: their order breaks ties
  CronOf,       \* CronOf[s]: the expression of schedule s
  Asked,        \* Asked[s]: the timeout_seconds it is created with
  Configured,   \* scheduler.hard_timeout
  Passes,       \* calls of run_due that may be under way at once
  Instants,     \* times at which anything happens, for model checking
  Switched      \* schedules that requests may enable and disable

ASSUME SchedulerAssumption ==
  /\ Schedules \subseteq Nat /\ IsFiniteSet(Schedules) /\ Switched \subseteq Schedules
  /\ Instants \subseteq Nat /\ Instants # {}
  /\ Asked \in [Schedules -> Int] /\ Configured \in Int

VARIABLES
  rows,   \* the schedules table
  now,    \* time.time()
  pass,   \* pass[p]: the call of run_due
  last,   \* last[s]: the latest row of schedule_runs
  moving, \* the pass that has recorded its run, and not yet its next time
  ran,    \* history: the schedules with the times they were run for, and
          \* those run for the same time once more
  cut     \* history: schedules whose run was recorded when the process
          \* died, and their next time was not

schedulerVars == <<rows, now, pass, last, moving, ran, cut>>

NoRow == [enabled |-> FALSE, next |-> Never]
NoRun == [slot |-> Never, status |-> "none"]
NoPass == [current |-> 0, queue |-> <<>>, started |-> 0]

SchedulerInit ==
  /\ rows = [s \in Schedules |-> NoRow]
  /\ now = Min(Instants)
  /\ pass = [p \in Passes |-> NoPass]
  /\ last = [s \in Schedules |-> NoRun]
  /\ ran = [once |-> {}, again |-> {}]
  /\ moving = {} /\ cut = {}

Clamped(x, limit) == Min({Max({x, 1}), limit})

Timeout(s) == Clamped(Asked[s], Clamped(Configured, 180))

Busy(p) == pass[p].queue # <<>>

Current(p) == Head(pass[p].queue)

Due(s) == rows[s].enabled /\ rows[s].next <= now

\* When schedule s is due next, seen from time t.
NextOf(s, t) == IF ValidCron(CronOf[s]) THEN NextRunAfter(CronOf[s], t) ELSE Never

\* The same as a table, which TLC computes once.
NextRun == [s \in Schedules |-> [t \in Instants |-> NextOf(s, t)]]

-----------------------------------------------------------------------------
\* POST /schedules: refused when the expression is not valid or has no next
\* time.
Create(s, enabled) ==
  /\ rows[s] = NoRow
  /\ moving = {}
  /\ s \in Switched \/ enabled
  /\ NextRun[s][now] # Never
  /\ rows' = [rows EXCEPT ![s] = [enabled |-> enabled, next |-> NextRun[s][now]]]
  /\ UNCHANGED <<now, pass, last, moving, ran, cut>>

SetEnabled(s) ==
  /\ s \in Switched /\ rows[s] # NoRow
  /\ moving = {}
  /\ rows' = [rows EXCEPT ![s].enabled = ~@]
  /\ UNCHANGED <<now, pass, last, moving, ran, cut>>

DueRows == {[id |-> s, slot |-> rows[s].next] : s \in {s \in Schedules : Due(s)}}

\* ORDER BY next_run_at ASC, schedule_id ASC
Earlier(a, b) == a.slot < b.slot \/ (a.slot = b.slot /\ a.id < b.id)

\* What starting the first row of a queue leaves in ran.
Starting(queue) ==
  IF queue = <<>> THEN ran
  ELSE [once |-> ran.once \cup {Head(queue)}, again |-> ran.again \cup (ran.once \cap {Head(queue)})]

\* The rows are read, and the first of them is started.
RunDue(p) ==
  /\ ~Busy(p) /\ moving = {}
  /\ DueRows # {}
  /\ \E queue \in [1..Cardinality(DueRows) -> DueRows] :
       /\ \A i, j \in DOMAIN queue : i < j => Earlier(queue[i], queue[j])
       /\ pass' = [pass EXCEPT ![p] = [current |-> now, queue |-> queue, started |-> now]]
       /\ ran' = Starting(queue)
  /\ UNCHANGED <<rows, now, last, moving, cut>>

\* The current run completes, fails or reaches its timeout: its row is
\* committed to schedule_runs.
RunEnds(p, status) ==
  /\ Busy(p) /\ moving = {}
  /\ status = "timeout" => now - pass[p].started >= Timeout(Current(p).id)
  /\ last' = [last EXCEPT ![Current(p).id] = [slot |-> Current(p).slot, status |-> status]]
  /\ moving' = {p}
  /\ UNCHANGED <<rows, now, pass, ran, cut>>

\* Mutant: only a completed run moves its schedule on.
MovesOn_Completed(p) ==
  LET s == Current(p).id IN
  /\ p \in moving
  /\ moving' = {}
  /\ rows' = [rows EXCEPT ![s].next =
                IF last[s].status = "completed" THEN NextRun[s][pass[p].current] ELSE @]
  /\ pass' = [pass EXCEPT ![p] = NoPass]
  /\ UNCHANGED <<now, last, ran, cut>>

\* Then its schedule gets its next time, counted from the time the pass read,
\* in a commit of its own, and the next row of the pass is started.  When
\* there is no next time, run_due raises: the rest of the pass is not run.
MovesOn(p) ==
  LET s == Current(p).id
      rest == Tail(pass[p].queue)
      next == NextRun[s][pass[p].current] IN
  /\ p \in moving
  /\ moving' = {}
  /\ IF next = Never
     THEN /\ pass' = [pass EXCEPT ![p] = NoPass]
          /\ UNCHANGED <<rows, ran, cut>>
     ELSE /\ rows' = [rows EXCEPT ![s].next = next]
          /\ pass' = [pass EXCEPT ![p] = IF rest = <<>> THEN NoPass
                                         ELSE [current |-> pass[p].current, queue |-> rest,
                                               started |-> now]]
          /\ ran' = Starting(rest)
          /\ cut' = cut \ {s}
  /\ UNCHANGED <<now, last>>

\* wait_for ends a run at its timeout: time does not pass beyond it.
TimePasses ==
  \E t \in Instants :
    /\ now < t
    /\ \A p \in Passes : Busy(p) => t <= pass[p].started + Timeout(Current(p).id)
    /\ now' = t
    /\ UNCHANGED <<rows, pass, last, moving, ran, cut>>

\* The process dies, in a run or between its two commits: either way the
\* schedule has not moved on, and the time will be run again.
Stopped ==
  /\ \E p \in Passes : Busy(p)
  /\ pass' = [p \in Passes |-> NoPass]
  /\ ran' = [ran EXCEPT !.once = @ \ {Current(p) : p \in {q \in Passes : Busy(q)}}]
  /\ cut' = cut \cup {Current(p).id : p \in moving}
  /\ moving' = {}
  /\ UNCHANGED <<rows, now, last>>

Statuses == {"completed", "error", "timeout"}

SchedulerNext ==
  \/ \E s \in Schedules : SetEnabled(s) \/ \E enabled \in BOOLEAN : Create(s, enabled)
  \/ \E p \in Passes : RunDue(p) \/ MovesOn(p) \/ \E status \in Statuses : RunEnds(p, status)
  \/ TimePasses
  \/ Stopped

SchedulerSpec == SchedulerInit /\ [][SchedulerNext]_schedulerVars

\* Someone keeps posting run-due, what is run ends, at its timeout at the
\* latest, and the process does not crash for ever.
SchedulerFairSpec ==
  /\ SchedulerSpec
  /\ \A p \in Passes : /\ WF_schedulerVars(RunDue(p)) /\ WF_schedulerVars(MovesOn(p))
                       /\ WF_schedulerVars(\E status \in Statuses : RunEnds(p, status))
  /\ <>[][~Stopped]_schedulerVars

-----------------------------------------------------------------------------
\* Rows, passes and histories are well-formed.
SchedulerTypeOK ==
  /\ rows \in [Schedules -> [enabled : BOOLEAN, next : Nat \cup {Never}]]
  /\ now \in Instants
  /\ \A p \in Passes :
       /\ pass[p].current <= now /\ pass[p].started <= now
       /\ \A i \in DOMAIN pass[p].queue : pass[p].queue[i].id \in Schedules
  /\ last \in [Schedules -> [slot : Nat \cup {Never}, status : {"none"} \cup Statuses]]
  /\ ran.again \cup ran.once \subseteq [id : Schedules, slot : Nat]
  /\ moving \subseteq {p \in Passes : Busy(p)} /\ cut \subseteq Schedules

\* A schedule is run once for each time it is due, whatever the runs come to.
\* The times run again are those the process died in before the schedule had
\* moved on: during the run, or after the run was recorded as ended.
SlotOnce == ran.again = {}

\* A run that has ended has moved its schedule on to a later time, except
\* between the two commits, and, when the process dies between them, until it
\* has been run again.
RunAdvances ==
  \A s \in Schedules :
    last[s] # NoRun => \/ rows[s].next > last[s].slot
                       \/ \E p \in moving : Current(p).id = s
                       \/ s \in cut

\* A due schedule is run or disabled, however its neighbours fare.
DueServed ==
  \A s \in Schedules : Due(s) ~> (~Due(s) \/ \E p \in Passes : Busy(p) /\ Current(p).id = s)
=============================================================================
