-------------------------- MODULE CoordinatorProofs --------------------------
(***************************************************************************)
(* Theorems about coordinator runs, for any number of runs, of tasks per   *)
(* run and of workers at a time.                                           *)
(***************************************************************************)
EXTENDS Coordinator, FiniteSetTheorems, TLAPS

(* What a step does: one named case per action, on behalf of one run or    *)
(* worker.                                                                 *)
RunStep(c) ==
  \/ \E p \in Sessions, strategy \in {"parallel", "sequential"} : Execute(c, strategy, p)
  \/ \E p \in Sessions, k \in 0..(Tasks - 1) : SpawnFails(c, p, k)
  \/ Finish(c)

WorkerStep(c, w) ==
  \/ Start(c, w)
  \/ WorkerRaises(c, w)
  \/ \E outcome \in Ended : WorkerEnds(c, w, outcome)

RegistryStep ==
  \/ RecoverOrphans
  \/ \E w \in Workers, p \in Sessions : AdoptOrphan(w, p)
  \/ \E p \in Sessions, status \in {"active", "completed", "error"} : SessionChanges(p, status)

LEMMA StepCases ==
  ASSUME Next
  PROVE  \/ \E c \in Runs : RunStep(c)
         \/ \E c \in Runs, w \in Workers : WorkerStep(c, w)
         \/ Crash
         \/ RegistryStep
BY DEF Next, RunStep, WorkerStep, RegistryStep

-----------------------------------------------------------------------------
(* Type correctness                                                        *)

LEMMA InitTypeOK == Init => TypeOK
  BY CoordinatorAssumption DEF Init, TypeOK, NoRow

LEMMA TypeStep == TypeOK /\ [Next]_vars => TypeOK'
<1> SUFFICES ASSUME TypeOK, [Next]_vars
             PROVE  TypeOK'
  OBVIOUS
<1> USE DEF TypeOK, Ended
<1>1. ASSUME NEW c \in Runs, RunStep(c)
      PROVE  TypeOK'
  <2>1. ASSUME NEW p \in Sessions, NEW strategy \in {"parallel", "sequential"},
               Execute(c, strategy, p)
        PROVE  TypeOK'
    BY <2>1 DEF Execute, Spawned
  <2>2. ASSUME NEW p \in Sessions, NEW k \in 0..(Tasks - 1), SpawnFails(c, p, k)
        PROVE  TypeOK'
    BY <2>2 DEF SpawnFails, Spawned
  <2>3. CASE Finish(c)
    <3>1. PICK outcome \in Ended :
            run' = [run EXCEPT ![c].at = "done", ![c].status = outcome]
      BY <2>3 DEF Finish, Outcome
    <3>2. /\ run'[c] \in [status : Ended, strategy : {"parallel", "sequential"}, at : {"done"}]
          /\ \A d \in Runs : d # c => run'[d] = run[d]
          /\ DOMAIN run' = Runs /\ run' = [d \in Runs |-> run'[d]]
      BY <3>1
    <3>3. UNCHANGED <<row, worker, session>>
      BY <2>3 DEF Finish
    <3> QED
      BY <3>2, <3>3
  <2> QED
    BY <1>1, <2>1, <2>2, <2>3 DEF RunStep
<1>2. ASSUME NEW c \in Runs, NEW w \in Workers, WorkerStep(c, w)
      PROVE  TypeOK'
  <2>1. CASE Start(c, w)
    BY <2>1 DEF Start
  <2>2. CASE WorkerRaises(c, w)
    BY <2>2 DEF WorkerRaises, GivenUp
  <2>3. ASSUME NEW outcome \in Ended, WorkerEnds(c, w, outcome)
        PROVE  TypeOK'
    BY <2>3 DEF WorkerEnds, Closed
  <2> QED
    BY <1>2, <2>1, <2>2, <2>3 DEF WorkerStep
<1>3. CASE Crash
  BY <1>3 DEF Crash
<1>4. CASE RegistryStep
  <2>1. CASE RecoverOrphans
    BY <2>1 DEF RecoverOrphans
  <2>2. ASSUME NEW w \in Workers, NEW p \in Sessions, AdoptOrphan(w, p)
        PROVE  TypeOK'
    BY <2>2 DEF AdoptOrphan, Spawned
  <2>3. ASSUME NEW p \in Sessions, NEW status \in {"active", "completed", "error"},
               SessionChanges(p, status)
        PROVE  TypeOK'
    BY <2>3 DEF SessionChanges
  <2> QED
    BY <1>4, <2>1, <2>2, <2>3 DEF RegistryStep
<1>5. CASE UNCHANGED vars
  BY <1>5 DEF vars
<1> QED
  BY <1>1, <1>2, <1>3, <1>4, <1>5, StepCases

(* Runs, rows and coroutines stay well-formed.                             *)
THEOREM TypeCorrect == Spec => []TypeOK
<1> QED
  BY InitTypeOK, TypeStep, PTL DEF Spec
-----------------------------------------------------------------------------
(* What the rows of the registry say of the coroutines                     *)

(* A run that has not begun has no coroutine.                              *)
IdleQuiet ==
  \A c \in Runs : run[c].at = "idle" => \A w \in WorkersOf(c) : worker[w] = "none"

(* A coroutine and its row end together, and in the same way.              *)
RowsFollow ==
  \A w \in Workers :
    /\ worker[w] \in Ended => row[w].status = worker[w]
    /\ row[w].status \in Ended => worker[w] \in Ended

(* A run that is done has the outcome of its workers, which have ended.    *)
DoneAfterAll ==
  \A c \in Runs : run[c].at = "done" =>
    /\ \A w \in WorkersOf(c) : worker[w] \in Ended
    /\ run[c].status = Outcome(c)

IInv == TypeOK /\ IdleQuiet /\ RowsFollow /\ DoneAfterAll

LEMMA InitIInv == Init => IInv
<1> SUFFICES ASSUME Init
             PROVE  IInv
  OBVIOUS
<1>1. TypeOK
  BY InitTypeOK
<1>2. IdleQuiet /\ DoneAfterAll
  BY DEF Init, IdleQuiet, DoneAfterAll, WorkersOf
<1>3. RowsFollow
  BY DEF Init, RowsFollow, NoRow, Ended
<1> QED
  BY <1>1, <1>2, <1>3 DEF IInv

(* Two runs have no worker in common.                                      *)
LEMMA OwnWorkers ==
  ASSUME NEW c \in Runs, NEW w \in Workers
  PROVE  w \in WorkersOf(c) <=> w[1] = c
BY DEF WorkersOf

(* What ends has ended, and a run that is done keeps what it reports, in   *)
(* a step that leaves the ended coroutines of every run and its done runs  *)
(* alone.                                                                  *)
LEMMA DoneKept ==
  ASSUME DoneAfterAll,
         \A w \in Workers : worker[w] \in Ended => worker'[w] = worker[w],
         \A c \in Runs : run'[c].at = "done" => run'[c] = run[c]
  PROVE  DoneAfterAll'
<1> SUFFICES ASSUME NEW c \in Runs, run'[c].at = "done"
             PROVE  /\ \A w \in WorkersOf(c) : worker'[w] \in Ended
                    /\ run'[c].status = Outcome(c)'
  BY DEF DoneAfterAll, Ended, WorkersOf
<1>1. run'[c] = run[c] /\ run[c].at = "done"
  OBVIOUS
<1>2. \A w \in WorkersOf(c) : worker[w] \in Ended /\ worker'[w] = worker[w]
  BY <1>1 DEF DoneAfterAll, WorkersOf
<1>3. Outcome(c)' = Outcome(c)
  BY <1>2 DEF Outcome, WorkersOf
<1> QED
  BY <1>1, <1>2, <1>3 DEF DoneAfterAll

(* execute: a run that begins has no ended worker, and one that is closed  *)
(* is closed once all have ended.                                          *)
LEMMA RunStepKeeps ==
  ASSUME IInv, NEW c \in Runs, RunStep(c)
  PROVE  IdleQuiet' /\ RowsFollow' /\ DoneAfterAll'
<1> USE DEF IInv
<1>1. ASSUME NEW p \in Sessions, NEW strategy \in {"parallel", "sequential"},
             Execute(c, strategy, p)
      PROVE  IdleQuiet' /\ RowsFollow' /\ DoneAfterAll'
  <2>1. \A w \in WorkersOf(c) : worker[w] = "none"
    BY <1>1 DEF Execute, IdleQuiet
  <2>2. /\ \A d \in Runs : d # c => run'[d] = run[d]
        /\ run'[c].at = "workers"
    BY <1>1 DEF Execute, TypeOK
  <2>3. IdleQuiet'
    BY <1>1, <2>2 DEF Execute, IdleQuiet, WorkersOf
  <2>4. RowsFollow'
    BY <1>1 DEF Execute, RowsFollow, Spawned, Ended
  <2>5. DoneAfterAll'
    <3>1. \A w \in Workers : worker[w] \in Ended => worker'[w] = worker[w]
      BY <1>1, <2>1 DEF Execute, WorkersOf, Ended
    <3> QED
      BY <2>2, <3>1, DoneKept
  <2> QED
    BY <2>3, <2>4, <2>5
<1>2. ASSUME NEW p \in Sessions, NEW k \in 0..(Tasks - 1), SpawnFails(c, p, k)
      PROVE  IdleQuiet' /\ RowsFollow' /\ DoneAfterAll'
  <2>1. \A w \in WorkersOf(c) : worker[w] = "none"
    BY <1>2 DEF SpawnFails, IdleQuiet
  <2>2. /\ \A d \in Runs : d # c => run'[d] = run[d]
        /\ run'[c].at = "gone"
    BY <1>2 DEF SpawnFails, TypeOK
  <2>3. IdleQuiet'
    BY <1>2, <2>2 DEF SpawnFails, IdleQuiet, WorkersOf
  <2>4. RowsFollow'
    BY <1>2, <2>1 DEF SpawnFails, RowsFollow, Spawned, Ended, WorkersOf
  <2>5. DoneAfterAll'
    BY <1>2, <2>2, DoneKept DEF SpawnFails
  <2> QED
    BY <2>3, <2>4, <2>5
<1>3. CASE Finish(c)
  <2>1. /\ \A d \in Runs : d # c => run'[d] = run[d]
        /\ run'[c].at = "done" /\ run'[c].status = Outcome(c)
        /\ UNCHANGED <<row, worker>>
    BY <1>3 DEF Finish, TypeOK
  <2>2. IdleQuiet'
    BY <2>1 DEF IdleQuiet, WorkersOf
  <2>3. RowsFollow'
    BY <2>1 DEF RowsFollow
  <2>4. DoneAfterAll'
    <3>1. Outcome(c)' = Outcome(c) /\ \A d \in Runs : Outcome(d)' = Outcome(d)
      BY <2>1 DEF Outcome, WorkersOf
    <3>2. \A w \in WorkersOf(c) : worker'[w] \in Ended
      BY <1>3, <2>1 DEF Finish, Ended
    <3> QED
      BY <2>1, <3>1, <3>2 DEF DoneAfterAll, WorkersOf
  <2> QED
    BY <2>2, <2>3, <2>4
<1> QED
  BY <1>1, <1>2, <1>3 DEF RunStep

(* A worker: it closes its row when it ends and never before.              *)
LEMMA WorkerStepKeeps ==
  ASSUME IInv, NEW c \in Runs, NEW w \in Workers, WorkerStep(c, w)
  PROVE  IdleQuiet' /\ RowsFollow' /\ DoneAfterAll'
<1> USE DEF IInv
<1>1. CASE Start(c, w)
  <2>1. /\ worker[w] = "queued" /\ worker' = [worker EXCEPT ![w] = "working"]
        /\ UNCHANGED run
    BY <1>1 DEF Start, MayStart
  <2>2. row[w].status \notin Ended
    BY <2>1 DEF RowsFollow, Ended
  <2>3. IdleQuiet'
    BY <2>1 DEF IdleQuiet, TypeOK, WorkersOf
  <2>4. RowsFollow'
    BY <1>1, <2>1, <2>2 DEF Start, RowsFollow, TypeOK, Ended
  <2>5. DoneAfterAll'
    BY <2>1, DoneKept DEF Ended, TypeOK
  <2> QED
    BY <2>3, <2>4, <2>5
<1>2. CASE WorkerRaises(c, w)
  <2>1. /\ w \in WorkersOf(c) /\ worker[w] \in {"queued", "working"}
        /\ GivenUp(c, w) /\ UNCHANGED row
    BY <1>2 DEF WorkerRaises, MayStart, Working, GivenUp
  <2>2. /\ \A d \in Runs : d # c => run'[d] = run[d]
        /\ run'[c].at = "gone"
    BY <2>1 DEF GivenUp, TypeOK
  <2>3. \A v \in Workers :
          \/ worker'[v] = worker[v]
          \/ /\ v \in WorkersOf(c)
             /\ worker[v] \in {"queued", "working"} /\ worker'[v] \in {"raised", "never"}
    BY <2>1 DEF GivenUp
  <2>4. IdleQuiet'
    BY <2>2, <2>3 DEF IdleQuiet, WorkersOf
  <2>5. RowsFollow'
    BY <2>1, <2>3 DEF RowsFollow, Ended
  <2>6. DoneAfterAll'
    BY <2>2, <2>3, DoneKept DEF Ended
  <2> QED
    BY <2>4, <2>5, <2>6
<1>3. ASSUME NEW outcome \in Ended, WorkerEnds(c, w, outcome)
      PROVE  IdleQuiet' /\ RowsFollow' /\ DoneAfterAll'
  <2>1. /\ worker[w] = "working" /\ worker' = [worker EXCEPT ![w] = outcome]
        /\ row' = [row EXCEPT ![w].status = outcome] /\ UNCHANGED run
    BY <1>3 DEF WorkerEnds, Working, Closed
  <2>2. IdleQuiet'
    BY <2>1 DEF IdleQuiet, TypeOK, WorkersOf
  <2>3. RowsFollow'
    BY <2>1 DEF RowsFollow, TypeOK, Ended
  <2>4. DoneAfterAll'
    BY <2>1, DoneKept DEF Ended, TypeOK
  <2> QED
    BY <2>2, <2>3, <2>4
<1> QED
  BY <1>1, <1>2, <1>3 DEF WorkerStep

(* The registry: what is orphaned or adopted has not ended.                *)
LEMMA RegistryStepKeeps ==
  ASSUME IInv, RegistryStep
  PROVE  IdleQuiet' /\ RowsFollow' /\ DoneAfterAll'
<1> USE DEF IInv
<1>1. UNCHANGED <<run, worker>>
  BY DEF RegistryStep, RecoverOrphans, AdoptOrphan, SessionChanges
<1>2. IdleQuiet'
  BY <1>1 DEF IdleQuiet, WorkersOf
<1>3. DoneAfterAll'
  BY <1>1, DoneKept
<1>4. RowsFollow'
  <2>1. CASE RecoverOrphans
    BY <1>1, <2>1 DEF RecoverOrphans, IsOrphan, RowsFollow, TypeOK, Ended
  <2>2. ASSUME NEW w \in Workers, NEW p \in Sessions, AdoptOrphan(w, p)
        PROVE  RowsFollow'
    BY <1>1, <2>2 DEF AdoptOrphan, Spawned, RowsFollow, TypeOK, Ended
  <2>3. ASSUME NEW p \in Sessions, NEW status \in {"active", "completed", "error"},
               SessionChanges(p, status)
        PROVE  RowsFollow'
    BY <2>3 DEF SessionChanges, RowsFollow
  <2> QED
    BY <2>1, <2>2, <2>3 DEF RegistryStep
<1> QED
  BY <1>2, <1>3, <1>4

LEMMA CrashKeeps ==
  ASSUME IInv, Crash
  PROVE  IdleQuiet' /\ RowsFollow' /\ DoneAfterAll'
<1> USE DEF IInv
<1>1. \A c \in Runs : run'[c] = run[c] \/ run'[c].at = "gone"
  BY DEF Crash, TypeOK
<1>2. \A w \in Workers :
        \/ worker'[w] = worker[w]
        \/ worker[w] \in {"queued", "working"} /\ worker'[w] = "lost"
  BY DEF Crash
<1>3. IdleQuiet'
  BY <1>1, <1>2 DEF IdleQuiet, WorkersOf
<1>4. RowsFollow'
  BY <1>2 DEF Crash, RowsFollow, Ended
<1>5. DoneAfterAll'
  BY <1>1, <1>2, DoneKept DEF Ended
<1> QED
  BY <1>3, <1>4, <1>5

LEMMA IInvStep == IInv /\ [Next]_vars => IInv'
<1> SUFFICES ASSUME IInv, [Next]_vars
             PROVE  IInv'
  OBVIOUS
<1>1. TypeOK'
  BY TypeStep DEF IInv
<1>2. IdleQuiet' /\ RowsFollow' /\ DoneAfterAll'
  <2>1. CASE Next
    BY <2>1, StepCases, RunStepKeeps, WorkerStepKeeps, CrashKeeps, RegistryStepKeeps
  <2>2. CASE UNCHANGED vars
    BY <2>2, DoneKept DEF vars, IInv, IdleQuiet, RowsFollow, WorkersOf
  <2> QED
    BY <2>1, <2>2
<1> QED
  BY <1>1, <1>2 DEF IInv

(* A finished run reports completed if and only if the registry has all    *)
(* its subagents as completed, and none of them is open or orphaned.       *)
THEOREM ReportsAlwaysAgree == Spec => []ReportsAgree
<1>1. IInv => ReportsAgree
  <2> SUFFICES ASSUME IInv, NEW c \in Runs, run[c].at = "done"
               PROVE  /\ run[c].status = "completed" <=>
                           \A w \in WorkersOf(c) : row[w].status = "completed"
                      /\ \A w \in WorkersOf(c) : row[w].status \in Ended
    BY DEF ReportsAgree
  <2>1. \A w \in WorkersOf(c) : worker[w] \in Ended /\ row[w].status = worker[w]
    BY DEF IInv, DoneAfterAll, RowsFollow, WorkersOf
  <2>2. run[c].status = Outcome(c)
    BY DEF IInv, DoneAfterAll
  <2> QED
    BY <2>1, <2>2 DEF Outcome
<1> QED
  BY <1>1, InitIInv, IInvStep, PTL DEF Spec

(* No step orphans, reopens or hands out a subagent that has ended.        *)
THEOREM EndedAlwaysStays == Spec => EndedStays
<1> DEFINE Stays == \A w \in Workers : row[w].status \in Ended => row'[w] = row[w]
<1>1. ASSUME IInv, Next
      PROVE  Stays
  <2> USE DEF IInv
  <2>1. ASSUME NEW c \in Runs, RunStep(c)
        PROVE  Stays
    <3>1. ASSUME run[c].at = "idle", NEW w \in WorkersOf(c)
          PROVE  row[w].status \notin Ended
      BY <1>1, <3>1 DEF IdleQuiet, RowsFollow, WorkersOf, Ended
    <3>2. ASSUME NEW p \in Sessions, NEW strategy \in {"parallel", "sequential"},
                 Execute(c, strategy, p)
          PROVE  Stays
      BY <3>1, <3>2 DEF Execute, WorkersOf
    <3>3. ASSUME NEW p \in Sessions, NEW k \in 0..(Tasks - 1), SpawnFails(c, p, k)
          PROVE  Stays
      BY <3>1, <3>3 DEF SpawnFails, WorkersOf
    <3>4. CASE Finish(c)
      BY <3>4 DEF Finish
    <3> QED
      BY <2>1, <3>2, <3>3, <3>4 DEF RunStep
  <2>2. ASSUME NEW c \in Runs, NEW w \in Workers, WorkerStep(c, w)
        PROVE  Stays
    <3>1. ASSUME worker[w] \in {"queued", "working"}
          PROVE  row[w].status \notin Ended
      BY <1>1, <3>1 DEF RowsFollow, Ended
    <3>2. CASE Start(c, w)
      BY <1>1, <3>1, <3>2 DEF Start, MayStart, TypeOK
    <3>3. CASE WorkerRaises(c, w)
      BY <3>3 DEF WorkerRaises, GivenUp
    <3>4. ASSUME NEW outcome \in Ended, WorkerEnds(c, w, outcome)
          PROVE  Stays
      BY <1>1, <3>1, <3>4 DEF WorkerEnds, Working, Closed, TypeOK
    <3> QED
      BY <2>2, <3>2, <3>3, <3>4 DEF WorkerStep
  <2>3. CASE Crash
    BY <2>3 DEF Crash
  <2>4. CASE RegistryStep
    <3>1. CASE RecoverOrphans
      BY <1>1, <3>1 DEF RecoverOrphans, IsOrphan, Ended, TypeOK
    <3>2. ASSUME NEW w \in Workers, NEW p \in Sessions, AdoptOrphan(w, p)
          PROVE  Stays
      BY <1>1, <3>2 DEF AdoptOrphan, Ended, TypeOK
    <3>3. ASSUME NEW p \in Sessions, NEW status \in {"active", "completed", "error"},
                 SessionChanges(p, status)
          PROVE  Stays
      BY <3>3 DEF SessionChanges
    <3> QED
      BY <2>4, <3>1, <3>2, <3>3 DEF RegistryStep
  <2> QED
    BY <1>1, <2>1, <2>2, <2>3, <2>4, StepCases
<1>2. IInv /\ [Next]_vars => [Stays]_vars
  BY <1>1
<1> QED
  BY <1>2, InitIInv, IInvStep, PTL DEF Spec, EndedStays

-----------------------------------------------------------------------------
(* The slots                                                               *)

LEMMA FiniteWorkers ==
  ASSUME NEW c \in Runs, NEW S \in SUBSET WorkersOf(c)
  PROVE  IsFiniteSet(S) /\ Cardinality(S) \in Nat
<1>1. IsFiniteSet({c} \X (1..Tasks))
  <2>1. IsFiniteSet(1..Tasks)
    BY CoordinatorAssumption, FS_Interval
  <2>2. IsFiniteSet({c})
    BY FS_Singleton
  <2> QED
    BY <2>1, <2>2, FS_Product
<1>2. WorkersOf(c) \subseteq {c} \X (1..Tasks)
  BY DEF WorkersOf, Workers
<1> QED
  BY <1>1, <1>2, FS_Subset, FS_CardinalityType

(* Fewer workers at work, no more slots taken.                             *)
LEMMA FewerWorking ==
  ASSUME WithinSlots, NEW c \in Runs,
         Working(c)' \subseteq Working(c), Slots(c)' = Slots(c)
  PROVE  Cardinality(Working(c)') <= Slots(c)'
<1>1. Working(c) \subseteq WorkersOf(c)
  BY DEF Working
<1>2. /\ IsFiniteSet(Working(c)) /\ Cardinality(Working(c)) \in Nat
      /\ Cardinality(Working(c)') \in Nat
      /\ Cardinality(Working(c)') <= Cardinality(Working(c))
  BY <1>1, FiniteWorkers, FS_Subset
<1>3. Slots(c) \in Nat
  BY CoordinatorAssumption DEF Slots
<1> QED
  BY <1>2, <1>3 DEF WithinSlots

LEMMA WithinSlotsStep == IInv /\ WithinSlots /\ [Next]_vars => WithinSlots'
<1> SUFFICES ASSUME IInv, WithinSlots, [Next]_vars, NEW c \in Runs
             PROVE  Cardinality(Working(c)') <= Slots(c)'
  BY DEF WithinSlots, Working, Slots, WorkersOf
<1> USE DEF IInv
<1>1. ASSUME NEW d \in Runs, RunStep(d)
      PROVE  Cardinality(Working(c)') <= Slots(c)'
  <2>1. CASE \E p \in Sessions, strategy \in {"parallel", "sequential"} : Execute(d, strategy, p)
    <3>1. CASE c = d
      <4>1. Working(c)' = {}
        BY <2>1, <3>1 DEF Execute, Working, WorkersOf
      <4>2. Slots(c)' \in Nat
        BY CoordinatorAssumption DEF Slots
      <4> QED
        BY <4>1, <4>2, FS_EmptySet
    <3>2. CASE c # d
      <4>1. Working(c)' \subseteq Working(c) /\ Slots(c)' = Slots(c)
        BY <2>1, <3>2 DEF Execute, Working, WorkersOf, Slots, TypeOK
      <4> QED
        BY <4>1, FewerWorking
    <3> QED
      BY <3>1, <3>2
  <2>2. CASE Finish(d) \/ \E p \in Sessions, k \in 0..(Tasks - 1) : SpawnFails(d, p, k)
    <3>1. Working(c)' \subseteq Working(c) /\ Slots(c)' = Slots(c)
      BY <2>2 DEF Finish, SpawnFails, Working, WorkersOf, Slots, TypeOK
    <3> QED
      BY <3>1, FewerWorking
  <2> QED
    BY <1>1, <2>1, <2>2 DEF RunStep
<1>2. ASSUME NEW d \in Runs, NEW w \in Workers, WorkerStep(d, w)
      PROVE  Cardinality(Working(c)') <= Slots(c)'
  <2>1. CASE Start(d, w)
    <3>1. Slots(c)' = Slots(c) /\ Slots(c) \in Nat
      BY <2>1, CoordinatorAssumption DEF Start, Slots
    <3>2. CASE c = d
      <4>1. /\ Working(c)' = Working(c) \cup {w}
            /\ Cardinality(Working(c)) < Slots(c)
        BY <2>1, <3>2 DEF Start, MayStart, Working, WorkersOf, TypeOK
      <4>2. IsFiniteSet(Working(c)) /\ Cardinality(Working(c)) \in Nat
        BY FiniteWorkers DEF Working
      <4>3. /\ Cardinality(Working(c) \cup {w}) \in Nat
            /\ Cardinality(Working(c) \cup {w}) <= Cardinality(Working(c)) + 1
        BY <4>2, FS_AddElement
      <4>4. Cardinality(Working(c)') = Cardinality(Working(c) \cup {w})
        BY <4>1
      <4> QED
        BY <3>1, <4>1, <4>2, <4>3, <4>4
    <3>3. CASE c # d
      <4>1. Working(c)' \subseteq Working(c)
        BY <2>1, <3>3 DEF Start, MayStart, Working, WorkersOf, TypeOK
      <4> QED
        BY <3>1, <4>1, FewerWorking
    <3> QED
      BY <3>2, <3>3
  <2>2. CASE WorkerRaises(d, w) \/ \E outcome \in Ended : WorkerEnds(d, w, outcome)
    <3>1. Working(c)' \subseteq Working(c) /\ Slots(c)' = Slots(c)
      BY <2>2 DEF WorkerRaises, GivenUp, WorkerEnds, Working, WorkersOf, Slots, TypeOK, Ended
    <3> QED
      BY <3>1, FewerWorking
  <2> QED
    BY <1>2, <2>1, <2>2 DEF WorkerStep
<1>3. CASE Crash
  <2>1. Working(c)' \subseteq Working(c) /\ Slots(c)' = Slots(c)
    BY <1>3 DEF Crash, Working, WorkersOf, Slots, TypeOK
  <2> QED
    BY <2>1, FewerWorking
<1>4. CASE RegistryStep \/ UNCHANGED vars
  <2>1. UNCHANGED <<run, worker>>
    BY <1>4 DEF RegistryStep, RecoverOrphans, AdoptOrphan, SessionChanges, vars
  <2>2. Working(c)' \subseteq Working(c) /\ Slots(c)' = Slots(c)
    BY <2>1 DEF Working, WorkersOf, Slots
  <2> QED
    BY <2>2, FewerWorking
<1> QED
  BY <1>1, <1>2, <1>3, <1>4, StepCases

(* No run has more workers at work than its strategy and max_workers       *)
(* allow, whatever raises, ends or is adopted meanwhile.                   *)
THEOREM AlwaysWithinSlots == Spec => []WithinSlots
<1>1. Init => WithinSlots
  <2> SUFFICES ASSUME Init, NEW c \in Runs
               PROVE  Cardinality(Working(c)) <= Slots(c)
    BY DEF WithinSlots
  <2>1. Working(c) = {}
    BY DEF Init, Working, WorkersOf
  <2>2. Slots(c) \in Nat
    BY CoordinatorAssumption DEF Slots
  <2> QED
    BY <2>1, <2>2, FS_EmptySet
<1> QED
  BY <1>1, InitIInv, IInvStep, WithinSlotsStep, PTL DEF Spec

-----------------------------------------------------------------------------
(* The order of the tasks                                                  *)

(* While a worker of a run waits for its slot, all its workers have been   *)
(* spawned and none is lost; in a sequential run none has raised either.   *)
QueueIntact ==
  \A c \in Runs : \A v, w \in WorkersOf(c) : worker[w] = "queued" =>
    /\ worker[v] \notin {"none", "lost"}
    /\ run[c].strategy = "sequential" => worker[v] \notin {"raised", "never"}

OInv == IInv /\ QueueIntact /\ TakenInOrder

(* A crash leaves no worker waiting, and neither does an exception in a    *)
(* sequential run.                                                         *)
LEMMA QueueIntactStep == OInv /\ [Next]_vars => QueueIntact'
<1> SUFFICES ASSUME OInv, [Next]_vars, NEW c \in Runs,
                    NEW v \in WorkersOf(c), NEW w \in WorkersOf(c), worker'[w] = "queued"
             PROVE  /\ worker'[v] \notin {"none", "lost"}
                    /\ run'[c].strategy = "sequential" => worker'[v] \notin {"raised", "never"}
  BY DEF QueueIntact, WorkersOf
<1> USE DEF OInv, IInv
<1>0. v \in Workers /\ w \in Workers /\ v[1] = c /\ w[1] = c
  BY DEF WorkersOf
<1>1. ASSUME NEW d \in Runs, RunStep(d)
      PROVE  /\ worker'[v] \notin {"none", "lost"}
             /\ run'[c].strategy = "sequential" => worker'[v] \notin {"raised", "never"}
  <2>1. CASE \E p \in Sessions, strategy \in {"parallel", "sequential"} : Execute(d, strategy, p)
    <3>1. CASE c = d
      BY <1>0, <2>1, <3>1 DEF Execute
    <3>2. CASE c # d
      BY <1>0, <2>1, <3>2 DEF Execute, QueueIntact, TypeOK
    <3> QED
      BY <3>1, <3>2
  <2>2. CASE Finish(d) \/ \E p \in Sessions, k \in 0..(Tasks - 1) : SpawnFails(d, p, k)
    BY <2>2 DEF Finish, SpawnFails, QueueIntact, TypeOK
  <2> QED
    BY <1>1, <2>1, <2>2 DEF RunStep
<1>2. ASSUME NEW d \in Runs, NEW u \in Workers, WorkerStep(d, u)
      PROVE  /\ worker'[v] \notin {"none", "lost"}
             /\ run'[c].strategy = "sequential" => worker'[v] \notin {"raised", "never"}
  <2>1. CASE Start(d, u)
    BY <1>0, <2>1 DEF Start, QueueIntact, TypeOK
  <2>2. CASE WorkerRaises(d, u)
    <3>1. /\ u \in WorkersOf(d) /\ run'[c].strategy = run[c].strategy
          /\ worker[w] = "queued" /\ u # w
      BY <1>0, <2>2 DEF WorkerRaises, MayStart, Working, GivenUp, TypeOK
    <3>2. worker'[v] \in {worker[v], "raised", "never"}
      BY <1>0, <2>2 DEF WorkerRaises, GivenUp
    <3>3. CASE c = d /\ run[c].strategy = "sequential"
      BY <1>0, <2>2, <3>1, <3>3 DEF WorkerRaises, GivenUp
    <3>4. CASE c # d
      BY <1>0, <2>2, <3>1, <3>4 DEF WorkerRaises, GivenUp, QueueIntact, WorkersOf
    <3>5. CASE run[c].strategy # "sequential"
      BY <3>1, <3>2, <3>5 DEF QueueIntact
    <3> QED
      BY <3>3, <3>4, <3>5
  <2>3. CASE \E outcome \in Ended : WorkerEnds(d, u, outcome)
    BY <1>0, <2>3 DEF WorkerEnds, Working, QueueIntact, TypeOK, Ended
  <2> QED
    BY <1>2, <2>1, <2>2, <2>3 DEF WorkerStep
<1>3. CASE Crash
  BY <1>0, <1>3 DEF Crash
<1>4. CASE RegistryStep \/ UNCHANGED vars
  <2>1. UNCHANGED <<run, worker>>
    BY <1>4 DEF RegistryStep, RecoverOrphans, AdoptOrphan, SessionChanges, vars
  <2> QED
    BY <2>1 DEF QueueIntact
<1> QED
  BY <1>1, <1>2, <1>3, <1>4, StepCases

(* What is required of two workers of a run, the first given before the    *)
(* second.                                                                 *)
Before(c, v, w) ==
  worker[w] \in {"working"} \cup Ended =>
    /\ worker[v] # "queued"
    /\ run[c].strategy = "sequential" => worker[v] \in Ended

LEMMA TakenInOrderStep == OInv /\ [Next]_vars => TakenInOrder'
<1> SUFFICES ASSUME OInv, [Next]_vars, NEW c \in Runs,
                    NEW v \in WorkersOf(c), NEW w \in WorkersOf(c), v[2] < w[2]
             PROVE  Before(c, v, w)'
  BY DEF TakenInOrder, Before, WorkersOf, Ended
<1> USE DEF OInv, IInv
<1>0. v \in Workers /\ w \in Workers /\ v[1] = c /\ w[1] = c /\ v # w
  BY DEF WorkersOf, Workers
<1>i. Before(c, v, w)
  BY DEF TakenInOrder, Before
<1>1. ASSUME NEW d \in Runs, RunStep(d)
      PROVE  Before(c, v, w)'
  <2>1. CASE \E p \in Sessions, strategy \in {"parallel", "sequential"} : Execute(d, strategy, p)
    <3>1. CASE c = d
      BY <1>0, <2>1, <3>1 DEF Execute, Before, Ended
    <3>2. CASE c # d
      BY <1>0, <1>i, <2>1, <3>2 DEF Execute, Before, TypeOK, Ended
    <3> QED
      BY <3>1, <3>2
  <2>2. CASE Finish(d) \/ \E p \in Sessions, k \in 0..(Tasks - 1) : SpawnFails(d, p, k)
    BY <1>i, <2>2 DEF Finish, SpawnFails, Before, TypeOK, Ended
  <2> QED
    BY <1>1, <2>1, <2>2 DEF RunStep
<1>2. ASSUME NEW d \in Runs, NEW u \in Workers, WorkerStep(d, u)
      PROVE  Before(c, v, w)'
  <2>1. CASE Start(d, u)
    <3>1. /\ worker[u] = "queued" /\ worker' = [worker EXCEPT ![u] = "working"]
          /\ UNCHANGED run /\ u \in WorkersOf(d)
      BY <2>1 DEF Start, MayStart
    <3>2. CASE u = w
      <4>1. c = d
        BY <1>0, <3>1, <3>2 DEF WorkersOf
      <4>2. worker[v] # "queued"
        BY <1>0, <2>1, <3>2, <4>1 DEF Start, MayStart, Workers
      <4>3. CASE run[c].strategy = "sequential"
        <5>1. Cardinality(Working(c)) < 1
          BY <2>1, <4>1, <4>3 DEF Start, MayStart, Slots
        <5>2. Working(c) = {}
          <6>1. IsFiniteSet(Working(c)) /\ Cardinality(Working(c)) \in Nat
            BY FiniteWorkers DEF Working
          <6> QED
            BY <5>1, <6>1, FS_EmptySet
        <5>3. worker[v] # "working"
          BY <5>2 DEF Working
        <5>4. worker[v] \notin {"none", "lost", "raised", "never"}
          BY <3>1, <3>2, <4>3 DEF QueueIntact
        <5>5. worker[v] \in Ended
          BY <1>0, <4>2, <5>3, <5>4 DEF TypeOK, Ended
        <5> QED
          BY <1>0, <3>1, <3>2, <5>5 DEF Before, TypeOK, Ended
      <4>4. CASE run[c].strategy # "sequential"
        BY <1>0, <3>1, <3>2, <4>2, <4>4 DEF Before, TypeOK, Ended
      <4> QED
        BY <4>3, <4>4
    <3>3. CASE u # w
      BY <1>0, <1>i, <3>1, <3>3 DEF Before, TypeOK, Ended
    <3> QED
      BY <3>2, <3>3
  <2>2. CASE WorkerRaises(d, u)
    <3>1. /\ worker[u] \in {"queued", "working"} /\ run'[c].strategy = run[c].strategy
          /\ worker'[v] \in {worker[v], "raised", "never"}
          /\ worker'[w] \in {worker[w], "raised", "never"}
          /\ worker[v] \in Ended => worker'[v] = worker[v]
      BY <1>0, <2>2 DEF WorkerRaises, MayStart, Working, GivenUp, TypeOK, Ended
    <3> QED
      BY <1>i, <3>1 DEF Before, Ended
  <2>3. ASSUME NEW outcome \in Ended, WorkerEnds(d, u, outcome)
        PROVE  Before(c, v, w)'
    <3>1. /\ worker[u] = "working" /\ worker' = [worker EXCEPT ![u] = outcome]
          /\ UNCHANGED run
      BY <2>3 DEF WorkerEnds, Working
    <3> QED
      BY <1>0, <1>i, <3>1 DEF Before, TypeOK, Ended
  <2> QED
    BY <1>2, <2>1, <2>2, <2>3 DEF WorkerStep
<1>3. CASE Crash
  <2>1. /\ run'[c].strategy = run[c].strategy
        /\ \A u \in Workers :
             \/ worker'[u] = worker[u] /\ worker[u] \notin {"queued", "working"}
             \/ worker[u] \in {"queued", "working"} /\ worker'[u] = "lost"
    BY <1>3 DEF Crash, TypeOK
  <2> QED
    BY <1>0, <1>i, <2>1 DEF Before, Ended
<1>4. CASE RegistryStep \/ UNCHANGED vars
  <2>1. UNCHANGED <<run, worker>>
    BY <1>4 DEF RegistryStep, RecoverOrphans, AdoptOrphan, SessionChanges, vars
  <2> QED
    BY <1>i, <2>1 DEF Before, Ended
<1> QED
  BY <1>1, <1>2, <1>3, <1>4, StepCases

(* Tasks are taken up in the order they were given, and a sequential run   *)
(* takes one up only when all before it have ended.                        *)
THEOREM AlwaysTakenInOrder == Spec => []TakenInOrder
<1>1. Init => OInv
  <2>1. Init => QueueIntact /\ TakenInOrder
    BY DEF Init, QueueIntact, TakenInOrder, WorkersOf, Ended
  <2> QED
    BY <2>1, InitIInv DEF OInv
<1>2. OInv /\ [Next]_vars => OInv'
  BY IInvStep, QueueIntactStep, TakenInOrderStep DEF OInv
<1>3. OInv => TakenInOrder
  BY DEF OInv
<1> QED
  BY <1>1, <1>2, <1>3, PTL DEF Spec
=============================================================================
