-------------------------- MODULE OperationsProofs --------------------------
(***************************************************************************)
(* Theorems about Operations, for any resources, attempts, replicas and    *)
(* cancel requests, on either database.                                    *)
(***************************************************************************)
EXTENDS Operations, TLAPS

\* The steps of a task that leave the table alone.
OnlyTask(o) == RequestStarts(o) \/ InsertRefused(o) \/ TaskCreated(o) \/ StartRead(o)
               \/ StartRaises(o) \/ CompleteRead(o) \/ WorkRaises(o) \/ FailRead(o)

\* A task stays one when cancel() reaches it, or when its process dies.
LEMMA HitTask == ASSUME NEW t \in Task, NEW b \in BOOLEAN PROVE [t EXCEPT !.hit = b] \in Task
BY DEF Task

LEMMA DeadTask ==
  ASSUME NEW t \in Task PROVE [t EXCEPT !.pc = "dead", !.hit = FALSE] \in Task
BY DEF Task, TaskPc

\* The initial state is well-typed.
LEMMA TypeInit == Init => TypeOK
<1> SUFFICES ASSUME Init PROVE TypeOK
  OBVIOUS
<1>1. task \in [Op -> Task]
  <2>1. \A r \in Replica : [pc |-> "none", home |-> r, why |-> "internal", hit |-> FALSE] \in Task
    BY DEF Task, TaskPc
  <2> QED BY <2>1 DEF Init
<1>2. call \in [Canceller -> Call] /\ sweep \in [Replica -> Sweep]
  BY DEF Init, Call, NoCall, Sweep, NoSweep
<1> QED BY <1>1, <1>2 DEF Init, TypeOK, Status, ErrorCode

LEMMA TypeTask ==
  ASSUME TypeOK, NEW o \in Op, RequestStep(o) \/ TaskStep(o) \/ Progress(o) \/ Ages(o)
  PROVE  TypeOK'
<1> USE DEF TypeOK, Task, TaskPc
<1>1. CASE OnlyTask(o)
  BY <1>1 DEF OnlyTask, RequestStarts, InsertRefused, TaskCreated, StartRead, StartRaises,
              CompleteRead, WorkRaises, FailRead, Step
<1>2. CASE InsertOk(o)
  BY <1>2 DEF InsertOk, Step, Status, ActiveStates
<1>3. CASE StartWrite(o)
  BY <1>3 DEF StartWrite, Step, Touch, Status, ActiveStates
<1>4. CASE CompleteWrite(o)
  BY <1>4 DEF CompleteWrite, Step, Status, TerminalStates
<1>5. CASE FailWrite(o)
  BY <1>5 DEF FailWrite, Step, Status, TerminalStates, ErrorCode
<1>6. CASE Interrupted(o)
  <2>1. task' \in [Op -> Task]
    BY <1>6 DEF Interrupted, Ends, Caught
  <2>2. status' \in [Op -> Status] /\ error' \in [Op -> ErrorCode]
    BY <1>6 DEF Interrupted, Status, ActiveStates, TerminalStates, ErrorCode
  <2>3. age' \in [Op -> {"new", "kept", "silent"}]
    BY <1>6 DEF Interrupted, Touch
  <2> QED BY <1>6, <2>1, <2>2, <2>3 DEF Interrupted
<1>7. CASE Progress(o)
  BY <1>7 DEF Progress, Touch
<1>8. CASE Ages(o)
  BY <1>8 DEF Ages
<1> QED BY <1>1, <1>2, <1>3, <1>4, <1>5, <1>6, <1>7, <1>8 DEF RequestStep, TaskStep, OnlyTask

LEMMA TypeCancel ==
  ASSUME TypeOK, NEW c \in Canceller,
         CancelStep(c) \/ \E o \in Op, r \in Replica : CancelRead(c, o, r)
  PROVE  TypeOK'
<1> USE DEF TypeOK, Call, NoCall
<1>1. CASE \E o \in Op, r \in Replica : CancelRead(c, o, r)
  BY <1>1 DEF CancelRead
<1>2. CASE CancelWrite(c)
  BY <1>2 DEF CancelWrite, Touch, Status, ActiveStates
<1>3. CASE CancelKick(c)
  <2>1. call[c].op \in Op
    BY <1>3 DEF CancelKick
  <2>2. task' \in [Op -> Task]
    <3>1. CASE task' = [task EXCEPT ![call[c].op].hit = TRUE]
      <4>1. [task[call[c].op] EXCEPT !.hit = TRUE] \in Task
        BY <2>1, HitTask
      <4> QED BY <3>1, <4>1, <2>1
    <3>2. CASE task' = task
      BY <3>2
    <3> QED BY <1>3, <3>1, <3>2 DEF CancelKick
  <2>3. call' \in [Canceller -> Call]
    BY <1>3 DEF CancelKick
  <2> QED BY <1>3, <2>2, <2>3 DEF CancelKick
<1>4. CASE CancelFailRead(c)
  BY <1>4 DEF CancelFailRead
<1>5. CASE CancelFailWrite(c)
  BY <1>5 DEF CancelFailWrite, Status, TerminalStates, ErrorCode
<1> QED BY <1>1, <1>2, <1>3, <1>4, <1>5 DEF CancelStep

LEMMA TypeReplica ==
  ASSUME TypeOK, NEW r \in Replica,
         ReplicaStep(r) \/ Stop(r) \/ Crash(r) \/ \E o \in Op : Remove(r, o)
  PROVE  TypeOK'
<1> USE DEF TypeOK, Sweep, NoSweep
<1>1. CASE SweepRead(r)
  BY <1>1 DEF SweepRead, Stuck
<1>2. CASE SweepWrite(r)
  BY <1>2 DEF SweepWrite, Fail, Status, TerminalStates, ErrorCode
<1>3. CASE BootRead(r)
  BY <1>3 DEF BootRead
<1>4. CASE BootWrite(r)
  BY <1>4 DEF BootWrite, Fail, Status, TerminalStates, ErrorCode
<1>5. CASE Gone(r) /\ restarts' \in Nat
  <2>1. task' \in [Op -> Task]
    <3>1. \A o \in Op : [task[o] EXCEPT !.pc = "dead", !.hit = FALSE] \in Task
      BY DeadTask
    <3> QED BY <1>5, <3>1 DEF Gone
  <2>2. call' \in [Canceller -> Call]
    BY <1>5 DEF Gone, Call, NoCall
  <2> QED BY <1>5, <2>1, <2>2 DEF Gone
<1>6. CASE Stop(r)
  <2>1. task' \in [Op -> Task]
    <3> DEFINE t(o) == [task[o] EXCEPT !.hit = @ \/ (Live(o) /\ task[o].home = r)]
    <3>1. ASSUME NEW o \in Op PROVE t(o) \in Task
      <4> DEFINE b == task[o].hit \/ (Live(o) /\ task[o].home = r)
      <4>1. task[o] \in Task /\ b \in BOOLEAN
        OBVIOUS
      <4> HIDE DEF b
      <4>2. [task[o] EXCEPT !.hit = b] \in Task
        BY <4>1, HitTask
      <4> QED BY <4>2 DEF b
    <3> QED BY <1>6, <3>1 DEF Stop
  <2>2. /\ UNCHANGED <<status, error, age, call, sweep, cancels>>
        /\ up' = [up EXCEPT ![r] = "stopping"]
        /\ restarts' = restarts + 1
    BY <1>6 DEF Stop
  <2> QED BY <2>1, <2>2
<1>7. CASE \E o \in Op : Remove(r, o)
  BY <1>7 DEF Remove, Status
<1>8. CASE Exit(r) \/ Crash(r)
  BY <1>5, <1>8 DEF Exit, Crash
<1> QED BY <1>1, <1>2, <1>3, <1>4, <1>6, <1>7, <1>8 DEF ReplicaStep

\* Every row, task, cancel and sweep keeps its type.
THEOREM TypeCorrect == Spec => []TypeOK
<1>1. TypeOK /\ [Next]_vars => TypeOK'
  <2> SUFFICES ASSUME TypeOK, [Next]_vars PROVE TypeOK'
    OBVIOUS
  <2>1. CASE UNCHANGED vars
    BY <2>1 DEF vars, TypeOK
  <2>2. CASE Next
    BY <2>2, TypeTask, TypeCancel, TypeReplica DEF Next
  <2> QED BY <2>1, <2>2
<1> QED BY TypeInit, <1>1, PTL DEF Spec

-----------------------------------------------------------------------------
\* At most one operation of a resource is active.
Unique == \A o, x \in Op : o # x /\ Key(o) = Key(x) => ~(Active(o) /\ Active(x))

\* The row of an operation that has not finished its work, unless it was closed.
Holding(o)   == task[o].pc \in {"refresh", "new", "start", "work"}
HoldingRows  == \A o \in Op : Holding(o) => Active(o) \/ Closed(o)

IInv == TypeOK /\ Unique /\ HoldingRows

\* One row becomes active, none other of its resource being so.
Activates(o) == /\ CanBeActive(o)
                /\ Active(o)'
                /\ \A x \in Op \ {o} : status'[x] = status[x]

\* No row becomes active.
Deactivates == \A o \in Op : Active(o)' => Active(o)

(***************************************************************************)
(* What a step can do to the active rows.                                  *)
(***************************************************************************)
LEMMA ActiveRows ==
  ASSUME TypeOK, [Next]_vars
  PROVE  Deactivates \/ \E o \in Op : Activates(o)
<1> USE DEF TypeOK, Active, ActiveStates, Deactivates
<1>1. CASE UNCHANGED vars
  BY <1>1 DEF vars
<1>2. ASSUME NEW o \in Op, RequestStep(o) \/ TaskStep(o) \/ Progress(o) \/ Ages(o)
      PROVE  Deactivates \/ Activates(o)
  <2>1. CASE OnlyTask(o)
    BY <2>1 DEF OnlyTask, RequestStarts, InsertRefused, TaskCreated, StartRead, StartRaises,
                CompleteRead, WorkRaises, FailRead
  <2>2. CASE InsertOk(o)
    <3>1. CanBeActive(o)
      BY <2>2 DEF InsertOk, CanInsert, CanBeActive, Exists
    <3> QED BY <2>2, <3>1 DEF InsertOk, Activates
  <2>3. CASE StartWrite(o)
    BY <2>3 DEF StartWrite, Activates
  <2>4. CASE CompleteWrite(o) \/ FailWrite(o)
    BY <2>4 DEF CompleteWrite, FailWrite
  <2>5. CASE Interrupted(o)
    BY <2>5 DEF Interrupted, Activates
  <2>6. CASE Progress(o) \/ Ages(o)
    BY <2>6 DEF Progress, Ages
  <2> QED BY <1>2, <2>1, <2>2, <2>3, <2>4, <2>5, <2>6 DEF RequestStep, TaskStep, OnlyTask
<1>3. ASSUME NEW c \in Canceller,
             CancelStep(c) \/ \E o \in Op, r \in Replica : CancelRead(c, o, r)
      PROVE  Deactivates \/ \E o \in Op : Activates(o)
  <2>1. CASE CancelWrite(c)
    <3>1. call[c].op \in Op
      BY <2>1 DEF CancelWrite, Call, NoCall
    <3> QED BY <2>1, <3>1 DEF CancelWrite, Activates
  <2>2. CASE CancelFailWrite(c)
    BY <2>2 DEF CancelFailWrite
  <2>3. CASE CancelKick(c) \/ CancelFailRead(c) \/ \E o \in Op, r \in Replica : CancelRead(c, o, r)
    BY <2>3 DEF CancelKick, CancelFailRead, CancelRead
  <2> QED BY <1>3, <2>1, <2>2, <2>3 DEF CancelStep
<1>4. ASSUME NEW r \in Replica,
             ReplicaStep(r) \/ Stop(r) \/ Crash(r) \/ \E o \in Op : Remove(r, o)
      PROVE  Deactivates
  <2>1. CASE SweepWrite(r) \/ BootWrite(r)
    BY <2>1 DEF SweepWrite, BootWrite, Fail
  <2>2. CASE SweepRead(r) \/ BootRead(r) \/ Exit(r) \/ Crash(r) \/ Stop(r)
    BY <2>2 DEF SweepRead, BootRead, Exit, Crash, Gone, Stop
  <2>3. CASE \E o \in Op : Remove(r, o)
    BY <2>3 DEF Remove
  <2> QED BY <1>4, <2>1, <2>2, <2>3 DEF ReplicaStep
<1> QED BY <1>1, <1>2, <1>3, <1>4 DEF Next

LEMMA UniqueStep ==
  ASSUME TypeOK, Unique, [Next]_vars
  PROVE  Unique'
<1>1. CASE Deactivates
  BY <1>1 DEF Deactivates, Unique
<1>2. CASE \E o \in Op : Activates(o)
  BY <1>2 DEF Activates, CanBeActive, Unique, Active
<1> QED BY <1>1, <1>2, ActiveRows

LEMMA HoldingStep ==
  ASSUME TypeOK, HoldingRows, [Next]_vars
  PROVE  HoldingRows'
<1> USE DEF TypeOK, Task, HoldingRows, Holding, Active, ActiveStates, Closed
<1>1. CASE UNCHANGED vars
  BY <1>1 DEF vars
<1>2. ASSUME NEW o \in Op, RequestStep(o) \/ TaskStep(o) \/ Progress(o) \/ Ages(o)
      PROVE  HoldingRows'
  <2>1. CASE OnlyTask(o)
    BY <2>1 DEF OnlyTask, RequestStarts, InsertRefused, TaskCreated, StartRead, StartRaises,
                CompleteRead, WorkRaises, FailRead, Step, Runs
  <2>2. CASE InsertOk(o) \/ StartWrite(o)
    BY <2>2, SMTT(30) DEF InsertOk, StartWrite, Step, Runs
  <2>3. CASE CompleteWrite(o) \/ FailWrite(o)
    BY <2>3, SMTT(30) DEF CompleteWrite, FailWrite, Step, Runs
  <2>4. CASE Interrupted(o)
    <3>1. \A x \in Op \ {o} : status'[x] = status[x] /\ error'[x] = error[x] /\ task'[x] = task[x]
      BY <2>4 DEF Interrupted, Ends, Caught
    <3>2. task'[o].pc \in {"done", "fail"}
      BY <2>4 DEF Interrupted, Ends, Caught
    <3> QED BY <3>1, <3>2
  <2>5. CASE Progress(o) \/ Ages(o)
    BY <2>5 DEF Progress, Ages
  <2> QED BY <1>2, <2>1, <2>2, <2>3, <2>4, <2>5 DEF RequestStep, TaskStep, OnlyTask
<1>3. ASSUME NEW c \in Canceller,
             CancelStep(c) \/ \E o \in Op, r \in Replica : CancelRead(c, o, r)
      PROVE  HoldingRows'
  <2>1. CASE CancelWrite(c)
    BY <2>1 DEF CancelWrite
  <2>2. CASE CancelFailWrite(c)
    BY <2>2 DEF CancelFailWrite
  <2>3. CASE CancelKick(c)
    <3>1. \A x \in Op : task'[x].pc = task[x].pc
      BY <2>3 DEF CancelKick
    <3> QED BY <2>3, <3>1 DEF CancelKick
  <2>4. CASE CancelFailRead(c) \/ \E o \in Op, r \in Replica : CancelRead(c, o, r)
    BY <2>4 DEF CancelFailRead, CancelRead
  <2> QED BY <1>3, <2>1, <2>2, <2>3, <2>4 DEF CancelStep
<1>4. ASSUME NEW r \in Replica,
             ReplicaStep(r) \/ Stop(r) \/ Crash(r) \/ \E o \in Op : Remove(r, o)
      PROVE  HoldingRows'
  <2>1. CASE SweepWrite(r) \/ BootWrite(r)
    BY <2>1 DEF SweepWrite, BootWrite, Fail
  <2>2. CASE SweepRead(r) \/ BootRead(r)
    BY <2>2 DEF SweepRead, BootRead
  <2>3. CASE Exit(r) \/ Crash(r)
    <3>1. Gone(r)
      BY <2>3 DEF Exit, Crash
    <3>2. ASSUME NEW x \in Op PROVE task'[x].pc \in {task[x].pc, "dead"}
      <4>1. task'[x] \in {task[x], [task[x] EXCEPT !.pc = "dead", !.hit = FALSE]}
        BY <3>1 DEF Gone
      <4>2. task[x] \in Task
        OBVIOUS
      <4> QED BY <4>1, <4>2
    <3>3. UNCHANGED <<status, error>>
      BY <3>1 DEF Gone
    <3> QED BY <3>2, <3>3
  <2>4. CASE Stop(r)
    <3>1. \A x \in Op : task'[x].pc = task[x].pc
      BY <2>4 DEF Stop
    <3>2. UNCHANGED <<status, error>>
      BY <2>4 DEF Stop
    <3> QED BY <3>1, <3>2
  <2>5. CASE \E o \in Op : Remove(r, o)
    BY <2>5 DEF Remove, Over
  <2> QED BY <1>4, <2>1, <2>2, <2>3, <2>4, <2>5 DEF ReplicaStep
<1> QED BY <1>1, <1>2, <1>3, <1>4 DEF Next

\* The invariant that the exclusion of tasks and the lock rest on.
THEOREM Invariance == Spec => []IInv
<1>1. Init => Unique /\ HoldingRows
  BY DEF Init, Unique, HoldingRows, Holding, Active, ActiveStates
<1>2. TypeOK /\ Unique /\ HoldingRows /\ [Next]_vars => (Unique /\ HoldingRows)'
  BY UniqueStep, HoldingStep
<1> QED BY <1>1, <1>2, TypeCorrect, PTL DEF Spec, IInv

(***************************************************************************)
(* Two tasks work on one resource only when the operation of one of them   *)
(* was timed out, taken for an orphan or cancelled over its head.          *)
(***************************************************************************)
THEOREM ExclusiveWork == Spec => []WorkExclusive
<1>1. IInv => WorkExclusive
  BY DEF IInv, WorkExclusive, Unique, HoldingRows, Holding
<1> QED BY <1>1, Invariance, PTL

-----------------------------------------------------------------------------
(***************************************************************************)
(* The operations table implements a lock on its resources.                *)
(***************************************************************************)
THEOREM LockImplemented == Spec => LockSpec
<1>1. Init => Lock!Init
  BY DEF Init, Lock!Init, HeldBy, Active, ActiveStates
<1>2. IInv /\ [Next]_vars => [Lock!Next]_HeldBy
  <2> SUFFICES ASSUME IInv, [Next]_vars PROVE Lock!Next \/ UNCHANGED HeldBy
    OBVIOUS
  <2>1. CASE Deactivates
    <3>1. HeldBy' \in [Resource -> SUBSET Op]
      BY DEF HeldBy
    <3>2. \A k \in Resource : HeldBy'[k] \subseteq HeldBy[k]
      BY <2>1 DEF Deactivates, HeldBy
    <3> QED BY <3>1, <3>2 DEF Lock!Next, Lock!Release
  <2>2. ASSUME NEW o \in Op, Activates(o) PROVE Lock!Next \/ UNCHANGED HeldBy
    <3> DEFINE k == Key(o)
    <3>1. k \in Resource
      BY DEF Op, Key
    <3>2. \A x \in Op \ {o} : Active(x)' = Active(x)
      BY <2>2 DEF Activates, Active
    <3>3. HeldBy' = [HeldBy EXCEPT ![k] = {o}]
      <4>1. {x \in Op : Key(x) = k /\ Active(x)'} = {o}
        BY <2>2, <3>2 DEF Activates, CanBeActive
      <4>2. \A j \in Resource \ {k} : {x \in Op : Key(x) = j /\ Active(x)'}
                                     = {x \in Op : Key(x) = j /\ Active(x)}
        BY <3>2
      <4> QED BY <3>1, <4>1, <4>2 DEF HeldBy
    <3>4. CASE Active(o)
      <4>1. HeldBy[k] = {o}
        BY <2>2, <3>1, <3>4 DEF HeldBy, Activates, CanBeActive
      <4> QED BY <3>1, <3>3, <4>1 DEF HeldBy
    <3>5. CASE ~Active(o)
      <4>1. HeldBy[k] = {}
        BY <2>2, <3>1, <3>5 DEF HeldBy, Activates, CanBeActive
      <4> QED BY <3>1, <3>3, <4>1 DEF Lock!Next, Lock!Take
    <3> QED BY <3>4, <3>5
  <2> QED BY <2>1, <2>2, ActiveRows DEF IInv
<1> QED BY <1>1, <1>2, Invariance, PTL DEF Spec, LockSpec, Lock!Spec

=============================================================================
