----------------------------- MODULE Operations -----------------------------
(***************************************************************************)
(* Long-running operations (services/operations.py, api/lro.py).           *)
(*                                                                         *)
(* An operation is a row of the operations table and an asyncio task.  All *)
(* who change the row (the task, a cancel request, the periodic clean-up,  *)
(* the recovery at start-up) read it in one await and write it in a later  *)
(* one, without a version check, so a write may overwrite a status its     *)
(* writer never saw.                                                       *)
(***************************************************************************)
EXTENDS Integers

CONSTANTS
  Resource,     \* pairs of resource_type and resource_key
  Plain,        \* resources whose requests use create(), not create_if_not_running()
  Attempt,      \* tells the operations of one resource apart (their UUIDs)
  Replica,      \* server processes on one database
  Canceller,    \* cancel requests being handled
  WholeIndex,   \* the unique index covers all rows (PostgreSQL), or active ones (SQLite)
  MaxCancels,   \* bound on the cancel requests
  MaxRestarts   \* bound on the stops and crashes

ASSUME PlainAssumption == Plain \subseteq Resource
ASSUME IndexAssumption == WholeIndex \in BOOLEAN
ASSUME OpBoundsAssumption == MaxCancels \in Nat /\ MaxRestarts \in Nat

Op     == Resource \X Attempt
Key(o) == o[1]

ActiveStates   == {"pending", "running", "cancelling"}
TerminalStates == {"succeeded", "failed"}
Status         == {"none", "removed"} \union ActiveStates \union TerminalStates
ErrorCode      == {"none", "internal", "timeout", "cancelled", "orphaned"}

TaskPc == {"none", "insert", "refused", "refresh", "new", "start", "work",
           "complete", "fail", "failWrite", "done", "dead"}
Task   == [pc: TaskPc, home: Replica, why: {"internal", "cancelled"}, hit: BOOLEAN]

VARIABLES
  status,   \* status of each operation's row: "none" before, "removed" after it exists
  error,    \* error_code of the row
  age,      \* "new": created within running_ttl; else "kept" or "silent" by updated_at
  task,     \* the request and then the task of each operation; hit: cancel() was called
  call,     \* what each cancel request is doing
  sweep,    \* what each replica's clean-up or recovery has read
  up,       \* state of each replica
  cancels,  \* bound counter
  restarts  \* bound counter

vars == <<status, error, age, task, call, sweep, up, cancels, restarts>>

NoCall  == [pc |-> "idle"]
Call    == {NoCall} \union
           [pc: {"write", "kick", "failRead", "failWrite"}, op: Op, at: Replica]
NoSweep == [pc |-> "idle", ops |-> {}]
Sweep   == [pc: {"idle", "write"}, ops: SUBSET Op]

Active(o)   == status[o] \in ActiveStates
Terminal(o) == status[o] \in TerminalStates
Exists(o)   == Active(o) \/ Terminal(o)
Touch(o)    == [age EXCEPT ![o] = IF @ = "silent" THEN "kept" ELSE @]

\* A task that is registered and not done: cancel() reaches it.
Live(o) == task[o].pc \in {"new", "start", "work", "complete", "fail", "failWrite"}
Over(o) == task[o].pc \in {"done", "dead"}

Init ==
  /\ status = [o \in Op |-> "none"]
  /\ error = [o \in Op |-> "none"]
  /\ age = [o \in Op |-> "new"]
  /\ task \in [Op -> {[pc |-> "none", home |-> r, why |-> "internal", hit |-> FALSE] :
                        r \in Replica}]
  /\ call = [c \in Canceller |-> NoCall]
  /\ sweep = [r \in Replica |-> NoSweep]
  /\ up \in [Replica -> {"up", "down"}]
  /\ cancels = 0
  /\ restarts = 0

-----------------------------------------------------------------------------
(* The request: run_lro.                                                   *)

\* The index ix_operations_active_resource admits a new row.
CanInsert(o) == \A x \in Op \ {o} : Key(x) = Key(o) =>
                  IF WholeIndex THEN ~Exists(x) ELSE ~Active(x)

\* Mutant of CanBeActive: a late write reopens an operation in any case.
ReopensAnyway(o) == TRUE

\* The same index admits the row's change to an active status.
CanBeActive(o) == \A x \in Op \ {o} : Key(x) = Key(o) => ~Active(x)

Step(o, pc) == task' = [task EXCEPT ![o].pc = pc]

\* create_if_not_running() found no active operation; create() does not look.
RequestStarts(o) ==
  /\ task[o].pc = "none"
  /\ up[task[o].home] = "up"
  /\ Key(o) \in Plain \/ \A x \in Op : Key(x) = Key(o) => ~Active(x)
  /\ Step(o, "insert")
  /\ UNCHANGED <<status, error, age, call, sweep, up, cancels, restarts>>

InsertOk(o) ==
  /\ task[o].pc = "insert"
  /\ CanInsert(o)
  /\ status' = [status EXCEPT ![o] = "pending"]
  /\ Step(o, "refresh")
  /\ UNCHANGED <<error, age, call, sweep, up, cancels, restarts>>

\* Mutant of InsertRefused: the failure is ignored.
RefusalIgnored(o) ==
  /\ task[o].pc = "insert"
  /\ ~CanInsert(o)
  /\ Step(o, "refresh")
  /\ UNCHANGED <<status, error, age, call, sweep, up, cancels, restarts>>

\* The insert violates the index: the request fails.
InsertRefused(o) ==
  /\ task[o].pc = "insert"
  /\ ~CanInsert(o)
  /\ Step(o, "refused")
  /\ UNCHANGED <<status, error, age, call, sweep, up, cancels, restarts>>

\* The row is back from the refresh: the task is created and registered.
TaskCreated(o) ==
  /\ task[o].pc = "refresh"
  /\ Step(o, "new")
  /\ UNCHANGED <<status, error, age, call, sweep, up, cancels, restarts>>

-----------------------------------------------------------------------------
(* The task: _run.  Its steps wait while a cancellation is to be delivered. *)

Runs(o, pc) == task[o].pc = pc /\ ~task[o].hit

\* start() reads; the work begins whatever it reads.
StartRead(o) ==
  /\ Runs(o, "new")
  /\ Step(o, IF status[o] = "pending" THEN "start" ELSE "work")
  /\ UNCHANGED <<status, error, age, call, sweep, up, cancels, restarts>>

StartWrite(o) ==
  /\ Runs(o, "start")
  /\ CanBeActive(o)
  /\ status' = [status EXCEPT ![o] = "running"]
  /\ age' = Touch(o)
  /\ Step(o, "work")
  /\ UNCHANGED <<error, call, sweep, up, cancels, restarts>>

\* The update violates the index; start() is outside the try block.
StartRaises(o) ==
  /\ Runs(o, "start")
  /\ ~CanBeActive(o)
  /\ Step(o, "done")
  /\ UNCHANGED <<status, error, age, call, sweep, up, cancels, restarts>>

\* update_progress() on an operation that is active.
Progress(o) ==
  /\ Runs(o, "work")
  /\ Active(o)
  /\ age[o] = "silent"
  /\ age' = Touch(o)
  /\ UNCHANGED <<status, error, task, call, sweep, up, cancels, restarts>>

\* The work returns and complete() reads.
CompleteRead(o) ==
  /\ Runs(o, "work")
  /\ Step(o, IF Active(o) THEN "complete" ELSE "done")
  /\ UNCHANGED <<status, error, age, call, sweep, up, cancels, restarts>>

CompleteWrite(o) ==
  /\ Runs(o, "complete")
  /\ status' = [status EXCEPT ![o] = "succeeded"]
  /\ Step(o, "done")
  /\ UNCHANGED <<error, age, call, sweep, up, cancels, restarts>>

\* The work raises.
WorkRaises(o) ==
  /\ Runs(o, "work")
  /\ task' = [task EXCEPT ![o].pc = "fail", ![o].why = "internal"]
  /\ UNCHANGED <<status, error, age, call, sweep, up, cancels, restarts>>

\* fail() reads: a terminal operation is left alone.
FailRead(o) ==
  /\ Runs(o, "fail")
  /\ Step(o, IF Active(o) THEN "failWrite" ELSE "done")
  /\ UNCHANGED <<status, error, age, call, sweep, up, cancels, restarts>>

FailWrite(o) ==
  /\ Runs(o, "failWrite")
  /\ status' = [status EXCEPT ![o] = "failed"]
  /\ error' = [error EXCEPT ![o] = task[o].why]
  /\ Step(o, "done")
  /\ UNCHANGED <<age, call, sweep, up, cancels, restarts>>

(***************************************************************************)
(* CancelledError is delivered.  In the work and in complete() it is       *)
(* caught and leads to fail(); in start() and in fail() it ends the task.  *)
(* A commit that was under way may or may not have been carried out.       *)
(***************************************************************************)
Ends(o)   == task' = [task EXCEPT ![o].pc = "done", ![o].hit = FALSE]
Caught(o) == task' = [task EXCEPT ![o].pc = "fail", ![o].why = "cancelled", ![o].hit = FALSE]

Interrupted(o) ==
  /\ task[o].hit
  /\ IF task[o].pc \in {"work", "complete"} THEN Caught(o) ELSE Ends(o)
  /\ \/ UNCHANGED <<status, error, age>>
     \/ /\ task[o].pc = "start" /\ CanBeActive(o)
        /\ status' = [status EXCEPT ![o] = "running"]
        /\ age' = Touch(o)
        /\ UNCHANGED error
     \/ /\ task[o].pc = "complete"
        /\ status' = [status EXCEPT ![o] = "succeeded"]
        /\ UNCHANGED <<error, age>>
     \/ /\ task[o].pc = "failWrite"
        /\ status' = [status EXCEPT ![o] = "failed"]
        /\ error' = [error EXCEPT ![o] = task[o].why]
        /\ UNCHANGED age
  /\ UNCHANGED <<call, sweep, up, cancels, restarts>>

-----------------------------------------------------------------------------
(* The cancel request.                                                     *)

CancelRead(c, o, r) ==
  /\ call[c].pc = "idle"
  /\ up[r] = "up"
  /\ status[o] \in {"pending", "running"}
  /\ cancels < MaxCancels
  /\ cancels' = cancels + 1
  /\ call' = [call EXCEPT ![c] = [pc |-> "write", op |-> o, at |-> r]]
  /\ UNCHANGED <<status, error, age, task, sweep, up, restarts>>

CancelWrite(c) ==
  /\ call[c].pc = "write"
  /\ LET o == call[c].op IN
       IF CanBeActive(o)
       THEN /\ status' = [status EXCEPT ![o] = "cancelling"]
            /\ age' = Touch(o)
            /\ call' = [call EXCEPT ![c].pc = "kick"]
       ELSE /\ call' = [call EXCEPT ![c] = NoCall]
            /\ UNCHANGED <<status, age>>
  /\ UNCHANGED <<error, task, sweep, up, cancels, restarts>>

\* The registry of this replica has the task: task.cancel(); else fail().
CancelKick(c) ==
  /\ call[c].pc = "kick"
  /\ LET o == call[c].op IN
       IF Live(o) /\ task[o].home = call[c].at
       THEN /\ task' = [task EXCEPT ![o].hit = TRUE]
            /\ call' = [call EXCEPT ![c] = NoCall]
       ELSE /\ call' = [call EXCEPT ![c].pc = "failRead"]
            /\ UNCHANGED task
  /\ UNCHANGED <<status, error, age, sweep, up, cancels, restarts>>

CancelFailRead(c) ==
  /\ call[c].pc = "failRead"
  /\ call' = IF Active(call[c].op) THEN [call EXCEPT ![c].pc = "failWrite"]
             ELSE [call EXCEPT ![c] = NoCall]
  /\ UNCHANGED <<status, error, age, task, sweep, up, cancels, restarts>>

CancelFailWrite(c) ==
  /\ call[c].pc = "failWrite"
  /\ status' = [status EXCEPT ![call[c].op] = "failed"]
  /\ error' = [error EXCEPT ![call[c].op] = "cancelled"]
  /\ call' = [call EXCEPT ![c] = NoCall]
  /\ UNCHANGED <<age, task, sweep, up, cancels, restarts>>

-----------------------------------------------------------------------------
(* Clean-up and recovery.                                                  *)

Fail(ops, code) ==
  /\ status' = [o \in Op |-> IF o \in ops THEN "failed" ELSE status[o]]
  /\ error' = [o \in Op |-> IF o \in ops THEN code ELSE error[o]]

\* Mutant of Stuck: operations in cancelling are forgotten.
NotCancelling == {o \in Op : status[o] \in {"pending", "running"} /\ age[o] # "new"}

\* Active operations created more than running_ttl ago.
Stuck == {o \in Op : Active(o) /\ age[o] # "new"}

SweepRead(r) ==
  /\ up[r] \in {"up", "stopping"}
  /\ sweep[r].pc = "idle"
  /\ Stuck # {}
  /\ sweep' = [sweep EXCEPT ![r] = [pc |-> "write", ops |-> Stuck]]
  /\ UNCHANGED <<status, error, age, task, call, up, cancels, restarts>>

SweepWrite(r) ==
  /\ up[r] \in {"up", "stopping"}
  /\ sweep[r].pc = "write"
  /\ Fail(sweep[r].ops, "timeout")
  /\ sweep' = [sweep EXCEPT ![r] = NoSweep]
  /\ UNCHANGED <<age, task, call, up, cancels, restarts>>

(***************************************************************************)
(* The rows whose retention has passed are deleted.  It is counted in      *)
(* days: nobody is still in the middle of such an operation.               *)
(***************************************************************************)
Remove(r, o) ==
  /\ up[r] = "up"
  /\ Terminal(o)
  /\ Over(o)
  /\ \A c \in Canceller : call[c].pc # "idle" => call[c].op # o
  /\ \A x \in Replica : o \notin sweep[x].ops
  /\ status' = [status EXCEPT ![o] = "removed"]
  /\ UNCHANGED <<error, age, task, call, sweep, up, cancels, restarts>>

\* recover_orphans(), awaited before the replica serves requests.
BootRead(r) ==
  /\ up[r] = "down"
  /\ up' = [up EXCEPT ![r] = "booting"]
  /\ sweep' = [sweep EXCEPT ![r] = [pc |-> "write", ops |-> {o \in Op : Active(o)}]]
  /\ UNCHANGED <<status, error, age, task, call, cancels, restarts>>

BootWrite(r) ==
  /\ up[r] = "booting"
  /\ Fail(sweep[r].ops, "orphaned")
  /\ up' = [up EXCEPT ![r] = "up"]
  /\ sweep' = [sweep EXCEPT ![r] = NoSweep]
  /\ UNCHANGED <<age, task, call, cancels, restarts>>

-----------------------------------------------------------------------------
(* Stops, crashes and time.                                                *)

Unanswered(r) == \/ \E o \in Op : task[o].home = r /\ task[o].pc \in {"insert", "refresh"}
                 \/ \E c \in Canceller : call[c].pc # "idle" /\ call[c].at = r

\* shutdown_lros(): every task is cancelled, once the requests are answered.
Stop(r) ==
  /\ up[r] = "up"
  /\ ~Unanswered(r)
  /\ restarts < MaxRestarts
  /\ restarts' = restarts + 1
  /\ up' = [up EXCEPT ![r] = "stopping"]
  /\ task' = [o \in Op |-> [task[o] EXCEPT !.hit = @ \/ (Live(o) /\ task[o].home = r)]]
  /\ UNCHANGED <<status, error, age, call, sweep, cancels>>

\* All that replica r was doing is gone.
Gone(r) ==
  /\ up' = [up EXCEPT ![r] = "down"]
  /\ task' = [o \in Op |-> IF task[o].home = r /\ task[o].pc \notin {"none", "refused", "done"}
                           THEN [task[o] EXCEPT !.pc = "dead", !.hit = FALSE] ELSE task[o]]
  /\ call' = [c \in Canceller |-> IF call[c].pc # "idle" /\ call[c].at = r
                                  THEN NoCall ELSE call[c]]
  /\ sweep' = [sweep EXCEPT ![r] = NoSweep]
  /\ UNCHANGED <<status, error, age, cancels>>

\* The wait of shutdown_lros() ends: all tasks ended, or the timeout did.
Exit(r) == up[r] = "stopping" /\ Gone(r) /\ UNCHANGED restarts

Crash(r) ==
  /\ up[r] \in {"up", "booting"}
  /\ restarts < MaxRestarts
  /\ restarts' = restarts + 1
  /\ Gone(r)

\* running_ttl passes since the creation, or since the last update.
Ages(o) ==
  /\ Active(o)
  /\ \/ age[o] = "new" /\ age' \in {[age EXCEPT ![o] = a] : a \in {"kept", "silent"}}
     \/ age[o] = "kept" /\ age' = [age EXCEPT ![o] = "silent"]
  /\ UNCHANGED <<status, error, task, call, sweep, up, cancels, restarts>>

-----------------------------------------------------------------------------
RequestStep(o) == RequestStarts(o) \/ InsertOk(o) \/ InsertRefused(o) \/ TaskCreated(o)

TaskStep(o) ==
  \/ StartRead(o) \/ StartWrite(o) \/ StartRaises(o)
  \/ CompleteRead(o) \/ CompleteWrite(o) \/ WorkRaises(o)
  \/ FailRead(o) \/ FailWrite(o) \/ Interrupted(o)

CancelStep(c) == CancelWrite(c) \/ CancelKick(c) \/ CancelFailRead(c) \/ CancelFailWrite(c)

ReplicaStep(r) == SweepRead(r) \/ SweepWrite(r) \/ BootRead(r) \/ BootWrite(r) \/ Exit(r)

Next ==
  \/ \E o \in Op : RequestStep(o) \/ TaskStep(o) \/ Progress(o) \/ Ages(o)
  \/ \E c \in Canceller : CancelStep(c) \/ \E o \in Op, r \in Replica : CancelRead(c, o, r)
  \/ \E r \in Replica : ReplicaStep(r) \/ Stop(r) \/ Crash(r) \/ \E o \in Op : Remove(r, o)

Spec == Init /\ [][Next]_vars

(***************************************************************************)
(* A started replica recovers and cleans up periodically, a database call  *)
(* returns, and time passes.  Nothing makes the work of a task return.     *)
(***************************************************************************)
Fairness ==
  /\ \A r \in Replica : WF_vars(ReplicaStep(r))
  /\ \A o \in Op : WF_vars(Interrupted(o)) /\ WF_vars(Ages(o))
  /\ \A c \in Canceller : WF_vars(CancelStep(c))

LiveSpec == Spec /\ Fairness

-----------------------------------------------------------------------------
TypeOK ==
  /\ status \in [Op -> Status]
  /\ error \in [Op -> ErrorCode]
  /\ age \in [Op -> {"new", "kept", "silent"}]
  /\ task \in [Op -> Task]
  /\ call \in [Canceller -> Call]
  /\ sweep \in [Replica -> Sweep]
  /\ up \in [Replica -> {"down", "booting", "up", "stopping"}]
  /\ cancels \in Nat
  /\ restarts \in Nat

Closed(o) == error[o] \in {"timeout", "orphaned", "cancelled"}

(***************************************************************************)
(* Two tasks work on one resource at a time only when the operation of one *)
(* was closed over its head: timed out by the clean-up, taken for an       *)
(* orphan, or cancelled where its task was not registered.  All the writes *)
(* that overwrite one another do not add another way.                      *)
(***************************************************************************)
WorkExclusive ==
  \A o, x \in Op :
    o # x /\ Key(o) = Key(x) /\ task[o].pc = "work" /\ task[x].pc = "work"
      => Closed(o) \/ Closed(x)

(***************************************************************************)
(* Every operation stops being active in the end, whatever its task does   *)
(* and however often the servers restart.                                  *)
(***************************************************************************)
OperationsEnd == \A o \in Op : Active(o) ~> ~Active(o)

HeldBy == [k \in Resource |-> {o \in Op : Key(o) = k /\ Active(o)}]

Lock == INSTANCE OperationLock WITH held <- HeldBy

(***************************************************************************)
(* The table is a lock on its resources: although requests check before    *)
(* they insert, and late writes bring closed operations back, a resource   *)
(* is taken only when nobody holds it.                                     *)
(***************************************************************************)
LockSpec == Lock!Spec

-----------------------------------------------------------------------------
(* What comments and documents say and the code does not do.               *)

(***************************************************************************)
(* operations_types.py:26, "Terminal states — no further transitions       *)
(* allowed."  What has succeeded stays so until it is removed.             *)
(***************************************************************************)
SucceededIsFinal ==
  [][\A o \in Op : status[o] = "succeeded" => status'[o] \in {"succeeded", "removed"}]_vars

=============================================================================
