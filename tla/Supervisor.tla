----------------------------- MODULE Supervisor -----------------------------
(***************************************************************************)
(* The loop of one periodic task (tasks/supervisor.py): it sleeps, runs,   *)
(* backs off after repeated failures, and dies of a cancellation, its own  *)
(* at shutdown or one that comes out of the task's own work.  Sleeps are   *)
(* counted in time units; a run takes no time, or hangs.                   *)
(***************************************************************************)
EXTENDS Naturals

CONSTANTS
  Interval,    \* of the task
  MaxInterval, \* its effective_max_interval
  Threshold,   \* failures in a row after which the interval doubles
  MaxDeaths    \* 1 if the task may be cancelled, else 0

ASSUME IntervalAssumption == Interval \in Nat \ {0} /\ MaxInterval \in Nat /\ Interval <= MaxInterval
ASSUME ThresholdAssumption == Threshold \in Nat \ {0} /\ MaxDeaths \in 0 .. 1

VARIABLES
  loop,      \* where the runner is, and the time it still sleeps
  interval,  \* the interval it sleeps next
  failures,  \* consecutive_failures, counted up to the threshold
  alive,     \* the snapshot's flag
  since      \* time since last_success, counted up to what stalled tells

supervisorVars == <<loop, interval, failures, alive, since>>

Smaller(a, b) == IF a < b THEN a ELSE b
Ceiling == 2 * MaxInterval + 1

SupervisorInit ==
  /\ \E start \in BOOLEAN :  \* run_at_start
       loop = [pc |-> IF start THEN "run" ELSE "sleep", left |-> Interval]
  /\ interval = Interval
  /\ failures = 0
  /\ alive = TRUE
  /\ since = 0

TimePasses ==
  /\ loop.pc # "sleep" \/ loop.left > 0
  /\ loop.pc = "run" => since < Ceiling
  /\ loop' = IF loop.pc = "sleep" THEN [loop EXCEPT !.left = @ - 1] ELSE loop
  /\ since' = Smaller(since + 1, Ceiling)
  /\ UNCHANGED <<interval, failures, alive>>

\* Mutant of RunStarts: a task that failed too often is given up.
RunsUntilThreshold ==
  /\ loop.pc = "sleep" /\ loop.left = 0 /\ failures < Threshold
  /\ loop' = [loop EXCEPT !.pc = "run"]
  /\ UNCHANGED <<interval, failures, alive, since>>

RunStarts ==
  /\ loop.pc = "sleep" /\ loop.left = 0
  /\ loop' = [loop EXCEPT !.pc = "run"]
  /\ UNCHANGED <<interval, failures, alive, since>>

\* Mutant of Succeeds: the interval of a failing task stays.
SucceedsSlowly ==
  /\ loop.pc = "run"
  /\ failures' = 0
  /\ since' = 0
  /\ loop' = [pc |-> "sleep", left |-> interval]
  /\ UNCHANGED <<interval, alive>>

Succeeds ==
  /\ loop.pc = "run"
  /\ failures' = 0
  /\ since' = 0
  /\ interval' = Interval
  /\ loop' = [pc |-> "sleep", left |-> Interval]
  /\ UNCHANGED alive

BackedOff(i) == Smaller(i * 2, MaxInterval)

Fails ==
  /\ loop.pc = "run"
  /\ failures' = Smaller(failures + 1, Threshold)
  /\ interval' = IF failures' >= Threshold THEN BackedOff(interval) ELSE interval
  /\ loop' = [pc |-> "sleep", left |-> interval']
  /\ UNCHANGED <<alive, since>>

\* CancelledError is no Exception: the loop ends, and nothing restarts it.
Cancelled ==
  /\ MaxDeaths = 1
  /\ loop.pc \in {"sleep", "run"}
  /\ loop' = [loop EXCEPT !.pc = "dead"]
  /\ alive' = FALSE
  /\ UNCHANGED <<interval, failures, since>>

SupervisorNext == TimePasses \/ RunStarts \/ Succeeds \/ Fails \/ Cancelled

SupervisorSpec == SupervisorInit /\ [][SupervisorNext]_supervisorVars

\* Sleeps end, and so do runs: the calls they make have time-outs.
SupervisorFairness ==
  /\ WF_supervisorVars(TimePasses /\ loop.pc = "sleep")
  /\ WF_supervisorVars(RunStarts)
  /\ WF_supervisorVars(Succeeds \/ Fails)

-----------------------------------------------------------------------------
Stalled == since > 2 * MaxInterval

(***************************************************************************)
(* What the readiness probe says is true: a task is reported stalled only  *)
(* while it fails, hangs or is dead, and it is alive while its loop is.    *)
(* The interval is longer than it should be only after enough failures.    *)
(***************************************************************************)
SnapshotTells ==
  /\ Stalled => failures > 0 \/ loop.pc \in {"run", "dead"}
  /\ alive <=> loop.pc # "dead"
  /\ interval > Interval => failures >= Threshold
  /\ interval <= MaxInterval

(***************************************************************************)
(* A task keeps being run, however often it fails, until it is cancelled.  *)
(***************************************************************************)
RunsAgain == []<>(loop.pc \in {"run", "dead"})

=============================================================================
