------------------------------ MODULE Metering ------------------------------
(***************************************************************************)
(* Usage metering of one sandbox (services/budgets.py, _poll_sandbox).     *)
(*                                                                         *)
(* A poll reads the cursor, awaits the gateway's log lines after it, and   *)
(* commits the new cursor and the day's count in a second session.         *)
(***************************************************************************)
EXTENDS Integers, FiniteSets

CONSTANTS
  Poller,      \* metering tasks: one per replica
  Batch,       \* log_batch_lines
  MaxTime,     \* bound on the clock
  MaxDay,      \* bound on the days
  MaxLines,    \* bound on the log
  MaxFaults    \* bound on failed polls and restarts

ASSUME MeteringAssumption ==
  Batch \in Nat /\ MaxTime \in Nat /\ MaxDay \in Nat /\ MaxLines \in Nat /\ MaxFaults \in Nat

Day  == 0 .. MaxDay
Line == [at: Nat, n: Nat, inference: BOOLEAN]   \* n tells the lines of a millisecond apart

None == -1

VARIABLES
  now,      \* the clock, in milliseconds, of Shoreguard and the gateway
  day,      \* the UTC day
  log,      \* the sandbox's log lines at the gateway
  cursor,   \* usage_cursors.last_ms, or None
  usage,    \* sandbox_usage.requests of each day; 0: no row
  poll,     \* the local variables of each metering task
  start,    \* history: when metering began
  billed,   \* history: the lines counted on each day
  seen,     \* history: the lines that a stored poll had fetched
  cut,      \* history: the lines that a full batch left out
  faults    \* bound counter

mvars == <<now, day, log, cursor, usage, poll, start, billed, seen, cut, faults>>

Poll == [pc: {"idle", "fetch", "store", "write", "evaluate"},
         since: Nat \union {None}, got: SUBSET Line, day: Day, base: Nat]

\* The sum of the counters of some days.
SumOf(days) == Cardinality(UNION {{d} \X (1 .. usage[d]) : d \in days})

IdlePoll == [pc |-> "idle", since |-> None, got |-> {}, day |-> 0, base |-> 0]

Evaluates(p) == poll' = [poll EXCEPT ![p] = [IdlePoll EXCEPT !.pc = "evaluate"]]

MInit ==
  /\ now = 0 /\ day = 0 /\ faults = 0
  /\ log = {} /\ seen = {} /\ cut = {}
  /\ cursor = None /\ start = None
  /\ usage = [d \in Day |-> 0]
  /\ billed = [d \in Day |-> {}]
  /\ poll = [p \in Poller |-> IdlePoll]

-----------------------------------------------------------------------------
(* The environment: the sandbox logs, and time passes.                     *)

Emit ==
  /\ Cardinality(log) < MaxLines
  /\ \E i \in BOOLEAN :
       log' = log \union {[at |-> now, n |-> Cardinality({l \in log : l.at = now}), inference |-> i]}
  /\ UNCHANGED <<now, day, cursor, usage, poll, start, billed, seen, cut, faults>>

Tick ==
  /\ now < MaxTime
  /\ now' = now + 1
  /\ day' \in {day, day + 1} \intersect Day
  /\ UNCHANGED <<log, cursor, usage, poll, start, billed, seen, cut, faults>>

-----------------------------------------------------------------------------
(* The poll.                                                               *)

\* First sight of the sandbox: metering starts now.
PollFirst(p) ==
  /\ poll[p].pc = "idle"
  /\ cursor = None
  /\ cursor' = now
  /\ start' = now
  /\ Evaluates(p)
  /\ UNCHANGED <<now, day, log, usage, billed, seen, cut, faults>>

PollStart(p) ==
  /\ poll[p].pc = "idle"
  /\ cursor # None
  /\ poll' = [poll EXCEPT ![p].pc = "fetch", ![p].since = cursor]
  /\ UNCHANGED <<now, day, log, cursor, usage, start, billed, seen, cut, faults>>

\* The gateway is unreachable, or one of its calls raises.
PollFails(p) ==
  /\ poll[p].pc \in {"idle", "fetch"}
  /\ faults < MaxFaults
  /\ faults' = faults + 1
  /\ Evaluates(p)
  /\ UNCHANGED <<now, day, log, cursor, usage, start, billed, seen, cut>>

\* get_logs: the lines after a time, or a full batch of them.
After(s)   == {l \in log : l.at > s}
Answers(s) == IF Cardinality(After(s)) <= Batch THEN {After(s)}
              ELSE {g \in SUBSET After(s) : Cardinality(g) = Batch}

PollFetch(p) ==
  /\ poll[p].pc = "fetch"
  /\ \E got \in Answers(poll[p].since) :
       /\ cut' = cut \union (After(poll[p].since) \ got)
       /\ IF got = {} THEN Evaluates(p)
          ELSE poll' = [poll EXCEPT ![p].pc = "store", ![p].got = got]
  /\ UNCHANGED <<now, day, log, cursor, usage, start, billed, seen, faults>>

\* _is_inference_line
Counted(p) == {l \in poll[p].got : l.inference}

\* The second session reads today's row.
PollReads(p) ==
  /\ poll[p].pc = "store"
  /\ poll' = [poll EXCEPT ![p].pc = "write", ![p].day = day, ![p].base = usage[day]]
  /\ UNCHANGED <<now, day, log, cursor, usage, start, billed, seen, cut, faults>>

Stamps(p) == {poll[p].since} \union {l.at : l \in poll[p].got}

\* Mutants of NewCursor: past the oldest line, the present, only if requests were found.
PastOldest(p)  == {t + 1 : t \in {t \in Stamps(p) : \A u \in Stamps(p) : t <= u}}
Present(p)     == {now + 1}
OnlyCounted(p) == IF Counted(p) = {} THEN {poll[p].since} ELSE {t + 1 : t \in {t \in Stamps(p) : \A u \in Stamps(p) : t >= u}}

\* One millisecond after the newest line.
NewCursor(p) == {t + 1 : t \in {t \in Stamps(p) : \A u \in Stamps(p) : t >= u}}

\* Cursor and count are one commit; the insert of a row that exists fails.
PollWrites(p) ==
  /\ poll[p].pc = "write"
  /\ LET d == poll[p].day
         count == Cardinality(Counted(p))
     IN IF count > 0 /\ poll[p].base = 0 /\ usage[d] > 0
        THEN UNCHANGED <<cursor, usage, billed, seen>>
        ELSE /\ cursor' \in NewCursor(p)
             /\ usage' = IF count > 0 THEN [usage EXCEPT ![d] = poll[p].base + count] ELSE usage
             /\ billed' = [billed EXCEPT ![d] = @ \union Counted(p)]
             /\ seen' = seen \union poll[p].got
  /\ Evaluates(p)
  /\ UNCHANGED <<now, day, log, start, cut, faults>>

PollStep(p) == PollFirst(p) \/ PollStart(p) \/ PollFetch(p) \/ PollReads(p) \/ PollWrites(p)

MNext == Emit \/ Tick \/ \E p \in Poller : PollStep(p) \/ PollFails(p)

=============================================================================
